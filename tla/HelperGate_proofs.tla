--------------------------- MODULE HelperGate_proofs ---------------------------
(***************************************************************************)
(* Proofs about ApprovalStore and HelperGate, for any requests, operators, *)
(* chats, targets, allowlist, helper nodes, clocks and bounds.  Those      *)
(* about the store are theorems of its own specification, AsSpec; every    *)
(* step of HelperGate is one of the store or leaves it alone.  Everything  *)
(* rests on one fact: of the records under an id, lookups find the first,  *)
(* and once that one is decided no operation touches it again.             *)
(***************************************************************************)
EXTENDS HelperGate, Lookup_proofs

-----------------------------------------------------------------------------
(* The approval store.                                                     *)

\* A stored record is a request whose state may have changed.
LEMMA RecordFields ==
  ASSUME NEW r \in Records
  PROVE  \E q \in Requests :
           /\ r.id = q.id /\ r.actionId = q.actionId /\ r.action = q.action
           /\ r.target = q.target /\ r.expires = q.expires
           /\ r.state \in States
           /\ r = [q EXCEPT !.state = r.state]
<1>1. PICK q \in Requests, s \in States : r = [q EXCEPT !.state = s]
  BY DEF Records
<1>2. q = [id |-> q.id, actionId |-> q.actionId, action |-> q.action, target |-> q.target,
           expires |-> q.expires, state |-> "Pending"]
  BY RequestsAssumption
<1>3. r = [id |-> q.id, actionId |-> q.actionId, action |-> q.action, target |-> q.target,
           expires |-> q.expires, state |-> s]
  BY <1>1, <1>2
<1> QED  BY <1>1, <1>3

\* A request is stored as it is made, pending.
LEMMA RequestIsRecord ==
  ASSUME NEW r \in Requests
  PROVE  r \in Records /\ r.state = "Pending"
<1>1. r = [id |-> r.id, actionId |-> r.actionId, action |-> r.action, target |-> r.target,
           expires |-> r.expires, state |-> "Pending"]
  BY RequestsAssumption
<1>2. r = [r EXCEPT !.state = "Pending"]
  BY <1>1
<1> QED  BY <1>1, <1>2 DEF Records, States

\* Setting the state of the record an id leads to changes that state and nothing else; in
\* particular every id leads to the record it led to before.
LEMMA SettingState ==
  ASSUME AsTypeOK, NEW id, NEW s \in States, FirstWith(records, "id", id) # 0,
         SetState(id, s)
  PROVE  LET k == FirstWith(records, "id", id)
         IN  /\ k \in 1..Len(records)
             /\ records[k].id = id
             /\ records' \in Seq(Records)
             /\ Len(records') = Len(records)
             /\ records'[k] = [records[k] EXCEPT !.state = s]
             /\ \A i \in 1..Len(records) : i # k => records'[i] = records[i]
             /\ \A x : FirstWith(records', "id", x) = FirstWith(records, "id", x)
<1> DEFINE k == FirstWith(records, "id", id)
<1>1. records \in Seq(Records)
  BY DEF AsTypeOK
<1>2. k \in 1..Len(records) /\ records[k]["id"] = id
  BY <1>1, FirstWithSpec
<1> HIDE DEF k
<1>3. records[k] \in Records
  BY <1>1, <1>2
<1>4. PICK q \in Requests : records[k] = [q EXCEPT !.state = records[k].state]
  BY <1>3, RecordFields
<1>5. /\ q = [id |-> q.id, actionId |-> q.actionId, action |-> q.action, target |-> q.target,
              expires |-> q.expires, state |-> "Pending"]
  BY RequestsAssumption
<1>6. [records[k] EXCEPT !.state = s] = [q EXCEPT !.state = s]
  BY <1>4, <1>5
<1>7. [records[k] EXCEPT !.state = s] \in Records
  BY <1>6 DEF Records
<1>8. records' = [records EXCEPT ![k] = [records[k] EXCEPT !.state = s]]
  BY DEF SetState, k
<1>9. /\ records' \in Seq(Records)
      /\ Len(records') = Len(records)
      /\ records'[k] = [records[k] EXCEPT !.state = s]
      /\ \A i \in 1..Len(records) : i # k => records'[i] = records[i]
  BY <1>1, <1>2, <1>7, <1>8
<1>10. [records[k] EXCEPT !.state = s]["id"] = records[k]["id"]
  BY <1>4, <1>5
<1>11. \A i \in 1..Len(records) : records'[i]["id"] = records[i]["id"]
  BY <1>9, <1>10
<1>12. \A x : FirstWith(records', "id", x) = FirstWith(records, "id", x)
  BY <1>1, <1>9, <1>11, FirstOfSameKeys
<1> QED  BY <1>2, <1>9, <1>12 DEF k

\* The one way in which an operation that decides changes the store.
Decides(id, s) ==
  LET k == FirstWith(records, "id", id)
  IN  k # 0 /\ records[k].state = "Pending" /\ SetState(id, s)

\* Every step is a new request, a decision about a pending record, or leaves records alone.
LEMMA StepsOfRecords ==
  ASSUME AsNext
  PROVE  \/ \E r \in Requests : Request(r)
         \/ \E id \in ApprovalIds, s \in States \ {"Pending"} : Decides(id, s)
         \/ UNCHANGED records
<1> USE DEF States, Decides, PendingNotStale
<1>1. ASSUME NEW r \in Requests, Request(r) PROVE \E q \in Requests : Request(q)
  BY <1>1
<1>2. ASSUME NEW id \in ApprovalIds, NEW a, NEW actor, NEW now, NEW entry, NEW nonce,
             Approve(id, a, actor, now, entry, nonce)
      PROVE  Decides(id, "Approved")
  BY <1>2 DEF Approve
<1>3. ASSUME NEW id \in ApprovalIds, NEW actor, NEW now, Reject(id, actor, now)
      PROVE  Decides(id, "Rejected")
  BY <1>3 DEF Reject
<1>4. ASSUME NEW id \in ApprovalIds, NEW now, Expire(id, now) PROVE Decides(id, "Expired")
  BY <1>4 DEF Expire
<1>5. ASSUME NEW id \in ApprovalIds, NEW by, Supersede(id, by) PROVE Decides(id, "Superseded")
  BY <1>5 DEF Supersede
<1>6. ASSUME NEW chat, TelegramRefused(chat) PROVE UNCHANGED records
  BY <1>6 DEF TelegramRefused, RecordAdapterRejection
<1>7. ASSUME NEW chat, NEW id \in ApprovalIds, NEW now, NEW entry, NEW nonce,
             TelegramApprove(chat, id, now, entry, nonce)
      PROVE  Decides(id, "Approved")
  BY <1>2, <1>7 DEF TelegramApprove
<1>8. ASSUME NEW chat, NEW id \in ApprovalIds, NEW now, TelegramReject(chat, id, now)
      PROVE  Decides(id, "Rejected")
  BY <1>3, <1>8 DEF TelegramReject
<1> HIDE DEF Decides
<1> QED  BY <1>1, <1>2, <1>3, <1>4, <1>5, <1>6, <1>7, <1>8 DEF AsNext

\* Once the record an id leads to is decided, the id leads to that record for ever, and
\* the record never changes (index_of, ensure_pending_not_stale).
LEMMA DecidedStays ==
  ASSUME AsTypeOK, [AsNext]_asVars, NEW x, FirstWith(records, "id", x) # 0,
         records[FirstWith(records, "id", x)].state # "Pending"
  PROVE  /\ FirstWith(records', "id", x) = FirstWith(records, "id", x)
         /\ records'[FirstWith(records, "id", x)] = records[FirstWith(records, "id", x)]
<1> DEFINE k == FirstWith(records, "id", x)
<1>1. records \in Seq(Records) /\ k \in 1..Len(records)
  BY FirstWithSpec DEF AsTypeOK
<1>2. ASSUME NEW r \in Requests, Request(r)
      PROVE  FirstWith(records', "id", x) = k /\ records'[k] = records[k]
  <2>1. records' = Append(records, r) /\ r \in Records
    BY <1>2, RequestIsRecord DEF Request
  <2> QED  BY <1>1, <2>1, FirstIsStable
<1>3. ASSUME NEW id \in ApprovalIds, NEW s \in States, Decides(id, s)
      PROVE  FirstWith(records', "id", x) = k /\ records'[k] = records[k]
  <2>1. FirstWith(records, "id", id) # 0 /\ SetState(id, s)
        /\ records[FirstWith(records, "id", id)].state = "Pending"
    BY <1>3 DEF Decides
  <2>2. FirstWith(records', "id", x) = k
    BY <2>1, SettingState
  <2>3. k # FirstWith(records, "id", id)
    BY <2>1
  <2>4. records'[k] = records[k]
    BY <1>1, <2>1, <2>3, SettingState
  <2> QED  BY <2>2, <2>4
<1>4. CASE UNCHANGED records
  BY <1>4
<1>5. UNCHANGED asVars => UNCHANGED records
  BY DEF asVars
<1> QED  BY <1>2, <1>3, <1>4, <1>5, StepsOfRecords

-----------------------------------------------------------------------------

\* The records stay well typed.
LEMMA RecordsTyped ==
  ASSUME AsTypeOK, [AsNext]_asVars
  PROVE  records' \in Seq(Records)
<1>1. records \in Seq(Records)
  BY DEF AsTypeOK
<1>2. ASSUME NEW r \in Requests, Request(r) PROVE records' \in Seq(Records)
  BY <1>1, <1>2, RequestIsRecord DEF Request
<1>3. ASSUME NEW id \in ApprovalIds, NEW s \in States, Decides(id, s)
      PROVE  records' \in Seq(Records)
  BY <1>3, SettingState DEF Decides
<1>4. UNCHANGED asVars => UNCHANGED records
  BY DEF asVars
<1> QED  BY <1>1, <1>2, <1>3, <1>4, StepsOfRecords

\* What approve returns is well typed, binds the record, and is recorded with it.
LEMMA ApproveTyped ==
  ASSUME AsTypeOK, NEW id \in ApprovalIds, NEW a \in ActionIds, NEW actor \in Actors,
         NEW now \in Times, NEW entry \in Entries, NEW nonce \in Nonces,
         Approve(id, a, actor, now, entry, nonce)
  PROVE  leases' \in Seq(IssuedLeases) /\ decisions' \in Seq(DecisionEvents)
<1> DEFINE k == FirstWith(records, "id", id)
<1>1. k \in 1..Len(records)
  BY FirstWithSpec DEF AsTypeOK, Approve, PendingNotStale
<1>2. records[k] \in Records
  BY <1>1 DEF AsTypeOK
<1>3. PICK q \in Requests : Claims(records[k], entry, nonce) = Claims(q, entry, nonce)
  BY <1>2, RecordFields DEF Claims
<1>4. [claims |-> Claims(records[k], entry, nonce), meant |-> a, at |-> now] \in IssuedLeases
  BY <1>3 DEF IssuedLeases
<1>5. ApprovalDecision(id, actor, "Approved") \in DecisionEvents
  BY DEF DecisionEvents
<1> QED  BY <1>4, <1>5 DEF Approve, AsTypeOK

LEMMA TypePreserved ==
  ASSUME AsTypeOK, [AsNext]_asVars
  PROVE  AsTypeOK'
<1> DEFINE Rest == leases' \in Seq(IssuedLeases) /\ decisions' \in Seq(DecisionEvents)
<1>1. ASSUME NEW r \in Requests, Request(r) PROVE Rest
  <2>1. ApprovalRequested(r) \in DecisionEvents
    BY DEF DecisionEvents
  <2> QED  BY <1>1, <2>1 DEF Request, AsTypeOK
<1>2. ASSUME NEW id \in ApprovalIds, NEW actor \in Actors, NEW now, Reject(id, actor, now)
      PROVE  Rest
  <2>1. ApprovalDecision(id, actor, "Rejected") \in DecisionEvents
    BY DEF DecisionEvents
  <2> QED  BY <1>2, <2>1 DEF Reject, AsTypeOK
<1>3. ASSUME NEW id \in ApprovalIds, NEW now, Expire(id, now) PROVE Rest
  <2>1. ApprovalExpired(id) \in DecisionEvents
    BY DEF DecisionEvents
  <2> QED  BY <1>3, <2>1 DEF Expire, AsTypeOK
<1>4. ASSUME NEW id \in ApprovalIds, NEW by \in ApprovalIds, Supersede(id, by) PROVE Rest
  <2>1. ApprovalSuperseded(id, by) \in DecisionEvents
    BY DEF DecisionEvents
  <2> QED  BY <1>4, <2>1 DEF Supersede, AsTypeOK
<1>5. ASSUME NEW chat, TelegramRefused(chat) PROVE Rest
  <2>1. ApprovalAdapterRejected \in DecisionEvents
    BY DEF DecisionEvents
  <2> QED  BY <1>5, <2>1 DEF TelegramRefused, RecordAdapterRejection, AsTypeOK
<1>6. ASSUME NEW id \in ApprovalIds, NEW a \in ActionIds, NEW actor \in Actors,
             NEW now \in Times, NEW entry \in Entries, NEW nonce \in Nonces,
             Approve(id, a, actor, now, entry, nonce)
      PROVE  Rest
  BY <1>6, ApproveTyped
<1>7. ASSUME NEW chat, NEW id \in ApprovalIds, NEW now \in Times, NEW entry \in Entries,
             NEW nonce \in Nonces, TelegramApprove(chat, id, now, entry, nonce)
      PROVE  Rest
  <2> DEFINE k == FirstWith(records, "id", id)
  <2>1. k \in 1..Len(records)
    BY <1>7, FirstWithSpec DEF AsTypeOK, TelegramApprove
  <2>2. records[k] \in Records
    BY <2>1 DEF AsTypeOK
  <2>3. records[k].actionId \in ActionIds
    BY <2>2, RecordFields DEF ActionIds
  <2>4. ActorOf[chat] \in Actors
    BY <1>7, OperatorsAssumption DEF TelegramApprove
  <2> QED  BY <1>6, <1>7, <2>3, <2>4 DEF TelegramApprove
<1>8. ASSUME NEW chat, NEW id \in ApprovalIds, NEW now \in Times, TelegramReject(chat, id, now)
      PROVE  Rest
  BY <1>2, <1>8, OperatorsAssumption DEF TelegramReject
<1>9. UNCHANGED asVars => Rest
  BY DEF asVars, AsTypeOK
<1> HIDE DEF Rest
<1>10. ASSUME \E id \in ApprovalIds, a \in ActionIds, actor \in Actors, now \in Times,
               entry \in Entries, nonce \in Nonces : Approve(id, a, actor, now, entry, nonce)
       PROVE  Rest
  BY <1>6, <1>10
<1>11. ASSUME \E chat \in Chats, id \in ApprovalIds, now \in Times, entry \in Entries,
               nonce \in Nonces : TelegramApprove(chat, id, now, entry, nonce)
       PROVE  Rest
  BY <1>7, <1>11
<1>12. Rest
  BY <1>1, <1>2, <1>3, <1>4, <1>5, <1>8, <1>9, <1>10, <1>11 DEF AsNext
<1> QED  BY <1>12, RecordsTyped DEF AsTypeOK, Rest

\* Records, events and claims are made of what requests and operators supplied.
THEOREM ApprovalTypeCorrect == AsSpec => []AsTypeOK
<1>1. AsInit => AsTypeOK
  BY DEF AsInit, AsTypeOK
<1>2. AsTypeOK /\ [AsNext]_asVars => AsTypeOK'
  BY TypePreserved
<1> QED  BY <1>1, <1>2, PTL DEF AsSpec

-----------------------------------------------------------------------------

\* What LeaseIsWhatWasApproved says of one lease, in a given vector of records.
Binds(recs, lease) ==
  LET k == FirstWith(recs, "id", lease.claims.approval)
  IN  /\ k # 0
      /\ recs[k].state = "Approved"
      /\ recs[k].actionId = lease.meant
      /\ lease.claims = Claims(recs[k], lease.claims.entry, lease.claims.nonce)
      /\ lease.at < recs[k].expires

LeaseInv ==
  /\ AsTypeOK
  /\ \A i \in 1..Len(leases) : Binds(records, leases[i])
  /\ \A i, j \in 1..Len(leases) :
       leases[i].claims.approval = leases[j].claims.approval => i = j

\* A lease that was bound stays bound.
LEMMA BindsStays ==
  ASSUME AsTypeOK, [AsNext]_asVars, NEW lease, Binds(records, lease)
  PROVE  Binds(records', lease)
<1> DEFINE k == FirstWith(records, "id", lease.claims.approval)
<1>1. k # 0 /\ records[k].state # "Pending"
  BY DEF Binds
<1>2. FirstWith(records', "id", lease.claims.approval) = k /\ records'[k] = records[k]
  BY <1>1, DecidedStays
<1> HIDE DEF k
<1> QED  BY <1>2 DEF Binds, k

\* Approving adds one lease, which binds the record as it is then, under an id that has none.
LEMMA ApproveBinds ==
  ASSUME LeaseInv, NEW id \in ApprovalIds, NEW a, NEW actor, NEW now \in Times, NEW entry,
         NEW nonce, Approve(id, a, actor, now, entry, nonce)
  PROVE  \E lease : /\ leases' = Append(leases, lease)
                    /\ Binds(records', lease)
                    /\ \A i \in 1..Len(leases) :
                         leases[i].claims.approval # lease.claims.approval
<1> DEFINE k == FirstWith(records, "id", id)
           lease == [claims |-> Claims(records[k], entry, nonce), meant |-> a, at |-> now]
<1>1. /\ k # 0 /\ records[k].state = "Pending" /\ records[k].expires > now
      /\ records[k].actionId = a /\ SetState(id, "Approved")
      /\ leases' = Append(leases, lease)
  BY DEF Approve, PendingNotStale
<1>2. /\ k \in 1..Len(records) /\ records[k].id = id
      /\ records'[k] = [records[k] EXCEPT !.state = "Approved"]
      /\ FirstWith(records', "id", id) = k
  BY <1>1, SettingState DEF LeaseInv, States
<1> HIDE DEF k
<1>3. records[k] \in Records
  BY <1>2 DEF LeaseInv, AsTypeOK
<1>4. PICK q \in Requests :
        /\ records[k].id = q.id /\ records[k].actionId = q.actionId
        /\ records[k].action = q.action /\ records[k].target = q.target
        /\ records[k].expires = q.expires
        /\ records[k] = [q EXCEPT !.state = records[k].state]
  BY <1>3, RecordFields
<1>5. q = [id |-> q.id, actionId |-> q.actionId, action |-> q.action, target |-> q.target,
           expires |-> q.expires, state |-> "Pending"]
  BY RequestsAssumption
<1>6. /\ records'[k].state = "Approved"
      /\ records'[k].id = records[k].id
      /\ records'[k].actionId = records[k].actionId
      /\ records'[k].action = records[k].action
      /\ records'[k].target = records[k].target
      /\ records'[k].expires = records[k].expires
  BY <1>2, <1>4, <1>5
<1>7. /\ lease.claims = Claims(records[k], entry, nonce)
      /\ lease.claims.approval = id
      /\ lease.claims.entry = entry /\ lease.claims.nonce = nonce
      /\ lease.meant = a /\ lease.at = now
  BY <1>2 DEF Claims
<1>8. Claims(records'[k], entry, nonce) = Claims(records[k], entry, nonce)
  BY <1>6 DEF Claims
<1>9. now < records'[k].expires
  BY <1>1, <1>4, <1>6, RequestsAssumption, ApprovalBounds DEF k
<1> HIDE DEF lease
<1>10. Binds(records', lease)
  BY <1>1, <1>2, <1>6, <1>7, <1>8, <1>9 DEF Binds, k
<1>11. ASSUME NEW i \in 1..Len(leases), leases[i].claims.approval = lease.claims.approval
       PROVE  FALSE
  <2>1. Binds(records, leases[i])
    BY DEF LeaseInv
  <2>2. records[k].state = "Approved"
    BY <1>7, <1>11, <2>1 DEF Binds, k
  <2> QED  BY <1>1, <2>2 DEF k
<1> QED  BY <1>1, <1>10, <1>11 DEF k

\* Only approving, on the command line or in Telegram, adds a lease.
LEMMA StepsOfLeases ==
  ASSUME LeaseInv, AsNext
  PROVE  \/ UNCHANGED leases
         \/ \E id \in ApprovalIds, now \in Times : \E a, actor, entry, nonce :
              Approve(id, a, actor, now, entry, nonce)
<1> DEFINE Approves == \E id \in ApprovalIds, now \in Times : \E a, actor, entry, nonce :
                         Approve(id, a, actor, now, entry, nonce)
<1>1. CASE \E id \in ApprovalIds, a \in ActionIds, actor \in Actors, now \in Times,
              entry \in Entries, nonce \in Nonces : Approve(id, a, actor, now, entry, nonce)
  BY <1>1
<1>2. CASE \E chat \in Chats, id \in ApprovalIds, now \in Times, entry \in Entries,
              nonce \in Nonces : TelegramApprove(chat, id, now, entry, nonce)
  BY <1>2 DEF TelegramApprove
<1> HIDE DEF Approves
<1> QED  BY <1>1, <1>2 DEF AsNext, Approves, Request, Reject, Expire, Supersede,
              TelegramRefused, RecordAdapterRejection, TelegramReject

LEMMA LeaseInvPreserved ==
  ASSUME LeaseInv, [AsNext]_asVars
  PROVE  LeaseInv'
<1>1. AsTypeOK'
  BY TypePreserved DEF LeaseInv
<1>2. \A i \in 1..Len(leases) : Binds(records', leases[i])
  BY BindsStays DEF LeaseInv
<1>3. CASE UNCHANGED leases
  BY <1>1, <1>2, <1>3 DEF LeaseInv
<1>4. ASSUME NEW id \in ApprovalIds, NEW now \in Times, NEW a, NEW actor, NEW entry,
             NEW nonce, Approve(id, a, actor, now, entry, nonce)
      PROVE  LeaseInv'
  <2>1. PICK lease : /\ leases' = Append(leases, lease)
                     /\ Binds(records', lease)
                     /\ \A i \in 1..Len(leases) :
                          leases[i].claims.approval # lease.claims.approval
    BY <1>4, ApproveBinds
  <2> DEFINE n == Len(leases)
  <2>2. /\ n \in Nat /\ Len(leases') = n + 1
        /\ leases'[n + 1] = lease
        /\ \A i \in 1..n : leases'[i] = leases[i]
    BY <2>1 DEF LeaseInv, AsTypeOK
  <2> HIDE DEF n
  <2>3. \A i \in 1..(n + 1) : Binds(records', leases'[i])
    BY <1>2, <2>1, <2>2 DEF n
  <2>4. ASSUME NEW i \in 1..(n + 1), NEW j \in 1..(n + 1),
               leases'[i].claims.approval = leases'[j].claims.approval
        PROVE  i = j
    <3>1. CASE i \in 1..n /\ j \in 1..n
      BY <2>2, <2>4, <3>1 DEF LeaseInv, n
    <3>2. CASE i = n + 1 /\ j \in 1..n
      BY <2>1, <2>2, <2>4, <3>2 DEF n
    <3>3. CASE i \in 1..n /\ j = n + 1
      BY <2>1, <2>2, <2>4, <3>3 DEF n
    <3> QED  BY <2>2, <3>1, <3>2, <3>3
  <2> QED  BY <1>1, <2>2, <2>3, <2>4 DEF LeaseInv
<1>5. UNCHANGED asVars => UNCHANGED leases
  BY DEF asVars
<1> QED  BY <1>3, <1>4, <1>5, StepsOfLeases

THEOREM LeaseInvariant == AsSpec => []LeaseInv
<1>1. AsInit => LeaseInv
  BY DEF AsInit, LeaseInv, AsTypeOK
<1>2. LeaseInv /\ [AsNext]_asVars => LeaseInv'
  BY LeaseInvPreserved
<1> QED  BY <1>1, <1>2, PTL DEF AsSpec

\* An approval id never yields a second lease (approve, ensure_pending_not_stale).
THEOREM OneLeasePerApproval == AsSpec => []LeasedOnce
<1>1. LeaseInv => LeasedOnce
  BY DEF LeaseInv, LeasedOnce, AsTypeOK
<1> QED  BY <1>1, LeaseInvariant, PTL

\* Each lease is for exactly what was asked for and approved, and stays so (approve).
THEOREM LeaseBindsApproval == AsSpec => []LeaseIsWhatWasApproved
<1>1. ASSUME LeaseInv PROVE LeaseIsWhatWasApproved
  <2>1. DOMAIN leases = 1..Len(leases)
    BY <1>1 DEF LeaseInv, AsTypeOK
  <2>2. \A i \in DOMAIN leases : Binds(records, leases[i])
    BY <1>1, <2>1 DEF LeaseInv
  <2> QED  BY <2>2, Zenon DEF LeaseIsWhatWasApproved, Binds
<1>2. LeaseInv => LeaseIsWhatWasApproved
  BY <1>1
<1> QED  BY <1>2, LeaseInvariant, PTL

-----------------------------------------------------------------------------

\* A record is changed only while it is pending, and then only in its state.
THEOREM DecisionsAreFinal == AsSpec => DecisionIsFinal
<1> DEFINE Final == \A k \in DOMAIN records :
                      \/ records'[k] = records[k]
                      \/ /\ records[k].state = "Pending"
                         /\ records'[k] = [records[k] EXCEPT !.state = records'[k].state]
<1>1. ASSUME AsTypeOK, AsNext PROVE Final
  <2>1. records \in Seq(Records)
    BY <1>1 DEF AsTypeOK
  <2>2. ASSUME NEW r \in Requests, Request(r) PROVE Final
    BY <2>1, <2>2 DEF Request
  <2>3. ASSUME NEW id \in ApprovalIds, NEW s \in States, Decides(id, s) PROVE Final
    <3> DEFINE k == FirstWith(records, "id", id)
    <3>1. /\ k \in 1..Len(records)
          /\ records[k].state = "Pending"
          /\ records'[k] = [records[k] EXCEPT !.state = s]
          /\ \A i \in 1..Len(records) : i # k => records'[i] = records[i]
      BY <1>1, <2>3, SettingState DEF Decides
    <3> HIDE DEF k
    <3>2. records[k] \in Records
      BY <2>1, <3>1
    <3>3. PICK q \in Requests : records[k] = [q EXCEPT !.state = records[k].state]
      BY <3>2, RecordFields
    <3>4. q = [id |-> q.id, actionId |-> q.actionId, action |-> q.action,
               target |-> q.target, expires |-> q.expires, state |-> "Pending"]
      BY RequestsAssumption
    <3>5. records'[k].state = s
      BY <3>1, <3>3, <3>4
    <3> QED  BY <2>1, <3>1, <3>5
  <2>4. CASE UNCHANGED records
    BY <2>4
  <2> QED  BY <1>1, <2>2, <2>3, <2>4, StepsOfRecords
<1>2. AsTypeOK /\ [AsNext]_asVars => [Final]_asVars
  BY <1>1
<1> QED  BY <1>2, ApprovalTypeCorrect, PTL DEF AsSpec, DecisionIsFinal

-----------------------------------------------------------------------------
(* The ledger of decisions.  An id gets its one decision while the record  *)
(* it leads to is pending, and a decision is only made about an id that    *)
(* leads to a record: a record that is added first under its id is added   *)
(* before anything was decided about it.                                   *)

\* DecisionsAbout, in a given ledger.
About(decs, x) == {i \in DOMAIN decs : decs[i].kind \in DecisionKinds /\ decs[i].id = x}

\* What the proof needs besides: what was decided has a record.
DecisionInv ==
  /\ AsTypeOK
  /\ DecisionsExplainStates
  /\ \A x : About(decisions, x) # {} => FirstWith(records, "id", x) # 0

\* Every step appends the event of what it does: the request stored, the decision made,
\* or a refusal by the adapter.
LEMMA StepsOfDecisions ==
  ASSUME AsNext
  PROVE  \/ \E r \in Requests : Request(r)
         \/ \E id \in ApprovalIds, s \in States \ {"Pending"}, ev \in DecisionEvents :
              /\ Decides(id, s)
              /\ decisions' = Append(decisions, ev)
              /\ ev.kind \in DecisionKinds /\ ev.id = id /\ StateSaidBy(ev) = s
         \/ UNCHANGED records /\ decisions' = Append(decisions, ApprovalAdapterRejected)
<1> USE DEF States, Decides, PendingNotStale
<1> DEFINE Told(id, s) ==
             \E ev \in DecisionEvents :
               /\ Decides(id, s)
               /\ decisions' = Append(decisions, ev)
               /\ ev.kind \in DecisionKinds /\ ev.id = id /\ StateSaidBy(ev) = s
<1>1. ASSUME NEW id \in ApprovalIds, NEW actor \in Actors, NEW s \in {"Approved", "Rejected"},
             Decides(id, s), decisions' = Append(decisions, ApprovalDecision(id, actor, s))
      PROVE  Told(id, s)
  <2> DEFINE ev == ApprovalDecision(id, actor, s)
  <2>1. ev \in DecisionEvents
    BY DEF DecisionEvents
  <2>2. ev.kind \in DecisionKinds /\ ev.id = id /\ StateSaidBy(ev) = s
    BY DEF ApprovalDecision, DecisionKinds, StateSaidBy
  <2> HIDE DEF ev, Decides
  <2> QED  BY <1>1, <2>1, <2>2 DEF ev
<1>2. ASSUME NEW id \in ApprovalIds, NEW a, NEW actor \in Actors, NEW now, NEW entry, NEW nonce,
             Approve(id, a, actor, now, entry, nonce)
      PROVE  Told(id, "Approved")
  <2>1. Decides(id, "Approved")
        /\ decisions' = Append(decisions, ApprovalDecision(id, actor, "Approved"))
    BY <1>2 DEF Approve
  <2> HIDE DEF Decides, Told
  <2> QED  BY <1>1, <2>1
<1>3. ASSUME NEW id \in ApprovalIds, NEW actor \in Actors, NEW now, Reject(id, actor, now)
      PROVE  Told(id, "Rejected")
  <2>1. Decides(id, "Rejected")
        /\ decisions' = Append(decisions, ApprovalDecision(id, actor, "Rejected"))
    BY <1>3 DEF Reject
  <2> HIDE DEF Decides, Told
  <2> QED  BY <1>1, <2>1
<1>4. ASSUME NEW id \in ApprovalIds, NEW now, Expire(id, now) PROVE Told(id, "Expired")
  <2> DEFINE ev == ApprovalExpired(id)
  <2>1. ev \in DecisionEvents
    BY DEF DecisionEvents
  <2>2. ev.kind \in DecisionKinds /\ ev.id = id /\ StateSaidBy(ev) = "Expired"
    BY DEF ApprovalExpired, DecisionKinds, StateSaidBy
  <2>3. Decides(id, "Expired") /\ decisions' = Append(decisions, ev)
    BY <1>4 DEF Expire
  <2> HIDE DEF ev, Decides
  <2> QED  BY <2>1, <2>2, <2>3
<1>5. ASSUME NEW id \in ApprovalIds, NEW by \in ApprovalIds, Supersede(id, by)
      PROVE  Told(id, "Superseded")
  <2> DEFINE ev == ApprovalSuperseded(id, by)
  <2>1. ev \in DecisionEvents
    BY DEF DecisionEvents
  <2>2. ev.kind \in DecisionKinds /\ ev.id = id /\ StateSaidBy(ev) = "Superseded"
    BY DEF ApprovalSuperseded, DecisionKinds, StateSaidBy
  <2>3. Decides(id, "Superseded") /\ decisions' = Append(decisions, ev)
    BY <1>5 DEF Supersede
  <2> HIDE DEF ev, Decides
  <2> QED  BY <2>1, <2>2, <2>3
<1>6. ASSUME NEW chat, TelegramRefused(chat)
      PROVE  UNCHANGED records /\ decisions' = Append(decisions, ApprovalAdapterRejected)
  BY <1>6 DEF TelegramRefused, RecordAdapterRejection
<1>7. ASSUME NEW chat, NEW id \in ApprovalIds, NEW now, NEW entry, NEW nonce,
             TelegramApprove(chat, id, now, entry, nonce)
      PROVE  Told(id, "Approved")
  <2>1. ActorOf[chat] \in Actors
    BY <1>7, OperatorsAssumption DEF TelegramApprove
  <2> HIDE DEF Told
  <2> QED  BY <1>2, <1>7, <2>1 DEF TelegramApprove
<1>8. ASSUME NEW chat, NEW id \in ApprovalIds, NEW now, TelegramReject(chat, id, now)
      PROVE  Told(id, "Rejected")
  <2>1. ActorOf[chat] \in Actors
    BY <1>8, OperatorsAssumption DEF TelegramReject
  <2> HIDE DEF Told
  <2> QED  BY <1>3, <1>8, <2>1 DEF TelegramReject
<1> HIDE DEF Decides, Told, PendingNotStale
<1>9. \/ \E r \in Requests : Request(r)
      \/ \E id \in ApprovalIds, s \in States \ {"Pending"} : Told(id, s)
      \/ UNCHANGED records /\ decisions' = Append(decisions, ApprovalAdapterRejected)
  BY <1>2, <1>3, <1>4, <1>5, <1>6, <1>7, <1>8 DEF AsNext
<1> QED  BY <1>9 DEF Told

\* What appending an event does to the decisions about an id.
LEMMA AboutAfter ==
  ASSUME AsTypeOK, NEW ev \in DecisionEvents, decisions' = Append(decisions, ev), NEW x
  PROVE  LET n == Len(decisions) + 1
         IN  /\ About(decisions', x) =
                  IF ev.kind \in DecisionKinds /\ ev.id = x THEN About(decisions, x) \cup {n}
                                                            ELSE About(decisions, x)
             /\ decisions'[n] = ev
             /\ \A i \in About(decisions, x) : decisions'[i] = decisions[i]
<1> DEFINE n == Len(decisions) + 1
<1>1. /\ Len(decisions) \in Nat /\ DOMAIN decisions = 1..Len(decisions) /\ DOMAIN decisions' = 1..n
      /\ decisions'[n] = ev /\ \A i \in 1..Len(decisions) : decisions'[i] = decisions[i]
  BY DEF AsTypeOK
<1>2. \A i : i \in 1..n <=> i \in 1..Len(decisions) \/ i = n
  BY <1>1
<1> HIDE DEF n
<1>3. About(decisions', x) = {i \in 1..n : decisions'[i].kind \in DecisionKinds /\ decisions'[i].id = x}
  BY <1>1 DEF About
<1>4. About(decisions, x) =
        {i \in 1..Len(decisions) : decisions[i].kind \in DecisionKinds /\ decisions[i].id = x}
  BY <1>1 DEF About
<1>5. ASSUME NEW i
      PROVE  i \in About(decisions', x) <=>
               i \in About(decisions, x) \/ (i = n /\ ev.kind \in DecisionKinds /\ ev.id = x)
  <2>1. CASE i = n
    <3>1. i \notin About(decisions, x)
      BY <1>1, <1>4, <2>1 DEF n
    <3> QED  BY <1>1, <1>2, <1>3, <2>1, <3>1
  <2>2. CASE i # n
    BY <1>1, <1>2, <1>3, <1>4, <2>2
  <2> QED  BY <2>1, <2>2
<1> QED  BY <1>1, <1>4, <1>5 DEF n

\* A recorded decision says a state that is not Pending.
LEMMA DecisionSaysDecided ==
  ASSUME NEW ev \in DecisionEvents, ev.kind \in DecisionKinds
  PROVE  StateSaidBy(ev) # "Pending"
<1>1. CASE \E id \in ApprovalIds, a \in Actors, outcome \in {"Approved", "Rejected"} :
             ev = ApprovalDecision(id, a, outcome)
  BY <1>1 DEF ApprovalDecision, StateSaidBy
<1>2. CASE \E id \in ApprovalIds : ev = ApprovalExpired(id)
  BY <1>2 DEF ApprovalExpired, StateSaidBy
<1>3. CASE \E id, by \in ApprovalIds : ev = ApprovalSuperseded(id, by)
  BY <1>3 DEF ApprovalSuperseded, StateSaidBy
<1>4. CASE ev = ApprovalAdapterRejected \/ \E r \in Requests : ev = ApprovalRequested(r)
  BY <1>4 DEF ApprovalAdapterRejected, ApprovalRequested, DecisionKinds
<1> QED  BY <1>1, <1>2, <1>3, <1>4 DEF DecisionEvents

\* What DecisionsExplainStates says of the k-th record.
Explained(recs, decs, k) ==
  LET about == About(decs, recs[k].id)
  IN  IF FirstWith(recs, "id", recs[k].id) = k /\ about # {}
      THEN \E i \in about : about = {i} /\ recs[k].state = StateSaidBy(decs[i])
      ELSE recs[k].state = "Pending"

\* A record stays explained while nothing it is explained by changes.
LEMMA ExplainedStays ==
  ASSUME NEW recs, NEW decs, NEW recs2, NEW decs2, NEW k,
         Explained(recs, decs, k), recs2[k] = recs[k],
         About(decs2, recs[k].id) = About(decs, recs[k].id),
         \A i \in About(decs, recs[k].id) : decs2[i] = decs[i],
         FirstWith(recs2, "id", recs[k].id) = FirstWith(recs, "id", recs[k].id)
  PROVE  Explained(recs2, decs2, k)
<1> DEFINE x == recs[k].id
<1>1. recs2[k].id = x /\ recs2[k].state = recs[k].state
  OBVIOUS
<1> HIDE DEF x
<1>2. CASE FirstWith(recs, "id", x) = k /\ About(decs, x) # {}
  <2>1. PICK i \in About(decs, x) : About(decs, x) = {i} /\ recs[k].state = StateSaidBy(decs[i])
    BY <1>2 DEF Explained, x
  <2>2. i \in About(decs2, x) /\ About(decs2, x) = {i} /\ recs2[k].state = StateSaidBy(decs2[i])
    BY <1>1, <2>1 DEF x
  <2> QED  BY <1>1, <1>2, <2>2 DEF Explained, x
<1>3. CASE ~ (FirstWith(recs, "id", x) = k /\ About(decs, x) # {})
  BY <1>1, <1>3 DEF Explained, x
<1> QED  BY <1>2, <1>3

\* A step that appends an event keeps every record explained by the ledger.
LEMMA DecisionInvPreserved == DecisionInv /\ [AsNext]_asVars => DecisionInv'
<1> SUFFICES ASSUME DecisionInv, [AsNext]_asVars PROVE DecisionInv'
  OBVIOUS
<1>0. /\ AsTypeOK /\ AsTypeOK' /\ records \in Seq(Records) /\ decisions \in Seq(DecisionEvents)
      /\ DOMAIN records = 1..Len(records) /\ Len(records) \in Nat
      /\ DOMAIN records' = 1..Len(records') /\ records' \in Seq(Records)
  BY TypePreserved DEF DecisionInv, AsTypeOK
<1>1. \A k \in 1..Len(records) : Explained(records, decisions, k)
  BY <1>0 DEF DecisionInv, DecisionsExplainStates, DecisionsAbout, About, Explained
<1>2. ASSUME \A k \in 1..Len(records') : Explained(records', decisions', k),
             \A x : About(decisions', x) # {} => FirstWith(records', "id", x) # 0
      PROVE  DecisionInv'
  BY <1>0, <1>2 DEF DecisionInv, DecisionsExplainStates, DecisionsAbout, About, Explained
<1>3. \A x : About(decisions, x) # {} => FirstWith(records, "id", x) # 0
  BY DEF DecisionInv
<1>4. ASSUME NEW r \in Requests, Request(r) PROVE DecisionInv'
  <2> DEFINE n == Len(records) + 1
             ev == ApprovalRequested(r)
  <2>1. /\ records' = Append(records, r) /\ decisions' = Append(decisions, ev)
        /\ ev \in DecisionEvents /\ ev.kind \notin DecisionKinds
    BY <1>4 DEF Request, DecisionEvents, ApprovalRequested, DecisionKinds
  <2> HIDE DEF ev
  <2>2. \A x : /\ About(decisions', x) = About(decisions, x)
               /\ \A i \in About(decisions, x) : decisions'[i] = decisions[i]
    BY <1>0, <2>1, AboutAfter
  <2>3. r \in Records /\ r.state = "Pending"
    BY RequestIsRecord
  <2>4. \A x : FirstWith(records, "id", x) # 0
                 => FirstWith(records', "id", x) = FirstWith(records, "id", x)
    BY <1>0, <2>1, <2>3, FirstIsStable
  <2>5. /\ n \in Nat /\ Len(records') = n /\ records'[n] = r
        /\ \A k \in 1..Len(records) : records'[k] = records[k]
    BY <1>0, <2>1, <2>3
  <2>6. ASSUME NEW k \in 1..Len(records) PROVE Explained(records', decisions', k)
    <3> DEFINE x == records[k]["id"]
    <3>1. FirstWith(records, "id", x) # 0
      BY <1>0, FirstWithSpec
    <3>2. FirstWith(records', "id", x) = FirstWith(records, "id", x)
      BY <2>4, <3>1
    <3>3. records'[k] = records[k] /\ x = records[k].id
      BY <2>5
    <3> HIDE DEF x
    <3> QED  BY <1>1, <2>2, <3>2, <3>3 DEF Explained
  <2>7. Explained(records', decisions', n)
    <3> DEFINE x == r["id"]
    <3>1. x = r.id
      OBVIOUS
    <3>2. FirstWith(records', "id", x) = n => About(decisions, x) = {}
      <4> SUFFICES ASSUME FirstWith(records', "id", x) = n, About(decisions, x) # {} PROVE FALSE
        OBVIOUS
      <4>1. FirstWith(records, "id", x) # 0
        BY <1>3
      <4>2. FirstWith(records, "id", x) \in 0..Len(records)
        BY <1>0, FirstWithSpec
      <4> QED  BY <1>0, <2>4, <4>1, <4>2
    <3> HIDE DEF x
    <3> QED  BY <2>2, <2>3, <2>5, <3>1, <3>2 DEF Explained
  <2>8. \A k \in 1..Len(records') : Explained(records', decisions', k)
    <3>1. \A k \in 1..n : k \in 1..Len(records) \/ k = n
      BY <1>0
    <3> QED  BY <2>5, <2>6, <2>7, <3>1
  <2> QED  BY <1>2, <1>3, <2>2, <2>4, <2>8
<1>5. ASSUME NEW id \in ApprovalIds, NEW s \in States \ {"Pending"}, NEW ev \in DecisionEvents,
             Decides(id, s), decisions' = Append(decisions, ev),
             ev.kind \in DecisionKinds, ev.id = id, StateSaidBy(ev) = s
      PROVE  DecisionInv'
  <2> DEFINE first == FirstWith(records, "id", id)
             n == Len(decisions) + 1
  <2>1. /\ first \in 1..Len(records)
        /\ records[first].id = id /\ records[first].state = "Pending"
        /\ Len(records') = Len(records)
        /\ records'[first] = [records[first] EXCEPT !.state = s]
        /\ \A i \in 1..Len(records) : i # first => records'[i] = records[i]
        /\ \A x : FirstWith(records', "id", x) = FirstWith(records, "id", x)
    BY <1>0, <1>5, SettingState DEF Decides
  <2>2. \A x : /\ About(decisions', x) = IF x = id THEN About(decisions, x) \cup {n} ELSE About(decisions, x)
               /\ decisions'[n] = ev
               /\ \A i \in About(decisions, x) : decisions'[i] = decisions[i]
    BY <1>0, <1>5, AboutAfter
  <2>3. records'[first].id = id /\ records'[first].state = s
    <3>1. records[first] \in Records
      BY <1>0, <2>1
    <3>2. PICK q \in Requests : records[first] = [q EXCEPT !.state = records[first].state]
      BY <3>1, RecordFields
    <3>3. q = [id |-> q.id, actionId |-> q.actionId, action |-> q.action,
               target |-> q.target, expires |-> q.expires, state |-> "Pending"]
      BY RequestsAssumption
    <3> HIDE DEF first
    <3> QED  BY <2>1, <3>2, <3>3
  <2>4. About(decisions, id) = {}
    <3> SUFFICES ASSUME About(decisions, id) # {} PROVE FALSE
      OBVIOUS
    <3>1. Explained(records, decisions, first)
      BY <1>1, <2>1
    <3>2. PICK i \in About(decisions, id) : records[first].state = StateSaidBy(decisions[i])
      BY <2>1, <3>1 DEF Explained
    <3>3. decisions[i] \in DecisionEvents /\ decisions[i].kind \in DecisionKinds
      BY <1>0, <3>2 DEF About
    <3> QED  BY <2>1, <3>2, <3>3, DecisionSaysDecided
  <2> HIDE DEF first, n
  <2>5. Explained(records', decisions', first)
    <3>1. About(decisions', id) = {n} /\ decisions'[n] = ev
      BY <2>2, <2>4
    <3>2. FirstWith(records', "id", id) = first
      BY <2>1 DEF first
    <3> QED  BY <1>5, <2>3, <3>1, <3>2 DEF Explained
  <2>6. ASSUME NEW k \in 1..Len(records), k # first PROVE Explained(records', decisions', k)
    <3>1. records'[k] = records[k]
      BY <2>1, <2>6
    <3>2. CASE records[k].id = id
      <4>1. FirstWith(records', "id", id) # k /\ FirstWith(records, "id", id) # k
        BY <2>1, <2>6 DEF first
      <4> QED  BY <1>1, <3>1, <3>2, <4>1 DEF Explained
    <3>3. CASE records[k].id # id
      BY <1>1, <2>1, <2>2, <3>1, <3>3, ExplainedStays
    <3> QED  BY <3>2, <3>3
  <2>7. \A x : About(decisions', x) # {} => FirstWith(records', "id", x) # 0
    <3>1. FirstWith(records, "id", id) # 0
      BY <1>0, <2>1 DEF first
    <3> QED  BY <1>3, <2>1, <2>2, <3>1
  <2> QED  BY <1>2, <2>1, <2>5, <2>6, <2>7
<1>6. CASE UNCHANGED records /\ decisions' = Append(decisions, ApprovalAdapterRejected)
  <2>1. /\ ApprovalAdapterRejected \in DecisionEvents
        /\ ApprovalAdapterRejected.kind \notin DecisionKinds
    BY DEF DecisionEvents, ApprovalAdapterRejected, DecisionKinds
  <2>2. \A x : /\ About(decisions', x) = About(decisions, x)
               /\ \A i \in About(decisions, x) : decisions'[i] = decisions[i]
    BY <1>0, <1>6, <2>1, AboutAfter
  <2>3. \A k \in 1..Len(records) : Explained(records', decisions', k)
    BY <1>1, <1>6, <2>2, ExplainedStays
  <2> QED  BY <1>2, <1>3, <1>6, <2>2, <2>3
<1>7. CASE UNCHANGED asVars
  BY <1>0, <1>7 DEF asVars, DecisionInv, DecisionsExplainStates, DecisionsAbout, About
<1> QED  BY <1>4, <1>5, <1>6, <1>7, StepsOfDecisions

\* The ledger of the store tells the state of every approval.
THEOREM DecisionsTellStates == AsSpec => []DecisionsExplainStates
<1>1. AsInit => DecisionInv
  <2> SUFFICES ASSUME AsInit PROVE DecisionInv
    OBVIOUS
  <2>1. DOMAIN records = {} /\ DOMAIN decisions = {}
    BY DEF AsInit
  <2>2. \A x : About(decisions, x) = {}
    BY <2>1 DEF About
  <2> QED  BY <2>1, <2>2 DEF AsInit, AsTypeOK, DecisionInv, DecisionsExplainStates
<1>2. DecisionInv => DecisionsExplainStates
  BY DEF DecisionInv
<1> QED  BY <1>1, <1>2, DecisionInvPreserved, PTL DEF AsSpec

-----------------------------------------------------------------------------
(* The helper: what it accepts was approved.                               *)

\* What ExecutedAsApproved says of one invocation, in a given vector of records.
Authorised(recs, done) ==
  LET k == FirstWith(recs, "id", done.approval)
  IN  /\ k # 0
      /\ recs[k].state = "Approved"
      /\ recs[k].action = done.action
      /\ recs[k].target = done.target
      /\ NodeOf(done.target) = done.node
      /\ done.at < recs[k].expires
      /\ \E e \in Allowlist : e.action = done.action /\ e.target = done.target

GateInv ==
  /\ LeaseInv
  /\ executed \in Seq([approval : ApprovalIds, action : HelperActions, target : Targets,
                       node : HelperNodes, nonce : Nonces, at : Times])
  /\ \A i \in 1..Len(executed) : Authorised(records, executed[i])

\* An invocation that was authorised stays so, whatever the operators do next.
LEMMA AuthorisedStays ==
  ASSUME AsTypeOK, [AsNext]_asVars, NEW done, Authorised(records, done)
  PROVE  Authorised(records', done)
<1> DEFINE k == FirstWith(records, "id", done.approval)
<1>1. k # 0 /\ records[k].state # "Pending"
  BY DEF Authorised
<1>2. FirstWith(records', "id", done.approval) = k /\ records'[k] = records[k]
  BY <1>1, DecidedStays
<1> HIDE DEF k
<1> QED  BY <1>2 DEF Authorised, k

\* Claims the store issued name an approval, a nonce and an expiry of their record.
LEMMA IssuedClaims ==
  ASSUME LeaseInv, NEW claims \in Issued
  PROVE  LET k == FirstWith(records, "id", claims.approval)
         IN  /\ k # 0 /\ records[k].state = "Approved"
             /\ claims.approval \in ApprovalIds /\ claims.nonce \in Nonces
             /\ claims.action = records[k].action /\ claims.target = records[k].target
             /\ claims.node = NodeOf(records[k].target)
             /\ claims.expires = records[k].expires /\ claims.expires \in Nat
<1> DEFINE k == FirstWith(records, "id", claims.approval)
<1>1. PICK i \in 1..Len(leases) : claims = leases[i].claims
  BY DEF Issued, LeaseInv, AsTypeOK
<1>2. Binds(records, leases[i]) /\ leases[i] \in IssuedLeases
  BY DEF LeaseInv, AsTypeOK
<1>3. /\ k # 0 /\ records[k].state = "Approved"
      /\ claims = Claims(records[k], claims.entry, claims.nonce)
  BY <1>1, <1>2 DEF Binds
<1>4. PICK q \in Requests, entry \in Entries, nonce \in Nonces, a \in ActionIds, t \in Times :
        leases[i] = [claims |-> Claims(q, entry, nonce), meant |-> a, at |-> t]
  BY <1>2 DEF IssuedLeases
<1>5. claims = Claims(q, entry, nonce)
  BY <1>1, <1>4
<1>6. /\ claims.approval = q.id /\ claims.nonce = nonce /\ claims.expires = q.expires
  BY <1>5 DEF Claims
<1>7. claims.approval \in ApprovalIds /\ claims.nonce \in Nonces /\ claims.expires \in Nat
  BY <1>6, RequestsAssumption DEF ApprovalIds
<1> HIDE DEF k
<1>8. /\ claims.action = records[k].action /\ claims.target = records[k].target
      /\ claims.node = NodeOf(records[k].target) /\ claims.expires = records[k].expires
  BY <1>3 DEF Claims
<1> QED  BY <1>3, <1>7, <1>8 DEF k

LEMMA ExecutePreserves ==
  ASSUME GateInv, NEW request \in HelperRequests, NEW claims \in Issued,
         NEW node \in HelperNodes, NEW now \in Times, NEW seen,
         HelperExecute(request, claims, node, now, seen)
  PROVE  GateInv'
<1> DEFINE done == [approval |-> claims.approval, action |-> request.action,
                    target |-> request.target, node |-> node, nonce |-> claims.nonce,
                    at |-> now]
           k == FirstWith(records, "id", claims.approval)
<1>1. /\ executed' = Append(executed, done) /\ UNCHANGED asVars
      /\ claims.expires > now /\ claims.node = node
      /\ claims.action = request.action /\ claims.target = request.target
      /\ AllowlistPermits(claims.entry, request.action, request.target)
  BY DEF HelperExecute, HelperAccepts
<1>2. /\ k # 0 /\ records[k].state = "Approved"
      /\ claims.approval \in ApprovalIds /\ claims.nonce \in Nonces
      /\ claims.action = records[k].action /\ claims.target = records[k].target
      /\ claims.node = NodeOf(records[k].target)
      /\ claims.expires = records[k].expires /\ claims.expires \in Nat
  BY IssuedClaims DEF GateInv
<1>3. request.action \in HelperActions /\ request.target \in Targets
  BY DEF HelperRequests
<1>4. now \in Nat
  BY ApprovalBounds
<1>5. now < records[k].expires
  BY <1>1, <1>2, <1>4
<1>6. \E e \in Allowlist : e.action = request.action /\ e.target = request.target
  BY <1>1 DEF AllowlistPermits
<1>7. Authorised(records, done)
  <2>1. /\ done.approval = claims.approval /\ done.action = request.action
        /\ done.target = request.target /\ done.node = node /\ done.at = now
    OBVIOUS
  <2> HIDE DEF done
  <2> QED  BY <1>1, <1>2, <1>5, <1>6, <2>1 DEF Authorised
<1>8. done \in [approval : ApprovalIds, action : HelperActions, target : Targets,
                node : HelperNodes, nonce : Nonces, at : Times]
  BY <1>2, <1>3
<1> HIDE DEF done, k
<1>9. UNCHANGED <<records, leases, decisions>>
  BY <1>1 DEF asVars
<1>10. LeaseInv'
  BY <1>9 DEF GateInv, LeaseInv, AsTypeOK
<1>11. \A i \in 1..Len(executed') : Authorised(records', executed'[i])
  BY <1>1, <1>7, <1>8, <1>9 DEF GateInv
<1> QED  BY <1>1, <1>8, <1>10, <1>11 DEF GateInv

\* What is performed is what was approved, for ever; the leases stay what they were.
THEOREM GateInvariant == GateSpec => []GateInv
<1>1. GateInit => GateInv
  BY DEF GateInit, AsInit, GateInv, LeaseInv, AsTypeOK
<1>2. GateInv /\ [GateNext]_gateVars => GateInv'
  <2> SUFFICES ASSUME GateInv, [GateNext]_gateVars PROVE GateInv'
    OBVIOUS
  <2>1. ASSUME [AsNext]_asVars, UNCHANGED executed PROVE GateInv'
    <3>1. LeaseInv'
      BY <2>1, LeaseInvPreserved DEF GateInv
    <3>2. \A i \in 1..Len(executed) : Authorised(records', executed[i])
      BY <2>1, AuthorisedStays DEF GateInv, LeaseInv
    <3> QED  BY <2>1, <3>1, <3>2 DEF GateInv
  <2>2. ASSUME NEW request \in HelperRequests, NEW claims \in Issued,
               NEW node \in HelperNodes, NEW now \in Times, NEW seen \in SUBSET Nonces,
               HelperExecute(request, claims, node, now, seen)
        PROVE  GateInv'
    BY <2>2, ExecutePreserves
  <2>3. UNCHANGED gateVars => UNCHANGED asVars /\ UNCHANGED executed
    BY DEF gateVars
  <2> QED  BY <2>1, <2>2, <2>3 DEF GateNext
<1> QED  BY <1>1, <1>2, PTL DEF GateSpec

\* A helper acts only on what an operator approved, as it was approved, on the node the
\* target belongs to and before the approval expires (validate_helper_request, approve).
THEOREM HelpersActAsApproved == GateSpec => []ExecutedAsApproved
<1>1. GateInv => ExecutedAsApproved
  BY DEF GateInv, ExecutedAsApproved, Authorised
<1> QED  BY <1>1, GateInvariant, PTL

-----------------------------------------------------------------------------
(* The refinement of GatedAction.  The refinement mapping, as functions of *)
(* the vectors alone; each of its values is known by the record an id leads *)
(* to, so that a new record under a known id and a decided record are seen *)
(* to change nothing.                                                      *)

Proposed(recs) ==
  [id \in {recs[i].id : i \in DOMAIN recs} |-> DeedOf(recs[FirstWith(recs, "id", id)])]
Decided(recs) ==
  [id \in {x \in {recs[i].id : i \in DOMAIN recs} :
             recs[FirstWith(recs, "id", x)].state # "Pending"} |->
     recs[FirstWith(recs, "id", id)].state = "Approved"]
Performed(done) ==
  {[id |-> done[i].approval, deed |-> [action |-> done[i].action, target |-> done[i].target]] :
     i \in DOMAIN done}

\* The ids that are known are those that lead to a record.
LEMMA KnownLeads ==
  ASSUME NEW recs \in Seq(Records), NEW x
  PROVE  LET k == FirstWith(recs, "id", x)
         IN  /\ k \in 0..Len(recs)
             /\ x \in {recs[i].id : i \in DOMAIN recs} <=> k # 0
             /\ k # 0 => recs[k].id = x
<1> DEFINE k == FirstWith(recs, "id", x)
<1>1. /\ k \in 0..Len(recs)
      /\ k = 0 => \A i \in 1..Len(recs) : recs[i]["id"] # x
      /\ k # 0 => recs[k]["id"] = x
  BY FirstWithSpec
<1>2. DOMAIN recs = 1..Len(recs)
  OBVIOUS
<1> HIDE DEF k
<1> QED  BY <1>1, <1>2 DEF k


\* The ids known, and what is proposed and decided, with no mention of positions.
LEMMA AbstractValues ==
  ASSUME NEW recs \in Seq(Records)
  PROVE  /\ \A x : /\ x \in DOMAIN Proposed(recs) <=> FirstWith(recs, "id", x) # 0
                   /\ x \in DOMAIN Decided(recs) <=>
                        /\ FirstWith(recs, "id", x) # 0
                        /\ recs[FirstWith(recs, "id", x)].state # "Pending"
         /\ \A x \in DOMAIN Proposed(recs) :
              Proposed(recs)[x] = DeedOf(recs[FirstWith(recs, "id", x)])
         /\ \A x \in DOMAIN Decided(recs) :
              Decided(recs)[x] = (recs[FirstWith(recs, "id", x)].state = "Approved")
         /\ Proposed(recs) = [x \in DOMAIN Proposed(recs) |-> Proposed(recs)[x]]
         /\ Decided(recs) = [x \in DOMAIN Decided(recs) |-> Decided(recs)[x]]
<1>1. \A x : x \in {recs[i].id : i \in DOMAIN recs} <=> FirstWith(recs, "id", x) # 0
  BY KnownLeads
<1>2. DOMAIN Proposed(recs) = {recs[i].id : i \in DOMAIN recs}
  BY DEF Proposed
<1>3. DOMAIN Decided(recs) = {x \in {recs[i].id : i \in DOMAIN recs} :
                                recs[FirstWith(recs, "id", x)].state # "Pending"}
  BY DEF Decided
<1>4. \A x \in DOMAIN Proposed(recs) : Proposed(recs)[x] = DeedOf(recs[FirstWith(recs, "id", x)])
  BY DEF Proposed
<1>5. \A x \in DOMAIN Decided(recs) :
        Decided(recs)[x] = (recs[FirstWith(recs, "id", x)].state = "Approved")
  BY DEF Decided
<1>6. Proposed(recs) = [x \in DOMAIN Proposed(recs) |-> Proposed(recs)[x]]
  BY DEF Proposed
<1>7. Decided(recs) = [x \in DOMAIN Decided(recs) |-> Decided(recs)[x]]
  BY DEF Decided
<1> QED  BY <1>1, <1>2, <1>3, <1>4, <1>5, <1>6, <1>7

\* Storing a request under a new id proposes its deed; under a known one it changes nothing.
LEMMA RequestProposes ==
  ASSUME NEW recs \in Seq(Records), NEW r \in Requests
  PROVE  LET recs2 == Append(recs, r)
         IN  /\ FirstWith(recs, "id", r.id) # 0 => Proposed(recs2) = Proposed(recs)
             /\ FirstWith(recs, "id", r.id) = 0 =>
                  /\ r.id \notin DOMAIN Proposed(recs)
                  /\ Proposed(recs2) = Gate!With(Proposed(recs), r.id, DeedOf(r))
             /\ Decided(recs2) = Decided(recs)
<1> DEFINE recs2 == Append(recs, r)
           first(x) == FirstWith(recs, "id", x)
           first2(x) == FirstWith(recs2, "id", x)
           n == Len(recs) + 1
<1>1. r \in Records /\ r.state = "Pending"
  BY RequestIsRecord
<1>2. /\ recs2 \in Seq(Records) /\ recs2[n] = r /\ Len(recs) \in Nat
      /\ \A i \in 1..Len(recs) : recs2[i] = recs[i]
  BY <1>1
<1>3. \A x : first2(x) = IF first(x) # 0 THEN first(x) ELSE IF r["id"] = x THEN n ELSE 0
  BY <1>1, FirstAppended
<1> DEFINE x0 == r.id
<1>4. x0 = r["id"]
  OBVIOUS
<1>5. \A x : first(x) \in 0..Len(recs)
  BY FirstWithSpec
<1>6. \A x : first(x) # 0 => recs2[first2(x)] = recs[first(x)]
  BY <1>2, <1>3, <1>5
<1>7. \A x : first(x) = 0 /\ first2(x) # 0 => x = x0 /\ recs2[first2(x)] = r
  BY <1>2, <1>3, <1>4
<1>8. first2(x0) # 0
  BY <1>2, <1>3, <1>4
<1>9. /\ \A x : /\ x \in DOMAIN Proposed(recs) <=> first(x) # 0
                /\ x \in DOMAIN Decided(recs) <=> first(x) # 0 /\ recs[first(x)].state # "Pending"
      /\ \A x \in DOMAIN Proposed(recs) : Proposed(recs)[x] = DeedOf(recs[first(x)])
      /\ \A x \in DOMAIN Decided(recs) : Decided(recs)[x] = (recs[first(x)].state = "Approved")
      /\ Proposed(recs) = [x \in DOMAIN Proposed(recs) |-> Proposed(recs)[x]]
      /\ Decided(recs) = [x \in DOMAIN Decided(recs) |-> Decided(recs)[x]]
  BY AbstractValues
<1>10. /\ \A x : /\ x \in DOMAIN Proposed(recs2) <=> first2(x) # 0
                 /\ x \in DOMAIN Decided(recs2) <=>
                      first2(x) # 0 /\ recs2[first2(x)].state # "Pending"
       /\ \A x \in DOMAIN Proposed(recs2) : Proposed(recs2)[x] = DeedOf(recs2[first2(x)])
       /\ \A x \in DOMAIN Decided(recs2) :
            Decided(recs2)[x] = (recs2[first2(x)].state = "Approved")
       /\ Proposed(recs2) = [x \in DOMAIN Proposed(recs2) |-> Proposed(recs2)[x]]
       /\ Decided(recs2) = [x \in DOMAIN Decided(recs2) |-> Decided(recs2)[x]]
  <2> HIDE DEF recs2
  <2> QED  BY <1>2, AbstractValues
<1> HIDE DEF recs2, first, first2, n, x0
<1>11. \A x : first2(x) # 0 <=> first(x) # 0 \/ x = x0
  BY <1>3, <1>7, <1>8 DEF n
<1>12. DOMAIN Proposed(recs2) = DOMAIN Proposed(recs) \cup {x0}
  BY <1>9, <1>10, <1>11
<1>13. ASSUME first(x0) # 0 PROVE Proposed(recs2) = Proposed(recs)
  <2>1. DOMAIN Proposed(recs2) = DOMAIN Proposed(recs)
    BY <1>9, <1>12, <1>13
  <2>2. \A x \in DOMAIN Proposed(recs) : Proposed(recs2)[x] = Proposed(recs)[x]
    BY <1>6, <1>9, <1>10, <2>1
  <2> QED  BY <1>9, <1>10, <2>1, <2>2
<1>14. ASSUME first(x0) = 0
       PROVE  /\ x0 \notin DOMAIN Proposed(recs)
              /\ Proposed(recs2) = Gate!With(Proposed(recs), x0, DeedOf(r))
  <2>1. x0 \notin DOMAIN Proposed(recs)
    BY <1>9, <1>14
  <2>2. \A x \in DOMAIN Proposed(recs) : Proposed(recs2)[x] = Proposed(recs)[x]
    BY <1>6, <1>9, <1>10, <1>11
  <2>3. Proposed(recs2)[x0] = DeedOf(r)
    BY <1>7, <1>8, <1>10, <1>14
  <2>4. Proposed(recs2) =
          [x \in DOMAIN Proposed(recs) \cup {x0} |->
             IF x = x0 THEN DeedOf(r) ELSE Proposed(recs)[x]]
    BY <1>10, <1>12, <2>1, <2>2, <2>3
  <2> QED  BY <2>1, <2>4 DEF Gate!With
<1>15. Decided(recs2) = Decided(recs)
  <2>1. \A x : x \in DOMAIN Decided(recs2) <=> x \in DOMAIN Decided(recs)
    <3> TAKE x
    <3>1. CASE first(x) # 0
      BY <1>6, <1>9, <1>10, <1>11, <3>1
    <3>2. CASE first(x) = 0
      BY <1>1, <1>7, <1>9, <1>10, <3>2
    <3> QED  BY <3>1, <3>2
  <2>2. DOMAIN Decided(recs2) = DOMAIN Decided(recs)
    BY <2>1
  <2>3. \A x \in DOMAIN Decided(recs) : Decided(recs2)[x] = Decided(recs)[x]
    BY <1>6, <1>9, <1>10, <2>1
  <2> QED  BY <1>9, <1>10, <2>2, <2>3
<1> QED  BY <1>13, <1>14, <1>15 DEF recs2, first, x0

\* Deciding about an id decides it, once, and changes no deed.
LEMMA DecidingDecides ==
  ASSUME AsTypeOK, NEW id, NEW s \in States \ {"Pending"}, Decides(id, s)
  PROVE  /\ id \in DOMAIN Proposed(records) /\ id \notin DOMAIN Decided(records)
         /\ Proposed(records') = Proposed(records)
         /\ Decided(records') = Gate!With(Decided(records), id, s = "Approved")
<1> DEFINE first(x) == FirstWith(records, "id", x)
           first2(x) == FirstWith(records', "id", x)
           k == first(id)
<1>1. /\ k \in 1..Len(records)
      /\ records[k].id = id /\ records[k].state = "Pending"
      /\ records' \in Seq(Records)
      /\ records'[k] = [records[k] EXCEPT !.state = s]
      /\ \A i \in 1..Len(records) : i # k => records'[i] = records[i]
      /\ \A x : first2(x) = first(x)
  BY SettingState DEF Decides
<1>2. records \in Seq(Records) /\ \A x : first(x) \in 0..Len(records)
  BY FirstWithSpec DEF AsTypeOK
<1>3. records'[k].state = s /\ DeedOf(records'[k]) = DeedOf(records[k])
  <2> HIDE DEF k
  <2>1. records[k] \in Records
    BY <1>1, <1>2
  <2>2. PICK q \in Requests : records[k] = [q EXCEPT !.state = records[k].state]
    BY <2>1, RecordFields
  <2>3. q = [id |-> q.id, actionId |-> q.actionId, action |-> q.action,
             target |-> q.target, expires |-> q.expires, state |-> "Pending"]
    BY RequestsAssumption
  <2> QED  BY <1>1, <2>2, <2>3 DEF DeedOf
<1>4. \A x : first(x) # 0 /\ x # id => first(x) # k
  <2> TAKE x
  <2>1. first(x) # 0 => records[first(x)]["id"] = x
    BY <1>2, FirstWithSpec
  <2>2. records[k]["id"] = id
    BY <1>1
  <2> QED  BY <2>1, <2>2
<1>5. /\ \A x : /\ x \in DOMAIN Proposed(records) <=> first(x) # 0
                /\ x \in DOMAIN Decided(records) <=>
                     first(x) # 0 /\ records[first(x)].state # "Pending"
      /\ \A x \in DOMAIN Proposed(records) : Proposed(records)[x] = DeedOf(records[first(x)])
      /\ \A x \in DOMAIN Decided(records) :
           Decided(records)[x] = (records[first(x)].state = "Approved")
      /\ Proposed(records) = [x \in DOMAIN Proposed(records) |-> Proposed(records)[x]]
  BY <1>2, AbstractValues
<1>6. /\ \A x : /\ x \in DOMAIN Proposed(records') <=> first2(x) # 0
                /\ x \in DOMAIN Decided(records') <=>
                     first2(x) # 0 /\ records'[first2(x)].state # "Pending"
      /\ \A x \in DOMAIN Proposed(records') : Proposed(records')[x] = DeedOf(records'[first2(x)])
      /\ \A x \in DOMAIN Decided(records') :
           Decided(records')[x] = (records'[first2(x)].state = "Approved")
      /\ Proposed(records') = [x \in DOMAIN Proposed(records') |-> Proposed(records')[x]]
      /\ Decided(records') = [x \in DOMAIN Decided(records') |-> Decided(records')[x]]
  BY <1>1, AbstractValues
<1>7. k # 0 /\ k = first(id)
  BY <1>1
<1> HIDE DEF first, first2, k
<1>8. \A x : first(x) # 0 /\ x # id => records'[first(x)] = records[first(x)]
  BY <1>1, <1>2, <1>4
<1>9. id \in DOMAIN Proposed(records) /\ id \notin DOMAIN Decided(records)
  BY <1>1, <1>5, <1>7
<1>10. Proposed(records') = Proposed(records)
  <2>1. DOMAIN Proposed(records') = DOMAIN Proposed(records)
    BY <1>1, <1>5, <1>6
  <2>2. \A x \in DOMAIN Proposed(records) : Proposed(records')[x] = Proposed(records)[x]
    BY <1>1, <1>3, <1>5, <1>6, <1>7, <1>8, <2>1
  <2> QED  BY <1>5, <1>6, <2>1, <2>2
<1>11. Decided(records') = Gate!With(Decided(records), id, s = "Approved")
  <2>1. \A x : x \in DOMAIN Decided(records') <=> x \in DOMAIN Decided(records) \/ x = id
    <3> TAKE x
    <3>1. CASE x = id
      BY <1>1, <1>3, <1>6, <1>7, <3>1
    <3>2. CASE x # id
      BY <1>1, <1>5, <1>6, <1>8, <3>2
    <3> QED  BY <3>1, <3>2
  <2>2. DOMAIN Decided(records') = DOMAIN Decided(records) \cup {id}
    BY <2>1
  <2>3. \A x \in DOMAIN Decided(records) : Decided(records')[x] = Decided(records)[x]
    BY <1>1, <1>5, <1>6, <1>8, <1>9, <2>1
  <2>4. Decided(records')[id] = (s = "Approved")
    <3> DEFINE d == records'[first2(id)].state
    <3>1. d = s
      BY <1>1, <1>3, <1>7
    <3>2. id \in DOMAIN Decided(records')
      BY <2>1
    <3>3. Decided(records')[id] = (d = "Approved")
      BY <1>6, <3>2
    <3> HIDE DEF d
    <3> QED  BY <3>1, <3>3
  <2>5. Decided(records') = [x \in DOMAIN Decided(records) \cup {id} |->
                               IF x = id THEN s = "Approved" ELSE Decided(records)[x]]
    BY <1>6, <1>9, <2>2, <2>3, <2>4
  <2> QED  BY <2>5 DEF Gate!With
<1> QED  BY <1>9, <1>10, <1>11

\* What a helper performs was proposed, decided and granted under the lease's approval id.
LEMMA ExecutingPerforms ==
  ASSUME GateInv, NEW request \in HelperRequests, NEW claims \in Issued,
         NEW node, NEW now, NEW seen, HelperExecute(request, claims, node, now, seen)
  PROVE  \E id \in ApprovalIds : Gate!Perform(id)
<1> DEFINE id == claims.approval
           k == FirstWith(records, "id", id)
           deed == [action |-> request.action, target |-> request.target]
           done == [approval |-> id, action |-> request.action,
                    target |-> request.target, node |-> node, nonce |-> claims.nonce,
                    at |-> now]
<1>1. /\ executed' = Append(executed, done) /\ UNCHANGED asVars
      /\ claims.action = request.action /\ claims.target = request.target
  BY DEF HelperExecute, HelperAccepts
<1>2. /\ k # 0 /\ records[k].state = "Approved" /\ id \in ApprovalIds
      /\ claims.action = records[k].action /\ claims.target = records[k].target
  BY IssuedClaims DEF GateInv
<1>3. records \in Seq(Records) /\ UNCHANGED records
  BY <1>1 DEF GateInv, LeaseInv, AsTypeOK, asVars
<1> HIDE DEF k
<1>4. /\ id \in DOMAIN Proposed(records) /\ id \in DOMAIN Decided(records)
      /\ Proposed(records)[id] = DeedOf(records[k])
      /\ Decided(records)[id] = (records[k].state = "Approved")
  BY <1>2, <1>3, AbstractValues DEF k
<1>5. DeedOf(records[k]) = deed
  BY <1>1, <1>2 DEF DeedOf
<1>6. Performed(executed') = Performed(executed) \cup {[id |-> id, deed |-> deed]}
  <2> DEFINE n == Len(executed)
             Of(d) == [id |-> d.approval, deed |-> [action |-> d.action, target |-> d.target]]
  <2>1. /\ n \in Nat /\ DOMAIN executed = 1..n /\ DOMAIN executed' = 1..(n + 1)
        /\ executed'[n + 1] = done /\ \A i \in 1..n : executed'[i] = executed[i]
    BY <1>1 DEF GateInv
  <2>2. Of(done) = [id |-> id, deed |-> deed]
    OBVIOUS
  <2> HIDE DEF done, deed, id, n, Of
  <2>3. Performed(executed') = {Of(executed'[i]) : i \in 1..(n + 1)}
    BY <2>1 DEF Performed, Of
  <2>4. Performed(executed) = {Of(executed[i]) : i \in 1..n}
    BY <2>1 DEF Performed, Of
  <2>5. ASSUME NEW x
        PROVE  x \in Performed(executed') <=> x \in Performed(executed) \/ x = Of(done)
    <3>1. \A i : i \in 1..(n + 1) <=> i \in 1..n \/ i = n + 1
      BY <2>1
    <3> QED  BY <2>1, <2>3, <2>4, <3>1
  <2> QED  BY <2>2, <2>5
<1> HIDE DEF id, done, deed
<1>7. Gate!Perform(id)
  <2>1. id \in DOMAIN Decided(records) /\ Decided(records)[id]
    BY <1>2, <1>4
  <2>2. Performed(executed') =
          Performed(executed) \cup {[id |-> id, deed |-> Proposed(records)[id]]}
    BY <1>4, <1>5, <1>6
  <2> QED  BY <1>3, <2>1, <2>2 DEF Gate!Perform, Proposed, Decided, Performed, KnownIds, FirstUnder
<1> QED  BY <1>2, <1>7

\* Every step proposes, decides or performs, or changes nothing of the three.
LEMMA GateStepRefines ==
  GateInv /\ [GateNext]_gateVars => [Gate!Next]_(Gate!gateVars)
<1> SUFFICES ASSUME GateInv, [GateNext]_gateVars PROVE [Gate!Next]_(Gate!gateVars)
  OBVIOUS
<1>0. AsTypeOK /\ records \in Seq(Records)
  BY DEF GateInv, LeaseInv, AsTypeOK
<1>1. ASSUME Proposed(records') = Proposed(records), Decided(records') = Decided(records),
             UNCHANGED executed
      PROVE  UNCHANGED Gate!gateVars
  BY <1>1 DEF Gate!gateVars, Proposed, Decided, Performed, KnownIds, FirstUnder
<1>2. ASSUME NEW r \in Requests, Request(r), UNCHANGED executed
      PROVE  [Gate!Next]_(Gate!gateVars)
  <2>1. records' = Append(records, r)
    BY <1>2 DEF Request
  <2>2. Decided(records') = Decided(records)
    BY <1>0, <2>1, RequestProposes
  <2>3. CASE FirstWith(records, "id", r.id) # 0
    <3>1. Proposed(records') = Proposed(records)
      BY <1>0, <2>1, <2>3, RequestProposes
    <3> QED  BY <1>1, <1>2, <2>2, <3>1
  <2>4. CASE FirstWith(records, "id", r.id) = 0
    <3>1. /\ r.id \notin DOMAIN Proposed(records)
          /\ Proposed(records') = Gate!With(Proposed(records), r.id, DeedOf(r))
      BY <1>0, <2>1, <2>4, RequestProposes
    <3>2. Gate!Propose(r.id, DeedOf(r))
      BY <1>2, <2>2, <3>1
      DEF Gate!Propose, Proposed, Decided, Performed, KnownIds, FirstUnder
    <3>3. r.id \in ApprovalIds /\ DeedOf(r) \in {DeedOf(q) : q \in Requests}
      BY DEF ApprovalIds
    <3> QED  BY <3>2, <3>3 DEF Gate!Next
  <2> QED  BY <2>3, <2>4
<1>3. ASSUME NEW id \in ApprovalIds, NEW s \in States \ {"Pending"}, Decides(id, s),
             UNCHANGED executed
      PROVE  [Gate!Next]_(Gate!gateVars)
  <2> DEFINE granted == s = "Approved"
  <2>1. /\ id \in DOMAIN Proposed(records) /\ id \notin DOMAIN Decided(records)
        /\ Proposed(records') = Proposed(records)
        /\ Decided(records') = Gate!With(Decided(records), id, granted)
    BY <1>0, <1>3, DecidingDecides
  <2>2. granted \in BOOLEAN
    OBVIOUS
  <2> HIDE DEF granted
  <2>3. Gate!Decide(id, granted)
    BY <1>3, <2>1 DEF Gate!Decide, Proposed, Decided, Performed, KnownIds, FirstUnder
  <2> QED  BY <2>2, <2>3 DEF Gate!Next
<1>4. CASE AsNext /\ UNCHANGED executed
  <2>1. CASE UNCHANGED records
    BY <1>1, <1>4, <2>1
  <2> QED  BY <1>2, <1>3, <1>4, <2>1, StepsOfRecords
<1>5. ASSUME NEW request \in HelperRequests, NEW claims \in Issued,
             NEW node \in HelperNodes, NEW now \in Times, NEW seen \in SUBSET Nonces,
             HelperExecute(request, claims, node, now, seen)
      PROVE  [Gate!Next]_(Gate!gateVars)
  <2>1. PICK id \in ApprovalIds : Gate!Perform(id)
    BY <1>5, ExecutingPerforms
  <2> QED  BY <2>1 DEF Gate!Next
<1>6. CASE UNCHANGED gateVars
  BY <1>1, <1>6 DEF gateVars, asVars
<1> QED  BY <1>4, <1>5, <1>6 DEF GateNext

\* Store and helper are a gated action: decided once, and performed as proposed and granted.
THEOREM ActionIsGated == GateSpec => ImplementsGatedAction
<1>1. GateInit => Gate!Init
  <2> SUFFICES ASSUME GateInit PROVE Gate!Init
    OBVIOUS
  <2>1. records = <<>> /\ executed = <<>> /\ DOMAIN records = {} /\ DOMAIN executed = {}
    BY DEF GateInit, AsInit
  <2>2. Performed(executed) = {}
    BY <2>1 DEF Performed
  <2>3. /\ Proposed(records) = [x \in {} |-> Proposed(records)[x]]
        /\ Decided(records) = [x \in {} |-> Decided(records)[x]]
    BY <2>1 DEF Proposed, Decided
  <2>4. Proposed(records) = <<>> /\ Decided(records) = <<>>
    BY <2>3, EmptyFunction
  <2> QED  BY <2>2, <2>4 DEF Gate!Init, Proposed, Decided, Performed, KnownIds, FirstUnder
<1> QED  BY <1>1, GateStepRefines, GateInvariant, PTL DEF GateSpec, ImplementsGatedAction, Gate!Spec

===============================================================================
