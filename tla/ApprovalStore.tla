----------------------------- MODULE ApprovalStore -----------------------------
(***************************************************************************)
(* The approval store (src/crates/runlane-core/src/approval.rs) and the    *)
(* Telegram adapter in front of it (telegram.rs).  Operators approve,      *)
(* reject, expire and supersede requests; approving one returns the claims *)
(* of a capability lease, which the caller signs for the helper.           *)
(*                                                                         *)
(* Every call names the approval by id and carries its own time.  The      *)
(* store does not compare the id of a new request with those it holds.     *)
(*                                                                         *)
(* Abstractions.  A record is what decides its fate and what the lease     *)
(* claims are made of; proposal, run, layer, impact, verification and      *)
(* evidence are left out.  "target" stands for the action target, of which *)
(* the node is a part (node_from_target).                                  *)
(***************************************************************************)
EXTENDS Lookup

CONSTANTS
  Requests,       \* approval requests, as ApprovalRecord::new makes them
  HelperActions,  \* the action kinds a helper can perform
  NodeOf(_),      \* the node a target is on
  Actors,         \* who decides from the command line
  Chats, ActorOf, \* Telegram identities, and the actor each one authorized speaks for
  Entries,        \* allowlist entry ids an approval may name
  Nonces,         \* lease nonces an approval may carry
  Times,
  MaxRequests, MaxAdapterRejections \* bounds of the model

ApprovalIds == {r.id : r \in Requests}
ActionIds == {r.actionId : r \in Requests}
States == {"Pending", "Approved", "Rejected", "Expired", "Superseded"}

ASSUME RequestsAssumption ==
  \A r \in Requests :
    /\ r = [id |-> r.id, actionId |-> r.actionId, action |-> r.action, target |-> r.target,
            expires |-> r.expires, state |-> "Pending"]
    /\ r.expires \in Nat

ASSUME OperatorsAssumption ==
  /\ DOMAIN ActorOf \subseteq Chats
  /\ \A c \in DOMAIN ActorOf : ActorOf[c] \in Actors

ASSUME ApprovalBounds == Times \subseteq Nat /\ {MaxRequests, MaxAdapterRejections} \subseteq Nat

VARIABLES
  records,  \* Vec<ApprovalRecord>, never shrinks
  decisions, \* the AuditLedger of the store
  leases    \* history: the claims approve() returned, with the time it was called at

asVars == <<records, decisions, leases>>

-----------------------------------------------------------------------------
(* Audit events.                                                           *)

ApprovalRequested(r) == [kind |-> "ApprovalRequested", id |-> r.id, actionId |-> r.actionId]
ApprovalDecision(id, actor, outcome) ==
  [kind |-> "ApprovalDecision", id |-> id, actor |-> actor, outcome |-> outcome]
ApprovalExpired(id) == [kind |-> "ApprovalExpired", id |-> id]
ApprovalSuperseded(id, by) == [kind |-> "ApprovalSuperseded", id |-> id, by |-> by]
ApprovalAdapterRejected == [kind |-> "ApprovalAdapterRejected"]

-----------------------------------------------------------------------------
(* Operations.                                                             *)

Request(r) ==
  /\ Len(records) < MaxRequests
  /\ decisions' = Append(decisions, ApprovalRequested(r))
  /\ records' = Append(records, r)
  /\ UNCHANGED leases

\* Mutant: only the expiry is looked at.
NotStale(id, now) ==
  LET k == FirstWith(records, "id", id)
  IN  k # 0 /\ records[k].expires > now

PendingNotStale(id, now) ==
  LET k == FirstWith(records, "id", id)
  IN  k # 0 /\ records[k].state = "Pending" /\ records[k].expires > now

\* Mutant: every record under the id is set.
SetStateOfAll(id, state) ==
  records' = [i \in DOMAIN records |->
                IF records[i].id = id THEN [records[i] EXCEPT !.state = state] ELSE records[i]]

SetState(id, state) ==
  records' = [records EXCEPT ![FirstWith(records, "id", id)].state = state]

Claims(record, entry, nonce) ==
  [lease |-> record.id, approval |-> record.id, node |-> NodeOf(record.target),
   action |-> record.action, target |-> record.target, entry |-> entry,
   expires |-> record.expires, nonce |-> nonce]

\* Mutant: the action the operator meant is not compared with the record's.
ApproveUnchecked(id, expectedAction, actor, now, entry, nonce) ==
  LET record == records[FirstWith(records, "id", id)]
  IN  /\ PendingNotStale(id, now)
      /\ record.action \in HelperActions
      /\ SetState(id, "Approved")
      /\ decisions' = Append(decisions, ApprovalDecision(id, actor, "Approved"))
      /\ leases' = Append(leases, [claims |-> Claims(record, entry, nonce),
                                   meant |-> expectedAction, at |-> now])

\* The lease's id is "lease-" and the approval's id, so the two say the same.
Approve(id, expectedAction, actor, now, entry, nonce) ==
  LET record == records[FirstWith(records, "id", id)]
  IN  /\ PendingNotStale(id, now)
      /\ record.actionId = expectedAction
      /\ record.action \in HelperActions
      /\ SetState(id, "Approved")
      /\ decisions' = Append(decisions, ApprovalDecision(id, actor, "Approved"))
      /\ leases' = Append(leases, [claims |-> Claims(record, entry, nonce),
                                   meant |-> expectedAction, at |-> now])

Reject(id, actor, now) ==
  /\ PendingNotStale(id, now)
  /\ SetState(id, "Rejected")
  /\ decisions' = Append(decisions, ApprovalDecision(id, actor, "Rejected"))
  /\ UNCHANGED leases

\* Mutant: the state is named after the error a late decision gets.
ExpireAsStale(id, now) ==
  LET k == FirstWith(records, "id", id)
  IN  /\ k # 0
      /\ records[k].state = "Pending"
      /\ records[k].expires <= now
      /\ SetState(id, "StaleApproval")
      /\ decisions' = Append(decisions, ApprovalExpired(id))
      /\ UNCHANGED leases

Expire(id, now) ==
  LET k == FirstWith(records, "id", id)
  IN  /\ k # 0
      /\ records[k].state = "Pending"
      /\ records[k].expires <= now
      /\ SetState(id, "Expired")
      /\ decisions' = Append(decisions, ApprovalExpired(id))
      /\ UNCHANGED leases

\* Mutant: the newer approval is the one that is superseded.
SupersedeNewer(id, by) ==
  LET k == FirstWith(records, "id", id)
  IN  /\ k # 0
      /\ records[k].state = "Pending"
      /\ SetState(by, "Superseded")
      /\ decisions' = Append(decisions, ApprovalSuperseded(id, by))
      /\ UNCHANGED leases

\* Nothing is asked of the id that supersedes: it need not be known or pending.
Supersede(id, by) ==
  LET k == FirstWith(records, "id", id)
  IN  /\ k # 0
      /\ records[k].state = "Pending"
      /\ SetState(id, "Superseded")
      /\ decisions' = Append(decisions, ApprovalSuperseded(id, by))
      /\ UNCHANGED leases

AdapterRejections == SelectSeq(decisions, LAMBDA ev : ev = ApprovalAdapterRejected)

RecordAdapterRejection ==
  /\ Len(AdapterRejections) < MaxAdapterRejections
  /\ decisions' = Append(decisions, ApprovalAdapterRejected)
  /\ UNCHANGED <<records, leases>>

-----------------------------------------------------------------------------
(* The Telegram adapter.  List and show change nothing; approve first      *)
(* looks the approval up and expects the action it finds there.            *)

TelegramRefused(chat) == chat \notin DOMAIN ActorOf /\ RecordAdapterRejection

TelegramApprove(chat, id, now, entry, nonce) ==
  LET k == FirstWith(records, "id", id)
  IN  /\ chat \in DOMAIN ActorOf
      /\ k # 0
      /\ Approve(id, records[k].actionId, ActorOf[chat], now, entry, nonce)

TelegramReject(chat, id, now) ==
  /\ chat \in DOMAIN ActorOf
  /\ Reject(id, ActorOf[chat], now)

-----------------------------------------------------------------------------

AsInit ==
  /\ records = <<>>
  /\ decisions = <<>>
  /\ leases = <<>>

AsNext ==
  \/ \E r \in Requests : Request(r)
  \/ \E id \in ApprovalIds, a \in ActionIds, actor \in Actors, now \in Times,
        entry \in Entries, nonce \in Nonces : Approve(id, a, actor, now, entry, nonce)
  \/ \E id \in ApprovalIds, actor \in Actors, now \in Times : Reject(id, actor, now)
  \/ \E id \in ApprovalIds, now \in Times : Expire(id, now)
  \/ \E id, by \in ApprovalIds : Supersede(id, by)
  \/ \E chat \in Chats : TelegramRefused(chat)
  \/ \E chat \in Chats, id \in ApprovalIds, now \in Times, entry \in Entries,
        nonce \in Nonces : TelegramApprove(chat, id, now, entry, nonce)
  \/ \E chat \in Chats, id \in ApprovalIds, now \in Times : TelegramReject(chat, id, now)

AsSpec == AsInit /\ [][AsNext]_asVars

-----------------------------------------------------------------------------
(* What the store promises its operators.                                  *)

Records == {[r EXCEPT !.state = s] : r \in Requests, s \in States}

DecisionEvents ==
  {ApprovalRequested(r) : r \in Requests} \cup
  {ApprovalDecision(id, a, outcome) :
     id \in ApprovalIds, a \in Actors, outcome \in {"Approved", "Rejected"}} \cup
  {ApprovalExpired(id) : id \in ApprovalIds} \cup
  {ApprovalSuperseded(id, by) : id, by \in ApprovalIds} \cup
  {ApprovalAdapterRejected}

IssuedLeases ==
  {[claims |-> Claims(r, entry, nonce), meant |-> a, at |-> now] :
     r \in Requests, entry \in Entries, nonce \in Nonces, a \in ActionIds, now \in Times}

\* Records, events and lease claims are made of what requests and operators supplied.
AsTypeOK ==
  /\ records \in Seq(Records)
  /\ decisions \in Seq(DecisionEvents)
  /\ leases \in Seq(IssuedLeases)

\* An approval id yields at most one lease, although requests may repeat an id,
\* operators race, and the clock a call carries may run backwards (approval.rs,
\* approve).
LeasedOnce ==
  \A i, j \in DOMAIN leases : leases[i].claims.approval = leases[j].claims.approval => i = j

\* A lease gives what was asked for and approved: the record its approval id leads to
\* is Approved, is for the action the operator meant, binds the lease's action, target
\* and expiry, and had not expired when it was approved (approval.rs, approve).
LeaseIsWhatWasApproved ==
  \A i \in DOMAIN leases :
    LET lease == leases[i]
        k == FirstWith(records, "id", lease.claims.approval)
    IN  /\ k # 0
        /\ records[k].state = "Approved"
        /\ records[k].actionId = lease.meant
        /\ lease.claims = Claims(records[k], lease.claims.entry, lease.claims.nonce)
        /\ lease.at < records[k].expires

\* The audit ledger tells the state of every approval: the record that an id leads to
\* is in the state the one decision event about that id says, or pending if there is
\* none; a later request under the same id stays pending whatever is decided
\* (approval.rs, index_of and append_event).
DecisionKinds == {"ApprovalDecision", "ApprovalExpired", "ApprovalSuperseded"}

DecisionsAbout(id) ==
  {i \in DOMAIN decisions : decisions[i].kind \in DecisionKinds /\ decisions[i].id = id}

StateSaidBy(ev) ==
  CASE ev.kind = "ApprovalDecision" -> ev.outcome
    [] ev.kind = "ApprovalExpired" -> "Expired"
    [] ev.kind = "ApprovalSuperseded" -> "Superseded"

DecisionsExplainStates ==
  \A k \in DOMAIN records :
    LET about == DecisionsAbout(records[k].id)
    IN  IF FirstWith(records, "id", records[k].id) = k /\ about # {}
        THEN \E i \in about : about = {i} /\ records[k].state = StateSaidBy(decisions[i])
        ELSE records[k].state = "Pending"

\* A decision is final: no operator, no clock and no later request changes a record
\* that is not pending, and nothing but the state of a pending one ever changes.
DecisionIsFinal ==
  [][\A k \in DOMAIN records :
       \/ records'[k] = records[k]
       \/ /\ records[k].state = "Pending"
          /\ records'[k] = [records[k] EXCEPT !.state = records'[k].state]]_asVars

===============================================================================
