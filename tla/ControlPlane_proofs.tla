------------------------- MODULE ControlPlane_proofs -------------------------
(***************************************************************************)
(* Proofs about ControlPlane, for every fleet, every set of tokens, tasks  *)
(* and results, and every bound.                                           *)
(***************************************************************************)
EXTENDS ControlPlane, Lookup_proofs

-----------------------------------------------------------------------------
(* Types.  A record of a constant set is a member of the set its fields    *)
(* are compared over; the handlers only append members, or move one entry  *)
(* of the queue to the list of pulled tasks.                               *)

\* A task is refused only because it has expired: the queue is searched by node and the
\* server passes no nonces (pull_task).
LEMMA RefusedBecauseExpired ==
  ASSUME TypeOK, NEW id \in Identities, NEW now,
         PullOutcome(id, now) \notin {"UnknownAgent", "AgentIdentityMismatch", "NoTaskAvailable"}
  PROVE  LET k == FirstWith(pendingTasks, "node", id.node)
         IN  /\ k \in 1..Len(pendingTasks)
             /\ pendingTasks[k] \in Envelopes
             /\ PullOutcome(id, now) = "TaskEnvelopeRejected" =>
                  EnvelopeRejection(pendingTasks[k], id.node, now, {}) = "ExpiredEnvelope"
<1> DEFINE k == FirstWith(pendingTasks, "node", id.node)
<1>1. k \in 0..Len(pendingTasks) /\ (k # 0 => pendingTasks[k]["node"] = id.node)
  BY FirstWithSpec DEF TypeOK
<1>2. AuthOutcome(id) \in {"Ok", "UnknownAgent", "AgentIdentityMismatch"}
  BY DEF AuthOutcome
<1>3. AuthOutcome(id) = "Ok" /\ k # 0
  BY <1>2 DEF PullOutcome
<1>4. k \in 1..Len(pendingTasks)
  BY <1>1, <1>3 DEF TypeOK
<1>5. pendingTasks[k] \in Envelopes
  BY <1>4 DEF TypeOK
<1>6. EnvelopeRejection(pendingTasks[k], id.node, now, {}) \in {"None", "ExpiredEnvelope"}
  BY <1>1, <1>3 DEF EnvelopeRejection
<1>7. QED
  BY <1>3, <1>4, <1>5, <1>6 DEF PullOutcome

\* Every handler keeps the vectors well typed.
LEMMA TypePreserved == TypeOK /\ [CpNext]_cpVars => TypeOK'
<1> SUFFICES ASSUME TypeOK, [CpNext]_cpVars PROVE TypeOK'
  OBVIOUS
<1>1. ASSUME NEW t \in Tokens, CreateEnrollmentToken(t) PROVE TypeOK'
  <2>1. EnrollmentTokenCreated(t) \in LedgerEvents
    BY DEF LedgerEvents
  <2>2. QED
    BY <1>1, <2>1 DEF CreateEnrollmentToken, TypeOK
<1>2. ASSUME NEW r \in Enrollments, NEW now \in Times, EnrollAgent(r, now) PROVE TypeOK'
  <2> DEFINE record == [node |-> r.node, platform |-> r.platform, cert |-> r.cert]
  <2>1. record \in Agents /\ AgentEnrolled(record) \in LedgerEvents
    BY DEF LedgerEvents, Agents
  <2>2. QED
    BY <1>2, <2>1 DEF EnrollAgent, TypeOK
<1>3. ASSUME NEW e \in Envelopes, EnqueueTask(e) PROVE TypeOK'
  BY <1>3 DEF EnqueueTask, TypeOK
<1>4. ASSUME NEW id \in Identities, NEW now \in Times, PullTask(id, now) PROVE TypeOK'
  <2> DEFINE k == FirstWith(pendingTasks, "node", id.node)
  <2>1. k \in 1..Len(pendingTasks) /\ pendingTasks[k] \in Envelopes
    BY <1>4, RefusedBecauseExpired DEF PullTask
  <2>2. CASE PullOutcome(id, now) = "TaskEnvelopeRejected" /\ RefuseTask(id, now)
    <3>1. EnvelopeRejection(pendingTasks[k], id.node, now, {}) = "ExpiredEnvelope"
      BY <2>2, RefusedBecauseExpired
    <3>2. AgentTaskRejected(id.node, "ExpiredEnvelope") \in RejectionEvents
      BY DEF RejectionEvents, Nodes
    <3>3. QED
      BY <2>2, <3>1, <3>2 DEF RefuseTask, Refused, TypeOK
  <2>3. CASE HandOutTask(id)
    <3>1. AgentTaskPulled(pendingTasks[k]) \in LedgerEvents
      BY <2>1 DEF LedgerEvents
    <3>2. RemoveAt(pendingTasks, k) \in Seq(Envelopes)
      BY <2>1, RemoveAtType DEF TypeOK
    <3>3. QED
      BY <2>1, <2>3, <3>1, <3>2 DEF HandOutTask, TypeOK
  <2>4. QED
    BY <1>4, <2>2, <2>3 DEF PullTask
<1>5. ASSUME NEW id \in Identities, NEW s \in Submissions, NEW now \in Times,
             SubmitResult(id, s, now)
      PROVE  TypeOK'
  <2>1. ASSUME NEW reason \in AuditedRejections, RefuseResult(s, reason) PROVE TypeOK'
    <3>1. AgentResultRejected(s, reason) \in RejectionEvents
      BY DEF RejectionEvents
    <3>2. QED
      BY <2>1, <3>1 DEF RefuseResult, Refused, TypeOK
  <2>2. CASE AcceptResult(s)
    <3>1. AgentResultAccepted(s) \in LedgerEvents
      BY DEF LedgerEvents
    <3>2. QED
      BY <2>2, <3>1 DEF AcceptResult, TypeOK
  <2>3. QED
    BY <1>5, <2>1, <2>2 DEF SubmitResult
<1>6. ASSUME NEW s \in SpoolItems, SpoolResult(s) PROVE TypeOK'
  <2>1. AgentResultSpooled(s) \in LedgerEvents
    BY DEF LedgerEvents
  <2>2. QED
    BY <1>6, <2>1 DEF SpoolResult, TypeOK
<1>7. CASE UNCHANGED cpVars
  BY <1>7 DEF cpVars, TypeOK
<1>8. QED
  BY <1>1, <1>2, <1>3, <1>4, <1>5, <1>6, <1>7 DEF CpNext

\* Every reachable state of the control plane is well typed.
THEOREM TypeCorrect == CpSpec => []TypeOK
<1>1. CpInit => TypeOK
  BY DEF CpInit, TypeOK
<1>2. TypeOK /\ [CpNext]_cpVars => TypeOK'
  BY TypePreserved
<1>3. QED
  BY <1>1, <1>2, PTL DEF CpSpec

-----------------------------------------------------------------------------
(* Acceptance.  AcceptedOncePerEnvelope is not inductive by itself: it     *)
(* needs to know that the nonce list mirrors the accepted results and that *)
(* each accepted result agrees with the FIRST pulled task under its        *)
(* envelope id, the one submit_result will find again.                     *)

\* The nonce list holds the nonces of the accepted results.
NoncesMirrorResults ==
  /\ Len(acceptedResultNonces) = Len(acceptedResults)
  /\ \A i \in 1..Len(acceptedResults) : acceptedResultNonces[i] = acceptedResults[i].nonce

AnswersFirstPulled(s) ==
  LET k == FirstWith(pulledTasks, "id", s.envelope)
  IN  k # 0 /\ AnswersPulledTask(s, pulledTasks[k])

AcceptanceInv ==
  /\ NoncesMirrorResults
  /\ \A i \in 1..Len(acceptedResults) : AnswersFirstPulled(acceptedResults[i])
  /\ \A i, j \in 1..Len(acceptedResults) :
       acceptedResults[i].envelope = acceptedResults[j].envelope => i = j

\* What the checks of submit_result establish when none of them fails.
LEMMA AcceptedMeans ==
  ASSUME TypeOK, NEW id, NEW s \in Submissions, NEW now, SubmitOutcome(id, s, now) = "Accepted"
  PROVE  s.nonce \notin ToSet(acceptedResultNonces) /\ AnswersFirstPulled(s)
<1> DEFINE k == FirstWith(pulledTasks, "id", s.envelope)
<1>1. k \in 0..Len(pulledTasks) /\ (k # 0 => pulledTasks[k]["id"] = s.envelope)
  BY FirstWithSpec DEF TypeOK
<1>2. AuthOutcome(id) # "Accepted"
  BY DEF AuthOutcome
<1>3. QED
  BY <1>1, <1>2 DEF SubmitOutcome, AnswersFirstPulled, AnswersPulledTask

\* Every handler preserves what acceptance once per envelope rests on.
LEMMA AcceptancePreserved == TypeOK /\ AcceptanceInv /\ [CpNext]_cpVars => AcceptanceInv'
<1> SUFFICES ASSUME TypeOK, AcceptanceInv, [CpNext]_cpVars PROVE AcceptanceInv'
  OBVIOUS
<1>1. CASE UNCHANGED <<pulledTasks, acceptedResultNonces, acceptedResults>>
  BY <1>1 DEF AcceptanceInv, NoncesMirrorResults, AnswersFirstPulled
<1>2. ASSUME NEW id \in Identities, HandOutTask(id), NEW e \in Envelopes,
             pulledTasks' = Append(pulledTasks, e)
      PROVE  AcceptanceInv'
  <2>1. UNCHANGED <<acceptedResultNonces, acceptedResults>>
    BY <1>2 DEF HandOutTask
  <2>2. ASSUME NEW s \in Submissions, AnswersFirstPulled(s) PROVE AnswersFirstPulled(s)'
    <3> DEFINE k == FirstWith(pulledTasks, "id", s.envelope)
    <3>1. k # 0 /\ AnswersPulledTask(s, pulledTasks[k])
      BY <2>2 DEF AnswersFirstPulled
    <3>2. pulledTasks \in Seq(Envelopes)
      BY DEF TypeOK
    <3>3. /\ FirstWith(Append(pulledTasks, e), "id", s.envelope) = k
          /\ Append(pulledTasks, e)[k] = pulledTasks[k]
      <4>1. FirstWith(pulledTasks, "id", s.envelope) # 0
        BY <3>1
      <4>2. e \in Envelopes
        BY <1>2
      <4>3. ASSUME NEW x, FirstWith(pulledTasks, "id", x) # 0
            PROVE  /\ FirstWith(Append(pulledTasks, e), "id", x) = FirstWith(pulledTasks, "id", x)
                   /\ Append(pulledTasks, e)[FirstWith(pulledTasks, "id", x)]
                        = pulledTasks[FirstWith(pulledTasks, "id", x)]
        BY <4>2, <4>3, <3>2, FirstIsStable, Zenon
      <4>4. QED
        BY <4>1, <4>3
    <3> HIDE DEF k
    <3>4. FirstWith(pulledTasks', "id", s.envelope) = k /\ pulledTasks'[k] = pulledTasks[k]
      BY <1>2, <3>3
    <3>5. QED
      BY <3>1, <3>4 DEF AnswersFirstPulled, AnswersPulledTask
  <2>3. \A i \in 1..Len(acceptedResults) : acceptedResults[i] \in Submissions
    BY DEF TypeOK
  <2>4. QED
    BY <2>1, <2>2, <2>3 DEF AcceptanceInv, NoncesMirrorResults
<1>3. ASSUME NEW id \in Identities, NEW s \in Submissions, NEW now \in Times,
             SubmitOutcome(id, s, now) = "Accepted", AcceptResult(s)
      PROVE  AcceptanceInv'
  <2>1. s.nonce \notin ToSet(acceptedResultNonces) /\ AnswersFirstPulled(s)
    BY <1>3, AcceptedMeans
  <2>2. /\ acceptedResults' = Append(acceptedResults, s)
        /\ acceptedResultNonces' = Append(acceptedResultNonces, s.nonce)
        /\ pulledTasks' = pulledTasks
    BY <1>3 DEF AcceptResult
  <2>3. /\ Len(acceptedResults) \in Nat
        /\ Len(acceptedResults') = Len(acceptedResults) + 1
        /\ acceptedResults'[Len(acceptedResults) + 1] = s
        /\ \A i \in 1..Len(acceptedResults) : acceptedResults'[i] = acceptedResults[i]
    BY <2>2 DEF TypeOK
  <2>4. NoncesMirrorResults'
    <3>1. /\ Len(acceptedResultNonces') = Len(acceptedResultNonces) + 1
          /\ acceptedResultNonces'[Len(acceptedResultNonces) + 1] = s.nonce
          /\ \A i \in 1..Len(acceptedResultNonces) :
               acceptedResultNonces'[i] = acceptedResultNonces[i]
      BY <2>2 DEF TypeOK
    <3>2. QED
      BY <2>3, <3>1 DEF AcceptanceInv, NoncesMirrorResults
  <2>5. \A i \in 1..Len(acceptedResults') : AnswersFirstPulled(acceptedResults[i])'
    BY <2>1, <2>2 DEF AcceptanceInv, AnswersFirstPulled, TypeOK
  <2>6. \A i \in 1..Len(acceptedResults) : acceptedResults[i].envelope # s.envelope
    <3> SUFFICES ASSUME NEW i \in 1..Len(acceptedResults),
                        acceptedResults[i].envelope = s.envelope
                 PROVE  FALSE
      OBVIOUS
    <3>1. acceptedResults[i].nonce = s.nonce
      BY <2>1 DEF AcceptanceInv, AnswersFirstPulled, AnswersPulledTask
    <3>2. i \in DOMAIN acceptedResultNonces /\ acceptedResultNonces[i] = s.nonce
      BY <3>1 DEF AcceptanceInv, NoncesMirrorResults, TypeOK
    <3>3. QED
      BY <2>1, <3>2 DEF ToSet
  <2>7. \A i, j \in 1..Len(acceptedResults') :
          acceptedResults'[i].envelope = acceptedResults'[j].envelope => i = j
    <3> SUFFICES ASSUME NEW i \in 1..Len(acceptedResults'), NEW j \in 1..Len(acceptedResults'),
                        acceptedResults'[i].envelope = acceptedResults'[j].envelope
                 PROVE  i = j
      OBVIOUS
    <3> DEFINE n == Len(acceptedResults)
    <3>1. n \in Nat /\ i \in 1..(n + 1) /\ j \in 1..(n + 1)
      BY <2>3
    <3>2. CASE i \in 1..n /\ j \in 1..n
      BY <2>3, <3>2 DEF AcceptanceInv
    <3>3. CASE i = n + 1 /\ j \in 1..n
      BY <2>6, <2>3, <3>3
    <3>4. CASE i \in 1..n /\ j = n + 1
      BY <2>6, <2>3, <3>4
    <3>5. QED
      BY <3>1, <3>2, <3>3, <3>4
  <2>8. QED
    BY <2>4, <2>5, <2>7 DEF AcceptanceInv
<1>4. ASSUME NEW id \in Identities, NEW now \in Times, PullTask(id, now) PROVE AcceptanceInv'
  <2>1. CASE HandOutTask(id)
    <3>1. pendingTasks[FirstWith(pendingTasks, "node", id.node)] \in Envelopes
      BY <1>4, RefusedBecauseExpired DEF PullTask
    <3>2. QED
      BY <2>1, <3>1, <1>2 DEF HandOutTask
  <2>2. CASE RefuseTask(id, now)
    BY <2>2, <1>1 DEF RefuseTask
  <2>3. QED
    BY <1>4, <2>1, <2>2 DEF PullTask
<1>5. ASSUME NEW id \in Identities, NEW s \in Submissions, NEW now \in Times,
             SubmitResult(id, s, now)
      PROVE  AcceptanceInv'
  <2>1. ASSUME NEW reason, RefuseResult(s, reason) PROVE AcceptanceInv'
    BY <2>1, <1>1 DEF RefuseResult
  <2>2. QED
    BY <1>3, <1>5, <2>1 DEF SubmitResult
<1>6. QED
  BY <1>1, <1>4, <1>5
  DEF CpNext, cpVars, CreateEnrollmentToken, EnrollAgent, EnqueueTask, SpoolResult

\* The strengthened invariant holds in every reachable state.
THEOREM Acceptance == CpSpec => []AcceptanceInv
<1>1. CpInit => AcceptanceInv
  BY DEF CpInit, AcceptanceInv, NoncesMirrorResults
<1>2. TypeOK /\ AcceptanceInv /\ [CpNext]_cpVars => AcceptanceInv'
  BY AcceptancePreserved
<1>3. QED
  BY <1>1, <1>2, TypeCorrect, PTL DEF CpSpec

\* However often tasks are enqueued, pulled and answered again, an envelope has at most
\* one accepted result.
THEOREM AcceptedOnce == CpSpec => []AcceptedOncePerEnvelope
<1>1. ASSUME TypeOK, AcceptanceInv PROVE AcceptedOncePerEnvelope
  <2>1. DOMAIN acceptedResults = 1..Len(acceptedResults)
    BY <1>1 DEF TypeOK
  <2>2. QED
    BY <1>1, <2>1 DEF AcceptanceInv, AcceptedOncePerEnvelope
<1>2. QED
  BY <1>1, TypeCorrect, Acceptance, PTL

\* Every accepted result carries the run, task and nonce of a task that was pulled under
\* its envelope id.
THEOREM AcceptedAnswers == CpSpec => []AcceptedAnswersPulled
<1>1. ASSUME TypeOK, AcceptanceInv PROVE AcceptedAnswersPulled
  <2> SUFFICES ASSUME NEW i \in DOMAIN acceptedResults
               PROVE  \E k \in DOMAIN pulledTasks :
                        AnswersPulledTask(acceptedResults[i], pulledTasks[k])
    BY DEF AcceptedAnswersPulled
  <2>0. DOMAIN acceptedResults = 1..Len(acceptedResults)
    BY <1>1 DEF TypeOK
  <2>1. AnswersFirstPulled(acceptedResults[i])
    BY <1>1, <2>0 DEF AcceptanceInv
  <2>2. FirstWith(pulledTasks, "id", acceptedResults[i].envelope) \in 0..Len(pulledTasks)
    BY <1>1, FirstWithSpec DEF TypeOK
  <2>3. QED
    BY <1>1, <2>1, <2>2 DEF AnswersFirstPulled, TypeOK
<1>2. QED
  BY <1>1, TypeCorrect, Acceptance, PTL

-----------------------------------------------------------------------------

\* The certificate that speaks for an enrolled node never changes.
THEOREM IdentityIsStable == CpSpec => IdentityNeverChanges
<1>1. ASSUME TypeOK, [CpNext]_cpVars, NEW n \in Nodes, CertOf(n) # {} PROVE CertOf(n)' = CertOf(n)
  <2>1. CASE UNCHANGED agents
    BY <2>1 DEF CertOf
  <2>2. ASSUME NEW r \in Enrollments, NEW now \in Times, EnrollAgent(r, now)
        PROVE  CertOf(n)' = CertOf(n)
    <3> DEFINE record == [node |-> r.node, platform |-> r.platform, cert |-> r.cert]
    <3>1. record \in Agents /\ agents' = Append(agents, record)
      BY <2>2 DEF EnrollAgent, Agents
    <3>2. FirstWith(agents, "node", n) # 0
      BY <1>1 DEF CertOf
    <3>3. agents \in Seq(Agents)
      BY <1>1 DEF TypeOK
    <3> DEFINE k == FirstWith(agents, "node", n)
    <3>4. /\ FirstWith(Append(agents, record), "node", n) = k
          /\ Append(agents, record)[k] = agents[k]
      <4> HIDE DEF record
      <4>1. QED
        BY <3>1, <3>2, <3>3, FirstIsStable, Zenon
    <3> HIDE DEF k, record
    <3>5. CertOf(n) = {agents[k].cert} /\ CertOf(n)' = {agents'[k].cert}
      BY <3>1, <3>2, <3>4 DEF CertOf, k
    <3>6. QED
      BY <3>1, <3>4, <3>5
  <2>3. QED
    BY <1>1, <2>1, <2>2
    DEF CpNext, cpVars, CreateEnrollmentToken, EnqueueTask, PullTask, RefuseTask, HandOutTask,
        SubmitResult, RefuseResult, AcceptResult, SpoolResult
<1>2. TypeOK /\ [CpNext]_cpVars
        => [\A n \in Nodes : CertOf(n) # {} => CertOf(n)' = CertOf(n)]_cpVars
  BY <1>1
<1>3. QED
  BY <1>2, TypeCorrect, PTL DEF CpSpec, IdentityNeverChanges

-----------------------------------------------------------------------------
(* Queues.  A handler appends to the queue's end, or moves the first task  *)
(* of a node from the queue to the end of what was pulled: then the first  *)
(* of the node's queued tasks becomes the last of its pulled ones.         *)

LEMMA QueuesPreserved == TypeOK /\ QueueIsFifoPerNode /\ [CpNext]_cpVars => QueueIsFifoPerNode'
<1> SUFFICES ASSUME TypeOK, QueueIsFifoPerNode, [CpNext]_cpVars PROVE QueueIsFifoPerNode'
  OBVIOUS
<1>0. pendingTasks \in Seq(Envelopes) /\ pulledTasks \in Seq(Envelopes) /\ enqueued \in Seq(Envelopes)
  BY DEF TypeOK
<1>1. ASSUME NEW n \in Nodes
      PROVE  /\ OfNode(pulledTasks, n) \in Seq(Envelopes)
             /\ OfNode(pendingTasks, n) \in Seq(Envelopes)
             /\ OfNode(pulledTasks, n) \o OfNode(pendingTasks, n) = OfNode(enqueued, n)
  BY <1>0, AllWithType DEF OfNode, QueueIsFifoPerNode
<1>2. CASE UNCHANGED <<pendingTasks, pulledTasks, enqueued>>
  BY <1>2 DEF QueueIsFifoPerNode
<1>3. ASSUME NEW e \in Envelopes, EnqueueTask(e) PROVE QueueIsFifoPerNode'
  <2> SUFFICES ASSUME NEW n \in Nodes
               PROVE  OfNode(pulledTasks', n) \o OfNode(pendingTasks', n) = OfNode(enqueued', n)
    BY DEF QueueIsFifoPerNode
  <2>1. /\ pulledTasks' = pulledTasks
        /\ pendingTasks' = Append(pendingTasks, e)
        /\ enqueued' = Append(enqueued, e)
    BY <1>3 DEF EnqueueTask
  <2>2. OfNode(pendingTasks', n) =
          IF e["node"] = n THEN Append(OfNode(pendingTasks, n), e) ELSE OfNode(pendingTasks, n)
    BY <1>0, <2>1, AllWithAppend DEF OfNode
  <2>3. OfNode(enqueued', n) =
          IF e["node"] = n THEN Append(OfNode(enqueued, n), e) ELSE OfNode(enqueued, n)
    BY <1>0, <2>1, AllWithAppend DEF OfNode
  <2>4. OfNode(pulledTasks, n) \o Append(OfNode(pendingTasks, n), e) =
          Append(OfNode(pulledTasks, n) \o OfNode(pendingTasks, n), e)
    BY <1>1, ConcatAppend
  <2> QED  BY <1>1, <2>1, <2>2, <2>3, <2>4
<1>4. ASSUME NEW id \in Identities, NEW now \in Times, PullTask(id, now) PROVE QueueIsFifoPerNode'
  <2> DEFINE k == FirstWith(pendingTasks, "node", id.node)
             e == pendingTasks[k]
  <2>1. k \in 1..Len(pendingTasks) /\ e \in Envelopes
    BY <1>4, RefusedBecauseExpired DEF PullTask
  <2>2. CASE HandOutTask(id)
    <3> SUFFICES ASSUME NEW n \in Nodes
                 PROVE  OfNode(pulledTasks', n) \o OfNode(pendingTasks', n) = OfNode(enqueued', n)
      BY DEF QueueIsFifoPerNode
    <3> DEFINE done == OfNode(pulledTasks, n)
               left == OfNode(RemoveAt(pendingTasks, k), n)
    <3>1. /\ pulledTasks' = Append(pulledTasks, e)
          /\ pendingTasks' = RemoveAt(pendingTasks, k)
          /\ enqueued' = enqueued
      BY <2>2 DEF HandOutTask
    <3>2. /\ k # 0 => e["node"] = id.node
          /\ k # 0
      BY <1>0, <2>1, FirstWithSpec
    <3>3. /\ OfNode(pendingTasks, id.node) = <<e>> \o OfNode(RemoveAt(pendingTasks, k), id.node)
          /\ \A m : m # id.node => OfNode(RemoveAt(pendingTasks, k), m) = OfNode(pendingTasks, m)
      BY <1>0, <3>2, AllWithRemoveFirst DEF OfNode
    <3>4. OfNode(Append(pulledTasks, e), n) = IF e["node"] = n THEN Append(done, e) ELSE done
      <4> HIDE DEF e
      <4> QED  BY <1>0, <2>1, AllWithAppend DEF OfNode
    <3>5. left \in Seq(Envelopes) /\ done \in Seq(Envelopes)
      <4>1. RemoveAt(pendingTasks, k) \in Seq(Envelopes)
        BY <1>0, <2>1, RemoveAtType
      <4> QED  BY <1>1, <4>1, AllWithType DEF OfNode
    <3> HIDE DEF k, e, done, left
    <3>6. CASE n = id.node
      <4>1. Append(done, e) = done \o <<e>>
        BY <2>1, <3>5, AppendIsConcat
      <4>2. <<e>> \in Seq(Envelopes)
        BY <2>1
      <4>3. (done \o <<e>>) \o left = done \o (<<e>> \o left)
        BY <3>5, <4>2, ConcatAssociative
      <4> QED  BY <1>1, <3>1, <3>2, <3>3, <3>4, <3>6, <4>1, <4>3 DEF done, left
    <3>7. CASE n # id.node
      BY <1>1, <3>1, <3>2, <3>3, <3>4, <3>7 DEF done, left
    <3> QED  BY <3>6, <3>7
  <2>3. CASE RefuseTask(id, now)
    BY <2>3, <1>2 DEF RefuseTask
  <2> QED  BY <1>4, <2>2, <2>3 DEF PullTask
<1>5. ASSUME NEW id \in Identities, NEW s \in Submissions, NEW now \in Times,
             SubmitResult(id, s, now)
      PROVE  QueueIsFifoPerNode'
  BY <1>5, <1>2 DEF SubmitResult, RefuseResult, AcceptResult
<1> QED  BY <1>2, <1>3, <1>4, <1>5
  DEF CpNext, cpVars, CreateEnrollmentToken, EnrollAgent, SpoolResult

\* Pulling loses, duplicates and reorders nothing, whoever pulls and whatever is refused.
THEOREM QueuesAreFifo == CpSpec => []QueueIsFifoPerNode
<1>1. CpInit => QueueIsFifoPerNode
  <2>1. \A n : OfNode(<<>>, n) = <<>>
    BY AllWithEmpty DEF OfNode
  <2>2. << >> \o << >> = << >>
    OBVIOUS
  <2> QED  BY <2>1, <2>2 DEF CpInit, QueueIsFifoPerNode
<1> QED  BY <1>1, QueuesPreserved, TypeCorrect, PTL DEF CpSpec

-----------------------------------------------------------------------------
(* The ledger.                                                             *)

\* What appending an event does to the events of each kind.
LEMMA EventsAfter ==
  ASSUME TypeOK, NEW ev \in LedgerEvents, ledger' = Append(ledger, ev), NEW kind
  PROVE  EventsOf(kind)' = IF ev["kind"] = kind THEN Append(EventsOf(kind), ev) ELSE EventsOf(kind)
<1>1. ledger \in Seq(LedgerEvents)
  BY DEF TypeOK
<1>2. EventsOf(kind)' = AllWith(Append(ledger, ev), "kind", kind)
  BY DEF EventsOf
<1> QED  BY <1>1, <1>2, AllWithAppend DEF EventsOf

\* Every task that was pulled has its event.
PullsAreRecorded ==
  \A k \in 1..Len(pulledTasks) : \E j \in 1..Len(ledger) :
    ledger[j] = AgentTaskPulled(pulledTasks[k])

LedgerInv == LedgerExplainsState /\ PullsAreRecorded

\* An event that belongs to no vector yet is appended with the entry it records.
LEMMA RecordedAppend ==
  ASSUME NEW T, NEW m \in Seq(T), NEW d \in T, NEW w \in [1..(Len(m) + 1) -> T],
         \A i \in 1..Len(m) : w[i] = m[i], w[Len(m) + 1] = d
  PROVE  w = Append(m, d)
<1>1. /\ Append(m, d) \in Seq(T) /\ Len(Append(m, d)) = Len(m) + 1 /\ Len(m) \in Nat
      /\ \A i \in 1..Len(m) : Append(m, d)[i] = m[i]
      /\ Append(m, d)[Len(m) + 1] = d
  OBVIOUS
<1>2. w \in Seq(T) /\ Len(w) = Len(m) + 1
  BY <1>1
<1>3. ASSUME NEW i \in 1..(Len(m) + 1) PROVE w[i] = Append(m, d)[i]
  <2>1. i = Len(m) + 1 \/ i \in 1..Len(m)
    BY <1>1
  <2> QED  BY <1>1, <2>1
<1> QED  BY <1>1, <1>2, <1>3, SeqEqual

\* An event appended later leaves the order of the earlier ones alone.
LEMMA OrderAfter ==
  ASSUME TypeOK, PulledBeforeAccepted, NEW ev \in LedgerEvents, ledger' = Append(ledger, ev),
         ev.kind = "AgentResultAccepted" =>
           \E j \in 1..Len(ledger) :
             ledger[j].kind = "AgentTaskPulled" /\ ledger[j].envelope = ev.envelope
  PROVE  PulledBeforeAccepted'
<1> DEFINE n == Len(ledger)
<1>1. /\ n \in Nat /\ DOMAIN ledger = 1..n /\ DOMAIN ledger' = 1..(n + 1)
      /\ ledger'[n + 1] = ev /\ \A i \in 1..n : ledger'[i] = ledger[i]
  BY DEF TypeOK
<1> HIDE DEF n
<1> SUFFICES ASSUME NEW i \in 1..(n + 1), ledger'[i].kind = "AgentResultAccepted"
             PROVE  \E j \in 1..(i - 1) :
                      ledger'[j].kind = "AgentTaskPulled" /\ ledger'[j].envelope = ledger'[i].envelope
  BY <1>1 DEF PulledBeforeAccepted
<1>2. CASE i = n + 1
  <2>1. PICK j \in 1..n : ledger[j].kind = "AgentTaskPulled" /\ ledger[j].envelope = ev.envelope
    BY <1>1, <1>2 DEF n
  <2> QED  BY <1>1, <1>2, <2>1
<1>3. CASE i # n + 1
  <2>1. i \in 1..n /\ ledger'[i] = ledger[i]
    BY <1>1, <1>3
  <2>2. PICK j \in 1..(i - 1) :
          ledger[j].kind = "AgentTaskPulled" /\ ledger[j].envelope = ledger[i].envelope
    BY <1>1, <2>1 DEF PulledBeforeAccepted
  <2>3. j \in 1..n
    BY <1>1, <2>1
  <2> QED  BY <1>1, <2>1, <2>2, <2>3
<1> QED  BY <1>2, <1>3

\* A recorded pull stays recorded.
LEMMA PullsStayRecorded ==
  ASSUME TypeOK, PullsAreRecorded, NEW ev \in LedgerEvents, ledger' = Append(ledger, ev),
         UNCHANGED pulledTasks
  PROVE  PullsAreRecorded'
<1>1. /\ Len(ledger') = Len(ledger) + 1 /\ Len(ledger) \in Nat
      /\ \A i \in 1..Len(ledger) : ledger'[i] = ledger[i]
  BY DEF TypeOK
<1>2. \A j \in 1..Len(ledger) : j \in 1..Len(ledger')
  BY <1>1
<1> QED  BY <1>1, <1>2 DEF PullsAreRecorded

\* A new entry of enrollmentTokens keeps that vector and its events alike.
LEMMA TokensRecordedAfter ==
  ASSUME TypeOK, TokensRecorded, NEW e \in Tokens, enrollmentTokens' = Append(enrollmentTokens, e),
         EnrollmentTokenCreated(e) \in LedgerEvents, ledger' = Append(ledger, EnrollmentTokenCreated(e))
  PROVE  TokensRecorded'
<1> DEFINE ev == EnrollmentTokenCreated(e)
           w == [i \in 1..(Len(enrollmentTokens) + 1) |-> EnrollmentTokenCreated(Append(enrollmentTokens, e)[i])]
           m == EventsOf("EnrollmentTokenCreated")
<1>1. enrollmentTokens \in Seq(Tokens) /\ ev["kind"] = "EnrollmentTokenCreated"
  BY DEF TypeOK, EnrollmentTokenCreated
<1>2. m \in Seq(LedgerEvents)
  BY AllWithType DEF TypeOK, EventsOf
<1>3. m = [i \in 1..Len(enrollmentTokens) |-> EnrollmentTokenCreated(enrollmentTokens[i])]
  BY <1>1 DEF TokensRecorded
<1>4. Len(m) = Len(enrollmentTokens) /\ \A i \in 1..Len(enrollmentTokens) : m[i] = EnrollmentTokenCreated(enrollmentTokens[i])
  BY <1>1, <1>2, <1>3
<1>5. \A i \in 1..Len(enrollmentTokens) : Append(enrollmentTokens, e)[i] = enrollmentTokens[i]
  BY <1>1
<1>6. /\ \A i \in 1..(Len(enrollmentTokens) + 1) : w[i] = EnrollmentTokenCreated(Append(enrollmentTokens, e)[i])
      /\ Append(enrollmentTokens, e)[Len(enrollmentTokens) + 1] = e
      /\ Len(enrollmentTokens) \in Nat
  BY <1>1
<1>7. w = Append(m, ev)
  <2>1. /\ \A i \in 1..Len(m) : w[i] = m[i]
        /\ w[Len(m) + 1] = ev
        /\ ev \in LedgerEvents
        /\ DOMAIN w = 1..(Len(m) + 1) /\ w = [i \in DOMAIN w |-> w[i]]
    BY <1>4, <1>5, <1>6
  <2> HIDE DEF w, m, ev
  <2>2. w \in [1..(Len(m) + 1) -> LedgerEvents]
    <3>1. ASSUME NEW i \in 1..(Len(m) + 1) PROVE w[i] \in LedgerEvents
      <4>1. Len(m) \in Nat /\ \A j \in 1..Len(m) : m[j] \in LedgerEvents
        BY <1>2
      <4>2. i = Len(m) + 1 \/ i \in 1..Len(m)
        BY <4>1
      <4> QED  BY <2>1, <4>1, <4>2
    <3> QED  BY <2>1, <3>1
  <2> QED  BY <1>2, <2>1, <2>2, RecordedAppend
<1>8. m' = Append(m, ev)
  BY <1>1, EventsAfter
<1>9. DOMAIN (enrollmentTokens') = 1..(Len(enrollmentTokens) + 1)
  BY <1>1
<1> QED  BY <1>7, <1>8, <1>9 DEF TokensRecorded

\* A new entry of agents keeps that vector and its events alike.
LEMMA AgentsRecordedAfter ==
  ASSUME TypeOK, AgentsRecorded, NEW e \in Agents, agents' = Append(agents, e),
         AgentEnrolled(e) \in LedgerEvents, ledger' = Append(ledger, AgentEnrolled(e))
  PROVE  AgentsRecorded'
<1> DEFINE ev == AgentEnrolled(e)
           w == [i \in 1..(Len(agents) + 1) |-> AgentEnrolled(Append(agents, e)[i])]
           m == EventsOf("AgentEnrolled")
<1>1. agents \in Seq(Agents) /\ ev["kind"] = "AgentEnrolled"
  BY DEF TypeOK, AgentEnrolled
<1>2. m \in Seq(LedgerEvents)
  BY AllWithType DEF TypeOK, EventsOf
<1>3. m = [i \in 1..Len(agents) |-> AgentEnrolled(agents[i])]
  BY <1>1 DEF AgentsRecorded
<1>4. Len(m) = Len(agents) /\ \A i \in 1..Len(agents) : m[i] = AgentEnrolled(agents[i])
  BY <1>1, <1>2, <1>3
<1>5. \A i \in 1..Len(agents) : Append(agents, e)[i] = agents[i]
  BY <1>1
<1>6. /\ \A i \in 1..(Len(agents) + 1) : w[i] = AgentEnrolled(Append(agents, e)[i])
      /\ Append(agents, e)[Len(agents) + 1] = e
      /\ Len(agents) \in Nat
  BY <1>1
<1>7. w = Append(m, ev)
  <2>1. /\ \A i \in 1..Len(m) : w[i] = m[i]
        /\ w[Len(m) + 1] = ev
        /\ ev \in LedgerEvents
        /\ DOMAIN w = 1..(Len(m) + 1) /\ w = [i \in DOMAIN w |-> w[i]]
    BY <1>4, <1>5, <1>6
  <2> HIDE DEF w, m, ev
  <2>2. w \in [1..(Len(m) + 1) -> LedgerEvents]
    <3>1. ASSUME NEW i \in 1..(Len(m) + 1) PROVE w[i] \in LedgerEvents
      <4>1. Len(m) \in Nat /\ \A j \in 1..Len(m) : m[j] \in LedgerEvents
        BY <1>2
      <4>2. i = Len(m) + 1 \/ i \in 1..Len(m)
        BY <4>1
      <4> QED  BY <2>1, <4>1, <4>2
    <3> QED  BY <2>1, <3>1
  <2> QED  BY <1>2, <2>1, <2>2, RecordedAppend
<1>8. m' = Append(m, ev)
  BY <1>1, EventsAfter
<1>9. DOMAIN (agents') = 1..(Len(agents) + 1)
  BY <1>1
<1> QED  BY <1>7, <1>8, <1>9 DEF AgentsRecorded

\* A new entry of pulledTasks keeps that vector and its events alike.
LEMMA PullsRecordedAfter ==
  ASSUME TypeOK, PullsRecorded, NEW e \in Envelopes, pulledTasks' = Append(pulledTasks, e),
         AgentTaskPulled(e) \in LedgerEvents, ledger' = Append(ledger, AgentTaskPulled(e))
  PROVE  PullsRecorded'
<1> DEFINE ev == AgentTaskPulled(e)
           w == [i \in 1..(Len(pulledTasks) + 1) |-> AgentTaskPulled(Append(pulledTasks, e)[i])]
           m == EventsOf("AgentTaskPulled")
<1>1. pulledTasks \in Seq(Envelopes) /\ ev["kind"] = "AgentTaskPulled"
  BY DEF TypeOK, AgentTaskPulled
<1>2. m \in Seq(LedgerEvents)
  BY AllWithType DEF TypeOK, EventsOf
<1>3. m = [i \in 1..Len(pulledTasks) |-> AgentTaskPulled(pulledTasks[i])]
  BY <1>1 DEF PullsRecorded
<1>4. Len(m) = Len(pulledTasks) /\ \A i \in 1..Len(pulledTasks) : m[i] = AgentTaskPulled(pulledTasks[i])
  BY <1>1, <1>2, <1>3
<1>5. \A i \in 1..Len(pulledTasks) : Append(pulledTasks, e)[i] = pulledTasks[i]
  BY <1>1
<1>6. /\ \A i \in 1..(Len(pulledTasks) + 1) : w[i] = AgentTaskPulled(Append(pulledTasks, e)[i])
      /\ Append(pulledTasks, e)[Len(pulledTasks) + 1] = e
      /\ Len(pulledTasks) \in Nat
  BY <1>1
<1>7. w = Append(m, ev)
  <2>1. /\ \A i \in 1..Len(m) : w[i] = m[i]
        /\ w[Len(m) + 1] = ev
        /\ ev \in LedgerEvents
        /\ DOMAIN w = 1..(Len(m) + 1) /\ w = [i \in DOMAIN w |-> w[i]]
    BY <1>4, <1>5, <1>6
  <2> HIDE DEF w, m, ev
  <2>2. w \in [1..(Len(m) + 1) -> LedgerEvents]
    <3>1. ASSUME NEW i \in 1..(Len(m) + 1) PROVE w[i] \in LedgerEvents
      <4>1. Len(m) \in Nat /\ \A j \in 1..Len(m) : m[j] \in LedgerEvents
        BY <1>2
      <4>2. i = Len(m) + 1 \/ i \in 1..Len(m)
        BY <4>1
      <4> QED  BY <2>1, <4>1, <4>2
    <3> QED  BY <2>1, <3>1
  <2> QED  BY <1>2, <2>1, <2>2, RecordedAppend
<1>8. m' = Append(m, ev)
  BY <1>1, EventsAfter
<1>9. DOMAIN (pulledTasks') = 1..(Len(pulledTasks) + 1)
  BY <1>1
<1> QED  BY <1>7, <1>8, <1>9 DEF PullsRecorded

\* A new entry of acceptedResults keeps that vector and its events alike.
LEMMA ResultsRecordedAfter ==
  ASSUME TypeOK, ResultsRecorded, NEW e \in Submissions, acceptedResults' = Append(acceptedResults, e),
         AgentResultAccepted(e) \in LedgerEvents, ledger' = Append(ledger, AgentResultAccepted(e))
  PROVE  ResultsRecorded'
<1> DEFINE ev == AgentResultAccepted(e)
           w == [i \in 1..(Len(acceptedResults) + 1) |-> AgentResultAccepted(Append(acceptedResults, e)[i])]
           m == EventsOf("AgentResultAccepted")
<1>1. acceptedResults \in Seq(Submissions) /\ ev["kind"] = "AgentResultAccepted"
  BY DEF TypeOK, AgentResultAccepted
<1>2. m \in Seq(LedgerEvents)
  BY AllWithType DEF TypeOK, EventsOf
<1>3. m = [i \in 1..Len(acceptedResults) |-> AgentResultAccepted(acceptedResults[i])]
  BY <1>1 DEF ResultsRecorded
<1>4. Len(m) = Len(acceptedResults) /\ \A i \in 1..Len(acceptedResults) : m[i] = AgentResultAccepted(acceptedResults[i])
  BY <1>1, <1>2, <1>3
<1>5. \A i \in 1..Len(acceptedResults) : Append(acceptedResults, e)[i] = acceptedResults[i]
  BY <1>1
<1>6. /\ \A i \in 1..(Len(acceptedResults) + 1) : w[i] = AgentResultAccepted(Append(acceptedResults, e)[i])
      /\ Append(acceptedResults, e)[Len(acceptedResults) + 1] = e
      /\ Len(acceptedResults) \in Nat
  BY <1>1
<1>7. w = Append(m, ev)
  <2>1. /\ \A i \in 1..Len(m) : w[i] = m[i]
        /\ w[Len(m) + 1] = ev
        /\ ev \in LedgerEvents
        /\ DOMAIN w = 1..(Len(m) + 1) /\ w = [i \in DOMAIN w |-> w[i]]
    BY <1>4, <1>5, <1>6
  <2> HIDE DEF w, m, ev
  <2>2. w \in [1..(Len(m) + 1) -> LedgerEvents]
    <3>1. ASSUME NEW i \in 1..(Len(m) + 1) PROVE w[i] \in LedgerEvents
      <4>1. Len(m) \in Nat /\ \A j \in 1..Len(m) : m[j] \in LedgerEvents
        BY <1>2
      <4>2. i = Len(m) + 1 \/ i \in 1..Len(m)
        BY <4>1
      <4> QED  BY <2>1, <4>1, <4>2
    <3> QED  BY <2>1, <3>1
  <2> QED  BY <1>2, <2>1, <2>2, RecordedAppend
<1>8. m' = Append(m, ev)
  BY <1>1, EventsAfter
<1>9. DOMAIN (acceptedResults') = 1..(Len(acceptedResults) + 1)
  BY <1>1
<1> QED  BY <1>7, <1>8, <1>9 DEF ResultsRecorded

\* A new entry of spooledResults keeps that vector and its events alike.
LEMMA SpoolRecordedAfter ==
  ASSUME TypeOK, SpoolRecorded, NEW e \in SpoolItems, spooledResults' = Append(spooledResults, e),
         AgentResultSpooled(e) \in LedgerEvents, ledger' = Append(ledger, AgentResultSpooled(e))
  PROVE  SpoolRecorded'
<1> DEFINE ev == AgentResultSpooled(e)
           w == [i \in 1..(Len(spooledResults) + 1) |-> AgentResultSpooled(Append(spooledResults, e)[i])]
           m == EventsOf("AgentResultSpooled")
<1>1. spooledResults \in Seq(SpoolItems) /\ ev["kind"] = "AgentResultSpooled"
  BY DEF TypeOK, AgentResultSpooled
<1>2. m \in Seq(LedgerEvents)
  BY AllWithType DEF TypeOK, EventsOf
<1>3. m = [i \in 1..Len(spooledResults) |-> AgentResultSpooled(spooledResults[i])]
  BY <1>1 DEF SpoolRecorded
<1>4. Len(m) = Len(spooledResults) /\ \A i \in 1..Len(spooledResults) : m[i] = AgentResultSpooled(spooledResults[i])
  BY <1>1, <1>2, <1>3
<1>5. \A i \in 1..Len(spooledResults) : Append(spooledResults, e)[i] = spooledResults[i]
  BY <1>1
<1>6. /\ \A i \in 1..(Len(spooledResults) + 1) : w[i] = AgentResultSpooled(Append(spooledResults, e)[i])
      /\ Append(spooledResults, e)[Len(spooledResults) + 1] = e
      /\ Len(spooledResults) \in Nat
  BY <1>1
<1>7. w = Append(m, ev)
  <2>1. /\ \A i \in 1..Len(m) : w[i] = m[i]
        /\ w[Len(m) + 1] = ev
        /\ ev \in LedgerEvents
        /\ DOMAIN w = 1..(Len(m) + 1) /\ w = [i \in DOMAIN w |-> w[i]]
    BY <1>4, <1>5, <1>6
  <2> HIDE DEF w, m, ev
  <2>2. w \in [1..(Len(m) + 1) -> LedgerEvents]
    <3>1. ASSUME NEW i \in 1..(Len(m) + 1) PROVE w[i] \in LedgerEvents
      <4>1. Len(m) \in Nat /\ \A j \in 1..Len(m) : m[j] \in LedgerEvents
        BY <1>2
      <4>2. i = Len(m) + 1 \/ i \in 1..Len(m)
        BY <4>1
      <4> QED  BY <2>1, <4>1, <4>2
    <3> QED  BY <2>1, <3>1
  <2> QED  BY <1>2, <2>1, <2>2, RecordedAppend
<1>8. m' = Append(m, ev)
  BY <1>1, EventsAfter
<1>9. DOMAIN (spooledResults') = 1..(Len(spooledResults) + 1)
  BY <1>1
<1> QED  BY <1>7, <1>8, <1>9 DEF SpoolRecorded

\* An event of another kind leaves a vector and its events alike.
LEMMA StaysRecorded ==
  ASSUME TypeOK, NEW ev \in LedgerEvents, ledger' = Append(ledger, ev)
  PROVE  /\ TokensRecorded /\ ev["kind"] # "EnrollmentTokenCreated" /\ UNCHANGED enrollmentTokens => TokensRecorded'
         /\ AgentsRecorded /\ ev["kind"] # "AgentEnrolled" /\ UNCHANGED agents => AgentsRecorded'
         /\ PullsRecorded /\ ev["kind"] # "AgentTaskPulled" /\ UNCHANGED pulledTasks => PullsRecorded'
         /\ ResultsRecorded /\ ev["kind"] # "AgentResultAccepted" /\ UNCHANGED acceptedResults => ResultsRecorded'
         /\ SpoolRecorded /\ ev["kind"] # "AgentResultSpooled" /\ UNCHANGED spooledResults => SpoolRecorded'
<1>1. ev["kind"] # "EnrollmentTokenCreated" => EventsOf("EnrollmentTokenCreated")' = EventsOf("EnrollmentTokenCreated")
  BY EventsAfter
<1>2. ev["kind"] # "AgentEnrolled" => EventsOf("AgentEnrolled")' = EventsOf("AgentEnrolled")
  BY EventsAfter
<1>3. ev["kind"] # "AgentTaskPulled" => EventsOf("AgentTaskPulled")' = EventsOf("AgentTaskPulled")
  BY EventsAfter
<1>4. ev["kind"] # "AgentResultAccepted" => EventsOf("AgentResultAccepted")' = EventsOf("AgentResultAccepted")
  BY EventsAfter
<1>5. ev["kind"] # "AgentResultSpooled" => EventsOf("AgentResultSpooled")' = EventsOf("AgentResultSpooled")
  BY EventsAfter
<1> QED  BY <1>1, <1>2, <1>3, <1>4, <1>5 DEF TokensRecorded, AgentsRecorded, PullsRecorded, ResultsRecorded, SpoolRecorded

\* Every handler that changes a vector appends the event that records the change.
LEMMA LedgerPreserved == TypeOK /\ AcceptanceInv /\ LedgerInv /\ [CpNext]_cpVars => LedgerInv'
<1> SUFFICES ASSUME TypeOK, AcceptanceInv, LedgerInv, [CpNext]_cpVars PROVE LedgerInv'
  OBVIOUS
<1> USE DEF LedgerInv, LedgerExplainsState
<1>1. CASE UNCHANGED <<enrollmentTokens, agents, pulledTasks, acceptedResults, spooledResults, ledger>>
  BY <1>1 DEF TokensRecorded, AgentsRecorded, PullsRecorded, ResultsRecorded, SpoolRecorded,
              PulledBeforeAccepted, PullsAreRecorded, EventsOf
<1>2. ASSUME NEW ev \in LedgerEvents, ledger' = Append(ledger, ev),
             ev["kind"] # "AgentResultAccepted", ev["kind"] # "AgentTaskPulled",
             UNCHANGED <<pulledTasks, acceptedResults>>
      PROVE  /\ PullsRecorded' /\ ResultsRecorded' /\ PulledBeforeAccepted' /\ PullsAreRecorded'
             /\ ev["kind"] # "EnrollmentTokenCreated" /\ UNCHANGED enrollmentTokens => TokensRecorded'
             /\ ev["kind"] # "AgentEnrolled" /\ UNCHANGED agents => AgentsRecorded'
             /\ ev["kind"] # "AgentResultSpooled" /\ UNCHANGED spooledResults => SpoolRecorded'
  BY <1>2, StaysRecorded, OrderAfter, PullsStayRecorded
<1>3. ASSUME NEW t \in Tokens, CreateEnrollmentToken(t) PROVE LedgerInv'
  <2> DEFINE ev == EnrollmentTokenCreated(t)
  <2>1. ev \in LedgerEvents /\ ev["kind"] = "EnrollmentTokenCreated" /\ ledger' = Append(ledger, ev)
    BY <1>3 DEF CreateEnrollmentToken, LedgerEvents, EnrollmentTokenCreated
  <2>2. TokensRecorded'
    BY <1>3, <2>1, TokensRecordedAfter DEF CreateEnrollmentToken
  <2> HIDE DEF ev
  <2> QED  BY <1>2, <1>3, <2>1, <2>2 DEF CreateEnrollmentToken
<1>4. ASSUME NEW r \in Enrollments, NEW now \in Times, EnrollAgent(r, now) PROVE LedgerInv'
  <2> DEFINE record == [node |-> r.node, platform |-> r.platform, cert |-> r.cert]
             ev == AgentEnrolled(record)
  <2>1. /\ record \in Agents
        /\ ev \in LedgerEvents /\ ev["kind"] = "AgentEnrolled" /\ ledger' = Append(ledger, ev)
        /\ agents' = Append(agents, record)
    BY <1>4 DEF EnrollAgent, LedgerEvents, Agents, AgentEnrolled
  <2>2. AgentsRecorded'
    <3> HIDE DEF record
    <3> QED  BY <2>1, AgentsRecordedAfter
  <2> HIDE DEF ev
  <2> QED  BY <1>2, <1>4, <2>1, <2>2 DEF EnrollAgent
<1>5. ASSUME NEW s \in SpoolItems, SpoolResult(s) PROVE LedgerInv'
  <2> DEFINE ev == AgentResultSpooled(s)
  <2>1. ev \in LedgerEvents /\ ev["kind"] = "AgentResultSpooled" /\ ledger' = Append(ledger, ev)
    BY <1>5 DEF SpoolResult, LedgerEvents, AgentResultSpooled
  <2>2. SpoolRecorded'
    BY <1>5, <2>1, SpoolRecordedAfter DEF SpoolResult
  <2> HIDE DEF ev
  <2> QED  BY <1>2, <1>5, <2>1, <2>2 DEF SpoolResult
<1>6. ASSUME NEW id \in Identities, NEW now \in Times, PullTask(id, now) PROVE LedgerInv'
  <2> DEFINE e == pendingTasks[FirstWith(pendingTasks, "node", id.node)]
             ev == AgentTaskPulled(e)
  <2>1. e \in Envelopes
    BY <1>6, RefusedBecauseExpired DEF PullTask
  <2>2. CASE HandOutTask(id)
    <3>1. /\ ev \in LedgerEvents /\ ev["kind"] = "AgentTaskPulled" /\ ev.kind = "AgentTaskPulled"
          /\ ledger' = Append(ledger, ev) /\ pulledTasks' = Append(pulledTasks, e)
          /\ UNCHANGED <<enrollmentTokens, agents, acceptedResults, spooledResults>>
      BY <2>1, <2>2 DEF HandOutTask, LedgerEvents, AgentTaskPulled
    <3> HIDE DEF e
    <3>2. PullsRecorded'
      BY <2>1, <3>1, PullsRecordedAfter
    <3>3. PullsAreRecorded'
      <4>1. /\ ledger'[Len(ledger) + 1] = ev /\ \A j \in 1..Len(ledger) : ledger'[j] = ledger[j]
            /\ Len(ledger) \in Nat /\ Len(ledger') = Len(ledger) + 1
        BY <3>1 DEF TypeOK
      <4>2. /\ pulledTasks'[Len(pulledTasks) + 1] = e
            /\ \A k \in 1..Len(pulledTasks) : pulledTasks'[k] = pulledTasks[k]
            /\ Len(pulledTasks) \in Nat /\ Len(pulledTasks') = Len(pulledTasks) + 1
        BY <2>1, <3>1 DEF TypeOK
      <4> SUFFICES ASSUME NEW k \in 1..Len(pulledTasks')
                   PROVE  \E j \in 1..Len(ledger') : ledger'[j] = AgentTaskPulled(pulledTasks'[k])
        BY DEF PullsAreRecorded
      <4>3. CASE k = Len(pulledTasks) + 1
        <5>1. Len(ledger) + 1 \in 1..Len(ledger')
          BY <4>1
        <5> QED  BY <4>1, <4>2, <4>3, <5>1
      <4>4. CASE k # Len(pulledTasks) + 1
        <5>1. k \in 1..Len(pulledTasks)
          BY <4>2, <4>4
        <5>2. PICK j \in 1..Len(ledger) : ledger[j] = AgentTaskPulled(pulledTasks[k])
          BY <5>1 DEF PullsAreRecorded
        <5>3. j \in 1..Len(ledger') /\ ledger'[j] = AgentTaskPulled(pulledTasks'[k])
          BY <4>1, <4>2, <5>1, <5>2
        <5> QED  BY <5>3
      <4> QED  BY <4>3, <4>4
    <3> HIDE DEF ev
    <3>4. TokensRecorded' /\ AgentsRecorded' /\ ResultsRecorded' /\ SpoolRecorded'
      BY <3>1, StaysRecorded
    <3>5. PulledBeforeAccepted'
      BY <3>1, OrderAfter
    <3> QED  BY <3>2, <3>3, <3>4, <3>5
  <2>3. CASE RefuseTask(id, now)
    BY <2>3, <1>1 DEF RefuseTask
  <2> QED  BY <1>6, <2>2, <2>3 DEF PullTask
<1>7. ASSUME NEW id \in Identities, NEW s \in Submissions, NEW now \in Times,
             SubmitResult(id, s, now)
      PROVE  LedgerInv'
  <2>1. ASSUME NEW reason, RefuseResult(s, reason) PROVE LedgerInv'
    BY <2>1, <1>1 DEF RefuseResult
  <2>2. CASE SubmitOutcome(id, s, now) = "Accepted" /\ AcceptResult(s)
    <3> DEFINE ev == AgentResultAccepted(s)
               k == FirstWith(pulledTasks, "id", s.envelope)
    <3>1. /\ ev \in LedgerEvents /\ ev["kind"] = "AgentResultAccepted"
          /\ ev.kind = "AgentResultAccepted" /\ ev.envelope = s.envelope
          /\ ledger' = Append(ledger, ev) /\ acceptedResults' = Append(acceptedResults, s)
          /\ UNCHANGED <<enrollmentTokens, agents, pulledTasks, spooledResults>>
      BY <2>2 DEF AcceptResult, LedgerEvents, AgentResultAccepted
    <3>2. ResultsRecorded'
      BY <3>1, ResultsRecordedAfter
    <3>3. k \in 1..Len(pulledTasks) /\ pulledTasks[k].id = s.envelope
      <4>1. k # 0 /\ s.envelope = pulledTasks[k].id
        BY <2>2, AcceptedMeans DEF AnswersFirstPulled, AnswersPulledTask
      <4>2. k \in 0..Len(pulledTasks)
        BY FirstWithSpec DEF TypeOK
      <4> QED  BY <4>1, <4>2
    <3>4. PICK j \in 1..Len(ledger) : ledger[j] = AgentTaskPulled(pulledTasks[k])
      BY <3>3 DEF PullsAreRecorded
    <3>5. ledger[j].kind = "AgentTaskPulled" /\ ledger[j].envelope = ev.envelope
      BY <3>1, <3>3, <3>4 DEF AgentTaskPulled
    <3> HIDE DEF ev, k
    <3>6. PulledBeforeAccepted'
      BY <3>1, <3>5, OrderAfter
    <3>7. TokensRecorded' /\ AgentsRecorded' /\ PullsRecorded' /\ SpoolRecorded'
      BY <3>1, StaysRecorded
    <3>8. PullsAreRecorded'
      BY <3>1, PullsStayRecorded
    <3> QED  BY <3>2, <3>6, <3>7, <3>8
  <2> QED  BY <1>7, <2>1, <2>2 DEF SubmitResult
<1> QED  BY <1>1, <1>3, <1>4, <1>5, <1>6, <1>7 DEF CpNext, cpVars, EnqueueTask

\* The vectors can be rebuilt from the ledger, and no result is recorded before the pull
\* of its task.
THEOREM LedgerTellsState == CpSpec => []LedgerExplainsState
<1>1. CpInit => LedgerInv
  <2> SUFFICES ASSUME CpInit PROVE LedgerInv
    OBVIOUS
  <2>1. \A kind : EventsOf(kind) = <<>>
    BY AllWithEmpty DEF CpInit, EventsOf
  <2> QED  BY <2>1 DEF CpInit, LedgerInv, LedgerExplainsState, TokensRecorded, AgentsRecorded,
             PullsRecorded, ResultsRecorded, SpoolRecorded, PulledBeforeAccepted, PullsAreRecorded
<1>2. LedgerInv => LedgerExplainsState
  BY DEF LedgerInv
<1> QED  BY <1>1, <1>2, LedgerPreserved, TypeCorrect, Acceptance, PTL DEF CpSpec

-----------------------------------------------------------------------------
(* The refinement of TaskExchange.  A node's abstract queue is its part of *)
(* the queue; AllWithRemoveFirst says what a pull takes off it.  That a    *)
(* result answers an envelope nobody has answered is AcceptanceInv'.       *)

\* Where the envelopes of the entries differ, an entry is found by its envelope.
LEMMA FoundByEnvelope ==
  ASSUME NEW S, NEW q \in Seq(S),
         \A i, j \in 1..Len(q) : q[i].envelope = q[j].envelope => i = j,
         NEW i \in 1..Len(q)
  PROVE  q[CHOOSE j \in DOMAIN q : q[j].envelope = q[i].envelope] = q[i]
<1> DEFINE k == CHOOSE j \in DOMAIN q : q[j].envelope = q[i].envelope
<1>1. DOMAIN q = 1..Len(q)
  OBVIOUS
<1>2. \E j \in DOMAIN q : q[j].envelope = q[i].envelope
  BY <1>1
<1>3. k \in DOMAIN q /\ q[k].envelope = q[i].envelope
  BY <1>2
<1> HIDE DEF k
<1>4. k = i
  BY <1>1, <1>3
<1> QED  BY <1>4 DEF k

\* The empty vectors are an empty exchange.
LEMMA InitRefines == CpInit => Exchange!Init
<1> SUFFICES ASSUME CpInit PROVE Exchange!Init
  OBVIOUS
<1>1. \A n : OfNode(<<>>, n) = <<>>
  BY AllWithEmpty DEF OfNode
<1>2. ToSet(<<>>) = {}
  BY DEF ToSet
<1>3. {s.envelope : s \in ToSet(acceptedResults)} = {}
  BY <1>2 DEF CpInit
<1> DEFINE f == [id \in {s.envelope : s \in ToSet(acceptedResults)} |-> AnswerOf(id)]
<1>4. f = <<>>
  <2>1. f = [x \in {} |-> f[x]]
    BY <1>3
  <2> HIDE DEF f
  <2> QED  BY <2>1, EmptyFunction
<1> QED  BY <1>1, <1>2, <1>4 DEF CpInit, Exchange!Init

\* Accepting a result adds the answer to its envelope to those there are.
LEMMA AnswersAfter ==
  ASSUME TypeOK, AcceptanceInv, AcceptanceInv', NEW s \in Submissions,
         acceptedResults' = Append(acceptedResults, s)
  PROVE  LET A == [id \in {r.envelope : r \in ToSet(acceptedResults)} |-> AnswerOf(id)]
         IN  s.envelope \notin DOMAIN A /\ A' = Exchange!With(A, s.envelope, s)
<1> DEFINE Answered == {r.envelope : r \in ToSet(acceptedResults)}
           A == [id \in Answered |-> AnswerOf(id)]
           n == Len(acceptedResults)
           q == Append(acceptedResults, s)
<1>1. /\ acceptedResults \in Seq(Submissions) /\ q \in Seq(Submissions)
      /\ n \in Nat /\ Len(q) = n + 1 /\ q[n + 1] = s
      /\ \A i \in 1..n : q[i] = acceptedResults[i]
  BY DEF TypeOK
<1>2. /\ \A i, j \in 1..n :
           acceptedResults[i].envelope = acceptedResults[j].envelope => i = j
      /\ \A i, j \in 1..(n + 1) : q[i].envelope = q[j].envelope => i = j
  BY <1>1 DEF AcceptanceInv
<1>3. ToSet(q) = ToSet(acceptedResults) \cup {s}
  BY <1>1, ToSetAppend
<1>4. Answered' = Answered \cup {s.envelope}
  BY <1>3
<1>5. \A i \in 1..n : AnswerOf(acceptedResults[i].envelope) = acceptedResults[i]
  BY <1>1, <1>2, FoundByEnvelope DEF AnswerOf
<1>6. ASSUME NEW i \in 1..(n + 1)
      PROVE  q[CHOOSE j \in DOMAIN q : q[j].envelope = q[i].envelope] = q[i]
  <2> HIDE DEF q
  <2> QED  BY <1>1, <1>2, FoundByEnvelope
<1>7. ASSUME NEW id \in Answered PROVE \E i \in 1..n : id = acceptedResults[i].envelope
  BY <1>1 DEF ToSet
<1>8. s.envelope \notin Answered
  <2> SUFFICES ASSUME s.envelope \in Answered PROVE FALSE
    OBVIOUS
  <2>1. PICK i \in 1..n : s.envelope = acceptedResults[i].envelope
    BY <1>7
  <2> HIDE DEF q
  <2> QED  BY <1>1, <1>2, <2>1
<1>9. ASSUME NEW id \in Answered \cup {s.envelope}
      PROVE  AnswerOf(id)' = IF id = s.envelope THEN s ELSE AnswerOf(id)
  <2>1. AnswerOf(id)' = q[CHOOSE j \in DOMAIN q : q[j].envelope = id]
    BY DEF AnswerOf
  <2>2. CASE id \in Answered
    <3>1. PICK i \in 1..n : id = acceptedResults[i].envelope
      BY <1>7, <2>2
    <3>2. i \in 1..(n + 1) /\ q[i] = acceptedResults[i]
      BY <1>1, <3>1
    <3>3. q[CHOOSE j \in DOMAIN q : q[j].envelope = id] = q[i]
      BY <1>6, <3>1, <3>2
    <3> HIDE DEF q
    <3> QED  BY <1>5, <1>8, <2>1, <2>2, <3>1, <3>2, <3>3
  <2>3. CASE id = s.envelope
    <3>1. n + 1 \in 1..(n + 1) /\ q[n + 1].envelope = id
      BY <1>1, <2>3
    <3>2. q[CHOOSE j \in DOMAIN q : q[j].envelope = id] = q[n + 1]
      BY <1>6, <3>1
    <3> HIDE DEF q
    <3> QED  BY <1>1, <1>8, <2>1, <2>3, <3>2
  <2> QED  BY <2>2, <2>3
<1>10. A' = Exchange!With(A, s.envelope, s)
  <2>1. A' = [id \in Answered \cup {s.envelope} |-> IF id = s.envelope THEN s ELSE AnswerOf(id)]
    BY <1>4, <1>9
  <2> HIDE DEF Answered
  <2> QED  BY <2>1 DEF Exchange!With
<1> QED  BY <1>8, <1>10

\* Every step of a handler is a step of the exchange, or changes none of its parts.
LEMMA StepRefines ==
  TypeOK /\ AcceptanceInv /\ AcceptanceInv' /\ [CpNext]_cpVars
    => [Exchange!Next]_(Exchange!exchangeVars)
<1> SUFFICES ASSUME TypeOK, AcceptanceInv, AcceptanceInv', [CpNext]_cpVars
             PROVE  [Exchange!Next]_(Exchange!exchangeVars)
  OBVIOUS
<1> DEFINE queue == [n \in Nodes |-> OfNode(pendingTasks, n)]
           answer == [id \in {s.envelope : s \in ToSet(acceptedResults)} |-> AnswerOf(id)]
<1>0. pendingTasks \in Seq(Envelopes) /\ pulledTasks \in Seq(Envelopes)
  BY DEF TypeOK
<1>1. CASE UNCHANGED <<pendingTasks, pulledTasks, acceptedResults>>
  <2>1. UNCHANGED Exchange!exchangeVars
    BY <1>1 DEF Exchange!exchangeVars, AnswerOf
  <2> QED  BY <2>1
<1>2. ASSUME NEW e \in Envelopes, EnqueueTask(e) PROVE Exchange!Enqueue(e)
  <2>1. pendingTasks' = Append(pendingTasks, e) /\ UNCHANGED <<pulledTasks, acceptedResults>>
    BY <1>2 DEF EnqueueTask
  <2>2. \A n : OfNode(Append(pendingTasks, e), n) =
          IF e["node"] = n THEN Append(OfNode(pendingTasks, n), e) ELSE OfNode(pendingTasks, n)
    BY <1>0, AllWithAppend DEF OfNode
  <2>3. queue' = [queue EXCEPT ![e.node] = Append(@, e)]
    BY <2>1, <2>2
  <2>4. UNCHANGED answer
    BY <2>1 DEF AnswerOf
  <2> QED  BY <2>1, <2>3, <2>4 DEF Exchange!Enqueue
<1>3. ASSUME NEW id \in Identities, NEW now \in Times,
             PullOutcome(id, now) = "Pulled", HandOutTask(id)
      PROVE  Exchange!HandOut(id.node)
  <2> DEFINE k == FirstWith(pendingTasks, "node", id.node)
             e == pendingTasks[k]
  <2>1. k \in 1..Len(pendingTasks) /\ e \in Envelopes
    BY <1>3, RefusedBecauseExpired
  <2>2. /\ pendingTasks' = RemoveAt(pendingTasks, k)
        /\ pulledTasks' = Append(pulledTasks, e)
        /\ acceptedResults' = acceptedResults
    BY <1>3 DEF HandOutTask
  <2>3. k # 0
    BY <2>1
  <2>4. /\ OfNode(pendingTasks, id.node) = <<e>> \o OfNode(RemoveAt(pendingTasks, k), id.node)
        /\ \A m : m # id.node => OfNode(RemoveAt(pendingTasks, k), m) = OfNode(pendingTasks, m)
    BY <1>0, <2>3, AllWithRemoveFirst DEF OfNode
  <2>5. OfNode(RemoveAt(pendingTasks, k), id.node) \in Seq(Envelopes)
    BY <1>0, <2>1, RemoveAtType, AllWithType DEF OfNode
  <2>6. id.node \in Nodes
    BY DEF Nodes
  <2> DEFINE left == OfNode(RemoveAt(pendingTasks, k), id.node)
  <2>7. ToSet(pulledTasks)' = ToSet(pulledTasks) \cup {e}
    <3> HIDE DEF e
    <3> QED  BY <1>0, <2>1, <2>2, ToSetAppend
  <2>8. UNCHANGED answer
    BY <2>2 DEF AnswerOf
  <2> HIDE DEF k, e
  <2>9. <<e>> \o left # <<>> /\ Head(<<e>> \o left) = e /\ Tail(<<e>> \o left) = left
    <3> HIDE DEF left
    <3>1. left \in Seq(Envelopes)
      BY <2>5 DEF left
    <3> QED  BY <2>1, <3>1
  <2>10. queue[id.node] = <<e>> \o left
    BY <2>4, <2>6
  <2>11. queue' = [queue EXCEPT ![id.node] = left]
    BY <2>2, <2>4, <2>6
  <2> HIDE DEF queue, answer, left
  <2>12. /\ queue[id.node] # <<>>
         /\ ToSet(pulledTasks)' = ToSet(pulledTasks) \cup {Head(queue[id.node])}
         /\ queue' = [queue EXCEPT ![id.node] = Tail(@)]
    BY <2>7, <2>9, <2>10, <2>11
  <2> QED  BY <2>8, <2>12 DEF Exchange!HandOut, queue, answer
<1>4. ASSUME NEW id \in Identities, NEW s \in Submissions, NEW now \in Times,
             SubmitOutcome(id, s, now) = "Accepted", AcceptResult(s)
      PROVE  \E e \in Envelopes : Exchange!Answer(e, s)
  <2> DEFINE k == FirstWith(pulledTasks, "id", s.envelope)
             e == pulledTasks[k]
  <2>1. k # 0 /\ AnswersPulledTask(s, e)
    BY <1>4, AcceptedMeans DEF AnswersFirstPulled
  <2>2. k \in 0..Len(pulledTasks)
    BY <1>0, FirstWithSpec
  <2>3. e \in Envelopes /\ e \in ToSet(pulledTasks)
    BY <1>0, <2>1, <2>2 DEF ToSet
  <2>4. /\ acceptedResults' = Append(acceptedResults, s)
        /\ UNCHANGED <<pendingTasks, pulledTasks>>
    BY <1>4 DEF AcceptResult
  <2>5. s.envelope \notin DOMAIN answer /\ answer' = Exchange!With(answer, s.envelope, s)
    BY <2>4, AnswersAfter
  <2>6. e.id = s.envelope
    BY <2>1 DEF AnswersPulledTask
  <2> HIDE DEF answer, e, k
  <2>7. Exchange!Answer(e, s)
    BY <2>1, <2>3, <2>4, <2>5, <2>6 DEF Exchange!Answer, answer
  <2> QED  BY <2>3, <2>7
<1>5. ASSUME NEW id \in Identities, NEW now \in Times, PullTask(id, now)
      PROVE  [Exchange!Next]_(Exchange!exchangeVars)
  <2>1. CASE RefuseTask(id, now)
    BY <2>1, <1>1 DEF RefuseTask
  <2>2. id.node \in Nodes
    BY DEF Nodes
  <2> QED  BY <1>3, <1>5, <2>1, <2>2 DEF PullTask, Exchange!Next
<1>6. ASSUME NEW id \in Identities, NEW s \in Submissions, NEW now \in Times,
             SubmitResult(id, s, now)
      PROVE  [Exchange!Next]_(Exchange!exchangeVars)
  <2>1. ASSUME NEW reason, RefuseResult(s, reason)
        PROVE  [Exchange!Next]_(Exchange!exchangeVars)
    BY <2>1, <1>1 DEF RefuseResult
  <2> QED  BY <1>4, <1>6, <2>1 DEF SubmitResult, Exchange!Next
<1>7. ASSUME NEW e \in Envelopes, EnqueueTask(e)
      PROVE  [Exchange!Next]_(Exchange!exchangeVars)
  BY <1>2, <1>7 DEF Exchange!Next
<1> QED  BY <1>1, <1>5, <1>6, <1>7
  DEF CpNext, cpVars, CreateEnrollmentToken, EnrollAgent, SpoolResult

\* The control plane is a task exchange.
THEOREM ExchangeImplemented == CpSpec => ImplementsTaskExchange
<1> QED  BY InitRefines, StepRefines, TypeCorrect, Acceptance, PTL
  DEF CpSpec, ImplementsTaskExchange, Exchange!Spec

===============================================================================
