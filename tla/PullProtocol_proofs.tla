-------------------------- MODULE PullProtocol_proofs --------------------------
(***************************************************************************)
(* Proofs about PullProtocol, for any fleet, tasks and clocks, and however *)
(* the network loses, delays and reorders messages.  They rest on          *)
(* what ControlPlane_proofs proves of each handler: a served request is a  *)
(* step of the control plane, and everything else is none.                 *)
(***************************************************************************)
EXTENDS PullProtocol, ControlPlane_proofs

\* What executing tasks can yield.
Results == {ResultOf(e, status) : e \in Envelopes, status \in Statuses}

DistinctNonces == \A e, f \in Envelopes : e.nonce = f.nonce => e.id = f.id

\* A message is of its kind, and an answer that promises something is true.
Truthful(m) ==
  \/ m.kind = "pull" /\ m.from \in Identities /\ m.now \in Times
  \/ m.kind = "result" /\ m.from \in Identities /\ m.result \in Results /\ m.now \in Times
  \/ m.kind = "task" /\ m.to \in Identities /\ m.task \in Envelopes
  \/ /\ m.kind = "answer" /\ m.to \in Identities /\ m.result \in Results
     /\ m.outcome = "Accepted" => m.result \in ToSet(acceptedResults)
     /\ m.outcome = "ResultNonceReplay" /\ DistinctNonces => Accepted(m.result.envelope)

ProtocolInv ==
  /\ TypeOK
  /\ AcceptanceInv
  /\ clock \in [Identities -> Times]
  /\ \A m \in network : Truthful(m)
  /\ spool \in [Identities -> SUBSET Results]
  /\ executed \in [Identities -> SUBSET Results]
  /\ ResultNeverLost

-----------------------------------------------------------------------------
(* The control plane within the protocol.                                  *)

\* Whatever the protocol does is a step of the control plane or leaves it alone.
LEMMA ServingIsControlPlane ==
  ASSUME ProtocolInv, [Next]_vars
  PROVE  [CpNext]_cpVars
<1>1. CASE UNCHANGED vars
  BY <1>1 DEF vars
<1>2. ASSUME NEW e \in Envelopes, Enqueue(e)  PROVE CpNext
  BY <1>2 DEF Enqueue, CpNext
<1>3. ASSUME NEW m \in network, ServePull(m)  PROVE [CpNext]_cpVars
  <2>1. m.from \in Identities /\ m.now \in Times
    BY <1>3 DEF ServePull, ProtocolInv, Truthful
  <2> QED  BY <1>3, <2>1 DEF ServePull, CpNext
<1>4. ASSUME NEW m \in network, ServeResult(m)  PROVE [CpNext]_cpVars
  <2>1. m.from \in Identities /\ m.now \in Times /\ m.result \in Submissions
    BY <1>4, ResultsAssumption DEF ServeResult, ProtocolInv, Truthful, Results
  <2> QED  BY <1>4, <2>1 DEF ServeResult, CpNext
<1> QED
  BY <1>1, <1>2, <1>3, <1>4
     DEF Next, Tick, SendPull, Execute, SendResult, ReceiveAnswer, Lose

\* The server forgets no accepted result.
LEMMA AcceptedResultsStay ==
  ASSUME TypeOK, [CpNext]_cpVars
  PROVE  /\ ToSet(acceptedResults) \subseteq ToSet(acceptedResults')
         /\ \A id : Accepted(id) => Accepted(id)'
<1>1. acceptedResults \in Seq(Submissions)
  BY DEF TypeOK
<1>2. UNCHANGED acceptedResults \/ \E s \in Submissions : acceptedResults' = Append(acceptedResults, s)
  <2>1. ASSUME NEW id \in Identities, NEW s \in Submissions, NEW now \in Times, SubmitResult(id, s, now)
        PROVE  UNCHANGED acceptedResults \/ acceptedResults' = Append(acceptedResults, s)
    BY <2>1 DEF SubmitResult, RefuseResult, AcceptResult
  <2> QED
    BY <2>1 DEF CpNext, cpVars, CreateEnrollmentToken, EnrollAgent, EnqueueTask, PullTask, RefuseTask,
                HandOutTask, SpoolResult
<1>3. \A i \in DOMAIN acceptedResults : i \in DOMAIN acceptedResults' /\ acceptedResults'[i] = acceptedResults[i]
  BY <1>1, <1>2
<1>4. ToSet(acceptedResults) \subseteq ToSet(acceptedResults')
  BY <1>3 DEF ToSet
<1>5. ASSUME NEW id, Accepted(id)  PROVE Accepted(id)'
  BY <1>3, <1>5 DEF Accepted
<1> QED  BY <1>4, <1>5

\* So a true message stays true.
LEMMA TruthStays ==
  ASSUME ProtocolInv, [Next]_vars, NEW m, Truthful(m)
  PROVE  Truthful(m)'
<1>1. [CpNext]_cpVars
  BY ServingIsControlPlane
<1>2. /\ ToSet(acceptedResults) \subseteq ToSet(acceptedResults')
      /\ \A id : Accepted(id) => Accepted(id)'
  BY <1>1, AcceptedResultsStay DEF ProtocolInv
<1>3. ToSet(acceptedResults)' = ToSet(acceptedResults')
  BY DEF ToSet
<1> QED  BY <1>2, <1>3 DEF Truthful, DistinctNonces

\* A result is refused as a replay only if its envelope is answered, because nonces tell
\* envelopes apart and the nonce list holds those of answered envelopes.
LEMMA ReplayIsAnswered ==
  ASSUME ProtocolInv, DistinctNonces, NEW s \in Results, s.nonce \in ToSet(acceptedResultNonces)
  PROVE  Accepted(s.envelope)
<1>1. PICK e \in Envelopes, status \in Statuses : s = ResultOf(e, status)
  BY DEF Results
<1>2. PICK i \in 1..Len(acceptedResultNonces) : s.nonce = acceptedResultNonces[i]
  <2>1. DOMAIN acceptedResultNonces = 1..Len(acceptedResultNonces)
    BY DEF ProtocolInv, TypeOK
  <2> QED  BY <2>1 DEF ToSet
<1>3. i \in 1..Len(acceptedResults) /\ acceptedResults[i].nonce = s.nonce /\ AnswersFirstPulled(acceptedResults[i])
  BY <1>2 DEF ProtocolInv, AcceptanceInv, NoncesMirrorResults
<1> DEFINE k == FirstWith(pulledTasks, "id", acceptedResults[i].envelope)
<1>4. k \in 0..Len(pulledTasks)
  BY FirstWithSpec DEF ProtocolInv, TypeOK
<1>5. k \in 1..Len(pulledTasks) /\ AnswersPulledTask(acceptedResults[i], pulledTasks[k])
  BY <1>3, <1>4 DEF AnswersFirstPulled
<1>6. pulledTasks[k] \in Envelopes
  BY <1>5 DEF ProtocolInv, TypeOK
<1>7. pulledTasks[k].id = e.id
  BY <1>1, <1>3, <1>5, <1>6 DEF DistinctNonces, AnswersPulledTask, ResultOf
<1>8. acceptedResults[i].envelope = s.envelope
  BY <1>1, <1>5, <1>7 DEF AnswersPulledTask, ResultOf
<1>9. i \in DOMAIN acceptedResults
  BY <1>3 DEF ProtocolInv, TypeOK
<1> QED  BY <1>8, <1>9 DEF Accepted

-----------------------------------------------------------------------------
(* The invariant holds initially and every step preserves it.              *)

LEMMA ProtocolInvInitially == Init => ProtocolInv
<1> SUFFICES ASSUME Init  PROVE ProtocolInv
  OBVIOUS
<1>1. DOMAIN Fleet = 1..Len(Fleet) /\ Len(Fleet) \in Nat
  BY FleetAssumption
<1>2. \A i \in DOMAIN Fleet : Fleet[i].token \in Tokens /\ Fleet[i].agent \in Agents
  <2> SUFFICES ASSUME NEW i \in 1..Len(Fleet)
               PROVE  Fleet[i].token \in Tokens /\ Fleet[i].agent \in Agents
    BY <1>1
  <2>1. Fleet \in Seq([token : Tokens, agent : Agents])
    BY FleetAssumption
  <2>2. Fleet[i] \in [token : Tokens, agent : Agents]
    BY <2>1, ElementOfSeq
  <2> QED  BY <2>2
<1>3. enrollmentTokens \in Seq(Tokens) /\ agents \in Seq(Agents)
  BY <1>2, <1>1 DEF Init
<1>4. ledger \in Seq(LedgerEvents)
  <2>1. [i \in DOMAIN Fleet |-> EnrollmentTokenCreated(Fleet[i].token)] \in Seq(LedgerEvents)
    <3>1. \A i \in DOMAIN Fleet : EnrollmentTokenCreated(Fleet[i].token) \in LedgerEvents
      BY <1>2 DEF LedgerEvents
    <3> QED  BY <1>1, <3>1
  <2>2. [i \in DOMAIN Fleet |-> AgentEnrolled(Fleet[i].agent)] \in Seq(LedgerEvents)
    <3>1. \A i \in DOMAIN Fleet : AgentEnrolled(Fleet[i].agent) \in LedgerEvents
      BY <1>2 DEF LedgerEvents
    <3> QED  BY <1>1, <3>1
  <2> QED  BY <2>1, <2>2 DEF Init
<1>5. TypeOK
  BY <1>3, <1>4 DEF Init, TypeOK
<1>6. AcceptanceInv
  BY DEF Init, AcceptanceInv, NoncesMirrorResults
<1>7. clock \in [Identities -> Times]
  BY ClocksAssumption DEF Init
<1> QED  BY <1>5, <1>6, <1>7 DEF Init, ProtocolInv, ResultNeverLost

\* What a step needs to add to the truth of the messages that stay: that of the new one.
LEMMA StepSuffices ==
  ASSUME ProtocolInv, [Next]_vars, clock' \in [Identities -> Times],
         \A m \in network' \ network : Truthful(m)',
         spool' \in [Identities -> SUBSET Results], executed' \in [Identities -> SUBSET Results],
         ResultNeverLost'
  PROVE  ProtocolInv'
<1>1. [CpNext]_cpVars
  BY ServingIsControlPlane
<1>2. TypeOK' /\ AcceptanceInv'
  BY <1>1, TypePreserved, AcceptancePreserved DEF ProtocolInv
<1>3. \A m \in network' : Truthful(m)'
  BY TruthStays DEF ProtocolInv
<1> QED  BY <1>2, <1>3 DEF ProtocolInv

\* A step in which no agent gains or gives up a result loses none.
LEMMA NoneLost ==
  ASSUME ProtocolInv, [Next]_vars, UNCHANGED <<spool, executed>>
  PROVE  ResultNeverLost'
<1>1. ToSet(acceptedResults) \subseteq ToSet(acceptedResults')
  BY ServingIsControlPlane, AcceptedResultsStay DEF ProtocolInv
<1>2. ToSet(acceptedResults)' = ToSet(acceptedResults')
  BY DEF ToSet
<1> QED  BY <1>1, <1>2 DEF ProtocolInv, ResultNeverLost

LEMMA ServePullPreserves ==
  ASSUME ProtocolInv, NEW m \in network, ServePull(m)
  PROVE  ProtocolInv'
<1> DEFINE k == FirstWith(pendingTasks, "node", m.from.node)
<1>1. [Next]_vars
  BY DEF Next
<1>2. m.from \in Identities /\ m.now \in Times
  BY DEF ServePull, ProtocolInv, Truthful
<1>3. PullOutcome(m.from, m.now) = "Pulled" => pendingTasks[k] \in Envelopes
  BY <1>2, RefusedBecauseExpired DEF ProtocolInv
<1>4. ASSUME NEW new \in network' \ network  PROVE Truthful(new)'
  <2>1. PullOutcome(m.from, m.now) = "Pulled" /\ new = TaskResponse(m.from, pendingTasks[k])
    BY <1>4 DEF ServePull
  <2> QED  BY <1>2, <1>3, <2>1 DEF Truthful, TaskResponse
<1>5. UNCHANGED agentVars
  BY DEF ServePull
<1> QED  BY <1>1, <1>4, <1>5, NoneLost, StepSuffices DEF agentVars, ProtocolInv

\* What the server answers is true when it answers.
LEMMA ServeResultPreserves ==
  ASSUME ProtocolInv, NEW m \in network, ServeResult(m)
  PROVE  ProtocolInv'
<1> DEFINE s == m.result
           outcome == SubmitOutcome(m.from, s, m.now)
<1>1. [Next]_vars
  BY DEF Next
<1>2. m.from \in Identities /\ m.now \in Times /\ s \in Results /\ s \in Submissions
  BY ResultsAssumption DEF ServeResult, ProtocolInv, Truthful, Results
<1>3. [CpNext]_cpVars
  BY <1>1, ServingIsControlPlane
<1>4. AuthOutcome(m.from) \in {"UnknownAgent", "AgentIdentityMismatch", "Ok"}
  BY DEF AuthOutcome
<1>5. ASSUME outcome = "Accepted"  PROVE s \in ToSet(acceptedResults')
  <2>1. acceptedResults' = Append(acceptedResults, s)
    BY <1>5 DEF ServeResult, SubmitResult, AcceptResult, AuditedRejections
  <2>2. acceptedResults \in Seq(Submissions)
    BY DEF ProtocolInv, TypeOK
  <2>3. /\ Len(acceptedResults) + 1 \in DOMAIN acceptedResults'
        /\ acceptedResults'[Len(acceptedResults) + 1] = s
    BY <1>2, <2>1, <2>2
  <2> QED  BY <2>3 DEF ToSet
<1>6. ASSUME outcome = "ResultNonceReplay", DistinctNonces  PROVE Accepted(s.envelope)'
  <2>1. s.nonce \in ToSet(acceptedResultNonces)
    BY <1>4, <1>6 DEF SubmitOutcome
  <2>2. Accepted(s.envelope)
    BY <1>2, <1>6, <2>1, ReplayIsAnswered
  <2> QED  BY <1>3, <2>2, AcceptedResultsStay DEF ProtocolInv
<1>7. ToSet(acceptedResults)' = ToSet(acceptedResults')
  BY DEF ToSet
<1>8. ASSUME NEW new \in network' \ network  PROVE Truthful(new)'
  <2>1. new = ResultResponse(m.from, s, outcome)
    BY <1>8 DEF ServeResult
  <2>2. new.kind = "answer" /\ new.to = m.from /\ new.result = s /\ new.outcome = outcome
    BY <2>1 DEF ResultResponse
  <2> QED  BY <1>2, <1>5, <1>6, <1>7, <2>2 DEF Truthful, DistinctNonces
<1>9. UNCHANGED agentVars
  BY DEF ServeResult
<1> QED  BY <1>1, <1>8, <1>9, NoneLost, StepSuffices DEF agentVars, ProtocolInv

\* An agent executes a task and keeps the result.
LEMMA ExecutePreserves ==
  ASSUME ProtocolInv, NEW m \in network, NEW status \in Statuses, Execute(m, status)
  PROVE  ProtocolInv'
<1> DEFINE s == ResultOf(m.task, status)
<1>1. [Next]_vars
  BY DEF Next
<1>2. m.to \in Identities /\ m.task \in Envelopes
  BY DEF Execute, ProtocolInv, Truthful
<1>3. s \in Results
  BY <1>2 DEF Results
<1> HIDE DEF s
<1>4. /\ spool' = [spool EXCEPT ![m.to] = @ \cup {s}]
      /\ executed' = [executed EXCEPT ![m.to] = @ \cup {s}]
  BY DEF Execute, s
<1>5. spool' \in [Identities -> SUBSET Results] /\ executed' \in [Identities -> SUBSET Results]
  BY <1>3, <1>4 DEF ProtocolInv
<1>6. UNCHANGED acceptedResults
  BY DEF Execute, cpVars
<1>7. ResultNeverLost'
  BY <1>2, <1>4, <1>6 DEF ProtocolInv, ResultNeverLost
<1>8. network' \subseteq network /\ UNCHANGED clock
  BY DEF Execute
<1> QED  BY <1>1, <1>5, <1>7, <1>8, StepSuffices DEF ProtocolInv

\* An agent gives a result up when it hears that it is accepted, which is then true.
LEMMA ReceiveAnswerPreserves ==
  ASSUME ProtocolInv, NEW m \in network, ReceiveAnswer(m)
  PROVE  ProtocolInv'
<1>1. [Next]_vars
  BY DEF Next
<1>2. m.to \in Identities /\ (m.outcome = "Accepted" => m.result \in ToSet(acceptedResults))
  BY DEF ReceiveAnswer, ProtocolInv, Truthful
<1>3. spool' \in [Identities -> SUBSET Results]
  BY DEF ReceiveAnswer, ProtocolInv
<1>4. UNCHANGED <<acceptedResults, executed, clock>>
  BY DEF ReceiveAnswer, cpVars
<1>5. ASSUME NEW a \in Identities, NEW s \in executed[a]
      PROVE  s \in spool'[a] \/ s \in ToSet(acceptedResults)
  <2>1. s \in spool[a] \/ s \in ToSet(acceptedResults)
    BY DEF ProtocolInv, ResultNeverLost
  <2> QED  BY <1>2, <2>1 DEF ReceiveAnswer, ProtocolInv
<1>6. ResultNeverLost'
  BY <1>4, <1>5 DEF ResultNeverLost
<1>7. network' \subseteq network
  BY DEF ReceiveAnswer
<1> QED  BY <1>1, <1>3, <1>4, <1>6, <1>7, StepSuffices DEF ProtocolInv

LEMMA SendingPreserves ==
  ASSUME ProtocolInv, NEW a \in Identities,
         SendPull(a) \/ \E s \in Submissions : SendResult(a, s)
  PROVE  ProtocolInv'
<1>1. [Next]_vars
  BY DEF Next
<1>2. clock[a] \in Times
  BY DEF ProtocolInv
<1>3. UNCHANGED agentVars
  BY DEF SendPull, SendResult
<1>4. ASSUME NEW new \in network' \ network  PROVE Truthful(new)'
  <2>1. CASE new = PullRequest(a, clock[a])
    BY <1>2, <2>1 DEF PullRequest, Truthful
  <2>2. CASE \E s \in spool[a] : new = ResultRequest(a, s, clock[a])
    <3>1. PICK s \in spool[a] : new = ResultRequest(a, s, clock[a])
      BY <2>2
    <3>2. s \in Results
      BY DEF ProtocolInv
    <3> QED  BY <1>2, <3>1, <3>2 DEF ResultRequest, Truthful
  <2> QED  BY <1>4, <2>1, <2>2 DEF SendPull, SendResult
<1> QED  BY <1>1, <1>3, <1>4, NoneLost, StepSuffices DEF agentVars, ProtocolInv

LEMMA ProtocolInvPreserved == ProtocolInv /\ [Next]_vars => ProtocolInv'
<1> SUFFICES ASSUME ProtocolInv, [Next]_vars  PROVE ProtocolInv'
  OBVIOUS
<1>1. CASE UNCHANGED vars
  BY <1>1, NoneLost, StepSuffices DEF vars, ProtocolInv
<1>2. ASSUME NEW e \in Envelopes, Enqueue(e)  PROVE ProtocolInv'
  BY <1>2, NoneLost, StepSuffices DEF Enqueue, agentVars, ProtocolInv
<1>3. ASSUME NEW a \in Identities, Tick(a)  PROVE ProtocolInv'
  <2>1. clock' \in [Identities -> Times]
    BY <1>3, ClocksAssumption DEF Tick, ProtocolInv
  <2> QED  BY <1>3, <2>1, NoneLost, StepSuffices DEF Tick, ProtocolInv
<1>4. ASSUME NEW m \in network, Lose(m)  PROVE ProtocolInv'
  BY <1>4, NoneLost, StepSuffices DEF Lose, agentVars, ProtocolInv
<1> QED
  BY <1>1, <1>2, <1>3, <1>4, ServePullPreserves, ServeResultPreserves, ExecutePreserves,
     ReceiveAnswerPreserves, SendingPreserves DEF Next

-----------------------------------------------------------------------------
(* The theorems.                                                           *)

\* Messages, spools and clocks are well formed, whatever the network does.
THEOREM ProtocolTypeCorrect == Spec => []ProtocolTypeOK
<1>1. ProtocolInv => ProtocolTypeOK
  <2>1. Results \subseteq Submissions
    BY ResultsAssumption DEF Results
  <2> QED  BY <2>1 DEF ProtocolInv, ProtocolTypeOK, Truthful, MessageTypeOK
<1> QED  BY ProtocolInvInitially, ProtocolInvPreserved, <1>1, PTL DEF Spec

\* No result is lost, whatever messages are.
THEOREM NoResultIsLost == Spec => []ResultNeverLost
<1>1. ProtocolInv => ResultNeverLost
  BY DEF ProtocolInv
<1> QED  BY ProtocolInvInitially, ProtocolInvPreserved, <1>1, PTL DEF Spec

\* If nonces tell envelopes apart, an agent told that its result is a replay may drop it:
\* its envelope is answered.
THEOREM ReplaysAreAnswered ==
  ASSUME DistinctNonces
  PROVE  Spec => []ReplayMeansAccepted
<1>1. ProtocolInv => ReplayMeansAccepted
  BY DEF ProtocolInv, Truthful, ReplayMeansAccepted
<1> QED  BY ProtocolInvInitially, ProtocolInvPreserved, <1>1, PTL DEF Spec
===============================================================================
