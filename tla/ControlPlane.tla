----------------------------- MODULE ControlPlane -----------------------------
(***************************************************************************)
(* The server's control-plane state and its handlers                       *)
(* (src/crates/runlane-core/src/runtime.rs).  Every handler runs under one *)
(* mutex (runlane-server/src/http.rs), so a handler is one atomic action.  *)
(*                                                                         *)
(* "now" is a parameter of each request: the code has no clock of its own  *)
(* and compares expiries with the time the request carries, so nothing     *)
(* here makes it grow from one request to the next.                        *)
(*                                                                         *)
(* Abstractions.  Identifiers are members of small sets.  A token's        *)
(* operating system and trust root, only ever compared for equality, are   *)
(* one "platform".  Payloads, evidence and capabilities are left out.      *)
(* Events that record a change of state are kept in order in "ledger";     *)
(* events that only record a refusal are kept as the set "rejections".     *)
(***************************************************************************)
EXTENDS Lookup

CONSTANTS
  Identities,     \* [node, cert]: who may call
  Tokens,         \* enrollment tokens operators may create
  Enrollments,    \* enrollment requests, without their time
  Envelopes,      \* task envelopes the server side may enqueue
  Submissions,    \* results agents may submit
  SpoolItems,     \* those of them that may be recorded as spooled
  Times,          \* the times a request may carry
  MaxTokens, MaxEnrollments, MaxEnqueued, MaxSpooled, MaxRejections \* bounds of the model

Nodes == {i.node : i \in Identities}
Certs == {i.cert : i \in Identities}

ASSUME RecordsAssumption ==
  /\ \A i \in Identities : i = [node |-> i.node, cert |-> i.cert]
  /\ \A t \in Tokens :
       t = [secret |-> t.secret, node |-> t.node, platform |-> t.platform, expires |-> t.expires]
  /\ \A r \in Enrollments :
       /\ r = [secret |-> r.secret, node |-> r.node, platform |-> r.platform, cert |-> r.cert]
       /\ r.node \in Nodes /\ r.cert \in Certs
  /\ \A e \in Envelopes :
       e = [id |-> e.id, run |-> e.run, task |-> e.task, node |-> e.node,
            nonce |-> e.nonce, expires |-> e.expires]
  /\ \A s \in Submissions :
       s = [envelope |-> s.envelope, run |-> s.run, task |-> s.task, node |-> s.node,
            nonce |-> s.nonce, status |-> s.status]
  /\ SpoolItems \subseteq Submissions

ASSUME TimesAssumption ==
  /\ Times \subseteq Nat
  /\ \A t \in Tokens : t.expires \in Nat
  /\ \A e \in Envelopes : e.expires \in Nat

ASSUME BoundsAssumption ==
  {MaxTokens, MaxEnrollments, MaxEnqueued, MaxSpooled, MaxRejections} \subseteq Nat

VARIABLES
  enrollmentTokens,     \* Vec<EnrollmentToken>, never shrinks
  agents,               \* Vec<AgentIdentityRecord>, never shrinks
  pendingTasks,         \* Vec<PendingAgentTask>
  pulledTasks,          \* Vec<PendingAgentTask>, never shrinks
  acceptedResultNonces, \* Vec<String>
  acceptedResults,      \* Vec<AgentResultSubmission>
  spooledResults,       \* Vec<LocalSpoolItem>
  ledger,               \* the state-changing events of the AuditLedger
  rejections,           \* its refusal events, as a set
  enqueued              \* history: every task ever enqueued, in order

cpVars == <<enrollmentTokens, agents, pendingTasks, pulledTasks, acceptedResultNonces,
            acceptedResults, spooledResults, ledger, rejections, enqueued>>

-----------------------------------------------------------------------------

\* A refusal is audited and changes nothing else.
Refused(event) ==
  /\ event \in rejections \/ Cardinality(rejections) < MaxRejections
  /\ rejections' = rejections \cup {event}

AuthOutcome(id) ==
  LET k == FirstWith(agents, "node", id.node)
  IN  IF k = 0 THEN "UnknownAgent"
      ELSE IF agents[k].cert # id.cert THEN "AgentIdentityMismatch"
      ELSE "Ok"

\* Mutant: the task is given up one tick before it expires.
EnvelopeRejectionTooEarly(e, node, now, seenNonces) ==
  IF e.node # node THEN "NodeMismatch"
  ELSE IF e.expires <= now + 1 THEN "ExpiredEnvelope"
  ELSE IF e.nonce \in seenNonces THEN "ReplayedNonce"
  ELSE "None"

\* The code also rejects a nonce in its "seen" list; the server passes none.
EnvelopeRejection(e, node, now, seenNonces) ==
  IF e.node # node THEN "NodeMismatch"
  ELSE IF e.expires <= now THEN "ExpiredEnvelope"
  ELSE IF e.nonce \in seenNonces THEN "ReplayedNonce"
  ELSE "None"

-----------------------------------------------------------------------------
(* Audit events.                                                           *)

EnrollmentTokenCreated(t) ==
  [kind |-> "EnrollmentTokenCreated", secret |-> t.secret, node |-> t.node]
AgentEnrolled(a) == [kind |-> "AgentEnrolled", node |-> a.node, platform |-> a.platform]
AgentTaskPulled(e) ==
  [kind |-> "AgentTaskPulled", envelope |-> e.id, task |-> e.task, node |-> e.node]
AgentResultAccepted(s) ==
  [kind |-> "AgentResultAccepted", envelope |-> s.envelope, task |-> s.task, node |-> s.node]
AgentResultSpooled(s) == [kind |-> "AgentResultSpooled", envelope |-> s.envelope]

AgentTaskRejected(node, reason) ==
  [kind |-> "AgentTaskRejected", node |-> node, reason |-> reason]
AgentResultRejected(s, reason) ==
  [kind |-> "AgentResultRejected", envelope |-> s.envelope, reason |-> reason]

-----------------------------------------------------------------------------
(* Handlers.                                                               *)

CreateEnrollmentToken(t) ==
  /\ Len(enrollmentTokens) < MaxTokens
  /\ ledger' = Append(ledger, EnrollmentTokenCreated(t))
  /\ enrollmentTokens' = Append(enrollmentTokens, t)
  /\ UNCHANGED <<agents, pendingTasks, pulledTasks, acceptedResultNonces, acceptedResults,
                 spooledResults, rejections, enqueued>>

\* The token found stays in enrollmentTokens: enrolling does not use it up.
EnrollAgent(r, now) ==
  /\ Len(agents) < MaxEnrollments
  /\ LET k == FirstWith(enrollmentTokens, "secret", r.secret)
         record == [node |-> r.node, platform |-> r.platform, cert |-> r.cert]
     IN  /\ k # 0
         /\ enrollmentTokens[k].expires > now
         /\ enrollmentTokens[k].node = r.node
         /\ enrollmentTokens[k].platform = r.platform
         /\ ledger' = Append(ledger, AgentEnrolled(record))
         /\ agents' = Append(agents, record)
  /\ UNCHANGED <<enrollmentTokens, pendingTasks, pulledTasks, acceptedResultNonces,
                 acceptedResults, spooledResults, rejections, enqueued>>

EnqueueTask(e) ==
  /\ Len(enqueued) < MaxEnqueued
  /\ pendingTasks' = Append(pendingTasks, e)
  /\ enqueued' = Append(enqueued, e)
  /\ UNCHANGED <<enrollmentTokens, agents, pulledTasks, acceptedResultNonces,
                 acceptedResults, spooledResults, ledger, rejections>>

PullOutcome(id, now) ==
  LET k == FirstWith(pendingTasks, "node", id.node)
  IN  IF AuthOutcome(id) # "Ok" THEN AuthOutcome(id)
      ELSE IF k = 0 THEN "NoTaskAvailable"
      ELSE IF EnvelopeRejection(pendingTasks[k], id.node, now, {}) # "None"
           THEN "TaskEnvelopeRejected"
      ELSE "Pulled"

\* Mutant: the refused task is dropped.
RefuseTaskAndDrop(id, now) ==
  LET k == FirstWith(pendingTasks, "node", id.node)
  IN  /\ Refused(AgentTaskRejected(id.node, "ExpiredEnvelope"))
      /\ pendingTasks' = RemoveAt(pendingTasks, k)
      /\ UNCHANGED <<enrollmentTokens, agents, pulledTasks, acceptedResultNonces,
                     acceptedResults, spooledResults, ledger, enqueued>>

\* A refused task stays where it is in the queue.
RefuseTask(id, now) ==
  LET task == pendingTasks[FirstWith(pendingTasks, "node", id.node)]
  IN  /\ Refused(AgentTaskRejected(id.node, EnvelopeRejection(task, id.node, now, {})))
      /\ UNCHANGED <<enrollmentTokens, agents, pendingTasks, pulledTasks,
                     acceptedResultNonces, acceptedResults, spooledResults, ledger, enqueued>>

\* Mutant: the event names the task at the head of the queue, whoever it is for.
HandOutTaskWrongEvent(id) ==
  LET k == FirstWith(pendingTasks, "node", id.node)
  IN  /\ ledger' = Append(ledger, AgentTaskPulled(Head(pendingTasks)))
      /\ pendingTasks' = RemoveAt(pendingTasks, k)
      /\ pulledTasks' = Append(pulledTasks, pendingTasks[k])
      /\ UNCHANGED <<enrollmentTokens, agents, acceptedResultNonces, acceptedResults,
                     spooledResults, rejections, enqueued>>

\* Mutant: the head of the queue is removed instead of the task found.
HandOutTaskRemovingHead(id) ==
  LET k == FirstWith(pendingTasks, "node", id.node)
  IN  /\ ledger' = Append(ledger, AgentTaskPulled(pendingTasks[k]))
      /\ pendingTasks' = Tail(pendingTasks)
      /\ pulledTasks' = Append(pulledTasks, pendingTasks[k])
      /\ UNCHANGED <<enrollmentTokens, agents, acceptedResultNonces, acceptedResults,
                     spooledResults, rejections, enqueued>>

HandOutTask(id) ==
  LET k == FirstWith(pendingTasks, "node", id.node)
  IN  /\ ledger' = Append(ledger, AgentTaskPulled(pendingTasks[k]))
      /\ pendingTasks' = RemoveAt(pendingTasks, k)
      /\ pulledTasks' = Append(pulledTasks, pendingTasks[k])
      /\ UNCHANGED <<enrollmentTokens, agents, acceptedResultNonces, acceptedResults,
                     spooledResults, rejections, enqueued>>

PullTask(id, now) ==
  \/ PullOutcome(id, now) = "TaskEnvelopeRejected" /\ RefuseTask(id, now)
  \/ PullOutcome(id, now) = "Pulled" /\ HandOutTask(id)

\* Mutant: the task id of the submission is not compared.
SubmitOutcomeNoTaskCheck(id, s, now) ==
  LET k == FirstWith(pulledTasks, "id", s.envelope)
  IN  IF AuthOutcome(id) # "Ok" THEN AuthOutcome(id)
      ELSE IF s.node # id.node THEN "ResultNodeMismatch"
      ELSE IF s.nonce \in ToSet(acceptedResultNonces) THEN "ResultNonceReplay"
      ELSE IF k = 0 THEN "UnknownEnvelope"
      ELSE IF pulledTasks[k].expires <= now THEN "ResultExpired"
      ELSE IF pulledTasks[k].run # s.run THEN "ResultRunMismatch"
      ELSE IF pulledTasks[k].nonce # s.nonce THEN "ResultEnvelopeMismatch"
      ELSE "Accepted"

\* Mutant: the result counts as late one tick before the envelope expires.
SubmitOutcomeTooEarly(id, s, now) ==
  LET k == FirstWith(pulledTasks, "id", s.envelope)
  IN  IF AuthOutcome(id) # "Ok" THEN AuthOutcome(id)
      ELSE IF s.nonce \in ToSet(acceptedResultNonces) THEN "ResultNonceReplay"
      ELSE IF k = 0 THEN "UnknownEnvelope"
      ELSE IF pulledTasks[k].expires <= now + 1 THEN "ResultExpired"
      ELSE "Accepted"

\* The checks of submit_result in the order in which the code makes them.
SubmitOutcome(id, s, now) ==
  LET k == FirstWith(pulledTasks, "id", s.envelope)
  IN  IF AuthOutcome(id) # "Ok" THEN AuthOutcome(id)
      ELSE IF s.node # id.node THEN "ResultNodeMismatch"
      ELSE IF s.nonce \in ToSet(acceptedResultNonces) THEN "ResultNonceReplay"
      ELSE IF k = 0 THEN "UnknownEnvelope"
      ELSE IF pulledTasks[k].expires <= now THEN "ResultExpired"
      ELSE IF pulledTasks[k].task # s.task THEN "ResultTaskMismatch"
      ELSE IF pulledTasks[k].run # s.run THEN "ResultRunMismatch"
      ELSE IF pulledTasks[k].nonce # s.nonce THEN "ResultEnvelopeMismatch"
      ELSE "Accepted"

AuditedRejections ==
  {"ResultNodeMismatch", "ResultNonceReplay", "ResultExpired", "ResultTaskMismatch",
   "ResultRunMismatch", "ResultEnvelopeMismatch"}

\* Mutant: the nonce is burnt although the result is refused.
RefuseResultBurningNonce(s, reason) ==
  /\ Refused(AgentResultRejected(s, reason))
  /\ acceptedResultNonces' = Append(acceptedResultNonces, s.nonce)
  /\ UNCHANGED <<enrollmentTokens, agents, pendingTasks, pulledTasks, acceptedResults,
                 spooledResults, ledger, enqueued>>

RefuseResult(s, reason) ==
  /\ Refused(AgentResultRejected(s, reason))
  /\ UNCHANGED <<enrollmentTokens, agents, pendingTasks, pulledTasks, acceptedResultNonces,
                 acceptedResults, spooledResults, ledger, enqueued>>

\* Mutant: the nonce is not remembered.
AcceptResultForgettingNonce(s) ==
  /\ ledger' = Append(ledger, AgentResultAccepted(s))
  /\ acceptedResults' = Append(acceptedResults, s)
  /\ UNCHANGED <<enrollmentTokens, agents, pendingTasks, pulledTasks, acceptedResultNonces,
                 spooledResults, rejections, enqueued>>

\* Mutant: only the event and the nonce are kept.
AcceptResultNotStored(s) ==
  /\ ledger' = Append(ledger, AgentResultAccepted(s))
  /\ acceptedResultNonces' = Append(acceptedResultNonces, s.nonce)
  /\ UNCHANGED <<enrollmentTokens, agents, pendingTasks, pulledTasks, acceptedResults,
                 spooledResults, rejections, enqueued>>

\* Mutant: the envelope id is pushed on the list of nonces.
AcceptResultPushingId(s) ==
  /\ ledger' = Append(ledger, AgentResultAccepted(s))
  /\ acceptedResultNonces' = Append(acceptedResultNonces, s.envelope)
  /\ acceptedResults' = Append(acceptedResults, s)
  /\ UNCHANGED <<enrollmentTokens, agents, pendingTasks, pulledTasks, spooledResults,
                 rejections, enqueued>>

AcceptResult(s) ==
  /\ ledger' = Append(ledger, AgentResultAccepted(s))
  /\ acceptedResultNonces' = Append(acceptedResultNonces, s.nonce)
  /\ acceptedResults' = Append(acceptedResults, s)
  /\ UNCHANGED <<enrollmentTokens, agents, pendingTasks, pulledTasks, spooledResults,
                 rejections, enqueued>>

\* Both POST /v1/agent/result and POST /v1/agent/spool/replay end here.
SubmitResult(id, s, now) ==
  LET outcome == SubmitOutcome(id, s, now)
  IN  \/ outcome \in AuditedRejections /\ RefuseResult(s, outcome)
      \/ outcome = "Accepted" /\ AcceptResult(s)

SpoolResult(s) ==
  /\ Len(spooledResults) < MaxSpooled
  /\ ledger' = Append(ledger, AgentResultSpooled(s))
  /\ spooledResults' = Append(spooledResults, s)
  /\ UNCHANGED <<enrollmentTokens, agents, pendingTasks, pulledTasks, acceptedResultNonces,
                 acceptedResults, rejections, enqueued>>

-----------------------------------------------------------------------------

CpInit ==
  /\ enrollmentTokens = <<>>
  /\ agents = <<>>
  /\ pendingTasks = <<>>
  /\ pulledTasks = <<>>
  /\ acceptedResultNonces = <<>>
  /\ acceptedResults = <<>>
  /\ spooledResults = <<>>
  /\ ledger = <<>>
  /\ rejections = {}
  /\ enqueued = <<>>

CpNext ==
  \/ \E t \in Tokens : CreateEnrollmentToken(t)
  \/ \E r \in Enrollments, now \in Times : EnrollAgent(r, now)
  \/ \E e \in Envelopes : EnqueueTask(e)
  \/ \E id \in Identities, now \in Times : PullTask(id, now)
  \/ \E id \in Identities, s \in Submissions, now \in Times : SubmitResult(id, s, now)
  \/ \E s \in SpoolItems : SpoolResult(s)

CpSpec == CpInit /\ [][CpNext]_cpVars

-----------------------------------------------------------------------------
(* What the control plane promises, whoever calls it and in whatever order. *)

Agents == {[node |-> r.node, platform |-> r.platform, cert |-> r.cert] : r \in Enrollments}

LedgerEvents ==
  {EnrollmentTokenCreated(t) : t \in Tokens} \cup {AgentEnrolled(a) : a \in Agents} \cup
  {AgentTaskPulled(e) : e \in Envelopes} \cup {AgentResultAccepted(s) : s \in Submissions} \cup
  {AgentResultSpooled(s) : s \in SpoolItems}

RejectionEvents ==
  {AgentTaskRejected(n, "ExpiredEnvelope") : n \in Nodes} \cup
  {AgentResultRejected(s, reason) : s \in Submissions, reason \in AuditedRejections}

\* Every vector holds records of its own kind.
TypeOK ==
  /\ enrollmentTokens \in Seq(Tokens)
  /\ agents \in Seq(Agents)
  /\ pendingTasks \in Seq(Envelopes)
  /\ pulledTasks \in Seq(Envelopes)
  /\ acceptedResultNonces \in Seq({s.nonce : s \in Submissions})
  /\ acceptedResults \in Seq(Submissions)
  /\ spooledResults \in Seq(SpoolItems)
  /\ ledger \in Seq(LedgerEvents)
  /\ rejections \subseteq RejectionEvents
  /\ enqueued \in Seq(Envelopes)

\* Two accepted results never answer the same envelope, however often a task is
\* enqueued again, pulled again, resubmitted or replayed from a spool: the nonce
\* list and the first-match lookup of pulled_tasks in submit_result together
\* make acceptance happen once (runtime.rs, submit_result).
AcceptedOncePerEnvelope ==
  \A i, j \in DOMAIN acceptedResults :
    acceptedResults[i].envelope = acceptedResults[j].envelope => i = j

\* An accepted result carries the run, the task and the nonce of the task that was
\* handed out under its envelope id, and that task was handed out before the
\* result was accepted (runtime.rs, the checks of submit_result).
AnswersPulledTask(s, e) ==
  s.envelope = e.id /\ s.run = e.run /\ s.task = e.task /\ s.nonce = e.nonce

AcceptedAnswersPulled ==
  \A i \in DOMAIN acceptedResults : \E k \in DOMAIN pulledTasks :
    AnswersPulledTask(acceptedResults[i], pulledTasks[k])

\* For each node, the tasks handed out and then the tasks still queued are exactly
\* the tasks enqueued, in the order they were enqueued: pulling loses, duplicates
\* and reorders nothing, also when a pull is refused or other nodes' tasks stand
\* in between (runtime.rs, pull_task).
OfNode(q, n) == AllWith(q, "node", n)

QueueIsFifoPerNode ==
  \A n \in Nodes : OfNode(pulledTasks, n) \o OfNode(pendingTasks, n) = OfNode(enqueued, n)

\* The state can be rebuilt from the audit ledger: its events of each kind are, in
\* order, the entries of the vector that kind fills, and no result is recorded as
\* accepted before the record that its task was pulled.
EventsOf(kind) == AllWith(ledger, "kind", kind)

TokensRecorded ==
  EventsOf("EnrollmentTokenCreated") =
    [i \in DOMAIN enrollmentTokens |-> EnrollmentTokenCreated(enrollmentTokens[i])]
AgentsRecorded ==
  EventsOf("AgentEnrolled") = [i \in DOMAIN agents |-> AgentEnrolled(agents[i])]
PullsRecorded ==
  EventsOf("AgentTaskPulled") = [i \in DOMAIN pulledTasks |-> AgentTaskPulled(pulledTasks[i])]
ResultsRecorded ==
  EventsOf("AgentResultAccepted") =
    [i \in DOMAIN acceptedResults |-> AgentResultAccepted(acceptedResults[i])]
SpoolRecorded ==
  EventsOf("AgentResultSpooled") =
    [i \in DOMAIN spooledResults |-> AgentResultSpooled(spooledResults[i])]

PulledBeforeAccepted ==
  \A i \in DOMAIN ledger :
    ledger[i].kind = "AgentResultAccepted" =>
      \E j \in 1..(i - 1) :
        ledger[j].kind = "AgentTaskPulled" /\ ledger[j].envelope = ledger[i].envelope

LedgerExplainsState ==
  /\ TokensRecorded /\ AgentsRecorded /\ PullsRecorded /\ ResultsRecorded /\ SpoolRecorded
  /\ PulledBeforeAccepted

\* Once a node is enrolled, the certificate that speaks for it never changes: a
\* later enrollment, with this token or another, appends a record that
\* require_agent never reaches (runtime.rs, require_agent).
CertOf(n) ==
  LET k == FirstWith(agents, "node", n) IN IF k = 0 THEN {} ELSE {agents[k].cert}

IdentityNeverChanges ==
  [][\A n \in Nodes : CertOf(n) # {} => CertOf(n)' = CertOf(n)]_cpVars

\* The control plane implements TaskExchange: per node a queue, first in first out;
\* per envelope at most one answer, given after the task was handed out.
AnswerOf(id) ==
  acceptedResults[CHOOSE i \in DOMAIN acceptedResults : acceptedResults[i].envelope = id]

Exchange == INSTANCE TaskExchange WITH
  Nodes <- Nodes, Envelopes <- Envelopes, Submissions <- Submissions,
  AnswersTask <- AnswersPulledTask,
  queue <- [n \in Nodes |-> OfNode(pendingTasks, n)],
  handedOut <- ToSet(pulledTasks),
  answer <- [id \in {s.envelope : s \in ToSet(acceptedResults)} |-> AnswerOf(id)]

ImplementsTaskExchange == Exchange!Spec

\* docs/agent-protocol.md: "Agents enroll once with a short-lived enrollment token."
AgentsEnrollOnce ==
  \A i, j \in DOMAIN agents : agents[i].node = agents[j].node => i = j

===============================================================================
