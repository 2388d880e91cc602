----------------------------- MODULE PullProtocol -----------------------------
(***************************************************************************)
(* Agents that pull tasks from the control plane and submit their results  *)
(* over HTTP (src/crates/runlane-server/src/http.rs), from the moment the  *)
(* agents are enrolled.                                                    *)
(*                                                                         *)
(* A request or a response may be delayed, overtaken by another, or lost;  *)
(* an agent repeats a request whenever it likes, and each repetition       *)
(* carries the time its own clock shows then.  The agent's side is the     *)
(* client of the protocol: the repository holds its messages and the       *)
(* server's handlers, not yet its loop.                                    *)
(***************************************************************************)
EXTENDS ControlPlane

CONSTANTS MaxClock,  \* bound on every clock
          MaxInFlight, \* bound on the copies of one result an agent has in flight
          Statuses,  \* how an execution can end
          Fleet      \* the enrolled agents, [token, agent], in the order they enrolled

ASSUME ClocksAssumption == MaxClock \in Nat /\ Times = 0..MaxClock

ASSUME FleetAssumption ==
  /\ Fleet \in Seq([token : Tokens, agent : Agents])
  /\ \A i \in DOMAIN Fleet :
       /\ Fleet[i].agent.node = Fleet[i].token.node
       /\ Fleet[i].agent.platform = Fleet[i].token.platform
       /\ Fleet[i].token.expires > 0

VARIABLES
  clock,     \* clock[a]: what agent a believes the time is
  network,   \* messages in flight
  spool,     \* spool[a]: results a holds and has not seen accepted
  executed   \* history: executed[a], every result a ever produced

agentVars == <<clock, spool, executed>>
vars == <<cpVars, clock, network, spool, executed>>

ResultOf(e, status) ==
  [envelope |-> e.id, run |-> e.run, task |-> e.task, node |-> e.node, nonce |-> e.nonce,
   status |-> status]

ASSUME ResultsAssumption ==
  \A e \in Envelopes, status \in Statuses : ResultOf(e, status) \in Submissions

PullRequest(a, now) == [kind |-> "pull", from |-> a, now |-> now]
ResultRequest(a, s, now) == [kind |-> "result", from |-> a, result |-> s, now |-> now]
TaskResponse(a, e) == [kind |-> "task", to |-> a, task |-> e]
ResultResponse(a, s, outcome) ==
  [kind |-> "answer", to |-> a, result |-> s, outcome |-> outcome]

-----------------------------------------------------------------------------
(* The control plane as it is when the last agent of the fleet has enrolled. *)

Init ==
  /\ enrollmentTokens = [i \in DOMAIN Fleet |-> Fleet[i].token]
  /\ agents = [i \in DOMAIN Fleet |-> Fleet[i].agent]
  /\ ledger = [i \in DOMAIN Fleet |-> EnrollmentTokenCreated(Fleet[i].token)]
                \o [i \in DOMAIN Fleet |-> AgentEnrolled(Fleet[i].agent)]
  /\ pendingTasks = <<>> /\ pulledTasks = <<>> /\ enqueued = <<>>
  /\ acceptedResultNonces = <<>> /\ acceptedResults = <<>> /\ spooledResults = <<>>
  /\ rejections = {}
  /\ clock = [a \in Identities |-> 0]
  /\ network = {}
  /\ spool = [a \in Identities |-> {}]
  /\ executed = [a \in Identities |-> {}]

-----------------------------------------------------------------------------
(* The server.                                                             *)

Enqueue(e) ==
  /\ EnqueueTask(e)
  /\ UNCHANGED <<agentVars, network>>

\* POST /v1/agent/pull: only a task handed out is a response the agent can use.
ServePull(m) ==
  /\ m \in network /\ m.kind = "pull"
  /\ LET outcome == PullOutcome(m.from, m.now)
         k == FirstWith(pendingTasks, "node", m.from.node)
     IN  /\ IF outcome \in {"Pulled", "TaskEnvelopeRejected"}
            THEN PullTask(m.from, m.now)
            ELSE UNCHANGED cpVars
         /\ network' = (network \ {m}) \cup
              (IF outcome = "Pulled" THEN {TaskResponse(m.from, pendingTasks[k])} ELSE {})
  /\ UNCHANGED agentVars

\* POST /v1/agent/result and POST /v1/agent/spool/replay.
ServeResult(m) ==
  /\ m \in network /\ m.kind = "result"
  /\ LET outcome == SubmitOutcome(m.from, m.result, m.now)
     IN  /\ IF outcome \in AuditedRejections \cup {"Accepted"}
            THEN SubmitResult(m.from, m.result, m.now)
            ELSE UNCHANGED cpVars
         /\ network' = (network \ {m}) \cup {ResultResponse(m.from, m.result, outcome)}
  /\ UNCHANGED agentVars

-----------------------------------------------------------------------------
(* The agents and the network.                                             *)

Tick(a) ==
  /\ clock[a] < MaxClock
  /\ clock' = [clock EXCEPT ![a] = @ + 1]
  /\ UNCHANGED <<cpVars, network, spool, executed>>

PullsInFlight(a) == {m \in network : m.kind = "pull" /\ m.from = a}
ResultsInFlight(a, s) == {m \in network : m.kind = "result" /\ m.from = a /\ m.result = s}

\* One poll at a time, as a bound of the model.
SendPull(a) ==
  /\ PullsInFlight(a) = {}
  /\ network' = network \cup {PullRequest(a, clock[a])}
  /\ UNCHANGED <<cpVars, agentVars>>

\* Mutant: the envelope goes to the spool in the place of the result.
ExecuteSpoolingTask(m, status) ==
  /\ m \in network /\ m.kind = "task"
  /\ network' = network \ {m}
  /\ spool' = [spool EXCEPT ![m.to] = @ \cup {m.task}]
  /\ executed' = [executed EXCEPT ![m.to] = @ \cup {ResultOf(m.task, status)}]
  /\ UNCHANGED <<cpVars, clock>>

\* The agent executes the task and keeps the result until it sees it accepted.
Execute(m, status) ==
  /\ m \in network /\ m.kind = "task"
  /\ network' = network \ {m}
  /\ spool' = [spool EXCEPT ![m.to] = @ \cup {ResultOf(m.task, status)}]
  /\ executed' = [executed EXCEPT ![m.to] = @ \cup {ResultOf(m.task, status)}]
  /\ UNCHANGED <<cpVars, clock>>

\* First submission, retry and spool replay all look like this.
SendResult(a, s) ==
  /\ s \in spool[a]
  /\ Cardinality(ResultsInFlight(a, s)) < MaxInFlight
  /\ network' = network \cup {ResultRequest(a, s, clock[a])}
  /\ UNCHANGED <<cpVars, agentVars>>

ReceiveAnswer(m) ==
  /\ m \in network /\ m.kind = "answer"
  /\ network' = network \ {m}
  /\ spool' = IF m.outcome = "Accepted"
              THEN [spool EXCEPT ![m.to] = @ \ {m.result}] ELSE spool
  /\ UNCHANGED <<cpVars, clock, executed>>

Lose(m) ==
  /\ network' = network \ {m}
  /\ UNCHANGED <<cpVars, agentVars>>

Next ==
  \/ \E e \in Envelopes : Enqueue(e)
  \/ \E m \in network : ServePull(m)
  \/ \E m \in network : ServeResult(m)
  \/ \E a \in Identities : Tick(a)
  \/ \E a \in Identities : SendPull(a)
  \/ \E m \in network, status \in Statuses : Execute(m, status)
  \/ \E a \in Identities, s \in Submissions : SendResult(a, s)
  \/ \E m \in network : ReceiveAnswer(m)
  \/ \E m \in network : Lose(m)

Spec == Init /\ [][Next]_vars

\* An agent keeps polling and keeps offering what its spool holds; the network may lose
\* any message but not every one of them for ever; the server answers what arrives.
Fairness ==
  /\ \A a \in Identities :
       /\ WF_vars(SendPull(a))
       /\ SF_vars(\E m \in PullsInFlight(a) : ServePull(m))
  /\ \A a \in Identities, s \in Submissions :
       /\ WF_vars(SendResult(a, s))
       /\ SF_vars(\E m \in ResultsInFlight(a, s) : ServeResult(m))

FairSpec == Spec /\ Fairness

-----------------------------------------------------------------------------

Accepted(id) == \E i \in DOMAIN acceptedResults : acceptedResults[i].envelope = id

MessageTypeOK(m) ==
  \/ m.kind = "pull" /\ m.from \in Identities /\ m.now \in Times
  \/ m.kind = "result" /\ m.from \in Identities /\ m.result \in Submissions /\ m.now \in Times
  \/ m.kind = "task" /\ m.to \in Identities /\ m.task \in Envelopes
  \/ m.kind = "answer" /\ m.to \in Identities /\ m.result \in Submissions

\* The composed state is well formed.
ProtocolTypeOK ==
  /\ TypeOK
  /\ clock \in [Identities -> Times]
  /\ \A m \in network : MessageTypeOK(m)
  /\ spool \in [Identities -> SUBSET Submissions]
  /\ executed \in [Identities -> SUBSET Submissions]

\* Retrying is safe to give up on a replay refusal: when the server answers
\* ResultNonceReplay, a result for that very envelope has been accepted, so a lost
\* response followed by a spool replay never hides an unanswered task
\* (runtime.rs, submit_result; http.rs, replay_spool).
ReplayMeansAccepted ==
  \A m \in network :
    m.kind = "answer" /\ m.outcome = "ResultNonceReplay" => Accepted(m.result.envelope)

\* Whatever the network loses, a result an agent produced is held by that agent or
\* accepted by the server: an agent clears its spool on "accepted" only, and the
\* server answers "accepted" only for what it has stored (http.rs, submit_result).
ResultNeverLost ==
  \A a \in Identities : \A s \in executed[a] :
    s \in spool[a] \/ s \in ToSet(acceptedResults)

\* A result that is kept in a spool and offered again and again is settled: its
\* envelope is answered, or the agent's clock has reached the envelope's expiry
\* (agent-protocol.md, "Local Spool Semantics"; runtime.rs, submit_result).
Expired(a, id) == \E e \in Envelopes : e.id = id /\ e.expires <= clock[a]

ResultSettles ==
  \A a \in Identities, s \in Submissions :
    s \in spool[a] ~> Accepted(s.envelope) \/ Expired(a, s.envelope)

\* A task queued for a node whose enrolled agent keeps polling is handed out, unless
\* the first task of that node's queue has expired: pull_task refuses an expired task
\* and leaves it at the head, so it holds back everything behind it (runtime.rs,
\* pull_task).
HeadExpired(n) ==
  LET k == FirstWith(pendingTasks, "node", n)
  IN  k # 0 /\ \E a \in Identities : a.node = n /\ pendingTasks[k].expires <= clock[a]

TaskHandedOut ==
  \A e \in Envelopes :
    e \in ToSet(pendingTasks) ~> e \in ToSet(pulledTasks) \/ HeadExpired(e.node)

===============================================================================
