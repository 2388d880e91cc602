-------------------------------- MODULE Journey --------------------------------
(***************************************************************************)
(* The commands that drive all components in order: the two simulations    *)
(* (src/crates/runlane-core/src/e2e.rs), the dogfood run of the agent      *)
(* (runlane-agent/src/main.rs), and the commands of runlane-server and     *)
(* runlane that persist a ledger, show a receipt or load a fleet.          *)
(*                                                                         *)
(* Control plane, approval store and helper are the modules of that name:  *)
(* a journey calls their handlers.  Planning, Analyzer, Collectors, Fleet  *)
(* and Receipt are its functions.  A journey keeps everything in memory    *)
(* but the state directory; a command may be killed at any step and the    *)
(* operator goes on with the next one of the session.                      *)
(*                                                                         *)
(* A state directory is the sequence of events its ledger holds, each      *)
(* appended in one step: DurableLedger is about the steps of an append.    *)
(* Printing, event ids and stage lists are left out.                       *)
(***************************************************************************)
EXTENDS Analyzer, Collectors, Fleet, Receipt, Lookup, FiniteSets

CONSTANTS
  Sessions,      \* what an operator does: sequences of commands
  Repositories,  \* Repositories[path]: the fleet repository at a path
  Hosts,         \* Hosts[host]: what the collectors' programs do there, by kind of evidence
  FirstSegment   \* FirstSegment[n]: the node id n up to its first slash

\* [does |-> "load", path]: fleet validate, server gitops sync
\* [does |-> "demo", journey, path]: demo, receipt show of a simulated run
\* [does |-> "write", journey, path]: state demo-write
\* [does |-> "dogfood", journey, node, service, os, host]: dogfood-service-unhealthy
\* [does |-> "receipt", run]: state receipt, receipt show of another run
ASSUME SessionsAssumption ==
  \A s \in Sessions :
    /\ IsVector(s)
    /\ \A i \in DOMAIN s :
         \/ s[i].does \in {"load", "receipt"}
         \/ s[i].does = "demo" /\ s[i].journey \in {"service", "disk"}
         \/ s[i].does = "write" /\ s[i].journey = "service"
         \/ s[i].does = "dogfood" /\ s[i].journey = "dogfood"

\* A path leads to the documents of its directories, in order.
ASSUME RepositoriesAssumption ==
  /\ \A s \in Sessions : \A i \in DOMAIN s :
       s[i].does \in {"load", "demo", "write"} => s[i].path \in DOMAIN Repositories
  /\ \A path \in DOMAIN Repositories : \A directory \in ToSet(Directories) :
       IsVector(Repositories[path][directory])

\* Runs are numbered up to the length of the longest session.
ASSUME LongestAssumption ==
  \E n \in {Len(s) : s \in Sessions} : \A s \in Sessions : Len(s) <= n

VARIABLES
  session,   \* the commands of this operator
  ended,     \* history: how those that ended did
  step,      \* where the command at work is, or "idle"
  resolved,  \* FleetRepository.resolved_overlay
  plan, evidence, proposal, receipt, \* what the command has found out
  audit,     \* its AuditLedger
  file,      \* the ledger of the state directory
  written,   \* how many of its events the command has appended
  enrollmentTokens, agents, pendingTasks, pulledTasks, acceptedResultNonces,
  acceptedResults, spooledResults, controlLedger, rejections, enqueued, \* its control plane
  records, decisions, leases, \* its approval store
  executed   \* history: what the helper accepted

findings == <<plan, evidence, proposal, receipt>>
controlPlane == <<enrollmentTokens, agents, pendingTasks, pulledTasks, acceptedResultNonces,
                  acceptedResults, spooledResults, controlLedger, rejections, enqueued>>
gate == <<records, decisions, leases, executed>>
memory == <<resolved, findings, audit, written, controlPlane, gate>>
jVars == <<session, ended, step, file, memory>>

-----------------------------------------------------------------------------
(* What the journeys are made of.                                          *)

Journeys ==
  [service |->
     [run |-> "run-demo-service-unhealthy", node |-> "prod-web-01", service |-> <<"sshd">>,
      approval |-> "approval-demo-service-unhealthy", actor |-> "operator", approvedAt |-> 150,
      requested |-> "restart-service", task |-> "restart-service", action |-> "ServiceRestart",
      entry |-> "allow-prod-web-sshd-restart", nonce |-> "lease-nonce-demo", expires |-> 200,
      policy |-> ServicePolicy],
   disk |->
     [run |-> "run-demo-disk-pressure", node |-> "prod-web-01", mount |-> <<>>,
      cleanup |-> Resource("System", "prod-web-01", "path", <<"var", "tmp", "cache">>),
      approval |-> "approval-demo-disk-pressure", actor |-> "operator", approvedAt |-> 150,
      requested |-> "remove-allowlisted-cleanup-path", task |-> "cleanup-allowlisted-path",
      action |-> "RemoveAllowlistedFile", entry |-> "allow-prod-web-cache-cleanup",
      nonce |-> "lease-nonce-demo-disk-pressure", expires |-> 200, policy |-> DiskPolicy],
   dogfood |->
     [run |-> "run-real-host-service-unhealthy",
      approval |-> "approval-real-host-service-unhealthy",
      actor |-> "real-host-dogfood-operator", approvedAt |-> 150,
      requested |-> "restart-service", task |-> "restart-service", action |-> "ServiceRestart",
      entry |-> "allow-restart", nonce |-> "real-host-dogfood-lease-nonce", expires |-> 300,
      policy |-> ServicePolicy]]

\* What a simulated agent finds.
SimulatedEvidence ==
  [id \in {"collect-service-status", "collect-recent-logs", "collect-disk-snapshot",
           "collect-process-snapshot", "collect-socket-snapshot", "collect-disk-usage",
           "collect-cleanup-candidate", "collect-disk-pressure-logs",
           "collect-pre-action-snapshot"} |->
     [source |-> id,
      markers |->
        CASE id = "collect-service-status" -> {"service=not-active"}
          [] id = "collect-recent-logs" -> {"failed", "connection refused"}
          [] id = "collect-disk-usage" -> {"disk_pressure=high", "usage=92"}
          [] id = "collect-cleanup-candidate" -> {"cleanup_candidate=present"}
          [] id = "collect-pre-action-snapshot" -> {"free_space=low", "cleanup_candidate=present"}
          [] OTHER -> {}]]

CollectTasks == AllWithin(plan.tasks, "id", DOMAIN SimulatedEvidence)
DogfoodKinds == <<"ServiceStatus", "RecentLogs", "Disk", "Process", "Socket">>

NoPlan == [tasks |-> <<>>]
NoProposal == [id |-> "none"]

Command == session[Len(ended) + 1]
Fleet == Repositories[Command.path]
Dogfood == Command.does = "dogfood"
Fixture == Journeys[Command.journey]
Node == IF Dogfood THEN Command.node ELSE Fixture.node
Service == IF Dogfood THEN Command.service ELSE Fixture.service

NodeOf(target) == IF target.layer = "System" THEN FirstSegment[target.node] ELSE "unknown-node"

\* The bounds of the components' own models are no bounds here.
Many == 99

CP == INSTANCE ControlPlane WITH
  ledger <- controlLedger, Identities <- {}, Tokens <- {}, Enrollments <- {}, Envelopes <- {},
  Submissions <- {}, SpoolItems <- {}, Times <- 100..200, MaxTokens <- Many,
  MaxEnrollments <- Many, MaxEnqueued <- Many, MaxSpooled <- Many, MaxRejections <- Many

\* A journey writes the helper's allowlist from the claims it has, so that it permits
\* whatever target they name: the service of a dogfood command, on its node, or what a
\* simulation is about.
DogfoodCommands == UNION {{c \in ToSet(s) : c.does = "dogfood"} : s \in Sessions}
JourneyTargets ==
  {ServiceResource(c.node, c.service) : c \in DogfoodCommands}
  \cup {ServiceResource(Journeys.service.node, Journeys.service.service), Journeys.disk.cleanup}

Gate == INSTANCE HelperGate WITH
  Requests <- {}, HelperActions <- HelperAction, Actors <- {}, Chats <- {}, ActorOf <- <<>>,
  Entries <- {}, Nonces <- {}, Times <- 100..300, MaxRequests <- Many,
  MaxAdapterRejections <- Many, HelperNodes <- {}, Targets <- JourneyTargets,
  Allowlist <- {[id |-> Journeys[j].entry, action |-> Journeys[j].action, target |-> t] :
                  j \in DOMAIN Journeys, t \in JourneyTargets},
  MaxExecutions <- Many

-----------------------------------------------------------------------------
(* Audit events, as Receipt reads them.                                    *)

\* The event of another component, under the run of the journey.
Labelled(event) ==
  [x \in DOMAIN event \cup {"run"} |-> IF x = "run" THEN Fixture.run ELSE event[x]]
Relabelled(events) == [i \in DOMAIN events |-> Labelled(events[i])]

IncidentCreated ==
  [kind |-> "IncidentCreated", run |-> Fixture.run, incident |-> Fixture.run, node |-> Node]
EvidenceCollected(item) ==
  [kind |-> "EvidenceCollected", run |-> Fixture.run, source |-> item.source]
ProposalGenerated(p) ==
  [kind |-> "ProposalGenerated", run |-> Fixture.run, proposal |-> p.id]
LeaseEvents(claims) ==
  <<[kind |-> "CapabilityLeaseIssued", run |-> Fixture.run, lease |-> claims.lease,
     approval |-> claims.approval],
    [kind |-> "ResourceLeaseGranted", run |-> Fixture.run, lease |-> claims.lease,
     resource |-> claims.target]>>
ActionResult(claims) ==
  [kind |-> "ActionResult", run |-> Fixture.run, action |-> Fixture.action,
   resource |-> claims.target, status |-> "Succeeded"]
VerificationSelected(v) == [kind |-> "VerificationSelected", run |-> Fixture.run, plan |-> v]
VerificationCompleted(check) ==
  [kind |-> "VerificationCompleted", run |-> Fixture.run, check |-> check.id,
   resource |-> check.resource]
VerificationSkipped(id) == [kind |-> "VerificationSkipped", run |-> Fixture.run, check |-> id]
VerificationEvents(v) ==
  <<VerificationSelected(v)>>
  \o [i \in DOMAIN v.required |-> VerificationCompleted(v.required[i])]
  \o [i \in DOMAIN v.skipped |-> VerificationSkipped(v.skipped[i])]
CognitiveReceiptGenerated == [kind |-> "CognitiveReceiptGenerated", run |-> Fixture.run]

-----------------------------------------------------------------------------
(* A command begins with nothing in memory and ends by printing a receipt, *)
(* an error, or neither.                                                   *)

At(s) == step = s
Go(s) == step' = s /\ UNCHANGED <<session, ended, file>>

\* How far the run of the command at work has come, in the words of RunState.
StateAtStep ==
  [collect |-> IF enqueued = <<>> /\ evidence = <<>> THEN "Planned" ELSE "CollectingEvidence",
   propose |-> "EvidenceCollected", request |-> "ProposalGenerated",
   approve |-> "WaitingForApproval", execute |-> "Approved", verify |-> "Executing",
   receipt |-> "Verifying"]
Reached ==
  IF receipt # NoReceipt THEN "Resolved"
  ELSE IF step \in DOMAIN StateAtStep THEN StateAtStep[step] ELSE "Created"

Outcome(how, shown, reached) == [how |-> how, shown |-> shown, reached |-> reached]
End(how, shown, reached) ==
  /\ ended' = Append(ended, Outcome(how, shown, reached))
  /\ step' = "idle"
  /\ UNCHANGED <<session, file, memory>>
Fail == End("Failed", NoReceipt, Reached)

EmptyMemory ==
  /\ resolved = <<>>
  /\ plan = NoPlan /\ evidence = <<>> /\ proposal = NoProposal /\ receipt = NoReceipt
  /\ audit = <<>> /\ written = 0
  /\ enrollmentTokens = <<>> /\ agents = <<>> /\ pendingTasks = <<>> /\ pulledTasks = <<>>
  /\ acceptedResultNonces = <<>> /\ acceptedResults = <<>> /\ spooledResults = <<>>
  /\ controlLedger = <<>> /\ rejections = {} /\ enqueued = <<>>
  /\ records = <<>> /\ decisions = <<>> /\ leases = <<>> /\ executed = <<>>

ForgetAll ==
  /\ resolved' = <<>>
  /\ plan' = NoPlan /\ evidence' = <<>> /\ proposal' = NoProposal /\ receipt' = NoReceipt
  /\ audit' = <<>> /\ written' = 0
  /\ enrollmentTokens' = <<>> /\ agents' = <<>> /\ pendingTasks' = <<>> /\ pulledTasks' = <<>>
  /\ acceptedResultNonces' = <<>> /\ acceptedResults' = <<>> /\ spooledResults' = <<>>
  /\ controlLedger' = <<>> /\ rejections' = {} /\ enqueued' = <<>>
  /\ records' = <<>> /\ decisions' = <<>> /\ leases' = <<>> /\ executed' = <<>>

Init ==
  /\ session \in Sessions
  /\ ended = <<>>
  /\ step = "idle"
  /\ file = <<>>
  /\ EmptyMemory

Begin ==
  /\ At("idle")
  /\ Len(ended) < Len(session)
  /\ Go(CASE Command.does = "dogfood" -> "start" [] Command.does = "receipt" -> "reload" [] OTHER -> "load")
  /\ ForgetAll

\* Any time the process may be killed.
Kill == ~ At("idle") /\ End("Killed", NoReceipt, Reached)

-----------------------------------------------------------------------------
(* Declare.                                                                *)

LoadFleet ==
  /\ At("load")
  /\ \/ LoadError(Fleet) # "None" /\ Fail
     \/ /\ LoadError(Fleet) = "None"
        /\ resolved' = ResolveOverlays(Fleet.overlays)
        /\ IF Command.does = "load" THEN Go("summary") /\ UNCHANGED audit
           ELSE Go("enrol") /\ audit' = <<IncidentCreated>>
        /\ UNCHANGED <<findings, written, controlPlane, gate>>

ShowSummary == At("summary") /\ End("Done", NoReceipt, Reached)

Inventory == Fleet.inventory

\* The fixtures' token and certificate ids are made of the node's id.
TokenFor(node) ==
  [secret |-> node.id, node |-> node.id, platform |-> node.os, expires |-> 200]
EnrollmentFor(node) ==
  [secret |-> node.id, node |-> node.id, platform |-> node.os, cert |-> node.id]

CreateToken ==
  /\ At("enrol")
  /\ Len(enrollmentTokens) = Len(agents) /\ Len(agents) < Len(Inventory)
  /\ CP!CreateEnrollmentToken(TokenFor(Inventory[Len(agents) + 1]))
  /\ UNCHANGED <<session, ended, step, file, resolved, findings, audit, written, gate>>

\* The second of two nodes under one id meets the token of the first.
EnrolNode ==
  /\ At("enrol")
  /\ Len(enrollmentTokens) > Len(agents)
  /\ LET node == Inventory[Len(agents) + 1]
         token == enrollmentTokens[CP!FirstWith(enrollmentTokens, "secret", node.id)]
     IN  \/ token.platform # node.os /\ Fail
         \/ /\ CP!EnrollAgent(EnrollmentFor(node), 100)
            /\ UNCHANGED <<session, ended, step, file, resolved, findings, audit, written, gate>>

\* The nodes of the inventory under the id the simulation is about.
Candidates == AllWith(Inventory, "id", Node)
DeclaredReport == CapabilityReport(Node, ParseOs[Candidates[1].os], Candidates[1].capabilities)
Report == IF Dogfood THEN NativeReport(Node, Command.os) ELSE DeclaredReport

PlanRequest ==
  IF Command.journey = "disk"
  THEN DiskPressureRequest(Fixture.run, Node, Fixture.mount, Fixture.cleanup, "cleanup")
  ELSE ServiceUnhealthyRequest(Fixture.run, Node, Service)
PlanError ==
  IF Command.journey = "disk" THEN DiskPressureError(PlanRequest, Report)
  ELSE ServiceUnhealthyError(PlanRequest, Report)
Planned ==
  IF Command.journey = "disk" THEN DiskPressurePlan(PlanRequest, Report)
  ELSE ServiceUnhealthyPlan(PlanRequest, Report)

PlanRun ==
  /\ plan' = Planned
  /\ Go("collect")
  /\ UNCHANGED <<resolved, evidence, proposal, receipt, written, controlPlane, gate>>

PlanSimulation ==
  /\ At("enrol")
  /\ Len(agents) = Len(Inventory)
  /\ \/ Candidates = <<>> /\ Fail
     \/ Candidates # <<>> /\ PlanError # <<>> /\ Fail
     \/ Candidates # <<>> /\ PlanError = <<>> /\ PlanRun /\ UNCHANGED audit

\* The dogfood run is for Linux, whose backend reports all that its runbook requires.
StartDogfood ==
  /\ At("start")
  /\ \/ Command.os # "Linux" /\ Fail
     \/ Command.os = "Linux" /\ PlanError = <<>> /\ PlanRun /\ audit' = <<IncidentCreated>>

-----------------------------------------------------------------------------
(* Observe.                                                                *)

Identity == agents[CP!FirstWith(agents, "node", Node)]

Envelope(task) ==
  [id |-> task.id, run |-> Fixture.run, task |-> task.id, node |-> Node, nonce |-> task.id,
   expires |-> 200]
Answer(envelope) ==
  [envelope |-> envelope.id, run |-> envelope.run, task |-> envelope.task,
   node |-> envelope.node, nonce |-> envelope.nonce, status |-> "Succeeded"]

Observing == UNCHANGED <<session, ended, step, file, resolved, findings, audit, written, gate>>

EnqueueCollect ==
  /\ At("collect") /\ ~ Dogfood
  /\ Len(enqueued) = Len(acceptedResults) /\ Len(enqueued) < Len(CollectTasks)
  /\ CP!EnqueueTask(Envelope(CollectTasks[Len(enqueued) + 1]))
  /\ Observing

PullCollect ==
  /\ At("collect") /\ ~ Dogfood
  /\ Len(pulledTasks) < Len(enqueued)
  /\ CP!PullTask(Identity, 101 + Len(pulledTasks))
  /\ Observing

SubmitCollect ==
  /\ At("collect") /\ ~ Dogfood
  /\ Len(acceptedResults) < Len(pulledTasks)
  /\ CP!SubmitResult(Identity, Answer(pulledTasks[Len(pulledTasks)]), 110 + Len(acceptedResults))
  /\ Observing

\* Mutant: the newest answer first.
AcceptedEvidenceReversed ==
  [i \in DOMAIN acceptedResults |->
     SimulatedEvidence[acceptedResults[Len(acceptedResults) + 1 - i].task]]

AcceptedEvidence ==
  LET answers == AllWith(AllWith(acceptedResults, "run", Fixture.run), "status", "Succeeded")
  IN  [i \in DOMAIN answers |-> SimulatedEvidence[answers[i].task]]

Observe ==
  /\ At("collect") /\ ~ Dogfood
  /\ Len(acceptedResults) = Len(CollectTasks)
  /\ Len(AcceptedEvidence) = Len(CollectTasks)
  /\ evidence' = AcceptedEvidence
  /\ audit' = audit \o Relabelled(controlLedger)
              \o [i \in DOMAIN evidence' |-> EvidenceCollected(evidence'[i])]
  /\ Go("propose")
  /\ UNCHANGED <<resolved, plan, proposal, receipt, written, controlPlane, gate>>

\* One native collector after the other; the first that fails ends the command.
CollectNatively ==
  /\ At("collect") /\ Dogfood
  /\ Len(evidence) < Len(DogfoodKinds)
  /\ LET kind == DogfoodKinds[Len(evidence) + 1]
         request == CollectorRequest(kind, Service)
         output == Hosts[Command.host][kind]
     IN  \/ CollectNativeError(Command.os, request, output) # <<>> /\ Fail
         \/ /\ CollectNativeError(Command.os, request, output) = <<>>
            /\ evidence' = Append(evidence, CollectNative(Command.os, request, output))
            /\ audit' = Append(audit, EvidenceCollected(evidence'[Len(evidence')]))
            /\ Go(IF Len(evidence') = Len(DogfoodKinds) THEN "propose" ELSE "collect")
            /\ UNCHANGED <<resolved, plan, proposal, receipt, written, controlPlane, gate>>

-----------------------------------------------------------------------------
(* Propose, approve, lease.                                                *)

\* The disk journey takes the fleet's cleanup allowlist, of whatever node it is.
AllowedCleanups ==
  {entry.target : entry \in {e \in ToSet(Fleet.allowlists) : e.action = "file.remove_from_allowlist"}}

Proposed ==
  IF Command.journey = "disk"
  THEN AnalyzeDiskPressure(Fixture.run, Node, Fixture.mount, Fixture.cleanup, evidence, AllowedCleanups)
  ELSE AnalyzeServiceUnhealthy(Fixture.run, Node, Service, evidence)

\* Only the dogfood run asks at once whether there is an action to approve.
HasServiceRestart(p) == \E i \in DOMAIN p.actions : p.actions[i].kind = "ServiceRestart"

Propose ==
  /\ At("propose")
  /\ \/ Dogfood /\ ~ HasServiceRestart(Proposed) /\ Fail
     \/ /\ ValidProposal(Proposed, Fixture.policy)
        /\ Dogfood => HasServiceRestart(Proposed)
        /\ proposal' = Proposed
        /\ audit' = Append(audit, ProposalGenerated(Proposed))
        /\ Go("request")
        /\ UNCHANGED <<resolved, plan, evidence, receipt, written, controlPlane, gate>>

\* ApprovalRecord::new finds the action in the proposal, and panics if it is not there.
ActionsNamed(id) == AllWith(proposal.actions, "id", id)
ApprovalRecord(action) ==
  [id |-> Fixture.approval, actionId |-> action.id, action |-> action.kind,
   target |-> action.target, expires |-> Fixture.expires, state |-> "Pending"]

\* Mutant: a request counts as approved.
RequestCountsAsApproved ==
  /\ At("request")
  /\ ActionsNamed(Fixture.requested) # <<>>
  /\ Gate!Request(ApprovalRecord(ActionsNamed(Fixture.requested)[1]))
  /\ Go("execute")
  /\ UNCHANGED <<resolved, findings, audit, written, controlPlane, executed>>

RequestApproval ==
  /\ At("request")
  /\ \/ ActionsNamed(Fixture.requested) = <<>> /\ End("Panicked", NoReceipt, Reached)
     \/ /\ ActionsNamed(Fixture.requested) # <<>>
        /\ Gate!Request(ApprovalRecord(ActionsNamed(Fixture.requested)[1]))
        /\ Go("approve")
        /\ UNCHANGED <<resolved, findings, audit, written, controlPlane, executed>>

\* The journey's ledger hears of the request only now, with the decision.
ApproveAction ==
  /\ At("approve")
  /\ Gate!Approve(Fixture.approval, Fixture.requested, Fixture.actor, Fixture.approvedAt,
                  Fixture.entry, Fixture.nonce)
  /\ audit' = audit \o Relabelled(decisions') \o LeaseEvents(leases'[Len(leases')].claims)
  /\ Go("execute")
  /\ UNCHANGED <<resolved, findings, written, controlPlane, executed>>

-----------------------------------------------------------------------------
(* Execute, verify, remember.                                              *)

Claims == leases[Len(leases)].claims
HelperRequest == [lease |-> Claims.lease, action |-> Fixture.action, target |-> Claims.target]

ExecuteAction ==
  /\ At("execute")
  /\ \/ ~ Gate!HelperAccepts(HelperRequest, Claims, Node, Fixture.approvedAt, {}) /\ Fail
     \/ /\ Gate!HelperExecute(HelperRequest, Claims, Node, Fixture.approvedAt, {})
        /\ audit' = Append(audit, ActionResult(Claims))
        /\ Go("verify")
        /\ UNCHANGED <<resolved, findings, written, controlPlane>>

MutatingTask == plan.tasks[CHOOSE i \in DOMAIN plan.tasks : plan.tasks[i].id = Fixture.task]

\* The checks are planned again, from the task's impact, its skips taken from the task's
\* plan, and counted as completed.
Verify ==
  /\ At("verify")
  /\ audit' = audit \o VerificationEvents(
       WithSkipped(PlanVerification(Fixture.action, MutatingTask.impact, Minimal),
                   MutatingTask.verification.skipped))
  /\ Go("receipt")
  /\ UNCHANGED <<resolved, findings, written, controlPlane, gate>>

\* The dogfood run records that there is a receipt before it generates it.
GenerateTheReceipt ==
  /\ At("receipt")
  /\ audit' = Append(audit, CognitiveReceiptGenerated)
  /\ receipt' = GenerateReceipt(Fixture.run, IF Dogfood THEN audit' ELSE audit)
  /\ receipt' # NoReceipt
  /\ Go(IF Command.does = "demo" THEN "done" ELSE "persist")
  /\ UNCHANGED <<resolved, plan, evidence, proposal, written, controlPlane, gate>>

\* Mutant: whatever the file holds.
PersistUnchecked ==
  /\ At("persist")
  /\ written < Len(audit)
  /\ file' = Append(file, audit[written + 1])
  /\ written' = written + 1
  /\ UNCHANGED <<session, ended, step, resolved, findings, audit, controlPlane, gate>>

\* Mutant: wait until the file is as long as the command expects.
PersistWaiting ==
  /\ At("persist")
  /\ written < Len(audit)
  /\ Len(file) = written
  /\ file' = Append(file, audit[written + 1])
  /\ written' = written + 1
  /\ UNCHANGED <<session, ended, step, resolved, findings, audit, controlPlane, gate>>

\* append_ledger: the event is refused unless it continues what the file holds.
Persist ==
  /\ At("persist")
  /\ written < Len(audit)
  /\ \/ Len(file) # written /\ Fail
     \/ /\ Len(file) = written
        /\ file' = Append(file, audit[written + 1])
        /\ written' = written + 1
        /\ UNCHANGED <<session, ended, step, resolved, findings, audit, controlPlane, gate>>

Finish ==
  /\ \/ At("done")
     \/ At("persist") /\ written = Len(audit)
  /\ End("Done", receipt, "Reviewed")

ShowReceipt ==
  /\ At("reload")
  /\ LET shown == GenerateReceipt(Command.run, file)
     IN  \/ shown = NoReceipt /\ Fail
         \/ shown # NoReceipt /\ End("Done", shown, Reached)

-----------------------------------------------------------------------------

Step ==
  \/ LoadFleet \/ ShowSummary \/ CreateToken \/ EnrolNode \/ PlanSimulation \/ StartDogfood
  \/ EnqueueCollect \/ PullCollect \/ SubmitCollect \/ Observe \/ CollectNatively
  \/ Propose \/ RequestApproval \/ ApproveAction \/ ExecuteAction
  \/ Verify \/ GenerateTheReceipt \/ Persist \/ Finish \/ ShowReceipt

Next == Begin \/ Step \/ Kill

\* A command that is not killed goes on; nothing makes an operator start the next one.
Spec == Init /\ [][Next]_jVars /\ WF_jVars(Step)

-----------------------------------------------------------------------------
(* What the commands promise together.                                     *)

JourneyRunning == ~ At("idle") /\ Command.does \in {"demo", "write", "dogfood"}

\* Where a command is agrees with what it has in memory: it plans, proposes, leases and
\* executes once each, in that order, and what it wrote is a prefix of its ledger.
JourneyTypeOK ==
  /\ Len(ended) <= Len(session)
  /\ \A i \in DOMAIN ended : ended[i].how \in {"Done", "Failed", "Panicked", "Killed"}
  /\ JourneyRunning =>
       /\ Len(acceptedResults) <= Len(pulledTasks) /\ Len(pulledTasks) <= Len(enqueued)
       /\ Len(enqueued) <= Len(acceptedResults) + 1
       /\ Len(executed) <= Len(leases) /\ Len(leases) <= Len(records) /\ Len(records) <= 1
       /\ (step \in {"load", "enrol", "start"}) = (plan = NoPlan)
       /\ step \in {"receipt", "persist", "done"} => executed # <<>>
  /\ written <= Len(audit)
  /\ SubSeq(audit, 1, written) = SubSeq(file, 1, written)

\* A receipt tells what happened.  Whenever the ledger of a journey yields one, the
\* approval it names is the store's, approved; the action and the only resource it calls
\* changed are those the helper accepted under a lease of that approval; its evidence
\* is what the control plane accepted, or the collectors returned, in that order
\* (receipt.rs, e2e.rs, runlane-agent/src/main.rs).
EvidenceTaken ==
  IF Dogfood THEN [i \in DOMAIN evidence |-> evidence[i].source]
  ELSE [i \in DOMAIN acceptedResults |-> acceptedResults[i].task]

ReceiptTellsWhatHappened ==
  JourneyRunning =>
    LET told == GenerateReceipt(Fixture.run, audit)
    IN  told # NoReceipt =>
          /\ told.node = Node
          /\ told.evidence = EvidenceTaken
          /\ \E r \in ToSet(records) : r.id = told.approval /\ r.state = "Approved"
          /\ \E deed \in ToSet(executed), lease \in ToSet(leases) :
               /\ lease.claims.lease = told.lease
               /\ {lease.claims.approval, deed.approval} = {told.approval}
               /\ told.action = deed.action
               /\ told.changed = {deed.target}

\* What a command reported as persisted is there for every later command: the receipt
\* generated from the state directory is the receipt the command held, whatever other
\* commands did to the directory since (durable.rs, append_ledger, render_receipt).
ReloadedReceiptIsReported ==
  \A i \in DOMAIN ended :
    ended[i].how = "Done" /\ session[i].does \in {"write", "dogfood"} =>
      GenerateReceipt(Journeys[session[i].journey].run, file) = ended[i].shown

\* What the helper is let do is what the runbook planned: the target the analyzer proposed
\* is written, under an exclusive lease, by the plan's mutating task of the same node,
\* all the evidence that task depends on was collected, and once verification is chosen a
\* check of the action's direct impact is about that target (planners and analyzers of
\* lib.rs and analyzer.rs, which know nothing of each other).
ApprovedIsPlanned ==
  JourneyRunning =>
    \A i \in DOMAIN executed :
      /\ executed[i].target \in ToSet(MutatingTask.writes)
      /\ [resource |-> executed[i].target, mode |-> "Exclusive"] \in MutatingTask.requests
      /\ executed[i].node = Node
      /\ Cardinality(MutatingTask.dependencies) = Len(evidence)
      /\ \A j \in DOMAIN audit : audit[j].kind = "VerificationSelected" =>
           \E check \in ToSet(audit[j].plan.required) :
             check.tier = "DirectImpact" /\ check.resource = executed[i].target

\* No receipt, from memory or from the state directory, calls a check both verified and
\* skipped, and one that a command held has every selected check verified.
ChecksSettle ==
  /\ \A i \in DOMAIN ended : ended[i].shown # NoReceipt =>
       \A done \in ToSet(ended[i].shown.completed) : done[1] \notin ended[i].shown.skipped
  /\ receipt # NoReceipt =>
       \A check \in ToSet(receipt.checks) : <<check.id, check.resource>> \in ToSet(receipt.completed)

\* Overlay precedence, stated without sorting: a resolved setting comes from a fragment
\* that has it, such that no other fragment with that key is of a higher tier, or of the
\* same tier and later in path order; every key any fragment has is resolved
\* (resolve_fleet_overlays).
Overrides(i, j, overlays) ==
  \/ Rank(overlays[i].tier) > Rank(overlays[j].tier)
  \/ Rank(overlays[i].tier) = Rank(overlays[j].tier) /\ i > j

OverlayPrecedence ==
  step \in {"summary", "enrol"} =>
    LET overlays == Fleet.overlays
        Having(key) == {i \in DOMAIN overlays : key \in DOMAIN overlays[i].settings}
    IN  /\ DOMAIN resolved = UNION {DOMAIN overlays[i].settings : i \in DOMAIN overlays}
        /\ \A key \in DOMAIN resolved : \E i \in Having(key) :
             /\ resolved[key] = overlays[i].settings[key]
             /\ \A j \in Having(key) \ {i} : Overrides(i, j, overlays)

\* Each command takes its run through the lifecycle of RunLifecycle, one valid transition
\* at a time, and leaves it where it was if it fails, panics or is killed (lib.rs,
\* is_valid_run_transition, which no journey calls).
Longest == CHOOSE n \in {Len(s) : s \in Sessions} : \A s \in Sessions : Len(s) <= n

Lifecycle == INSTANCE RunLifecycle WITH
  Runs <- 1..Longest,
  state <- [i \in 1..Longest |->
              IF i <= Len(ended) THEN ended[i].reached
              ELSE IF i = Len(ended) + 1 /\ ~ At("idle") THEN Reached
              ELSE "Created"]

ImplementsRunLifecycle == Lifecycle!Spec

\* Every command ends: whatever the fleet, the host and the state directory hold, a
\* journey never waits for something that does not come.
EveryCommandEnds == ~ At("idle") ~> At("idle")

\* docs/server-state.md, "Render the receipt": the server does not produce partial success
\* receipts from incomplete durable state.
NoPartialReceipt ==
  \A i \in DOMAIN ended : session[i].does = "receipt" /\ ended[i].how = "Done" =>
    \E j \in 1..(i - 1) : ended[j].how = "Done" /\ session[j].does \in {"write", "dogfood"}

===============================================================================
