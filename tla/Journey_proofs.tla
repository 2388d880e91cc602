---------------------------- MODULE Journey_proofs ----------------------------
(***************************************************************************)
(* Proofs about Journey, for every session, fleet repository and host, and *)
(* wherever commands are killed.  Seven invariants carry them:             *)
(*   Control, where the command at work is;                                *)
(*   Progress, what it has in memory there;                                *)
(*   Directory, what the state directory holds;                            *)
(*   Served, what its control plane holds;                                 *)
(*   Telling, what its ledger tells, and what was decided and done;        *)
(*   Settled, what receipts say of checks;                                 *)
(*   Overlaid, what the fleet's overlays resolve to.                       *)
(* The last two sections are about the functions a journey calls, for any  *)
(* arguments.                                                              *)
(***************************************************************************)
EXTENDS Journey, Lookup_proofs, FiniteSetTheorems

-----------------------------------------------------------------------------
(* Where the command at work is.                                           *)

\* The commands that simulate, those that take a run along, and the steps they share.
Simulating == {"demo", "write"}
Running == {"demo", "write", "dogfood"}
StepsOfRuns ==
  {"collect", "propose", "request", "approve", "execute", "verify", "receipt"}

\* Which steps which commands take.
StepFits ==
  \/ step = "idle"
  \/ step = "load" /\ Command.does \in {"load", "demo", "write"}
  \/ step = "summary" /\ Command.does = "load"
  \/ step = "reload" /\ Command.does = "receipt"
  \/ step = "start" /\ Command.does = "dogfood"
  \/ step = "enrol" /\ Command.does \in Simulating
  \/ step \in StepsOfRuns /\ Command.does \in Running
  \/ step = "persist" /\ Command.does \in {"write", "dogfood"}
  \/ step = "done" /\ Command.does = "demo"

\* The invariant of where the command at work is.
Control ==
  /\ session \in Sessions
  /\ IsVector(ended)
  /\ Len(ended) <= Len(session)
  /\ step # "idle" => Len(ended) < Len(session)
  /\ StepFits

\* No command is at work at first.
LEMMA ControlStarts == Init => Control
  BY VectorEmpty, SessionsAssumption DEF Init, Control, StepFits, IsVector

\* While there is a command at work it is one of the kinds a session is made of.
LEMMA CommandKnown ==
  ASSUME session \in Sessions, IsVector(ended), Len(ended) < Len(session)
  PROVE  /\ IsVector(session)
         /\ \/ Command.does \in {"load", "receipt"}
            \/ Command.does = "demo" /\ Command.journey \in {"service", "disk"}
            \/ Command.does = "write" /\ Command.journey = "service"
            \/ Command.does = "dogfood" /\ Command.journey = "dogfood"
<1>1. IsVector(session) /\ Len(ended) + 1 \in 1..Len(session)
  BY SessionsAssumption DEF IsVector
<1>2. Len(ended) + 1 \in DOMAIN session
  BY <1>1, VectorIsSeq
<1> QED  BY <1>1, <1>2, SessionsAssumption DEF Command

\* Every step goes where its command does, and only its end makes room for the next one.
LEMMA ControlSteps == Control /\ [Next]_jVars => Control'
<1> SUFFICES ASSUME Control, [Next]_jVars PROVE Control'
  OBVIOUS
<1>1. CASE UNCHANGED jVars
  BY <1>1 DEF jVars, Control, StepFits, Command
<1>2. ASSUME NEW how, NEW shown, NEW reached, End(how, shown, reached), step # "idle"  PROVE Control'
  <2>1. ended' = Append(ended, Outcome(how, shown, reached)) /\ session' = session /\ step' = "idle"
    BY <1>2 DEF End
  <2>2. IsVector(ended') /\ Len(ended') = Len(ended) + 1
    BY <2>1, VectorAppend DEF Control
  <2>3. Len(ended) \in Nat /\ Len(session) \in Nat
    BY SessionsAssumption DEF Control, IsVector
  <2> QED  BY <2>1, <2>2, <2>3, <1>2 DEF Control, StepFits
<1>3. ASSUME UNCHANGED <<session, ended>>, step # "idle", StepFits'  PROVE Control'
  BY <1>3 DEF Control
<1>4. CASE Begin
  BY <1>4, CommandKnown DEF Begin, At, Go, Control, StepFits, Command, Simulating
<1>5. CASE Kill
  BY <1>5, <1>2 DEF Kill, At
<1>6. ASSUME Fail, step # "idle" PROVE Control'
  BY <1>2, <1>6 DEF Fail
<1>7. CASE LoadFleet
  <2>1. CASE LoadError(Fleet) # "None"
    BY <1>6, <1>7, <2>1 DEF LoadFleet, At
  <2>2. CASE LoadError(Fleet) = "None"
    <3>1. step = "load" /\ Command.does \in {"load", "demo", "write"}
      BY <1>7 DEF LoadFleet, At, Control, StepFits, StepsOfRuns
    <3>2. UNCHANGED <<session, ended>> /\ Command' = Command
      BY <1>7, <2>2 DEF LoadFleet, Go, Command
    <3>3. CASE Command.does = "load"
      <4>1. step' = "summary"
        BY <1>7, <2>2, <3>3 DEF LoadFleet, Go
      <4> QED  BY <1>3, <3>1, <3>2, <3>3, <4>1 DEF StepFits
    <3>4. CASE Command.does # "load"
      <4>1. step' = "enrol"
        BY <1>7, <2>2, <3>4 DEF LoadFleet, Go
      <4> QED  BY <1>3, <3>1, <3>2, <3>4, <4>1 DEF StepFits, Simulating
    <3> QED  BY <3>3, <3>4
  <2> QED  BY <2>1, <2>2
<1>8. CASE ShowSummary
  BY <1>8, <1>2 DEF ShowSummary, At
<1>9. CASE CreateToken
  BY <1>9 DEF CreateToken, At, Control, StepFits, Command, Simulating
<1>10. CASE EnrolNode
  <2>1. CASE Fail
    BY <1>10, <1>6, <2>1 DEF EnrolNode, At
  <2>2. CASE ~ Fail
    BY <1>10, <2>2 DEF EnrolNode, At, Control, StepFits, Command, Simulating
  <2> QED  BY <2>1, <2>2
<1>11. CASE PlanSimulation
  <2>1. CASE Fail
    BY <1>11, <1>6, <2>1 DEF PlanSimulation, At
  <2>2. CASE ~ Fail
    BY <1>11, <2>2 DEF PlanSimulation, PlanRun, Go, At, Control, StepFits, Command, Simulating,
       StepsOfRuns, Running
  <2> QED  BY <2>1, <2>2
<1>12. CASE StartDogfood
  <2>1. CASE Fail
    BY <1>12, <1>6, <2>1 DEF StartDogfood, At
  <2>2. CASE ~ Fail
    BY <1>12, <2>2 DEF StartDogfood, PlanRun, Go, At, Control, StepFits, Command, Simulating,
       StepsOfRuns, Running
  <2> QED  BY <2>1, <2>2
<1>13. CASE EnqueueCollect
  BY <1>13 DEF EnqueueCollect, Observing, Control, StepFits, Command
<1>14. CASE PullCollect
  BY <1>14 DEF PullCollect, Observing, Control, StepFits, Command
<1>15. CASE SubmitCollect
  BY <1>15 DEF SubmitCollect, Observing, Control, StepFits, Command
<1>16. CASE Observe
  BY <1>16 DEF Observe, Go, At, Control, StepFits, Command, StepsOfRuns, Running, Simulating
<1>17. CASE CollectNatively
  <2>1. CASE Fail
    BY <1>17, <1>6, <2>1 DEF CollectNatively, At
  <2>2. CASE ~ Fail
    BY <1>17, <2>2 DEF CollectNatively, Go, At, Control, StepFits, Command, StepsOfRuns, Running,
       Simulating
  <2> QED  BY <2>1, <2>2
<1>18. CASE Propose
  <2>1. CASE Fail
    BY <1>18, <1>6, <2>1 DEF Propose, At
  <2>2. CASE ~ Fail
    BY <1>18, <2>2 DEF Propose, Go, At, Control, StepFits, Command, StepsOfRuns, Running, Simulating
  <2> QED  BY <2>1, <2>2
<1>19. CASE RequestApproval
  <2>1. CASE ActionsNamed(Fixture.requested) = <<>>
    BY <1>19, <1>2, <2>1 DEF RequestApproval, At
  <2>2. CASE ActionsNamed(Fixture.requested) # <<>>
    BY <1>19, <2>2 DEF RequestApproval, Go, At, Control, StepFits, Command, StepsOfRuns, Running,
       Simulating
  <2> QED  BY <2>1, <2>2
<1>20. CASE ApproveAction
  BY <1>20 DEF ApproveAction, Go, At, Control, StepFits, Command, StepsOfRuns, Running, Simulating
<1>21. CASE ExecuteAction
  <2>1. CASE Fail
    BY <1>21, <1>6, <2>1 DEF ExecuteAction, At
  <2>2. CASE ~ Fail
    BY <1>21, <2>2 DEF ExecuteAction, Go, At, Control, StepFits, Command, StepsOfRuns, Running,
       Simulating
  <2> QED  BY <2>1, <2>2
<1>22. CASE Verify
  BY <1>22 DEF Verify, Go, At, Control, StepFits, Command, StepsOfRuns, Running, Simulating
<1>23. CASE GenerateTheReceipt
  BY <1>23 DEF GenerateTheReceipt, Go, At, Control, StepFits, Command, StepsOfRuns, Running,
     Simulating
<1>24. CASE Persist
  <2>1. CASE Fail
    BY <1>24, <1>6, <2>1 DEF Persist, At
  <2>2. CASE ~ Fail
    BY <1>24, <2>2 DEF Persist, At, Control, StepFits, Command
  <2> QED  BY <2>1, <2>2
<1>25. CASE Finish
  BY <1>25, <1>2 DEF Finish, At
<1>26. CASE ShowReceipt
  BY <1>26, <1>2, <1>6 DEF ShowReceipt, At
<1> QED  BY <1>1, <1>4, <1>5, <1>7, <1>8, <1>9, <1>10, <1>11, <1>12, <1>13, <1>14, <1>15, <1>16,
            <1>17, <1>18, <1>19, <1>20, <1>21, <1>22, <1>23, <1>24, <1>25, <1>26 DEF Next, Step

-----------------------------------------------------------------------------
(* What the planners planned, as the journeys look it up.                  *)

\* Of the tasks of a runbook, collectors and one that changes something, those the
\* simulated agents know are the collectors, and the other is found by its id.
LEMMA TasksOfRunbook ==
  ASSUME NEW c, IsVector(c), \A i \in 1..Len(c) : c[i].id \in DOMAIN SimulatedEvidence,
         NEW m, m.id \notin DOMAIN SimulatedEvidence
  PROVE  LET tasks == Append(c, m)
         IN  /\ AllWithin(tasks, "id", DOMAIN SimulatedEvidence) = c
             /\ tasks # <<>>
             /\ tasks[CHOOSE i \in DOMAIN tasks : tasks[i].id = m.id] = m
<1> DEFINE S == {c[i] : i \in 1..Len(c)} \cup {m}
           X == DOMAIN SimulatedEvidence
           tasks == Append(c, m)
<1>1. c \in Seq(S) /\ m \in S
  BY DEF IsVector
<1>2. \A i \in 1..Len(c) : c[i]["id"] \in X
  OBVIOUS
<1>3. m["id"] \notin X
  OBVIOUS
<1>4. /\ IsVector(tasks) /\ Len(tasks) = Len(c) + 1 /\ tasks[Len(c) + 1] = m
      /\ \A i \in 1..Len(c) : tasks[i] = c[i]
  BY VectorAppend
<1>5. Len(c) \in Nat /\ DOMAIN tasks = 1..(Len(c) + 1)
  BY <1>4, VectorIsSeq DEF IsVector
<1> HIDE DEF S, X
<1>6. AllWithin(c, "id", X) = c
  BY <1>1, <1>2, AllWithinAll
<1>7. AllWithin(tasks, "id", X) = c
  <2>1. AllWithin(Append(c, m), "id", X) =
          IF m["id"] \in X THEN Append(AllWithin(c, "id", X), m) ELSE AllWithin(c, "id", X)
    BY <1>1, AllWithinAppend
  <2> QED  BY <1>3, <1>6, <2>1
<1> HIDE DEF tasks
<1>8. \A i \in DOMAIN tasks : tasks[i].id = m.id => tasks[i] = m
  <2> TAKE i \in DOMAIN tasks
  <2>1. CASE i \in 1..Len(c)
    BY <1>2, <1>3, <1>4, <2>1
  <2>2. CASE i = Len(c) + 1
    BY <1>4, <2>2
  <2> QED  BY <1>5, <2>1, <2>2
<1>9. Len(c) + 1 \in DOMAIN tasks /\ tasks[Len(c) + 1].id = m.id
  BY <1>4, <1>5
<1>10. tasks[CHOOSE i \in DOMAIN tasks : tasks[i].id = m.id] = m
  BY <1>8, <1>9
<1>11. tasks # <<>>
  BY <1>4, <1>5
<1> QED  BY <1>7, <1>10, <1>11 DEF X, tasks

\* The five collectors of the service runbook are ones the simulated agents know, each once.
LEMMA ServiceCollectors ==
  ASSUME NEW request, NEW os
  PROVE  LET c == ServiceUnhealthyCollectors(request, os)
         IN  /\ IsVector(c) /\ Len(c) = 5
             /\ \A i \in 1..5 : c[i].id \in DOMAIN SimulatedEvidence
             /\ \A i, j \in 1..5 : c[i].id = c[j].id => i = j
<1> DEFINE c == ServiceUnhealthyCollectors(request, os)
           S == {c[1], c[2], c[3], c[4], c[5]}
<1>1. /\ c \in Seq(S) /\ Len(c) = 5
      /\ c[1].id = "collect-service-status" /\ c[2].id = "collect-recent-logs"
      /\ c[3].id = "collect-disk-snapshot" /\ c[4].id = "collect-process-snapshot"
      /\ c[5].id = "collect-socket-snapshot"
  BY DEF ServiceUnhealthyCollectors, Collect
<1> HIDE DEF c
<1>2. \A i \in 1..5 : c[i].id \in DOMAIN SimulatedEvidence
  BY <1>1 DEF SimulatedEvidence
<1>3. \A i, j \in 1..5 : c[i].id = c[j].id => i = j
  BY <1>1
<1> QED  BY <1>1, <1>2, <1>3, SeqIsVector DEF c

\* The four collectors of the disk runbook are ones the simulated agents know, each once.
LEMMA DiskCollectors ==
  ASSUME NEW request, NEW os
  PROVE  LET c == DiskPressureCollectors(request, os)
         IN  /\ IsVector(c) /\ Len(c) = 4
             /\ \A i \in 1..4 : c[i].id \in DOMAIN SimulatedEvidence
             /\ \A i, j \in 1..4 : c[i].id = c[j].id => i = j
<1> DEFINE c == DiskPressureCollectors(request, os)
           S == {c[1], c[2], c[3], c[4]}
<1>1. /\ c \in Seq(S) /\ Len(c) = 4
      /\ c[1].id = "collect-disk-usage" /\ c[2].id = "collect-cleanup-candidate"
      /\ c[3].id = "collect-disk-pressure-logs" /\ c[4].id = "collect-pre-action-snapshot"
  BY DEF DiskPressureCollectors, Collect
<1> HIDE DEF c
<1>2. \A i \in 1..4 : c[i].id \in DOMAIN SimulatedEvidence
  BY <1>1 DEF SimulatedEvidence
<1>3. \A i, j \in 1..4 : c[i].id = c[j].id => i = j
  BY <1>1
<1> QED  BY <1>1, <1>2, <1>3, SeqIsVector DEF c

\* What the run has planned, by journey.
Target == IF Command.journey = "disk" THEN Fixture.cleanup ELSE ServiceResource(Node, Service)
Impact ==
  IF Command.journey = "disk" THEN DiskPressureImpact(PlanRequest)
  ELSE ServiceUnhealthyImpact(PlanRequest)
RunCollectors ==
  IF Command.journey = "disk" THEN DiskPressureCollectors(PlanRequest, Report.os)
  ELSE ServiceUnhealthyCollectors(PlanRequest, Report.os)

\* A plan is the collectors of its runbook and then the one task that changes something:
\* it writes the target, under an exclusive lease, once all collectors have run.
LEMMA PlannedTasks ==
  ASSUME Command.journey \in DOMAIN Journeys
  PROVE  \E m :
           /\ Planned.tasks = Append(RunCollectors, m)
           /\ m.id = Fixture.task /\ m.id \notin DOMAIN SimulatedEvidence
           /\ m.writes = <<Target>>
           /\ m.requests = {[resource |-> Target, mode |-> "Exclusive"]}
           /\ m.dependencies = IdsOf(RunCollectors)
           /\ m.impact = Impact
           /\ m.verification =
                AlsoSkipping(PlanVerification(Fixture.action, Impact, Minimal), RunbookSkips)
<1> DEFINE os == Report.os
<1>1. CASE Command.journey = "disk"
  <2> DEFINE verification ==
               AlsoSkipping(PlanVerification("RemoveAllowlistedFile", DiskPressureImpact(PlanRequest), Minimal),
                            RunbookSkips)
             m == Mutate("cleanup-allowlisted-path", {PrivilegeCapability[os]}, PlanRequest.cleanup,
                         IdsOf(RunCollectors), Impact, verification)
  <2>1. Planned.tasks = Append(RunCollectors, m)
    BY <1>1 DEF Planned, DiskPressurePlan, RunCollectors, Impact
  <2>2. Fixture.task = "cleanup-allowlisted-path" /\ Fixture.action = "RemoveAllowlistedFile"
    BY <1>1 DEF Fixture, Journeys
  <2>3. PlanRequest.cleanup = Fixture.cleanup
    BY <1>1 DEF PlanRequest, DiskPressureRequest
  <2>4. "cleanup-allowlisted-path" \notin DOMAIN SimulatedEvidence
    BY DEF SimulatedEvidence
  <2>5. verification = AlsoSkipping(PlanVerification(Fixture.action, Impact, Minimal), RunbookSkips)
    BY <1>1, <2>2 DEF Impact
  <2> HIDE DEF verification
  <2>6. /\ m.id = Fixture.task /\ m.writes = <<Target>>
        /\ m.requests = {[resource |-> Target, mode |-> "Exclusive"]}
        /\ m.dependencies = IdsOf(RunCollectors) /\ m.impact = Impact /\ m.verification = verification
    BY <1>1, <2>2, <2>3 DEF Mutate, Target
  <2> HIDE DEF m
  <2> QED  BY <2>1, <2>2, <2>4, <2>5, <2>6
<1>2. CASE Command.journey # "disk"
  <2> DEFINE verification ==
               AlsoSkipping(PlanVerification("ServiceRestart", ServiceUnhealthyImpact(PlanRequest), Minimal),
                            RunbookSkips)
             m == Mutate("restart-service", {ServiceCapability[os], PrivilegeCapability[os]},
                         ServiceResource(PlanRequest.node, PlanRequest.service),
                         IdsOf(RunCollectors), Impact, verification)
  <2>1. Planned.tasks = Append(RunCollectors, m)
    BY <1>2 DEF Planned, ServiceUnhealthyPlan, RunCollectors, Impact
  <2>2. Fixture.task = "restart-service" /\ Fixture.action = "ServiceRestart"
    BY <1>2 DEF Fixture, Journeys
  <2>3. PlanRequest.node = Node /\ PlanRequest.service = Service
    BY <1>2 DEF PlanRequest, ServiceUnhealthyRequest
  <2>4. "restart-service" \notin DOMAIN SimulatedEvidence
    BY DEF SimulatedEvidence
  <2>5. verification = AlsoSkipping(PlanVerification(Fixture.action, Impact, Minimal), RunbookSkips)
    BY <1>2, <2>2 DEF Impact
  <2> HIDE DEF verification
  <2>6. /\ m.id = Fixture.task /\ m.writes = <<Target>>
        /\ m.requests = {[resource |-> Target, mode |-> "Exclusive"]}
        /\ m.dependencies = IdsOf(RunCollectors) /\ m.impact = Impact /\ m.verification = verification
    BY <1>2, <2>2, <2>3 DEF Mutate, Target
  <2> HIDE DEF m
  <2> QED  BY <2>1, <2>2, <2>4, <2>5, <2>6
<1> QED  BY <1>1, <1>2

\* So are the collectors of a run, by journey.
LEMMA CollectorsCollect ==
  ASSUME Command.journey \in DOMAIN Journeys
  PROVE  /\ IsVector(RunCollectors) /\ Len(RunCollectors) \in {4, 5}
         /\ \A i \in 1..Len(RunCollectors) : RunCollectors[i].id \in DOMAIN SimulatedEvidence
         /\ \A i, j \in 1..Len(RunCollectors) : RunCollectors[i].id = RunCollectors[j].id => i = j
<1>1. CASE Command.journey = "disk"
  BY <1>1, DiskCollectors DEF RunCollectors
<1>2. CASE Command.journey # "disk"
  BY <1>2, ServiceCollectors DEF RunCollectors
<1> QED  BY <1>1, <1>2

\* What is known of the plan of a run: the tasks the simulated agents answer are its
\* collectors, and its mutating task is the one about the target.
LEMMA PlanOfRun ==
  ASSUME Command.journey \in DOMAIN Journeys, plan = Planned
  PROVE  /\ plan # NoPlan
         /\ CollectTasks = RunCollectors
         /\ MutatingTask.writes = <<Target>>
         /\ MutatingTask.requests = {[resource |-> Target, mode |-> "Exclusive"]}
         /\ MutatingTask.dependencies = IdsOf(RunCollectors)
         /\ MutatingTask.impact = Impact
         /\ MutatingTask.verification =
              AlsoSkipping(PlanVerification(Fixture.action, Impact, Minimal), RunbookSkips)
<1>1. PICK m :
           /\ Planned.tasks = Append(RunCollectors, m)
           /\ m.id = Fixture.task /\ m.id \notin DOMAIN SimulatedEvidence
           /\ m.writes = <<Target>>
           /\ m.requests = {[resource |-> Target, mode |-> "Exclusive"]}
           /\ m.dependencies = IdsOf(RunCollectors)
           /\ m.impact = Impact
           /\ m.verification =
                AlsoSkipping(PlanVerification(Fixture.action, Impact, Minimal), RunbookSkips)
  BY PlannedTasks
<1>2. /\ AllWithin(plan.tasks, "id", DOMAIN SimulatedEvidence) = RunCollectors
      /\ plan.tasks # <<>>
      /\ plan.tasks[CHOOSE i \in DOMAIN plan.tasks : plan.tasks[i].id = m.id] = m
  <2> DEFINE c == RunCollectors
  <2>1. IsVector(c) /\ \A i \in 1..Len(c) : c[i].id \in DOMAIN SimulatedEvidence
    BY CollectorsCollect
  <2> HIDE DEF c
  <2>2. /\ AllWithin(Append(c, m), "id", DOMAIN SimulatedEvidence) = c
        /\ Append(c, m) # <<>>
        /\ Append(c, m)[CHOOSE i \in DOMAIN Append(c, m) : Append(c, m)[i].id = m.id] = m
    BY <1>1, <2>1, TasksOfRunbook
  <2> QED  BY <1>1, <2>2 DEF c
<1>3. MutatingTask = m
  BY <1>1, <1>2 DEF MutatingTask
<1>4. plan # NoPlan
  BY <1>2 DEF NoPlan
<1> QED  BY <1>1, <1>2, <1>3, <1>4 DEF CollectTasks

-----------------------------------------------------------------------------
(* What the command at work has in memory.                                 *)

\* The steps before a plan, and those from it on.
Early == {"load", "summary", "start", "enrol", "reload"}
Later == StepsOfRuns \cup {"persist", "done"}

\* What is kept in order is a vector.
Vectors ==
  /\ IsVector(audit) /\ IsVector(file) /\ written \in Nat
  /\ IsVector(evidence) /\ IsVector(enqueued) /\ IsVector(pulledTasks) /\ IsVector(acceptedResults)
  /\ IsVector(controlLedger) /\ IsVector(decisions)
  /\ IsVector(records) /\ IsVector(leases) /\ IsVector(executed)

\* Before there is a plan nothing was observed; from then on it is the plan of the command.
PlanAtStep ==
  /\ step \in Early => /\ plan = NoPlan /\ evidence = <<>> /\ enqueued = <<>>
                       /\ pulledTasks = <<>> /\ acceptedResults = <<>> 
  /\ step \in Later => plan = Planned

\* The approval is requested, then leased, then used, once each.
GateAtStep ==
  /\ step \in Early \cup {"collect", "propose", "request"} =>
       records = <<>> /\ decisions = <<>> /\ leases = <<>> /\ executed = <<>>
  /\ step = "approve" => Len(records) = 1 /\ leases = <<>> /\ executed = <<>>
  /\ step = "execute" => Len(records) = 1 /\ Len(leases) = 1 /\ executed = <<>>
  /\ step \in {"verify", "receipt", "persist", "done"} =>
       Len(records) = 1 /\ Len(leases) = 1 /\ Len(executed) = 1

\* A collector is enqueued when the one before it was answered.
OneAfterTheOther ==
  step \in Early \cup Later =>
    /\ Len(acceptedResults) <= Len(pulledTasks) /\ Len(pulledTasks) <= Len(enqueued)
    /\ Len(enqueued) <= Len(acceptedResults) + 1

\* A receipt is held from when it is generated.
ReceiptAtStep == step # "idle" => (step \in {"persist", "done"}) = (receipt # NoReceipt)

\* The invariant of what the command at work has in memory.
Progress == Vectors /\ PlanAtStep /\ GateAtStep /\ OneAfterTheOther /\ ReceiptAtStep

\* What the handlers of the control plane do to the lengths of its queues and results.
LEMMA HandlersOfControlPlane ==
  ASSUME IsVector(controlLedger), IsVector(enqueued), IsVector(pulledTasks), IsVector(acceptedResults)
  PROVE
  /\ \A t : CP!CreateEnrollmentToken(t) =>
       IsVector(controlLedger') /\ UNCHANGED <<enqueued, pulledTasks, acceptedResults>>
  /\ \A r, now : CP!EnrollAgent(r, now) =>
       IsVector(controlLedger') /\ UNCHANGED <<enqueued, pulledTasks, acceptedResults>>
  /\ \A e : CP!EnqueueTask(e) =>
       IsVector(enqueued') /\ Len(enqueued') = Len(enqueued) + 1
         /\ UNCHANGED <<controlLedger, pulledTasks, acceptedResults>>
  /\ \A id, now : CP!PullTask(id, now) =>
       /\ IsVector(controlLedger') /\ IsVector(pulledTasks')
       /\ Len(pulledTasks') \in {Len(pulledTasks), Len(pulledTasks) + 1}
       /\ UNCHANGED <<enqueued, acceptedResults>>
  /\ \A id, s, now : CP!SubmitResult(id, s, now) =>
       /\ IsVector(controlLedger') /\ IsVector(acceptedResults')
       /\ Len(acceptedResults') \in {Len(acceptedResults), Len(acceptedResults) + 1}
       /\ UNCHANGED <<enqueued, pulledTasks>>
<1>0. Len(enqueued) \in Nat /\ Len(pulledTasks) \in Nat /\ Len(acceptedResults) \in Nat
  BY DEF IsVector
<1>1. ASSUME NEW t, CP!CreateEnrollmentToken(t)
      PROVE  IsVector(controlLedger') /\ UNCHANGED <<enqueued, pulledTasks, acceptedResults>>
  BY <1>1, VectorAppend DEF CP!CreateEnrollmentToken
<1>2. ASSUME NEW r, NEW now, CP!EnrollAgent(r, now)
      PROVE  IsVector(controlLedger') /\ UNCHANGED <<enqueued, pulledTasks, acceptedResults>>
  BY <1>2, VectorAppend DEF CP!EnrollAgent
<1>3. ASSUME NEW e, CP!EnqueueTask(e)
      PROVE  /\ IsVector(enqueued') /\ Len(enqueued') = Len(enqueued) + 1
             /\ UNCHANGED <<controlLedger, pulledTasks, acceptedResults>>
  BY <1>3, VectorAppend DEF CP!EnqueueTask
<1>4. ASSUME NEW id, NEW now, CP!PullTask(id, now)
      PROVE  /\ IsVector(controlLedger') /\ IsVector(pulledTasks')
             /\ Len(pulledTasks') \in {Len(pulledTasks), Len(pulledTasks) + 1}
             /\ UNCHANGED <<enqueued, acceptedResults>>
  <2>1. CASE CP!RefuseTask(id, now)
    BY <1>0, <2>1 DEF CP!RefuseTask
  <2>2. CASE CP!HandOutTask(id)
    BY <1>0, <2>2, VectorAppend DEF CP!HandOutTask
  <2> QED  BY <1>4, <2>1, <2>2 DEF CP!PullTask
<1>5. ASSUME NEW id, NEW s, NEW now, CP!SubmitResult(id, s, now)
      PROVE  /\ IsVector(controlLedger') /\ IsVector(acceptedResults')
             /\ Len(acceptedResults') \in {Len(acceptedResults), Len(acceptedResults) + 1}
             /\ UNCHANGED <<enqueued, pulledTasks>>
  <2>1. CASE CP!RefuseResult(s, CP!SubmitOutcome(id, s, now))
    BY <1>0, <2>1 DEF CP!RefuseResult
  <2>2. CASE CP!AcceptResult(s)
    BY <1>0, <2>2, VectorAppend DEF CP!AcceptResult
  <2> QED  BY <1>5, <2>1, <2>2 DEF CP!SubmitResult
<1> QED  BY <1>1, <1>2, <1>3, <1>4, <1>5

\* What the handlers of the approval store and of the helper do to theirs.
LEMMA HandlersOfGate ==
  ASSUME IsVector(records), IsVector(decisions), IsVector(leases), IsVector(executed)
  PROVE
  /\ \A r : Gate!Request(r) =>
       /\ IsVector(records') /\ Len(records') = Len(records) + 1 /\ IsVector(decisions')
       /\ UNCHANGED leases
  /\ \A id, a, actor, now, entry, nonce : Gate!Approve(id, a, actor, now, entry, nonce) =>
       /\ IsVector(records') /\ Len(records') = Len(records) /\ IsVector(decisions')
       /\ IsVector(leases') /\ Len(leases') = Len(leases) + 1
  /\ \A request, claims, node, now, seen : Gate!HelperExecute(request, claims, node, now, seen) =>
       /\ IsVector(executed') /\ Len(executed') = Len(executed) + 1
       /\ UNCHANGED <<records, decisions, leases>>
<1>1. ASSUME NEW r, Gate!Request(r)
      PROVE  /\ IsVector(records') /\ Len(records') = Len(records) + 1 /\ IsVector(decisions')
             /\ UNCHANGED leases
  BY <1>1, VectorAppend DEF Gate!Request
<1>2. ASSUME NEW id, NEW a, NEW actor, NEW now, NEW entry, NEW nonce,
             Gate!Approve(id, a, actor, now, entry, nonce)
      PROVE  /\ IsVector(records') /\ Len(records') = Len(records) /\ IsVector(decisions')
             /\ IsVector(leases') /\ Len(leases') = Len(leases) + 1
  <2>1. IsVector(decisions') /\ IsVector(leases') /\ Len(leases') = Len(leases) + 1
    BY <1>2, VectorAppend DEF Gate!Approve
  <2>2. Gate!SetState(id, "Approved")
    BY <1>2 DEF Gate!Approve
  <2>3. DOMAIN records = 1..Len(records) /\ Len(records) \in Nat
    BY VectorIsSeq DEF IsVector
  <2>4. DOMAIN records' = 1..Len(records) /\ records' = [i \in 1..Len(records) |-> records'[i]]
    BY <2>2, <2>3 DEF Gate!SetState
  <2>5. IsVector(records') /\ Len(records') = Len(records)
    BY <2>3, <2>4, VectorOf
  <2> QED  BY <2>1, <2>5
<1>3. ASSUME NEW request, NEW claims, NEW node, NEW now, NEW seen,
             Gate!HelperExecute(request, claims, node, now, seen)
      PROVE  /\ IsVector(executed') /\ Len(executed') = Len(executed) + 1
             /\ UNCHANGED <<records, decisions, leases>>
  BY <1>3, VectorAppend DEF Gate!HelperExecute, Gate!asVars
<1> QED  BY <1>1, <1>2, <1>3

\* Events under another run are as many.
LEMMA RelabelledVector ==
  ASSUME NEW q, IsVector(q)
  PROVE  IsVector(Relabelled(q)) /\ Len(Relabelled(q)) = Len(q)
<1>1. DOMAIN q = 1..Len(q) /\ Len(q) \in Nat
  BY VectorIsSeq DEF IsVector
<1>2. DOMAIN Relabelled(q) = 1..Len(q) /\ Relabelled(q) = [i \in 1..Len(q) |-> Relabelled(q)[i]]
  BY <1>1 DEF Relabelled
<1> QED  BY <1>1, <1>2, VectorOf

\* A conditional check is a vector of at most one.
LEMMA OnlyIfVector ==
  ASSUME NEW condition, NEW item
  PROVE  IsVector(OnlyIf(condition, item))
<1>1. IsVector(<<item>>) /\ IsVector(<<>>)
  <2>1. <<item>> \in Seq({item})
    OBVIOUS
  <2> QED  BY <2>1, SeqIsVector, VectorEmpty
<1> QED  BY <1>1 DEF OnlyIf

\* Every arm of the verification planner returns vectors of checks and of skips.
LEMMA VerificationVectors ==
  ASSUME NEW action, NEW impact, NEW policy
  PROVE  LET v == PlanVerification(action, impact, policy)
         IN  IsVector(v.required) /\ IsVector(v.skipped)
<1>1. \A S : \A q \in Seq(S) : IsVector(q)
  BY SeqIsVector
<1>2. \A p, q : IsVector(p) /\ IsVector(q) => IsVector(p \o q)
  BY VectorConcat
<1>3. LET v == SystemPackageUpdate(impact, policy) IN IsVector(v.required) /\ IsVector(v.skipped)
  <2> DEFINE package == PackageResource(impact)
             health == "service_health_for_affected_services"
             first == <<Check("package_db_consistent", package, "DirectImpact"),
          Check("package_state_matches_policy", package, "DirectImpact"),
          Check("changed_files_classified", package, "DirectImpact"),
          Check("affected_services_identified", package, "Dependent"),
          Check("reboot_required_detected", RebootResource(impact, package), "Dependent")>>
  <2>1. first \in Seq({first[1], first[2], first[3], first[4], first[5]})
    BY DEF Check
  <2>2. IsVector(first)
    BY <1>1, <2>1
  <2>3. <<"full_disk_scan">> \in Seq({"full_disk_scan"})
    OBVIOUS
  <2>4. IsVector(<<"full_disk_scan">>)
    BY <1>1, <2>3
  <2> HIDE DEF first
  <2>5. IsVector(first \o OnlyIf(AffectsService(impact), Check(health, AffectedService(impact), "Dependent")))
    BY <1>2, <2>2, OnlyIfVector
  <2>6. IsVector(<<"full_disk_scan">> \o OnlyIf(~ AffectsService(impact), health))
    BY <1>2, <2>4, OnlyIfVector
  <2>7. IsVector(first \o OnlyIf(AffectsService(impact), Check(health, AffectedService(impact), "Dependent"))
        \o OnlyIf("package_audit" \in policy, Check("package_audit", package, "BroadRegression")))
    BY <1>2, <2>5, OnlyIfVector
  <2> QED  BY <2>6, <2>7 DEF SystemPackageUpdate, VerificationPlan, first
<1>4. LET v == PlatformReload(impact, policy) IN IsVector(v.required) /\ IsVector(v.skipped)
  <2> DEFINE first == <<Check("config_syntax_valid", PrimaryResource(impact), "Precondition"),
      Check("platform_accepts_connections", PrimaryResource(impact), "DirectImpact")>>
  <2>1. first \in Seq({first[1], first[2]})
    BY DEF Check
  <2>2. IsVector(first)
    BY <1>1, <2>1
  <2>3. <<"full_package_audit">> \in Seq({"full_package_audit"})
    OBVIOUS
  <2>4. IsVector(<<"full_package_audit">>)
    BY <1>1, <2>3
  <2> HIDE DEF first
  <2>5. IsVector(first \o OnlyIf("dependent_app_canary" \in policy,
              Check("dependent_app_canary", DependentResource(impact), "Dependent")))
    BY <1>2, <2>2, OnlyIfVector
  <2> QED  BY <2>4, <2>5 DEF PlatformReload, VerificationPlan, first
<1>5. LET v == SystemReboot(impact) IN IsVector(v.required) /\ IsVector(v.skipped)
  <2> DEFINE v == SystemReboot(impact)
  <2>1. /\ v.required \in Seq({v.required[1], v.required[2], v.required[3], v.required[4]})
        /\ v.skipped \in Seq({"package_audit"})
    BY DEF SystemReboot, VerificationPlan, Check
  <2> QED  BY <1>1, <2>1
<1>6. LET v == AllowlistedFileCleanup(impact) IN IsVector(v.required) /\ IsVector(v.skipped)
  <2> DEFINE v == AllowlistedFileCleanup(impact)
  <2>1. /\ v.required \in Seq({v.required[1], v.required[2], v.required[3], v.required[4]})
        /\ v.skipped \in Seq({})
    BY DEF AllowlistedFileCleanup, VerificationPlan, Check
  <2> QED  BY <1>1, <2>1
<1>7. IsVector(GenericServiceChange(action, impact))
  <2> DEFINE r == GenericServiceChange(action, impact)
  <2>1. r \in Seq({r[1], r[2]})
    BY DEF GenericServiceChange, Check
  <2> QED  BY <1>1, <2>1
<1>8. /\ IsVector(<<Check("helper_result_matches_request", PrimaryResource(impact), "DirectImpact")>>)
      /\ IsVector(<<"package_audit", "full_disk_scan", "firewall_audit">>) /\ IsVector(<<>>)
  <2> DEFINE c == Check("helper_result_matches_request", PrimaryResource(impact), "DirectImpact")
  <2>1. /\ <<c>> \in Seq({c})
        /\ <<"package_audit", "full_disk_scan", "firewall_audit">>
             \in Seq({"package_audit", "full_disk_scan", "firewall_audit"})
    OBVIOUS
  <2> HIDE DEF c
  <2>2. IsVector(<<c>>) /\ IsVector(<<"package_audit", "full_disk_scan", "firewall_audit">>)
    BY <1>1, <2>1
  <2> QED  BY <2>2, VectorEmpty DEF c
<1>9. \A required, skipped : VerificationPlan(required, skipped).required = required
                          /\ VerificationPlan(required, skipped).skipped = skipped
  BY DEF VerificationPlan
<1> QED  BY <1>3, <1>4, <1>5, <1>6, <1>7, <1>8, <1>9 DEF PlanVerification

\* A verification is told in one event, and one for each check and each skip.
LEMMA EventsOfVerification ==
  ASSUME NEW v, IsVector(v.required), IsVector(v.skipped)
  PROVE  /\ IsVector(VerificationEvents(v))
         /\ Len(VerificationEvents(v)) = 1 + Len(v.required) + Len(v.skipped)
<1> DEFINE a == <<VerificationSelected(v)>>
           b == [i \in DOMAIN v.required |-> VerificationCompleted(v.required[i])]
           c == [i \in DOMAIN v.skipped |-> VerificationSkipped(v.skipped[i])]
<1>1. IsVector(a) /\ Len(a) = 1
  <2>1. a \in Seq({a[1]}) /\ Len(a) = 1
    OBVIOUS
  <2> QED  BY <2>1, SeqIsVector
<1>2. DOMAIN v.required = 1..Len(v.required) /\ Len(v.required) \in Nat
  BY VectorIsSeq DEF IsVector
<1>3. DOMAIN v.skipped = 1..Len(v.skipped) /\ Len(v.skipped) \in Nat
  BY VectorIsSeq DEF IsVector
<1>4. IsVector(b) /\ Len(b) = Len(v.required)
  <2>1. DOMAIN b = 1..Len(v.required) /\ b = [i \in 1..Len(v.required) |-> b[i]]
    BY <1>2
  <2> HIDE DEF b
  <2> QED  BY <1>2, <2>1, VectorOf
<1>5. IsVector(c) /\ Len(c) = Len(v.skipped)
  <2>1. DOMAIN c = 1..Len(v.skipped) /\ c = [i \in 1..Len(v.skipped) |-> c[i]]
    BY <1>3
  <2> HIDE DEF c
  <2> QED  BY <1>3, <2>1, VectorOf
<1> HIDE DEF a, b, c
<1>6. IsVector(a \o b) /\ Len(a \o b) = Len(a) + Len(b)
  BY <1>1, <1>4, VectorConcat
<1>7. IsVector(a \o b \o c) /\ Len(a \o b \o c) = Len(a \o b) + Len(c)
  BY <1>5, <1>6, VectorConcat
<1>8. Len(a \o b \o c) = 1 + Len(v.required) + Len(v.skipped)
  BY <1>1, <1>4, <1>5, <1>6, <1>7
<1> QED  BY <1>7, <1>8 DEF VerificationEvents, a, b, c

\* The skips a runbook adds are a vector.
LEMMA RunbookSkipsVector == IsVector(RunbookSkips)
<1>1. RunbookSkips \in Seq({"package_audit", "firewall_audit"})
  BY DEF RunbookSkips
<1> QED  BY <1>1, SeqIsVector

\* A verification plan keeps its checks when its skips are added to or replaced.
LEMMA PlanVerificationSkips ==
  ASSUME NEW action, NEW impact, NEW policy, NEW ids
  PROVE  LET v == PlanVerification(action, impact, policy)
         IN  /\ AlsoSkipping(v, ids).skipped = v.skipped \o ids
             /\ AlsoSkipping(v, ids).required = v.required
             /\ WithSkipped(v, ids).skipped = ids
             /\ WithSkipped(v, ids).required = v.required
<1> DEFINE v == PlanVerification(action, impact, policy)
<1>1. \E required, skipped : v = VerificationPlan(required, skipped)
  BY DEF PlanVerification, SystemPackageUpdate, SystemReboot, PlatformReload, AllowlistedFileCleanup
<1> HIDE DEF v
<1>2. AlsoSkipping(v, ids).skipped = v.skipped \o ids /\ AlsoSkipping(v, ids).required = v.required
  BY <1>1 DEF AlsoSkipping, VerificationPlan
<1>3. WithSkipped(v, ids).skipped = ids /\ WithSkipped(v, ids).required = v.required
  BY <1>1 DEF WithSkipped, VerificationPlan
<1> QED  BY <1>2, <1>3 DEF v

\* Nothing is in memory at first.
LEMMA ProgressStarts == Init => Progress
  BY VectorEmpty DEF Init, EmptyMemory, Progress, Vectors, PlanAtStep, GateAtStep, OneAfterTheOther,
     ReceiptAtStep, Early, Later, StepsOfRuns, NoReceipt

\* Every step keeps what is in memory agreeing with where the command is.
LEMMA ProgressSteps == Control /\ Control' /\ Progress /\ [Next]_jVars => Progress'
<1> SUFFICES ASSUME Control, Control', Progress, [Next]_jVars PROVE Progress'
  OBVIOUS
<1> USE DEF Progress
<1>a. /\ Len(acceptedResults) \in Nat /\ Len(pulledTasks) \in Nat /\ Len(enqueued) \in Nat
      /\ Len(records) \in Nat /\ Len(leases) \in Nat /\ Len(executed) \in Nat
      /\ Len(evidence) \in Nat /\ Len(audit) \in Nat /\ Len(file) \in Nat
  BY DEF Vectors, IsVector
<1>b. Len(<<>>) = 0 /\ IsVector(<<>>)
  BY VectorEmpty
<1>c. \A q : IsVector(q) => \A e : IsVector(Append(q, e)) /\ Len(Append(q, e)) = Len(q) + 1
  BY VectorAppend
<1>d. \A p, q : IsVector(p) /\ IsVector(q) => IsVector(p \o q)
  BY VectorConcat
<1>1. CASE UNCHANGED jVars
  <2>1. Planned' = Planned
    BY <1>1 DEF jVars, Planned, PlanRequest, PlanError, Report, DeclaredReport, Candidates,
       Inventory,
       Fixture, Node, Service, Dogfood, Fleet, Command
  <2> QED  BY <1>1, <2>1 DEF jVars, memory, findings, controlPlane, gate, Vectors, PlanAtStep,
              GateAtStep,
                       OneAfterTheOther, ReceiptAtStep
<1>2. ASSUME step' = "idle", UNCHANGED memory, UNCHANGED file PROVE Progress'
  BY <1>2 DEF memory, findings, controlPlane, gate, Vectors, PlanAtStep, GateAtStep,
              OneAfterTheOther, ReceiptAtStep, Early, Later, StepsOfRuns
<1>3. ASSUME NEW how, NEW shown, NEW reached, End(how, shown, reached) PROVE Progress'
  BY <1>2, <1>3 DEF End
<1>4. CASE Fail
  BY <1>3, <1>4 DEF Fail
<1>5. CASE Kill
  BY <1>3, <1>5 DEF Kill
<1>6. CASE Begin
  <2>1. step' \in Early
    BY <1>6 DEF Begin, Go, Early
  <2> QED  BY <1>6, <1>b, <2>1 DEF Begin, Go, ForgetAll, Vectors, PlanAtStep, GateAtStep,
              OneAfterTheOther, ReceiptAtStep, Early, Later, StepsOfRuns
<1>7. CASE LoadFleet
  <2>1. CASE LoadError(Fleet) # "None"
    BY <1>4, <1>7, <2>1 DEF LoadFleet
  <2>2. CASE LoadError(Fleet) = "None"
    <3>1. step = "load" /\ step' \in {"summary", "enrol"}
          /\ UNCHANGED <<findings, written, controlPlane, gate, file>>
      BY <1>7, <2>2 DEF LoadFleet, At, Go
    <3>2. IsVector(audit')
      <4>1. audit' = audit \/ audit' = Append(<<>>, IncidentCreated)
        BY <1>7, <2>2 DEF LoadFleet
      <4> QED  BY <1>b, <1>c, <4>1 DEF Vectors
    <3> QED  BY <3>1, <3>2 DEF findings, controlPlane, gate, Vectors, PlanAtStep, GateAtStep,
              OneAfterTheOther, ReceiptAtStep, Early, Later, StepsOfRuns
  <2> QED  BY <2>1, <2>2
<1>8. CASE ShowSummary
  BY <1>3, <1>8 DEF ShowSummary
<1>9. CASE CreateToken
  <2>1. IsVector(controlLedger') /\ UNCHANGED <<enqueued, pulledTasks, acceptedResults>>
    BY <1>9, HandlersOfControlPlane DEF CreateToken, Vectors
  <2> QED  BY <1>9, <2>1 DEF CreateToken, At, findings, gate, Vectors, PlanAtStep, GateAtStep,
              OneAfterTheOther, ReceiptAtStep, Early, Later, StepsOfRuns
<1>10. CASE EnrolNode
  <2>1. CASE Fail
    BY <1>4, <2>1
  <2>2. CASE ~ Fail
    <3>1. /\ step = "enrol"
          /\ UNCHANGED <<session, ended, step, file, resolved, findings, audit, written, gate>>
          /\ CP!EnrollAgent(EnrollmentFor(Inventory[Len(agents) + 1]), 100)
      BY <1>10, <2>2 DEF EnrolNode, At
    <3>2. IsVector(controlLedger') /\ UNCHANGED <<enqueued, pulledTasks, acceptedResults>>
      BY <3>1, HandlersOfControlPlane DEF Vectors
    <3> QED  BY <3>1, <3>2 DEF findings, gate, Vectors, PlanAtStep, GateAtStep,
              OneAfterTheOther, ReceiptAtStep, Early, Later, StepsOfRuns
  <2> QED  BY <2>1, <2>2
<1>11. ASSUME PlanRun, IsVector(audit'), step \in {"enrol", "start"} PROVE Progress'
  <2>1. Planned' = Planned
    BY <1>11 DEF PlanRun, Go, Planned, PlanRequest, PlanError, Report, DeclaredReport, Candidates,
       Inventory,
       Fixture, Node, Service, Dogfood, Fleet, Command
  <2> QED  BY <1>11, <2>1 DEF PlanRun, Go, controlPlane, gate, Vectors, PlanAtStep, GateAtStep,
              OneAfterTheOther, ReceiptAtStep, Early, Later, StepsOfRuns
<1>12. CASE PlanSimulation
  <2>1. CASE Fail
    BY <1>4, <2>1
  <2>2. CASE ~ Fail
    BY <1>11, <1>12, <2>2 DEF PlanSimulation, At, Vectors
  <2> QED  BY <2>1, <2>2
<1>13. CASE StartDogfood
  <2>1. CASE Fail
    BY <1>4, <2>1
  <2>2. CASE ~ Fail
    <3>1. PlanRun /\ step = "start" /\ audit' = Append(<<>>, IncidentCreated)
      BY <1>13, <2>2 DEF StartDogfood, At
    <3> QED  BY <1>11, <1>b, <1>c, <3>1
  <2> QED  BY <2>1, <2>2
<1> DEFINE Same == Planned' = Planned
<1>14. ASSUME UNCHANGED <<session, ended>> PROVE Same
  BY <1>14 DEF Planned, PlanRequest, PlanError, Report, DeclaredReport, Candidates, Inventory,
       Fixture, Node, Service, Dogfood, Fleet, Command
<1>15. CASE EnqueueCollect
  <2>1. /\ IsVector(enqueued') /\ Len(enqueued') = Len(enqueued) + 1
        /\ UNCHANGED <<controlLedger, pulledTasks, acceptedResults>>
    BY <1>15, HandlersOfControlPlane DEF EnqueueCollect, Vectors
  <2>2. Same
    BY <1>14, <1>15 DEF EnqueueCollect, Observing
  <2> QED  BY <1>15, <1>a, <2>1, <2>2 DEF EnqueueCollect, Observing, At, findings, gate, Vectors,
              PlanAtStep, GateAtStep,
              OneAfterTheOther, ReceiptAtStep, Early, Later, StepsOfRuns
<1>16. CASE PullCollect
  <2>1. /\ IsVector(controlLedger') /\ IsVector(pulledTasks')
        /\ Len(pulledTasks') \in {Len(pulledTasks), Len(pulledTasks) + 1}
        /\ UNCHANGED <<enqueued, acceptedResults>>
    BY <1>16, HandlersOfControlPlane DEF PullCollect, Vectors
  <2>2. Same
    BY <1>14, <1>16 DEF PullCollect, Observing
  <2> QED  BY <1>16, <1>a, <2>1, <2>2 DEF PullCollect, Observing, At, findings, gate, Vectors,
              PlanAtStep, GateAtStep,
              OneAfterTheOther, ReceiptAtStep, Early, Later, StepsOfRuns
<1>17. CASE SubmitCollect
  <2>1. /\ IsVector(controlLedger') /\ IsVector(acceptedResults')
        /\ Len(acceptedResults') \in {Len(acceptedResults), Len(acceptedResults) + 1}
        /\ UNCHANGED <<enqueued, pulledTasks>>
    BY <1>17, HandlersOfControlPlane DEF SubmitCollect, Vectors
  <2>2. Same
    BY <1>14, <1>17 DEF SubmitCollect, Observing
  <2> QED  BY <1>17, <1>a, <2>1, <2>2 DEF SubmitCollect, Observing, At, findings, gate, Vectors,
              PlanAtStep, GateAtStep,
              OneAfterTheOther, ReceiptAtStep, Early, Later, StepsOfRuns
<1>18. CASE Observe
  <2>1. IsVector(evidence')
    <3> DEFINE answers == AllWith(AllWith(acceptedResults, "run", Fixture.run), "status", "Succeeded")
    <3>1. IsVector(answers)
      BY VectorAllWith DEF Vectors
    <3>2. DOMAIN answers = 1..Len(answers) /\ Len(answers) \in Nat
      BY <3>1, VectorIsSeq DEF IsVector
    <3>3. evidence' = [i \in 1..Len(answers) |-> SimulatedEvidence[answers[i].task]]
      BY <1>18, <3>2 DEF Observe, AcceptedEvidence
    <3> HIDE DEF answers
    <3>4. DOMAIN evidence' = 1..Len(answers) /\ evidence' = [i \in 1..Len(answers) |-> evidence'[i]]
      BY <3>3
    <3> QED  BY <3>2, <3>4, VectorOf
  <2>2. IsVector([i \in DOMAIN evidence' |-> EvidenceCollected(evidence'[i])])
    <3> DEFINE n == Len(evidence')
               f == [i \in DOMAIN evidence' |-> EvidenceCollected(evidence'[i])]
    <3>1. DOMAIN evidence' = 1..n /\ n \in Nat
      BY <2>1, VectorIsSeq DEF IsVector
    <3>2. DOMAIN f = 1..n /\ f = [i \in 1..n |-> f[i]]
      BY <3>1
    <3> HIDE DEF n, f
    <3>3. IsVector(f)
      BY <3>1, <3>2, VectorOf
    <3> QED  BY <3>3 DEF f
  <2>3. IsVector(audit \o Relabelled(controlLedger))
    BY <1>d, RelabelledVector DEF Vectors
  <2>4. IsVector(audit')
    BY <1>18, <1>d, <2>2, <2>3 DEF Observe
  <2>5. Same
    BY <1>14, <1>18 DEF Observe, Go
  <2> QED  BY <1>18, <2>1, <2>4, <2>5 DEF Observe, Go, At, controlPlane, gate, Vectors, PlanAtStep,
              GateAtStep,
              OneAfterTheOther, ReceiptAtStep, Early, Later, StepsOfRuns
<1>19. CASE CollectNatively
  <2>1. CASE Fail
    BY <1>4, <2>1
  <2>2. CASE ~ Fail
    <3>1. IsVector(evidence') /\ IsVector(audit')
      BY <1>19, <2>2, <1>c DEF CollectNatively, Vectors
    <3>2. Same
      BY <1>14, <1>19, <2>2 DEF CollectNatively, Go
    <3>3. /\ step = "collect" /\ step' \in {"collect", "propose"}
          /\ UNCHANGED <<file, plan, receipt, written, controlPlane, gate>>
      BY <1>19, <2>2 DEF CollectNatively, Go, At
    <3> QED  BY <3>1, <3>2, <3>3 DEF controlPlane, gate, Vectors, PlanAtStep, GateAtStep,
              OneAfterTheOther, ReceiptAtStep, Early, Later, StepsOfRuns
  <2> QED  BY <2>1, <2>2
<1>20. CASE Propose
  <2>1. CASE Fail
    BY <1>4, <2>1
  <2>2. CASE ~ Fail
    <3>1. IsVector(audit')
      BY <1>20, <2>2, <1>c DEF Propose, Vectors
    <3>2. Same
      BY <1>14, <1>20, <2>2 DEF Propose, Go
    <3> QED  BY <1>20, <2>2, <3>1, <3>2 DEF Propose, Go, At, controlPlane, gate, Vectors,
                PlanAtStep, GateAtStep,
              OneAfterTheOther, ReceiptAtStep, Early, Later, StepsOfRuns
  <2> QED  BY <2>1, <2>2
<1>21. CASE RequestApproval
  <2>1. CASE ActionsNamed(Fixture.requested) = <<>>
    BY <1>3, <1>21, <2>1 DEF RequestApproval
  <2>2. CASE ActionsNamed(Fixture.requested) # <<>>
    <3>1. /\ IsVector(records') /\ Len(records') = Len(records) + 1 /\ IsVector(decisions')
          /\ UNCHANGED leases
      BY <1>21, <2>2, HandlersOfGate DEF RequestApproval, Vectors
    <3>2. Same
      BY <1>14, <1>21, <2>2 DEF RequestApproval, Go
    <3> QED  BY <1>21, <1>b, <2>2, <3>1, <3>2
                DEF RequestApproval, Go, At, findings, controlPlane, Vectors, PlanAtStep,
                    GateAtStep,
              OneAfterTheOther, ReceiptAtStep, Early, Later, StepsOfRuns
  <2> QED  BY <2>1, <2>2
<1>22. CASE ApproveAction
  <2>1. /\ IsVector(records') /\ Len(records') = Len(records) /\ IsVector(decisions')
        /\ IsVector(leases') /\ Len(leases') = Len(leases) + 1
    BY <1>22, HandlersOfGate DEF ApproveAction, Vectors
  <2>2. IsVector(LeaseEvents(leases'[Len(leases')].claims))
    <3> DEFINE q == LeaseEvents(leases'[Len(leases')].claims)
    <3>1. q \in Seq({q[1], q[2]})
      BY DEF LeaseEvents
    <3> HIDE DEF q
    <3>2. IsVector(q)
      BY <3>1, SeqIsVector
    <3> QED  BY <3>2 DEF q
  <2>3. IsVector(audit \o Relabelled(decisions'))
    BY <1>d, <2>1, RelabelledVector DEF Vectors
  <2>4. IsVector(audit')
    BY <1>22, <1>d, <2>2, <2>3 DEF ApproveAction
  <2>5. Same
    BY <1>14, <1>22 DEF ApproveAction, Go
  <2> QED  BY <1>22, <1>b, <2>1, <2>4, <2>5
              DEF ApproveAction, Go, At, findings, controlPlane, Vectors, PlanAtStep, GateAtStep,
              OneAfterTheOther, ReceiptAtStep, Early, Later, StepsOfRuns
<1>23. CASE ExecuteAction
  <2>1. CASE Fail
    BY <1>4, <2>1
  <2>2. CASE ~ Fail
    <3>1. /\ IsVector(executed') /\ Len(executed') = Len(executed) + 1
          /\ UNCHANGED <<records, decisions, leases>>
      BY <1>23, <2>2, HandlersOfGate DEF ExecuteAction, Vectors
    <3>2. IsVector(audit')
      BY <1>23, <2>2, <1>c DEF ExecuteAction, Vectors
    <3>3. Same
      BY <1>14, <1>23, <2>2 DEF ExecuteAction, Go
    <3> QED  BY <1>23, <1>b, <2>2, <3>1, <3>2, <3>3
                DEF ExecuteAction, Go, At, findings, controlPlane, Vectors, PlanAtStep, GateAtStep,
              OneAfterTheOther, ReceiptAtStep, Early, Later, StepsOfRuns
  <2> QED  BY <2>1, <2>2
<1>24. CASE Verify
  <2> DEFINE v == PlanVerification(Fixture.action, MutatingTask.impact, Minimal)
             w == WithSkipped(v, MutatingTask.verification.skipped)
  <2>1. step = "verify" /\ Command.journey \in DOMAIN Journeys
    BY <1>24, CommandKnown DEF Verify, At, Control, StepFits, StepsOfRuns, Running, Journeys
  <2>2. MutatingTask.verification.skipped =
          PlanVerification(Fixture.action, Impact, Minimal).skipped \o RunbookSkips
    <3>1. MutatingTask.verification =
            AlsoSkipping(PlanVerification(Fixture.action, Impact, Minimal), RunbookSkips)
      BY <2>1, PlanOfRun DEF PlanAtStep, Later, StepsOfRuns
    <3> QED  BY <3>1, PlanVerificationSkips
  <2>3. w.required = v.required /\ w.skipped = MutatingTask.verification.skipped
    BY PlanVerificationSkips
  <2>4. IsVector(w.required) /\ IsVector(w.skipped)
    BY <1>d, <2>2, <2>3, VerificationVectors, RunbookSkipsVector
  <2>5. IsVector(audit')
    BY <1>24, <1>d, <2>4, EventsOfVerification DEF Verify, Vectors
  <2>6. Same
    BY <1>14, <1>24 DEF Verify, Go
  <2> HIDE DEF v, w
  <2> QED  BY <1>24, <2>5, <2>6 DEF Verify, Go, At, findings, controlPlane, gate, Vectors,
              PlanAtStep, GateAtStep,
              OneAfterTheOther, ReceiptAtStep, Early, Later, StepsOfRuns
<1>25. CASE GenerateTheReceipt
  <2>1. IsVector(audit')
    BY <1>25, <1>c DEF GenerateTheReceipt, Vectors
  <2>2. Same
    BY <1>14, <1>25 DEF GenerateTheReceipt, Go
  <2>3. step = "receipt" /\ step' \in {"persist", "done"} /\ receipt' # NoReceipt
        /\ UNCHANGED <<file, plan, evidence, written, controlPlane, gate>>
    BY <1>25 DEF GenerateTheReceipt, Go, At
  <2> QED  BY <2>1, <2>2, <2>3 DEF controlPlane, gate, Vectors, PlanAtStep, GateAtStep,
              OneAfterTheOther, ReceiptAtStep, Early, Later, StepsOfRuns
<1>26. CASE Persist
  <2>1. CASE Fail
    BY <1>4, <2>1
  <2>2. CASE ~ Fail
    <3>0. file' = Append(file, audit[written + 1]) /\ written' = written + 1
      BY <1>26, <2>2 DEF Persist
    <3>1. IsVector(file') /\ written' \in Nat
      <4>1. IsVector(file) /\ written \in Nat
        BY DEF Vectors
      <4> QED  BY <3>0, <4>1, <1>c
    <3>2. Same
      BY <1>14, <1>26, <2>2 DEF Persist
    <3> QED  BY <1>26, <2>2, <3>1, <3>2 DEF Persist, At, findings, controlPlane, gate, Vectors,
                PlanAtStep, GateAtStep,
              OneAfterTheOther, ReceiptAtStep, Early, Later, StepsOfRuns
  <2> QED  BY <2>1, <2>2
<1>27. CASE Finish
  BY <1>3, <1>27 DEF Finish
<1>28. CASE ShowReceipt
  BY <1>3, <1>4, <1>28 DEF ShowReceipt
<1> QED  BY <1>1, <1>5, <1>6, <1>7, <1>8, <1>9, <1>10, <1>12, <1>13, <1>15, <1>16, <1>17, <1>18,
            <1>19,
            <1>20, <1>21, <1>22, <1>23, <1>24, <1>25, <1>26, <1>27, <1>28 DEF Next, Step

-----------------------------------------------------------------------------
(* The lifecycle of a run.                                                 *)

\* Where a run is while its evidence is collected.
Collecting == IF enqueued = <<>> /\ evidence = <<>> THEN "Planned" ELSE "CollectingEvidence"

ReachedAtStep ==
  /\ step \in Early \cup {"idle"} /\ receipt = NoReceipt => Reached = "Created"
  /\ step = "collect" /\ receipt = NoReceipt => Reached = Collecting
  /\ step = "propose" /\ receipt = NoReceipt => Reached = "EvidenceCollected"
  /\ step = "request" /\ receipt = NoReceipt => Reached = "ProposalGenerated"
  /\ step = "approve" /\ receipt = NoReceipt => Reached = "WaitingForApproval"
  /\ step = "execute" /\ receipt = NoReceipt => Reached = "Approved"
  /\ step = "verify" /\ receipt = NoReceipt => Reached = "Executing"
  /\ step = "receipt" /\ receipt = NoReceipt => Reached = "Verifying"
  /\ receipt # NoReceipt => Reached = "Resolved"

\* What Reached is, without the record it is looked up in.
LEMMA ReachedByStep == ReachedAtStep /\ ReachedAtStep'
<1>1. ReachedAtStep
  BY DEF ReachedAtStep, Reached, StateAtStep, Collecting, Early
<1>2. ReachedAtStep'
  BY DEF ReachedAtStep, Reached, StateAtStep, Collecting, Early
<1> QED  BY <1>1, <1>2

Transitions == Lifecycle!ValidRunTransitions

\* The transitions a journey takes are all valid.
LEMMA TransitionsOfJourneys ==
  /\ "Planned" \in Transitions["Created"]
  /\ "CollectingEvidence" \in Transitions["Planned"]
  /\ "EvidenceCollected" \in Transitions["CollectingEvidence"]
  /\ "ProposalGenerated" \in Transitions["EvidenceCollected"]
  /\ "WaitingForApproval" \in Transitions["ProposalGenerated"]
  /\ "Approved" \in Transitions["WaitingForApproval"]
  /\ "Executing" \in Transitions["Approved"]
  /\ "Verifying" \in Transitions["Executing"]
  /\ "Resolved" \in Transitions["Verifying"]
  /\ "Reviewed" \in Transitions["Resolved"]
  BY DEF Transitions, Lifecycle!ValidRunTransitions, Lifecycle!RunStates

\* One valid transition, or none.
Moves(from, to) == from = to \/ to \in Transitions[from]

\* A step that does not end the command takes its run along one valid transition, or none.
LEMMA ReachedMoves ==
  ASSUME Control, Control', Progress, Progress', Next, step # "idle", step' # "idle"
  PROVE  UNCHANGED <<session, ended>> /\ Moves(Reached, Reached')
<1> USE DEF Progress
<1>a. ReachedAtStep /\ ReachedAtStep'
  BY ReachedByStep
<1>b. /\ Len(acceptedResults) \in Nat /\ Len(enqueued) \in Nat /\ Len(pulledTasks) \in Nat
  BY DEF Vectors, IsVector
<1>c. \A q : IsVector(q) /\ Len(q) > 0 => q # <<>>
  BY VectorEmpty
<1>1. CASE LoadFleet
  <2>1. /\ UNCHANGED <<session, ended>> /\ receipt = NoReceipt /\ receipt' = NoReceipt
        /\ step = "load" /\ step' \in {"summary", "enrol"}
    BY <1>1 DEF LoadFleet, Fail, End, Go, At, findings, ReceiptAtStep
  <2> QED  BY <2>1, <1>a DEF ReachedAtStep, Moves, Early
<1>2. CASE CreateToken
  <2>1. UNCHANGED <<session, ended, step, receipt>> /\ step = "enrol"
    BY <1>2 DEF CreateToken, At, findings
  <2> QED  BY <2>1, <1>a DEF ReachedAtStep, Moves, Early, ReceiptAtStep
<1>3. CASE EnrolNode
  <2>1. UNCHANGED <<session, ended, step, receipt>> /\ step = "enrol"
    BY <1>3 DEF EnrolNode, Fail, End, At, findings
  <2> QED  BY <2>1, <1>a DEF ReachedAtStep, Moves, Early, ReceiptAtStep
<1>4. ASSUME PlanRun, step \in {"enrol", "start"} PROVE UNCHANGED <<session, ended>> /\ Moves(Reached, Reached')
  <2>1. UNCHANGED <<session, ended, receipt>> /\ step' = "collect" /\ receipt = NoReceipt
    BY <1>4 DEF PlanRun, Go, ReceiptAtStep
  <2>2. enqueued' = <<>> /\ evidence' = <<>>
    BY <1>4 DEF PlanRun, controlPlane, PlanAtStep, Early
  <2>3. Reached = "Created" /\ Reached' = "Planned"
    BY <1>4, <2>1, <2>2, <1>a DEF ReachedAtStep, Early, Collecting
  <2> QED  BY <2>1, <2>3, TransitionsOfJourneys DEF Moves
<1>5. CASE PlanSimulation
  BY <1>5, <1>4 DEF PlanSimulation, Fail, End, At
<1>6. CASE StartDogfood
  BY <1>6, <1>4 DEF StartDogfood, Fail, End, At
<1>7. CASE EnqueueCollect
  <2>1. UNCHANGED <<session, ended, step, receipt, evidence>> /\ step = "collect" /\ receipt = NoReceipt
    BY <1>7 DEF EnqueueCollect, Observing, findings, At, ReceiptAtStep
  <2>2. IsVector(enqueued') /\ Len(enqueued') = Len(enqueued) + 1
    BY <1>7, HandlersOfControlPlane DEF EnqueueCollect, Vectors
  <2>3. enqueued' # <<>>
    BY <1>b, <1>c, <2>2
  <2> QED  BY <2>1, <2>3, <1>a, TransitionsOfJourneys DEF ReachedAtStep, Collecting, Moves
<1>8. CASE PullCollect
  <2>1. UNCHANGED <<session, ended, step, receipt, evidence>> /\ step = "collect" /\ receipt = NoReceipt
    BY <1>8 DEF PullCollect, Observing, findings, At, ReceiptAtStep
  <2>2. enqueued' = enqueued
    BY <1>8, HandlersOfControlPlane DEF PullCollect, Vectors
  <2> QED  BY <2>1, <2>2, <1>a DEF ReachedAtStep, Collecting, Moves
<1>9. CASE SubmitCollect
  <2>1. UNCHANGED <<session, ended, step, receipt, evidence>> /\ step = "collect" /\ receipt = NoReceipt
    BY <1>9 DEF SubmitCollect, Observing, findings, At, ReceiptAtStep
  <2>2. enqueued' = enqueued
    BY <1>9, HandlersOfControlPlane DEF SubmitCollect, Vectors
  <2> QED  BY <2>1, <2>2, <1>a DEF ReachedAtStep, Collecting, Moves
<1>10. CASE Observe
  <2>1. UNCHANGED <<session, ended, receipt>> /\ step = "collect" /\ step' = "propose" /\ receipt = NoReceipt
    BY <1>10 DEF Observe, Go, At, ReceiptAtStep
  <2>2. Command.journey \in DOMAIN Journeys
    BY <2>1, CommandKnown DEF Control, StepFits, StepsOfRuns, Running, Journeys
  <2>3. CollectTasks = RunCollectors
    BY <2>1, <2>2, PlanOfRun DEF PlanAtStep, Later, StepsOfRuns
  <2>4. Len(acceptedResults) > 0
    BY <1>10, <2>2, <2>3, CollectorsCollect DEF Observe
  <2>5. enqueued # <<>>
    <3>1. Len(acceptedResults) <= Len(enqueued)
      BY <1>b, <2>1 DEF OneAfterTheOther, Later, StepsOfRuns
    <3> QED  BY <1>b, <1>c, <2>4, <3>1, VectorEmpty
  <2> QED  BY <2>1, <2>5, <1>a, TransitionsOfJourneys DEF ReachedAtStep, Collecting, Moves
<1>11. CASE CollectNatively
  <2>1. /\ UNCHANGED <<session, ended, receipt, enqueued>> /\ step = "collect" /\ receipt = NoReceipt
        /\ \E e : evidence' = Append(evidence, e)
        /\ step' = IF Len(evidence') = Len(DogfoodKinds) THEN "propose" ELSE "collect"
    BY <1>11 DEF CollectNatively, Fail, End, Go, At, controlPlane, ReceiptAtStep
  <2>2. /\ IsVector(evidence) /\ IsVector(evidence') /\ Len(evidence) \in Nat
        /\ Len(evidence') = Len(evidence) + 1
    <3>1. PICK e : evidence' = Append(evidence, e)
      BY <2>1
    <3>2. IsVector(evidence) /\ Len(evidence) \in Nat
      BY DEF Vectors, IsVector
    <3> QED  BY <3>1, <3>2, VectorAppend
  <2>3. evidence' # <<>>
    BY <1>c, <2>2
  <2>4. CASE Len(evidence') = Len(DogfoodKinds)
    <3>1. evidence # <<>>
      BY <2>2, <2>4, VectorEmpty DEF DogfoodKinds
    <3> QED  BY <2>1, <2>4, <3>1, <1>a, TransitionsOfJourneys DEF ReachedAtStep, Collecting, Moves
  <2>5. CASE Len(evidence') # Len(DogfoodKinds)
    BY <2>1, <2>3, <2>5, <1>a, TransitionsOfJourneys DEF ReachedAtStep, Collecting, Moves
  <2> QED  BY <2>4, <2>5
<1>12. CASE Propose
  <2>1. UNCHANGED <<session, ended, receipt>> /\ step = "propose" /\ step' = "request" /\ receipt = NoReceipt
    BY <1>12 DEF Propose, Fail, End, Go, At, ReceiptAtStep
  <2> QED  BY <2>1, <1>a, TransitionsOfJourneys DEF ReachedAtStep, Moves
<1>13. CASE RequestApproval
  <2>1. UNCHANGED <<session, ended, receipt>> /\ step = "request" /\ step' = "approve" /\ receipt = NoReceipt
    BY <1>13 DEF RequestApproval, End, Go, At, findings, ReceiptAtStep
  <2> QED  BY <2>1, <1>a, TransitionsOfJourneys DEF ReachedAtStep, Moves
<1>14. CASE ApproveAction
  <2>1. UNCHANGED <<session, ended, receipt>> /\ step = "approve" /\ step' = "execute" /\ receipt = NoReceipt
    BY <1>14 DEF ApproveAction, Go, At, findings, ReceiptAtStep
  <2> QED  BY <2>1, <1>a, TransitionsOfJourneys DEF ReachedAtStep, Moves
<1>15. CASE ExecuteAction
  <2>1. UNCHANGED <<session, ended, receipt>> /\ step = "execute" /\ step' = "verify" /\ receipt = NoReceipt
    BY <1>15 DEF ExecuteAction, Fail, End, Go, At, findings, ReceiptAtStep
  <2> QED  BY <2>1, <1>a, TransitionsOfJourneys DEF ReachedAtStep, Moves
<1>16. CASE Verify
  <2>1. UNCHANGED <<session, ended, receipt>> /\ step = "verify" /\ step' = "receipt" /\ receipt = NoReceipt
    BY <1>16 DEF Verify, Go, At, findings, ReceiptAtStep
  <2> QED  BY <2>1, <1>a, TransitionsOfJourneys DEF ReachedAtStep, Moves
<1>17. CASE GenerateTheReceipt
  <2>1. UNCHANGED <<session, ended>> /\ step = "receipt" /\ receipt' # NoReceipt /\ receipt = NoReceipt
    BY <1>17 DEF GenerateTheReceipt, Go, At, ReceiptAtStep
  <2> QED  BY <2>1, <1>a, TransitionsOfJourneys DEF ReachedAtStep, Moves
<1>18. CASE Persist
  <2>1. UNCHANGED <<session, ended, receipt>> /\ step = "persist" /\ receipt # NoReceipt
    BY <1>18 DEF Persist, Fail, End, At, findings, ReceiptAtStep
  <2> QED  BY <2>1, <1>a DEF ReachedAtStep, Moves
<1>19. ASSUME Begin \/ Kill \/ ShowSummary \/ Finish \/ ShowReceipt PROVE FALSE
  BY <1>19 DEF Begin, Kill, ShowSummary, Finish, ShowReceipt, Fail, End, At
<1> QED  BY <1>1, <1>2, <1>3, <1>5, <1>6, <1>7, <1>8, <1>9, <1>10, <1>11, <1>12, <1>13, <1>14,
            <1>15,
            <1>16, <1>17, <1>18, <1>19 DEF Next, Step

\* How a command ends: its run stays where it is, or is reviewed once its receipt is held.
LEMMA EndingMoves ==
  ASSUME Control, Progress, Next, step # "idle", step' = "idle"
  PROVE  \E how, shown, reached : End(how, shown, reached) /\ Moves(Reached, reached)
<1> USE DEF Progress
<1>a. ReachedAtStep
  BY ReachedByStep
<1>1. ASSUME NEW how, NEW shown, End(how, shown, Reached)
      PROVE  \E h, s, r : End(h, s, r) /\ Moves(Reached, r)
  BY <1>1 DEF Moves
<1>2. CASE Fail
  BY <1>1, <1>2 DEF Fail
<1>3. CASE Kill
  BY <1>1, <1>3 DEF Kill
<1>4. CASE Finish
  <2>1. step \in {"persist", "done"} /\ End("Done", receipt, "Reviewed")
    BY <1>4 DEF Finish, At
  <2>2. Reached = "Resolved"
    BY <2>1, <1>a DEF ReceiptAtStep, ReachedAtStep
  <2> QED  BY <2>1, <2>2, TransitionsOfJourneys DEF Moves
<1>5. CASE ShowSummary
  BY <1>1, <1>5 DEF ShowSummary
<1>6. CASE ShowReceipt
  BY <1>1, <1>2, <1>6 DEF ShowReceipt
<1>7. CASE RequestApproval
  <2>1. ActionsNamed(Fixture.requested) = <<>> => End("Panicked", NoReceipt, Reached)
    BY <1>7 DEF RequestApproval
  <2>2. ActionsNamed(Fixture.requested) = <<>>
    BY <1>7 DEF RequestApproval, Go
  <2> QED  BY <2>1, <2>2, <1>1
<1>8. ASSUME ~ Fail, \/ LoadFleet \/ CreateToken \/ EnrolNode \/ PlanSimulation \/ StartDogfood
                     \/ EnqueueCollect \/ PullCollect \/ SubmitCollect \/ Observe \/ CollectNatively
                     \/ Propose \/ ApproveAction \/ ExecuteAction
                     \/ Verify \/ GenerateTheReceipt \/ Persist \/ Begin
      PROVE  FALSE
  BY <1>8 DEF LoadFleet, CreateToken, EnrolNode, PlanSimulation, PlanRun, StartDogfood,
              EnqueueCollect, PullCollect, SubmitCollect, Observe, CollectNatively, Observing,
              Propose, ApproveAction, ExecuteAction, Verify, GenerateTheReceipt, Persist, Begin, Go, At
<1> QED  BY <1>2, <1>3, <1>4, <1>5, <1>6, <1>7, <1>8 DEF Next, Step

\* The abstract state, as Lifecycle maps it.
StateOfRun(i) ==
  IF i <= Len(ended) THEN ended[i].reached
  ELSE IF i = Len(ended) + 1 /\ ~ At("idle") THEN Reached
  ELSE "Created"
RunStates == [i \in 1..Longest |-> StateOfRun(i)]

\* No session is longer than there are runs in the abstract specification.
LEMMA LongestIsLongest == Longest \in Nat /\ \A s \in Sessions : Len(s) <= Longest
<1> DEFINE L == {Len(s) : s \in Sessions}
<1>1. Longest \in L /\ \A s \in Sessions : Len(s) <= Longest
  BY LongestAssumption DEF Longest
<1>2. L \subseteq Nat
  BY SessionsAssumption DEF IsVector
<1> QED  BY <1>1, <1>2

\* Where a run has come is a state of the lifecycle.
LEMMA ReachedIsState == Reached \in Lifecycle!RunStates
  BY DEF Reached, StateAtStep, Lifecycle!RunStates

\* A move of one run is a step of the lifecycle, or a stutter.
LEMMA MoveIsStep ==
  ASSUME NEW i \in 1..Longest, Moves(StateOfRun(i), StateOfRun(i)'),
         StateOfRun(i) \in Lifecycle!RunStates,
         \A j \in 1..Longest \ {i} : StateOfRun(j)' = StateOfRun(j)
  PROVE  [Lifecycle!Next]_RunStates
<1>1. RunStates' = [RunStates EXCEPT ![i] = StateOfRun(i)']
  BY DEF RunStates
<1>2. CASE StateOfRun(i)' = StateOfRun(i)
  BY <1>1, <1>2 DEF RunStates
<1>3. CASE StateOfRun(i)' # StateOfRun(i)
  <2>1. StateOfRun(i)' \in Lifecycle!ValidRunTransitions[RunStates[i]]
    BY <1>3 DEF Moves, Transitions, RunStates
  <2>2. StateOfRun(i)' \in Lifecycle!RunStates
    BY <1>3 DEF Moves, Transitions, Lifecycle!ValidRunTransitions, Lifecycle!RunStates
  <2> QED  BY <1>1, <2>1, <2>2 DEF Lifecycle!Next, Lifecycle!TransitionTo, RunStates, StateOfRun
<1> QED  BY <1>2, <1>3

\* Every run is created at first.
LEMMA LifecycleStarts == Init => Lifecycle!Init
<1> SUFFICES ASSUME Init PROVE Lifecycle!Init
  OBVIOUS
<1>1. \A i \in 1..Longest : StateOfRun(i) = "Created"
  BY LongestIsLongest, VectorEmpty DEF Init, StateOfRun, At
<1> QED  BY <1>1 DEF Lifecycle!Init, StateOfRun

\* Every step of the journeys is a step of the lifecycle or a stutter: the run at work moves,
\* the run of a command that ends is recorded as it was left, and the others stay.
LEMMA LifecycleSteps ==
  Control /\ Control' /\ Progress /\ Progress' /\ [Next]_jVars => [Lifecycle!Next]_RunStates
<1> SUFFICES ASSUME Control, Control', Progress, Progress', [Next]_jVars
             PROVE  [Lifecycle!Next]_RunStates
  OBVIOUS
<1>a. Longest \in Nat /\ Len(ended) \in Nat /\ Len(session) \in Nat /\ Len(session) <= Longest
  BY LongestIsLongest, SessionsAssumption DEF Control, IsVector
<1>1. CASE UNCHANGED jVars
  <2>1. Reached' = Reached
    BY <1>1 DEF jVars, memory, findings, controlPlane, Reached, StateAtStep
  <2>2. \A i \in 1..Longest : StateOfRun(i)' = StateOfRun(i)
    BY <1>1, <2>1 DEF jVars, StateOfRun, At
  <2> QED  BY <2>2 DEF RunStates
<1>2. CASE Next /\ step # "idle" /\ step' # "idle"
  <2>1. UNCHANGED <<session, ended>> /\ Moves(Reached, Reached')
    BY <1>2, ReachedMoves
  <2>2. PICK n \in 1..Longest : n = Len(ended) + 1
    BY <1>2, <1>a DEF Control
  <2>3. StateOfRun(n) = Reached /\ StateOfRun(n)' = Reached'
    BY <1>2, <1>a, <2>1, <2>2 DEF StateOfRun, At
  <2>4. \A j \in 1..Longest \ {n} : StateOfRun(j)' = StateOfRun(j)
    BY <1>a, <2>1, <2>2 DEF StateOfRun
  <2> QED  BY <2>1, <2>2, <2>3, <2>4, MoveIsStep, ReachedIsState
<1>3. CASE Next /\ step # "idle" /\ step' = "idle"
  <2>1. PICK how, shown, reached : End(how, shown, reached) /\ Moves(Reached, reached)
    BY <1>3, EndingMoves
  <2>2. ended' = Append(ended, Outcome(how, shown, reached)) /\ step' = "idle"
    BY <2>1 DEF End
  <2>3. /\ Len(ended') = Len(ended) + 1 /\ ended'[Len(ended) + 1] = Outcome(how, shown, reached)
        /\ \A i \in 1..Len(ended) : ended'[i] = ended[i]
    BY <2>2, VectorAppend DEF Control
  <2>4. PICK n \in 1..Longest : n = Len(ended) + 1
    BY <1>3, <1>a DEF Control
  <2>5. StateOfRun(n) = Reached /\ StateOfRun(n)' = reached
    <3>1. n = Len(ended') /\ ended'[n].reached = reached
      BY <2>3, <2>4 DEF Outcome
    <3> QED  BY <1>3, <1>a, <2>4, <3>1 DEF StateOfRun, At
  <2>6. \A j \in 1..Longest \ {n} : StateOfRun(j)' = StateOfRun(j)
    <3> TAKE j \in 1..Longest \ {n}
    <3>1. CASE j <= Len(ended)
      BY <1>a, <2>3, <2>4, <3>1 DEF StateOfRun
    <3>2. CASE j > n
      <4>1. StateOfRun(j) = "Created"
        BY <1>a, <2>4, <3>2 DEF StateOfRun
      <4>2. StateOfRun(j)' = "Created"
        BY <1>a, <2>2, <2>3, <2>4, <3>2 DEF StateOfRun, At
      <4> QED  BY <4>1, <4>2
    <3> QED  BY <1>a, <2>4, <3>1, <3>2
  <2> QED  BY <2>1, <2>4, <2>5, <2>6, MoveIsStep, ReachedIsState
<1>4. CASE Next /\ step = "idle"
  <2>1. Begin
    BY <1>4 DEF Next, Step, LoadFleet, ShowSummary, CreateToken, EnrolNode, PlanSimulation,
       StartDogfood,
          EnqueueCollect, PullCollect, SubmitCollect, Observe, CollectNatively,
          Propose, RequestApproval, ApproveAction, ExecuteAction,
          Verify, GenerateTheReceipt, Persist, Finish, ShowReceipt, Kill, At
  <2>2. step' \in Early /\ receipt' = NoReceipt /\ ended' = ended
    BY <2>1 DEF Begin, Go, ForgetAll, Early
  <2>3. Reached' = "Created"
    BY <2>2, ReachedByStep DEF ReachedAtStep
  <2>4. \A i \in 1..Longest : StateOfRun(i)' = StateOfRun(i)
    BY <1>4, <1>a, <2>2, <2>3 DEF StateOfRun, At
  <2> QED  BY <2>4 DEF RunStates
<1> QED  BY <1>1, <1>2, <1>3, <1>4

\* Both invariants hold throughout.
LEMMA ProgressKept == Spec => [](Control /\ Progress)
<1>1. Init => Control /\ Progress
  BY ControlStarts, ProgressStarts
<1>2. Control /\ Progress /\ [Next]_jVars => (Control /\ Progress)'
  BY ControlSteps, ProgressSteps
<1> QED  BY <1>1, <1>2, PTL DEF Spec

\* ImplementsRunLifecycle: each command takes its run through the lifecycle of RunLifecycle,
\* one valid transition at a time, and leaves it where it was if it fails, panics or is
\* killed, whatever the fleet, the hosts and the operator's session (is_valid_run_transition
\* of lib.rs, which the journeys never call; e2e.rs, runlane-agent/src/main.rs).
THEOREM LifecycleImplemented == Spec => ImplementsRunLifecycle
<1>1. Control /\ Control' /\ Progress /\ Progress' /\ [Next]_jVars =>
        [Lifecycle!Next]_([i \in 1..Longest |->
              IF i <= Len(ended) THEN ended[i].reached
              ELSE IF i = Len(ended) + 1 /\ ~ At("idle") THEN Reached
              ELSE "Created"])
  BY LifecycleSteps DEF RunStates, StateOfRun
<1> QED  BY <1>1, LifecycleStarts, ProgressKept, PTL
            DEF Spec, ImplementsRunLifecycle, Lifecycle!Spec

-----------------------------------------------------------------------------
(* The receipt as a fold.                                                  *)

\* An event of another run is passed over.
Taken(run, parts, event) == IF event.run = run THEN Apply(parts, event) ELSE parts

\* f[n]: what the first n events of q tell of the run.
FoldsUpTo(f, m, run, q) ==
  /\ f = [n \in 0..m |-> f[n]]
  /\ f[0] = NoParts
  /\ \A n \in 1..m : f[n] = Taken(run, f[n - 1], q[n])

\* The fold over a ledger is defined for every ledger.
LEMMA FoldExists ==
  ASSUME NEW q, IsVector(q), NEW run
  PROVE  \E f : FoldsUpTo(f, Len(q), run, q)
<1> DEFINE Holds == {m \in 0..Len(q) : \E f : FoldsUpTo(f, m, run, q)}
<1>0. Len(q) \in Nat
  BY DEF IsVector
<1>1. 0 \in Holds
  <2>1. FoldsUpTo([n \in 0..0 |-> NoParts], 0, run, q)
    BY DEF FoldsUpTo
  <2> QED  BY <1>0, <2>1
<1>2. ASSUME NEW m \in 1..Len(q), m - 1 \in Holds PROVE m \in Holds
  <2>1. PICK f : FoldsUpTo(f, m - 1, run, q)
    BY <1>2
  <2> DEFINE last == Taken(run, f[m - 1], q[m])
             g == [n \in 0..m |-> IF n = m THEN last ELSE f[n]]
  <2> HIDE DEF last
  <2>2. g = [n \in 0..m |-> g[n]]
    OBVIOUS
  <2>3. g[0] = NoParts
    BY <2>1, <1>0 DEF FoldsUpTo
  <2>4. ASSUME NEW n \in 1..m PROVE g[n] = Taken(run, g[n - 1], q[n])
    <3>1. CASE n = m
      <4>1. g[n] = last /\ g[n - 1] = f[m - 1]
        BY <1>0, <3>1
      <4> HIDE DEF g
      <4> QED  BY <3>1, <4>1 DEF last
    <3>2. CASE n # m
      <4>1. n \in 1..(m - 1) /\ g[n] = f[n] /\ g[n - 1] = f[n - 1]
        BY <1>0, <3>2
      <4>2. f[n] = Taken(run, f[n - 1], q[n])
        BY <4>1, <2>1 DEF FoldsUpTo
      <4> HIDE DEF g
      <4> QED  BY <4>1, <4>2
    <3> QED  BY <3>1, <3>2
  <2> HIDE DEF g
  <2>5. FoldsUpTo(g, m, run, q)
    BY <2>2, <2>3, <2>4 DEF FoldsUpTo
  <2> QED  BY <1>0, <2>5
<1> HIDE DEF Holds
<1>3. Holds = 0..Len(q)
  <2>1. Holds \in SUBSET (0..Len(q))
    BY DEF Holds
  <2> QED  BY <1>0, <1>1, <1>2, <2>1, UpToInduction
<1>4. Len(q) \in Holds
  BY <1>0, <1>3
<1> QED  BY <1>4 DEF Holds

\* What a receipt is made of is what that fold ends with.
LEMMA PartsAreFolded ==
  ASSUME NEW q, IsVector(q), NEW run
  PROVE  \E f : FoldsUpTo(f, Len(q), run, q) /\ CollectParts(run, q) = f[Len(q)]
<1> DEFINE Folding(f) == f = [n \in 0..Len(q) |->
                                IF n = 0 THEN NoParts
                                ELSE IF q[n].run = run THEN Apply(f[n - 1], q[n]) ELSE f[n - 1]]
           a == CHOOSE f : Folding(f)
<1>0. Len(q) \in Nat
  BY DEF IsVector
<1>1. PICK f : FoldsUpTo(f, Len(q), run, q)
  BY FoldExists
<1>2. Folding(f)
  <2> DEFINE h == [n \in 0..Len(q) |->
                                IF n = 0 THEN NoParts
                                ELSE IF q[n].run = run THEN Apply(f[n - 1], q[n]) ELSE f[n - 1]]
  <2>1. ASSUME NEW n \in 0..Len(q) PROVE f[n] = h[n]
    <3>1. CASE n = 0
      BY <1>1, <3>1 DEF FoldsUpTo
    <3>2. CASE n # 0
      <4>1. n \in 1..Len(q)
        BY <1>0, <3>2
      <4> QED  BY <1>1, <3>2, <4>1 DEF FoldsUpTo, Taken
    <3> QED  BY <3>1, <3>2
  <2>2. f = [n \in 0..Len(q) |-> f[n]]
    BY <1>1 DEF FoldsUpTo
  <2>3. h = [n \in 0..Len(q) |-> h[n]]
    OBVIOUS
  <2> HIDE DEF h
  <2>4. f = h
    BY <2>1, <2>2, <2>3
  <2> QED  BY <2>4 DEF h
<1>3. Folding(a)
  <2> HIDE DEF Folding
  <2> QED  BY <1>2
<1>4. CollectParts(run, q) = a[Len(q)]
  BY DEF CollectParts
<1> HIDE DEF a
<1>5. FoldsUpTo(a, Len(q), run, q)
  <2>1. DOMAIN a = 0..Len(q) /\ a = [n \in 0..Len(q) |-> a[n]]
    BY <1>3
  <2>2. a[0] = NoParts
    BY <1>0, <1>3
  <2>3. ASSUME NEW n \in 1..Len(q) PROVE a[n] = Taken(run, a[n - 1], q[n])
    <3>1. n \in 0..Len(q) /\ n # 0
      BY <1>0
    <3> QED  BY <1>3, <3>1 DEF Taken
  <2> QED  BY <2>1, <2>2, <2>3 DEF FoldsUpTo
<1> QED  BY <1>4, <1>5

\* An empty ledger tells nothing.
LEMMA PartsEmpty ==
  ASSUME NEW run
  PROVE  CollectParts(run, <<>>) = NoParts
<1>1. PICK f : FoldsUpTo(f, Len(<<>>), run, <<>>) /\ CollectParts(run, <<>>) = f[Len(<<>>)]
  BY VectorEmpty, PartsAreFolded
<1> QED  BY <1>1, VectorEmpty DEF FoldsUpTo

\* One more event is applied to what the events before it tell.
LEMMA PartsAppend ==
  ASSUME NEW q, IsVector(q), NEW event, NEW run
  PROVE  CollectParts(run, Append(q, event)) = Taken(run, CollectParts(run, q), event)
<1> DEFINE p == Append(q, event)
<1>1. /\ IsVector(p) /\ Len(p) = Len(q) + 1 /\ p[Len(q) + 1] = event
      /\ \A i \in 1..Len(q) : p[i] = q[i]
  BY VectorAppend
<1>2. Len(q) \in Nat
  BY DEF IsVector
<1> HIDE DEF p
<1>3. PICK f : FoldsUpTo(f, Len(q), run, q) /\ CollectParts(run, q) = f[Len(q)]
  BY PartsAreFolded
<1>4. PICK g : FoldsUpTo(g, Len(p), run, p) /\ CollectParts(run, p) = g[Len(p)]
  BY <1>1, PartsAreFolded
<1> DEFINE Holds == {n \in 0..Len(q) : f[n] = g[n]}
<1>5. 0 \in Holds
  BY <1>2, <1>3, <1>4 DEF FoldsUpTo
<1>6. ASSUME NEW n \in 1..Len(q), n - 1 \in Holds PROVE n \in Holds
  <2>1. n \in 1..Len(p) /\ p[n] = q[n] /\ f[n - 1] = g[n - 1]
    BY <1>1, <1>2, <1>6
  <2>2. f[n] = Taken(run, f[n - 1], q[n]) /\ g[n] = Taken(run, g[n - 1], p[n])
    BY <1>3, <1>4, <2>1 DEF FoldsUpTo
  <2>3. f[n] = g[n] /\ n \in 0..Len(q)
    BY <2>1, <2>2
  <2> QED  BY <2>3
<1>7. Holds = 0..Len(q)
  <2>1. Holds \in SUBSET (0..Len(q))
    OBVIOUS
  <2> HIDE DEF Holds
  <2> QED  BY <1>2, <1>5, <1>6, <2>1, UpToInduction
<1>8. f[Len(q)] = g[Len(q)]
  <2>1. Len(q) \in Holds
    BY <1>2, <1>7
  <2> QED  BY <2>1
<1>9. g[Len(q) + 1] = Taken(run, g[Len(q)], event)
  <2>1. Len(q) + 1 \in 1..Len(p)
    BY <1>1, <1>2
  <2>2. g[Len(q) + 1] = Taken(run, g[Len(q) + 1 - 1], p[Len(q) + 1])
    BY <1>4, <2>1 DEF FoldsUpTo
  <2>3. Len(q) + 1 - 1 = Len(q)
    BY <1>2
  <2> QED  BY <1>1, <2>2, <2>3
<1>10. CollectParts(run, p) = Taken(run, CollectParts(run, q), event)
  BY <1>1, <1>3, <1>4, <1>8, <1>9
<1> QED  BY <1>10 DEF p

\* An event no receipt is made of changes none.
LEMMA ReceiptIgnores ==
  ASSUME NEW q, IsVector(q), NEW run
  PROVE  GenerateReceipt(run, Append(q, CognitiveReceiptGenerated)) = GenerateReceipt(run, q)
<1>1. \A parts : Taken(run, parts, CognitiveReceiptGenerated) = parts
  BY DEF Taken, Apply, CognitiveReceiptGenerated
<1>2. CollectParts(run, Append(q, CognitiveReceiptGenerated)) = CollectParts(run, q)
  BY <1>1, PartsAppend
<1> QED  BY <1>2 DEF GenerateReceipt

-----------------------------------------------------------------------------
(* The state directory.                                                    *)

Hows == {"Done", "Failed", "Panicked", "Killed"}

\* The i-th command reported that its ledger is persisted.
Reported(i) == ended[i].how = "Done" /\ session[i].does \in {"write", "dogfood"}

\* A command that has appended anything began with an empty file, which has what it appended.
FileFollows ==
  /\ written <= Len(audit)
  /\ step \notin {"persist", "idle"} => written = 0
  /\ written > 0 => Len(file) = written /\ \A k \in 1..written : file[k] = audit[k]

\* The receipt a command holds is that of its ledger.
HoldsReceipt ==
  step \in {"persist", "done"} => audit # <<>> /\ receipt = GenerateReceipt(Fixture.run, audit)

\* A file of which a receipt was reported yields it, and takes nothing more: whatever
\* command is at work has appended nothing, and what it has to append does not continue it.
FileKeepsReported ==
  \A i \in 1..Len(ended) : Reported(i) =>
    /\ file # <<>>
    /\ GenerateReceipt(Journeys[session[i].journey].run, file) = ended[i].shown
    /\ step # "idle" => written = 0

HowsKnown == \A i \in 1..Len(ended) : ended[i].how \in Hows

\* The invariant of the state directory.
Directory == FileFollows /\ HoldsReceipt /\ FileKeepsReported /\ HowsKnown

\* An empty state directory, with no command that reported anything.
LEMMA DirectoryStarts == Init => Directory
  BY VectorEmpty DEF Init, EmptyMemory, Directory, FileFollows, HoldsReceipt, FileKeepsReported,
     HowsKnown

\* A command that ends leaves the state directory to the next one as it is.
LEMMA EndingKeepsDirectory ==
  ASSUME Control, Progress, Directory, step # "idle",
         NEW how \in Hows, NEW shown, NEW reached, End(how, shown, reached),
         how = "Done" /\ Command.does \in {"write", "dogfood"} =>
           file # <<>> /\ GenerateReceipt(Fixture.run, file) = shown
  PROVE  Directory'
<1>1. /\ ended' = Append(ended, Outcome(how, shown, reached)) /\ step' = "idle"
      /\ UNCHANGED <<session, file, audit, written, receipt>>
  BY DEF End, memory, findings
<1>2. /\ Len(ended') = Len(ended) + 1 /\ ended'[Len(ended) + 1] = Outcome(how, shown, reached)
      /\ \A i \in 1..Len(ended) : ended'[i] = ended[i]
  BY <1>1, VectorAppend DEF Control
<1>3. Len(ended) \in Nat
  BY DEF Control, IsVector
<1>4. FileFollows' /\ HoldsReceipt'
  BY <1>1 DEF Directory, FileFollows, HoldsReceipt
<1>5. ASSUME NEW i \in 1..Len(ended), i # Len(ended) + 1
      PROVE  /\ ended'[i].how \in Hows
             /\ Reported(i)' => /\ file' # <<>>
                                /\ GenerateReceipt(Journeys[session'[i].journey].run, file') = ended'[i].shown
  BY <1>1, <1>2, <1>5 DEF Directory, FileKeepsReported, HowsKnown, Reported
<1>6. PICK n : n = Len(ended) + 1
  OBVIOUS
<1>7. /\ ended'[n].how \in Hows
      /\ Reported(n)' => /\ file' # <<>>
                         /\ GenerateReceipt(Journeys[session'[n].journey].run, file') = ended'[n].shown
  <2>1. ended'[n].how = how /\ ended'[n].shown = shown
    BY <1>2, <1>6 DEF Outcome
  <2>2. session'[n] = Command
    BY <1>1, <1>6 DEF Command
  <2> QED  BY <1>1, <2>1, <2>2 DEF Reported, Fixture
<1>8. \A i \in 1..Len(ended') : i \in 1..Len(ended) \/ i = n
  BY <1>2, <1>3, <1>6
<1>9. HowsKnown'
  BY <1>3, <1>5, <1>7, <1>8 DEF HowsKnown
<1>10. FileKeepsReported'
  BY <1>1, <1>3, <1>5, <1>7, <1>8 DEF FileKeepsReported
<1> QED  BY <1>4, <1>9, <1>10 DEF Directory

\* Before it persists, a command does not touch the state directory.
LEMMA WorkKeepsDirectory ==
  ASSUME Control, Vectors', Directory,
         step \notin {"idle", "persist"}, step' \notin {"idle", "persist", "done"},
         UNCHANGED <<session, ended, file, written>>
  PROVE  Directory'
<1>1. Len(audit') \in Nat
  BY DEF Vectors, IsVector
<1>2. written' = 0
  BY DEF Directory, FileFollows
<1> QED  BY <1>1, <1>2 DEF Directory, FileFollows, HoldsReceipt, FileKeepsReported, HowsKnown,
            Reported

\* Every step leaves in the state directory what was reported as persisted.
LEMMA DirectorySteps ==
  Control /\ Control' /\ Progress /\ Progress' /\ Directory /\ [Next]_jVars => Directory'
<1> SUFFICES ASSUME Control, Control', Progress, Progress', Directory, [Next]_jVars PROVE Directory'
  OBVIOUS
<1>a. Vectors /\ Vectors'
  BY DEF Progress
<1>b. Len(file) \in Nat /\ Len(audit) \in Nat /\ Len(audit') \in Nat /\ written \in Nat
  BY <1>a DEF Vectors, IsVector
<1>c. \A q : IsVector(q) /\ Len(q) > 0 => q # <<>>
  BY VectorEmpty
<1>1. CASE UNCHANGED jVars
  BY <1>1 DEF jVars, memory, findings, Directory, FileFollows, HoldsReceipt, FileKeepsReported,
     HowsKnown,
              Reported, Fixture, Command
<1>2. CASE Kill
  BY <1>2, EndingKeepsDirectory DEF Kill, Hows, At
<1>3. ASSUME Fail, step # "idle" PROVE Directory'
  BY <1>3, EndingKeepsDirectory DEF Fail, Hows
<1>4. CASE Begin
  <2>1. /\ step = "idle" /\ UNCHANGED <<session, ended, file>> /\ step' \notin {"persist", "done", "idle"}
        /\ written' = 0
    BY <1>4 DEF Begin, Go, At, ForgetAll
  <2> QED  BY <2>1, <1>b DEF Directory, FileFollows, HoldsReceipt, FileKeepsReported, HowsKnown,
              Reported
<1>5. CASE LoadFleet
  <2>1. Fail \/ (step' \in {"summary", "enrol"} /\ UNCHANGED <<session, ended, file, written>>)
    BY <1>5 DEF LoadFleet, Go
  <2> QED  BY <1>5, <1>3, <1>a, <2>1, WorkKeepsDirectory DEF LoadFleet, At
<1>6. CASE ShowSummary
  <2>1. step = "summary" /\ Command.does = "load"
    BY <1>6 DEF ShowSummary, At, Control, StepFits, StepsOfRuns
  <2> QED  BY <1>6, <2>1, EndingKeepsDirectory DEF ShowSummary, Hows
<1>7. CASE CreateToken
  BY <1>7, <1>a, WorkKeepsDirectory DEF CreateToken, At
<1>8. CASE EnrolNode
  <2>1. Fail \/ (UNCHANGED <<session, ended, step, file, written>>)
    BY <1>8 DEF EnrolNode
  <2> QED  BY <1>8, <1>3, <1>a, <2>1, WorkKeepsDirectory DEF EnrolNode, At
<1>9. CASE PlanSimulation
  <2>1. Fail \/ (step' = "collect" /\ UNCHANGED <<session, ended, file, written>>)
    BY <1>9 DEF PlanSimulation, PlanRun, Go
  <2> QED  BY <1>9, <1>3, <1>a, <2>1, WorkKeepsDirectory DEF PlanSimulation, At
<1>10. CASE StartDogfood
  <2>1. Fail \/ (step' = "collect" /\ UNCHANGED <<session, ended, file, written>>)
    BY <1>10 DEF StartDogfood, PlanRun, Go
  <2> QED  BY <1>10, <1>3, <1>a, <2>1, WorkKeepsDirectory DEF StartDogfood, At
<1>11. CASE EnqueueCollect \/ PullCollect \/ SubmitCollect
  <2>1. step = "collect" /\ step' = "collect" /\ UNCHANGED <<session, ended, file, written>>
    BY <1>11 DEF EnqueueCollect, PullCollect, SubmitCollect, Observing, At
  <2> QED  BY <1>a, <2>1, WorkKeepsDirectory
<1>12. CASE Observe
  <2>1. step = "collect" /\ step' = "propose" /\ UNCHANGED <<session, ended, file, written>>
    BY <1>12 DEF Observe, Go, At
  <2> QED  BY <1>a, <2>1, WorkKeepsDirectory
<1>13. CASE CollectNatively
  <2>1. Fail \/ (step' \in {"collect", "propose"} /\ UNCHANGED <<session, ended, file, written>>)
    BY <1>13 DEF CollectNatively, Go
  <2> QED  BY <1>13, <1>3, <1>a, <2>1, WorkKeepsDirectory DEF CollectNatively, At
<1>14. CASE Propose
  <2>1. Fail \/ (step' = "request" /\ UNCHANGED <<session, ended, file, written>>)
    BY <1>14 DEF Propose, Go
  <2> QED  BY <1>14, <1>3, <1>a, <2>1, WorkKeepsDirectory DEF Propose, At
<1>15. CASE RequestApproval
  <2>1. CASE ActionsNamed(Fixture.requested) = <<>>
    BY <1>15, <2>1, EndingKeepsDirectory DEF RequestApproval, Hows, At
  <2>2. CASE ActionsNamed(Fixture.requested) # <<>>
    BY <1>15, <1>a, <2>2, WorkKeepsDirectory DEF RequestApproval, Go, At
  <2> QED  BY <2>1, <2>2
<1>16. CASE ApproveAction
  BY <1>16, <1>a, WorkKeepsDirectory DEF ApproveAction, Go, At
<1>17. CASE ExecuteAction
  <2>1. Fail \/ (step' = "verify" /\ UNCHANGED <<session, ended, file, written>>)
    BY <1>17 DEF ExecuteAction, Go
  <2> QED  BY <1>17, <1>3, <1>a, <2>1, WorkKeepsDirectory DEF ExecuteAction, At
<1>18. CASE Verify
  BY <1>18, <1>a, WorkKeepsDirectory DEF Verify, Go, At
<1>19. CASE GenerateTheReceipt
  <2>1. /\ step = "receipt" /\ step' \in {"persist", "done"} /\ UNCHANGED <<session, ended, file, written>>
        /\ audit' = Append(audit, CognitiveReceiptGenerated)
        /\ receipt' = GenerateReceipt(Fixture.run, IF Dogfood THEN audit' ELSE audit)
    BY <1>19 DEF GenerateTheReceipt, Go, At
  <2>2. receipt' = GenerateReceipt(Fixture.run, audit')
    BY <2>1, <1>a, ReceiptIgnores DEF Vectors
  <2>3. Fixture' = Fixture
    BY <2>1 DEF Fixture, Command
  <2>4. Len(audit') = Len(audit) + 1 /\ audit' # <<>>
    <3>1. IsVector(audit') /\ Len(audit') = Len(audit) + 1
      BY <1>a, <2>1, VectorAppend DEF Vectors
    <3> QED  BY <1>b, <1>c, <3>1
  <2>5. written' = 0
    BY <2>1 DEF Directory, FileFollows
  <2> QED  BY <2>1, <2>2, <2>3, <2>4, <2>5, <1>b
           DEF Directory, FileFollows, HoldsReceipt, FileKeepsReported, HowsKnown, Reported
<1>20. CASE Persist
  <2>1. CASE Fail
    BY <1>20, <1>3, <2>1 DEF Persist, At
  <2>2. CASE ~ Fail
    <3>1. /\ step = "persist" /\ written < Len(audit) /\ Len(file) = written
          /\ file' = Append(file, audit[written + 1]) /\ written' = written + 1
          /\ UNCHANGED <<session, ended, step, audit, receipt>>
      BY <1>20, <2>2 DEF Persist, findings, At
    <3>2. /\ Len(file') = Len(file) + 1 /\ file'[Len(file) + 1] = audit[written + 1]
          /\ \A k \in 1..Len(file) : file'[k] = file[k]
      BY <1>a, <3>1, VectorAppend DEF Vectors
    <3>3. FileFollows'
      <4>1. \A k \in 1..written : file[k] = audit[k]
        BY <1>b DEF Directory, FileFollows
      <4>2. \A k \in 1..(written + 1) : file'[k] = audit'[k]
        <5> TAKE k \in 1..(written + 1)
        <5>1. CASE k = written + 1
          BY <3>1, <3>2, <5>1
        <5>2. CASE k # written + 1
          <6>1. k \in 1..written
            BY <1>b, <5>2
          <6> QED  BY <3>1, <3>2, <4>1, <6>1
        <5> QED  BY <5>1, <5>2
      <4> QED  BY <1>b, <3>1, <3>2, <4>2 DEF FileFollows
    <3>4. \A i \in 1..Len(ended) : ~ Reported(i)
      <4>1. written = 0 => file = <<>>
        BY <1>a, <3>1, VectorOfNone DEF Vectors
      <4> QED  BY <3>1, <4>1 DEF Directory, FileKeepsReported
    <3>5. HoldsReceipt'
      BY <3>1 DEF Directory, HoldsReceipt, Fixture, Command
    <3> QED  BY <3>1, <3>3, <3>4, <3>5 DEF Directory, FileKeepsReported, HowsKnown, Reported
  <2> QED  BY <2>1, <2>2
<1>21. CASE Finish
  <2>1. End("Done", receipt, "Reviewed")
    BY <1>21 DEF Finish
  <2>2. CASE step = "done"
    <3>1. Command.does = "demo"
      BY <2>2 DEF Control, StepFits, StepsOfRuns
    <3> QED  BY <2>1, <2>2, <3>1, EndingKeepsDirectory DEF Hows
  <2>3. CASE step = "persist"
    <3>1. written = Len(audit) /\ audit # <<>> /\ receipt = GenerateReceipt(Fixture.run, audit)
      BY <1>21, <2>3 DEF Finish, At, Directory, HoldsReceipt
    <3>2. written > 0
      <4>1. written # 0
        BY <1>a, <3>1, VectorOfNone DEF Vectors
      <4> QED  BY <1>b, <4>1
    <3>3. file = audit
      <4>1. Len(file) = Len(audit) /\ \A k \in 1..Len(audit) : file[k] = audit[k]
        BY <3>1, <3>2 DEF Directory, FileFollows
      <4>2. file = [k \in 1..Len(file) |-> file[k]] /\ audit = [k \in 1..Len(audit) |-> audit[k]]
        BY <1>a DEF Vectors, IsVector
      <4>3. [k \in 1..Len(audit) |-> file[k]] = [k \in 1..Len(audit) |-> audit[k]]
        BY <4>1
      <4> QED  BY <4>1, <4>2, <4>3
    <3> QED  BY <2>1, <2>3, <3>1, <3>3, EndingKeepsDirectory DEF Hows
  <2> QED  BY <1>21, <2>2, <2>3 DEF Finish, At
<1>22. CASE ShowReceipt
  <2>1. step = "reload" /\ Command.does = "receipt"
    BY <1>22 DEF ShowReceipt, At, Control, StepFits, StepsOfRuns
  <2>2. Fail \/ \E shown : End("Done", shown, Reached)
    BY <1>22 DEF ShowReceipt
  <2> QED  BY <1>3, <2>1, <2>2, EndingKeepsDirectory DEF Hows
<1> QED  BY <1>1, <1>2, <1>4, <1>5, <1>6, <1>7, <1>8, <1>9, <1>10, <1>11, <1>12, <1>13, <1>14,
            <1>15,
            <1>16, <1>17, <1>18, <1>19, <1>20, <1>21, <1>22 DEF Next, Step

\* The three invariants hold throughout.
LEMMA DirectoryKept == Spec => [](Control /\ Progress /\ Directory)
<1>1. Init => Control /\ Progress /\ Directory
  BY ControlStarts, ProgressStarts, DirectoryStarts
<1>2. Control /\ Progress /\ Directory /\ [Next]_jVars => (Control /\ Progress /\ Directory)'
  BY ControlSteps, ProgressSteps, DirectorySteps
<1> QED  BY <1>1, <1>2, PTL DEF Spec

\* ReloadedReceiptIsReported: what a command reported as persisted is what every later
\* command reads, however many of them are killed while they append to the same directory
\* (durable.rs, append_ledger; receipt.rs, GenerateReceipt).
THEOREM PersistedReceiptStays == Spec => []ReloadedReceiptIsReported
<1>1. Control /\ Directory => ReloadedReceiptIsReported
  BY VectorIsSeq DEF Control, Directory, FileKeepsReported, Reported, ReloadedReceiptIsReported
<1> QED  BY <1>1, DirectoryKept, PTL

\* JourneyTypeOK: where a command is agrees with what it has in memory, and what it has
\* written is a prefix of its ledger (e2e.rs, runlane-agent/src/main.rs).
THEOREM JourneyTypeCorrect == Spec => []JourneyTypeOK
<1>1. ASSUME Control, Progress, Directory PROVE JourneyTypeOK
  <2>a. Vectors
    BY <1>1 DEF Progress
  <2>b. Len(file) \in Nat /\ Len(audit) \in Nat /\ written \in Nat /\ Len(executed) \in Nat
        /\ Len(records) \in Nat /\ Len(leases) \in Nat
    BY <2>a DEF Vectors, IsVector
  <2>1. \A i \in DOMAIN ended : ended[i].how \in {"Done", "Failed", "Panicked", "Killed"}
    BY <1>1, VectorIsSeq DEF Control, Directory, HowsKnown, Hows
  <2>2. SubSeq(audit, 1, written) = SubSeq(file, 1, written)
    <3>1. written <= Len(file) /\ \A k \in 1..written : file[k] = audit[k]
      BY <1>1, <2>b DEF Directory, FileFollows
    <3>2. written <= Len(audit)
      BY <1>1 DEF Directory, FileFollows
    <3>3. \A q : IsVector(q) /\ written <= Len(q) => SubSeq(q, 1, written) = [k \in 1..written |-> q[k]]
      BY <2>b, FirstOfVector
    <3>4. SubSeq(audit, 1, written) = [k \in 1..written |-> audit[k]]
          /\ SubSeq(file, 1, written) = [k \in 1..written |-> file[k]]
      BY <2>a, <3>1, <3>2, <3>3 DEF Vectors
    <3> QED  BY <3>1, <3>4
  <2>3. ASSUME JourneyRunning
        PROVE  /\ Len(acceptedResults) <= Len(pulledTasks) /\ Len(pulledTasks) <= Len(enqueued)
               /\ Len(enqueued) <= Len(acceptedResults) + 1
               /\ Len(executed) <= Len(leases) /\ Len(leases) <= Len(records) /\ Len(records) <= 1
               /\ (step \in {"load", "enrol", "start"}) = (plan = NoPlan)
               /\ step \in {"receipt", "persist", "done"} => executed # <<>>
    <3>1. step \in {"load", "enrol", "start"} \cup Later
      BY <1>1, <2>3 DEF JourneyRunning, At, Control, StepFits, Later, Simulating, Running
    <3>2. Len(<<>>) = 0
      BY VectorEmpty
    <3>3. /\ Len(executed) <= Len(leases) /\ Len(leases) <= Len(records) /\ Len(records) <= 1
          /\ step \in {"receipt", "persist", "done"} => executed # <<>>
      <4>1. GateAtStep
        BY <1>1 DEF Progress
      <4>2. CASE step \in {"load", "enrol", "start", "collect", "propose", "request"}
        BY <3>2, <4>1, <4>2 DEF GateAtStep, Early
      <4>3. CASE step = "approve"
        BY <3>2, <4>1, <4>3 DEF GateAtStep, Early
      <4>4. CASE step = "execute"
        <5>1. Len(records) = 1 /\ Len(leases) = 1 /\ executed = <<>>
          BY <4>1, <4>4 DEF GateAtStep
        <5>2. Len(executed) = 0
          BY <3>2, <5>1
        <5> QED  BY <4>4, <5>1, <5>2
      <4>5. CASE step \in {"verify", "receipt", "persist", "done"}
        <5>1. Len(records) = 1 /\ Len(leases) = 1 /\ Len(executed) = 1
          BY <4>1, <4>5 DEF GateAtStep
        <5>2. executed # <<>>
          BY <3>2, <5>1
        <5> QED  BY <5>1, <5>2
      <4> QED  BY <3>1, <4>2, <4>3, <4>4, <4>5 DEF Later, StepsOfRuns
    <3>4. (step \in {"load", "enrol", "start"}) = (plan = NoPlan)
      <4>1. CASE step \in {"load", "enrol", "start"}
        BY <1>1, <4>1 DEF Progress, PlanAtStep, Early
      <4>2. CASE step \in Later
        <5>1. plan = Planned
          BY <1>1, <4>2 DEF Progress, PlanAtStep
        <5>2. Command.journey \in DOMAIN Journeys
          BY <1>1, <2>3, CommandKnown DEF JourneyRunning, At, Control, Journeys
        <5>3. plan # NoPlan
          BY <5>1, <5>2, PlanOfRun
        <5> QED  BY <4>2, <5>3 DEF Later, StepsOfRuns
      <4> QED  BY <3>1, <4>1, <4>2
    <3>5. /\ Len(acceptedResults) <= Len(pulledTasks) /\ Len(pulledTasks) <= Len(enqueued)
          /\ Len(enqueued) <= Len(acceptedResults) + 1
      BY <1>1, <3>1 DEF Progress, OneAfterTheOther, Early
    <3> QED  BY <3>3, <3>4, <3>5
  <2>4. Len(ended) <= Len(session) /\ written <= Len(audit)
    BY <1>1 DEF Control, Directory, FileFollows
  <2> QED  BY <2>1, <2>2, <2>3, <2>4 DEF JourneyTypeOK
<1> QED  BY <1>1, DirectoryKept, PTL

-----------------------------------------------------------------------------
(* What the control plane of a command holds.                              *)

\* The kinds of event it records: none of them is one a receipt is made of.
ControlKinds == {"EnrollmentTokenCreated", "AgentEnrolled", "AgentTaskPulled", "AgentResultAccepted"}

OfControl(e) == "kind" \in DOMAIN e /\ e.kind \in ControlKinds

\* Tasks and answers are about what the simulated agents know.
AboutKnown(q) == \A i \in 1..Len(q) : q[i].task \in DOMAIN SimulatedEvidence

\* The invariant of the control plane of a command.
Served ==
  /\ IsVector(pendingTasks)
  /\ AboutKnown(pendingTasks) /\ AboutKnown(pulledTasks) /\ AboutKnown(acceptedResults)
  /\ \A i \in 1..Len(controlLedger) : OfControl(controlLedger[i])

\* An entry that fits is appended to entries that fit.
LEMMA AboutKnownAppend ==
  ASSUME NEW q, IsVector(q), AboutKnown(q), NEW e, e.task \in DOMAIN SimulatedEvidence
  PROVE  IsVector(Append(q, e)) /\ AboutKnown(Append(q, e))
<1>1. /\ IsVector(Append(q, e)) /\ Len(Append(q, e)) = Len(q) + 1
      /\ Append(q, e)[Len(q) + 1] = e
      /\ \A i \in 1..Len(q) : Append(q, e)[i] = q[i]
  BY VectorAppend
<1>2. Len(q) \in Nat
  BY DEF IsVector
<1>3. \A i \in 1..(Len(q) + 1) : i \in 1..Len(q) \/ i = Len(q) + 1
  BY <1>2
<1> QED  BY <1>1, <1>3 DEF AboutKnown

\* An event of the control plane is appended to its events.
LEMMA KindsAppend ==
  ASSUME NEW q, IsVector(q), \A i \in 1..Len(q) : OfControl(q[i]), NEW e, OfControl(e)
  PROVE  \A i \in 1..Len(Append(q, e)) : OfControl(Append(q, e)[i])
<1>1. /\ Len(Append(q, e)) = Len(q) + 1
      /\ Append(q, e)[Len(q) + 1] = e
      /\ \A i \in 1..Len(q) : Append(q, e)[i] = q[i]
  BY VectorAppend
<1>2. Len(q) \in Nat
  BY DEF IsVector
<1>3. \A i \in 1..(Len(q) + 1) : i \in 1..Len(q) \/ i = Len(q) + 1
  BY <1>2
<1> QED  BY <1>1, <1>3

\* What is left when an entry is taken out fits as well.
LEMMA AboutKnownRemove ==
  ASSUME NEW q, IsVector(q), AboutKnown(q), NEW k \in 1..Len(q)
  PROVE  IsVector(RemoveAt(q, k)) /\ AboutKnown(RemoveAt(q, k))
<1> DEFINE S == {q[i] : i \in 1..Len(q)}
<1>1. q \in Seq(S)
  BY VectorIsSeq
<1>2. \A e \in S : e.task \in DOMAIN SimulatedEvidence
  BY DEF AboutKnown
<1> HIDE DEF S
<1>3. RemoveAt(q, k) \in Seq(S)
  BY <1>1, RemoveAtType
<1>4. \A i \in 1..Len(RemoveAt(q, k)) : RemoveAt(q, k)[i] \in S
  BY <1>3
<1> QED  BY <1>2, <1>3, <1>4, SeqIsVector DEF AboutKnown

\* A pull takes a pending task that is there.
LEMMA PulledIsPending ==
  ASSUME IsVector(pendingTasks), NEW id, NEW now, CP!PullTask(id, now)
  PROVE  \/ UNCHANGED <<pendingTasks, pulledTasks, acceptedResults, controlLedger>>
         \/ \E k \in 1..Len(pendingTasks) :
              /\ pulledTasks' = Append(pulledTasks, pendingTasks[k])
              /\ pendingTasks' = RemoveAt(pendingTasks, k)
              /\ acceptedResults' = acceptedResults
              /\ controlLedger' = Append(controlLedger, CP!AgentTaskPulled(pendingTasks[k]))
<1>1. CASE CP!RefuseTask(id, now)
  BY <1>1 DEF CP!RefuseTask
<1>2. CASE CP!PullOutcome(id, now) = "Pulled" /\ CP!HandOutTask(id)
  <2> DEFINE k == FirstWith(pendingTasks, "node", id.node)
             S == {pendingTasks[i] : i \in 1..Len(pendingTasks)}
  <2>1. CP!FirstWith(pendingTasks, "node", id.node) = k
    BY DEF CP!FirstWith, FirstWith, CP!SelectInSeq, SelectInSeq, CP!Min, Min
  <2>2. k # 0
    BY <1>2, <2>1 DEF CP!PullOutcome, CP!AuthOutcome
  <2>3. pendingTasks \in Seq(S)
    BY VectorIsSeq
  <2> HIDE DEF S
  <2>4. k \in 0..Len(pendingTasks)
    BY <2>3, FirstWithSpec
  <2>5. Len(pendingTasks) \in Nat
    BY <2>3
  <2>6. CP!RemoveAt(pendingTasks, k) = RemoveAt(pendingTasks, k)
    BY DEF CP!RemoveAt, RemoveAt
  <2> HIDE DEF k
  <2>7. /\ pulledTasks' = Append(pulledTasks, pendingTasks[k])
        /\ pendingTasks' = RemoveAt(pendingTasks, k)
        /\ acceptedResults' = acceptedResults
        /\ controlLedger' = Append(controlLedger, CP!AgentTaskPulled(pendingTasks[k]))
    BY <1>2, <2>1, <2>6 DEF CP!HandOutTask
  <2> QED  BY <2>2, <2>4, <2>5, <2>7
<1> QED  BY <1>1, <1>2 DEF CP!PullTask

\* A result is appended, or refused.
LEMMA AnswerIsAppended ==
  ASSUME NEW id, NEW s, NEW now, CP!SubmitResult(id, s, now)
  PROVE  /\ UNCHANGED <<pendingTasks, pulledTasks>>
         /\ \/ UNCHANGED <<acceptedResults, controlLedger>>
            \/ /\ acceptedResults' = Append(acceptedResults, s)
               /\ controlLedger' = Append(controlLedger, CP!AgentResultAccepted(s))
<1>1. CASE CP!RefuseResult(s, CP!SubmitOutcome(id, s, now))
  BY <1>1 DEF CP!RefuseResult
<1>2. CASE CP!AcceptResult(s)
  BY <1>2 DEF CP!AcceptResult
<1> QED  BY <1>1, <1>2 DEF CP!SubmitResult

LEMMA ServedStarts == Init => Served
  BY VectorEmpty DEF Init, EmptyMemory, Served, AboutKnown

\* Every step leaves the control plane with tasks and answers that are known.
LEMMA ServedSteps == Control /\ Progress /\ Served /\ [Next]_jVars => Served'
<1> SUFFICES ASSUME Control, Progress, Served, [Next]_jVars PROVE Served'
  OBVIOUS
<1>a. Vectors
  BY DEF Progress
<1>1. ASSUME UNCHANGED controlPlane PROVE Served'
  BY <1>1 DEF controlPlane, Served, AboutKnown
<1>2. ASSUME UNCHANGED memory PROVE Served'
  BY <1>1, <1>2 DEF memory
<1>3. CASE UNCHANGED jVars
  BY <1>2, <1>3 DEF jVars
<1>4. CASE Begin
  BY <1>4, VectorEmpty DEF Begin, ForgetAll, Served, AboutKnown
<1>5. ASSUME NEW how, NEW shown, NEW reached, End(how, shown, reached) PROVE Served'
  BY <1>2, <1>5 DEF End
<1>6. CASE Fail
  BY <1>5, <1>6 DEF Fail
<1>7. CASE Kill \/ ShowSummary \/ Finish \/ ShowReceipt
  BY <1>5, <1>6, <1>7 DEF Kill, ShowSummary, Finish, ShowReceipt
<1>8. CASE LoadFleet \/ PlanSimulation \/ StartDogfood \/ Observe \/ CollectNatively
  BY <1>1, <1>6, <1>8 DEF LoadFleet, PlanSimulation, StartDogfood, PlanRun, Observe, CollectNatively
<1>9. CASE Propose \/ RequestApproval \/ ApproveAction \/ ExecuteAction
  BY <1>1, <1>5, <1>6, <1>9 DEF Propose, RequestApproval, ApproveAction, ExecuteAction
<1>10. CASE Verify \/ GenerateTheReceipt \/ Persist
  BY <1>1, <1>6, <1>10 DEF Verify, GenerateTheReceipt, Persist
<1>11. CASE CreateToken
  <2>1. PICK t : CP!CreateEnrollmentToken(t)
    BY <1>11 DEF CreateToken
  <2>2. /\ controlLedger' = Append(controlLedger, CP!EnrollmentTokenCreated(t))
        /\ UNCHANGED <<pendingTasks, pulledTasks, acceptedResults>>
    BY <2>1 DEF CP!CreateEnrollmentToken
  <2>3. OfControl(CP!EnrollmentTokenCreated(t))
    BY DEF CP!EnrollmentTokenCreated, OfControl, ControlKinds
  <2> QED  BY <1>a, <2>2, <2>3, KindsAppend DEF Served, AboutKnown, Vectors
<1>12. CASE EnrolNode
  <2>1. CASE Fail
    BY <1>6, <2>1
  <2>2. CASE ~ Fail
    <3>1. PICK r : CP!EnrollAgent(r, 100)
      BY <1>12, <2>2 DEF EnrolNode
    <3>2. PICK a : /\ controlLedger' = Append(controlLedger, CP!AgentEnrolled(a))
                   /\ UNCHANGED <<pendingTasks, pulledTasks, acceptedResults>>
      BY <3>1 DEF CP!EnrollAgent
    <3>3. OfControl(CP!AgentEnrolled(a))
      BY DEF CP!AgentEnrolled, OfControl, ControlKinds
    <3> QED  BY <1>a, <3>2, <3>3, KindsAppend DEF Served, AboutKnown, Vectors
  <2> QED  BY <2>1, <2>2
<1>13. CASE EnqueueCollect
  <2> DEFINE n == Len(enqueued) + 1
             task == CollectTasks[n]
  <2>1. step = "collect" /\ Len(enqueued) < Len(CollectTasks) /\ CP!EnqueueTask(Envelope(task))
    BY <1>13 DEF EnqueueCollect, At
  <2>2. Command.journey \in DOMAIN Journeys /\ plan = Planned
    BY <2>1, CommandKnown DEF Control, StepFits, StepsOfRuns, Running, Journeys, Progress,
       PlanAtStep, Later
  <2>3. n \in 1..Len(RunCollectors) /\ task = RunCollectors[n]
    BY <1>a, <2>1, <2>2, PlanOfRun, CollectorsCollect DEF Vectors, IsVector
  <2>4. task.id \in DOMAIN SimulatedEvidence
    BY <2>2, <2>3, CollectorsCollect
  <2> HIDE DEF task
  <2>5. Envelope(task).task \in DOMAIN SimulatedEvidence
    BY <2>4 DEF Envelope
  <2>6. /\ pendingTasks' = Append(pendingTasks, Envelope(task))
        /\ UNCHANGED <<pulledTasks, acceptedResults, controlLedger>>
    BY <2>1 DEF CP!EnqueueTask
  <2> QED  BY <2>5, <2>6, AboutKnownAppend DEF Served, AboutKnown
<1>14. CASE PullCollect
  <2>1. CASE UNCHANGED <<pendingTasks, pulledTasks, acceptedResults, controlLedger>>
    BY <2>1 DEF Served, AboutKnown
  <2>2. CASE \E k \in 1..Len(pendingTasks) :
              /\ pulledTasks' = Append(pulledTasks, pendingTasks[k])
              /\ pendingTasks' = RemoveAt(pendingTasks, k)
              /\ acceptedResults' = acceptedResults
              /\ controlLedger' = Append(controlLedger, CP!AgentTaskPulled(pendingTasks[k]))
    <3>1. PICK k \in 1..Len(pendingTasks) :
              /\ pulledTasks' = Append(pulledTasks, pendingTasks[k])
              /\ pendingTasks' = RemoveAt(pendingTasks, k)
              /\ acceptedResults' = acceptedResults
              /\ controlLedger' = Append(controlLedger, CP!AgentTaskPulled(pendingTasks[k]))
      BY <2>2
    <3>2. pendingTasks[k].task \in DOMAIN SimulatedEvidence
      BY DEF Served, AboutKnown
    <3>3. AboutKnown(pulledTasks')
      BY <1>a, <3>1, <3>2, AboutKnownAppend DEF Served, Vectors
    <3>4. IsVector(pendingTasks') /\ AboutKnown(pendingTasks')
      BY <3>1, AboutKnownRemove DEF Served
    <3>5. OfControl(CP!AgentTaskPulled(pendingTasks[k]))
      BY DEF CP!AgentTaskPulled, OfControl, ControlKinds
    <3>6. \A i \in 1..Len(controlLedger') : OfControl(controlLedger'[i])
      BY <1>a, <3>1, <3>5, KindsAppend DEF Served, Vectors
    <3> QED  BY <3>1, <3>3, <3>4, <3>6 DEF Served, AboutKnown
  <2> QED  BY <1>14, <2>1, <2>2, PulledIsPending DEF PullCollect, Served
<1>15. CASE SubmitCollect
  <2> DEFINE s == Answer(pulledTasks[Len(pulledTasks)])
  <2>1. Len(acceptedResults) < Len(pulledTasks) /\ \E now : CP!SubmitResult(Identity, s, now)
    BY <1>15 DEF SubmitCollect
  <2>2. Len(pulledTasks) \in 1..Len(pulledTasks)
    BY <1>a, <2>1 DEF Vectors, IsVector
  <2>3. s.task \in DOMAIN SimulatedEvidence
    BY <2>2 DEF Answer, Served, AboutKnown
  <2> HIDE DEF s
  <2>4. /\ UNCHANGED <<pendingTasks, pulledTasks>>
        /\ \/ UNCHANGED <<acceptedResults, controlLedger>>
           \/ /\ acceptedResults' = Append(acceptedResults, s)
              /\ controlLedger' = Append(controlLedger, CP!AgentResultAccepted(s))
    BY <2>1, AnswerIsAppended
  <2>5. AboutKnown(Append(acceptedResults, s))
    BY <1>a, <2>3, AboutKnownAppend DEF Served, Vectors
  <2>6. OfControl(CP!AgentResultAccepted(s))
    BY DEF CP!AgentResultAccepted, OfControl, ControlKinds
  <2>7. \A i \in 1..Len(Append(controlLedger, CP!AgentResultAccepted(s))) :
          OfControl(Append(controlLedger, CP!AgentResultAccepted(s))[i])
    BY <1>a, <2>6, KindsAppend DEF Served, Vectors
  <2>8. CASE UNCHANGED <<acceptedResults, controlLedger>>
    BY <2>4, <2>8 DEF Served, AboutKnown
  <2>9. CASE /\ acceptedResults' = Append(acceptedResults, s)
             /\ controlLedger' = Append(controlLedger, CP!AgentResultAccepted(s))
    BY <2>4, <2>5, <2>7, <2>9 DEF Served, AboutKnown
  <2> QED  BY <2>4, <2>8, <2>9
<1> QED  BY <1>3, <1>4, <1>7, <1>8, <1>9, <1>10, <1>11, <1>12, <1>13, <1>14, <1>15 DEF Next, Step

-----------------------------------------------------------------------------
(* What is verified after an action.                                       *)

\* The elements of a conditional check or skip.
LEMMA ToSetOnlyIf ==
  ASSUME NEW condition, NEW item
  PROVE  /\ condition => ToSet(OnlyIf(condition, item)) = {item}
         /\ ~ condition => ToSet(OnlyIf(condition, item)) = {}
<1>1. ToSet(<<item>>) = {item} /\ ToSet(<<>>) = {}
  BY DEF ToSet
<1> QED  BY <1>1 DEF OnlyIf

\* The least of the positions found is the first position if that is one.
LEMMA FoundFirst ==
  ASSUME NEW I \in SUBSET Nat, 1 \in I, \A i \in I : 1 <= i
  PROVE  Min(I) = 1
<1>1. \A i \in I : (\A j \in I : i <= j) => i = 1
  <2> TAKE i \in I
  <2> HAVE \A j \in I : i <= j
  <2>1. i <= 1 /\ 1 <= i /\ i \in Nat
    OBVIOUS
  <2> QED  BY <2>1
<1>2. PICK i \in I : i = Min(I) /\ \A j \in I : i <= j
  BY DEF Min
<1> QED  BY <1>1, <1>2

\* The impact of a run is a change of its target, in the system layer.
LEMMA ImpactOfRun ==
  /\ Impact.layer = "System"
  /\ Impact.writes = <<Target>>
  /\ IsVector(Impact.mayAffect)
  /\ PrimaryResource(Impact) = Target
<1>1. CASE Command.journey = "disk"
  <2>1. PlanRequest.cleanup = Fixture.cleanup
    BY <1>1 DEF PlanRequest, DiskPressureRequest
  <2>2. Impact.layer = "System" /\ Impact.writes = <<Target>>
    BY <1>1, <2>1 DEF Impact, DiskPressureImpact, ImpactSet, Target
  <2>3. IsVector(Impact.mayAffect)
    <3>1. Impact.mayAffect \in Seq({FilesystemResource(PlanRequest)})
      BY <1>1 DEF Impact, DiskPressureImpact, ImpactSet
    <3> QED  BY <3>1, SeqIsVector
  <2> QED  BY <2>2, <2>3 DEF PrimaryResource, HeadOr
<1>2. CASE Command.journey # "disk"
  <2>1. PlanRequest.node = Node /\ PlanRequest.service = Service
    BY <1>2 DEF PlanRequest, ServiceUnhealthyRequest
  <2>2. Impact.layer = "System" /\ Impact.writes = <<Target>>
    BY <1>2, <2>1 DEF Impact, ServiceUnhealthyImpact, ImpactSet, Target
  <2>3. IsVector(Impact.mayAffect)
    <3> DEFINE a == Resource("Platform", PlanRequest.node, "on-node", <<>>)
               b == Resource("Application", PlanRequest.node, "on-node", <<>>)
    <3>1. Impact.mayAffect = <<a, b>>
      BY <1>2 DEF Impact, ServiceUnhealthyImpact, ImpactSet
    <3> HIDE DEF a, b
    <3>2. <<a, b>> \in Seq({a, b})
      OBVIOUS
    <3> QED  BY <3>1, <3>2, SeqIsVector
  <2> QED  BY <2>2, <2>3 DEF PrimaryResource, HeadOr
<1> QED  BY <1>1, <1>2

\* A package update is verified at what is written, if that is where the package database is.
LEMMA PackageIsTarget ==
  ASSUME NEW impact, NEW target, impact.writes = <<target>>, IsVector(impact.mayAffect),
         MentionsPackageDb(target)
  PROVE  PackageResource(impact) = target
<1> DEFINE q == impact.writes \o impact.mayAffect
           I == {i \in 1..Len(q) : MentionsPackageDb(q[i])}
<1>1. IsVector(impact.writes) /\ Len(impact.writes) = 1 /\ impact.writes[1] = target
  <2>1. <<target>> \in Seq({target}) /\ Len(<<target>>) = 1 /\ <<target>>[1] = target
    OBVIOUS
  <2>2. IsVector(<<target>>)
    BY <2>1, SeqIsVector
  <2> QED  BY <2>1, <2>2
<1>2. IsVector(q) /\ Len(q) = 1 + Len(impact.mayAffect) /\ q[1] = target
  <2>1. /\ IsVector(q) /\ Len(q) = Len(impact.writes) + Len(impact.mayAffect)
        /\ \A i \in 1..Len(impact.writes) : q[i] = impact.writes[i]
    BY <1>1, VectorConcat
  <2> QED  BY <1>1, <2>1
<1>3. Len(impact.mayAffect) \in Nat
  BY DEF IsVector
<1> HIDE DEF q
<1>4. I \in SUBSET Nat /\ 1 \in I /\ \A i \in I : 1 <= i
  BY <1>2, <1>3
<1>5. SelectInSeq(q, MentionsPackageDb) = 1
  <2>1. Min(I) = 1
    BY <1>4, FoundFirst
  <2> QED  BY <1>4, <2>1 DEF SelectInSeq
<1>6. FirstOr(q, MentionsPackageDb, PrimaryResource(impact)) = target
  BY <1>2, <1>5 DEF FirstOr
<1> QED  BY <1>6 DEF PackageResource, q

\* The verification of a run: the planner's, with the skips of the runbook.
Checks == PlanVerification(Fixture.action, Impact, Minimal)
Chosen == WithSkipped(Checks, Checks.skipped \o RunbookSkips)

\* A check of the direct impact is about the target, and none that is required is skipped.
LEMMA ChecksFit ==
  ASSUME Command.journey \in DOMAIN Journeys
  PROVE  /\ \E check \in ToSet(Checks.required) : check.tier = "DirectImpact" /\ check.resource = Target
         /\ \A check \in ToSet(Checks.required) : check.id \notin ToSet(Checks.skipped) \cup ToSet(RunbookSkips)
<1>0. ToSet(RunbookSkips) = {"package_audit", "firewall_audit"}
  BY DEF ToSet, RunbookSkips
<1>1. CASE Command.journey = "disk"
  <2>1. Fixture.action = "RemoveAllowlistedFile"
    BY <1>1 DEF Fixture, Journeys
  <2>2. Checks = AllowlistedFileCleanup(Impact)
    BY <2>1, ImpactOfRun DEF Checks, PlanVerification
  <2> DEFINE a == Check("helper_result_matches_request", Target, "DirectImpact")
             b == Check("free_space_improved", DependentResource(Impact), "DirectImpact")
             c == Check("cleaned_paths_match_allowlist", Target, "DirectImpact")
             d == Check("no_unrelated_deletion_reported", Target, "DirectImpact")
  <2>3. Checks.required = <<a, b, c, d>> /\ Checks.skipped = <<>>
    BY <2>2, ImpactOfRun DEF AllowlistedFileCleanup, VerificationPlan
  <2>4. /\ a.tier = "DirectImpact" /\ a.resource = Target /\ a.id = "helper_result_matches_request"
        /\ b.id = "free_space_improved" /\ c.id = "cleaned_paths_match_allowlist"
        /\ d.id = "no_unrelated_deletion_reported"
    BY DEF Check
  <2> HIDE DEF a, b, c, d
  <2>5. ToSet(<<a, b, c, d>>) = {a, b, c, d} /\ ToSet(<<>>) = {}
    BY DEF ToSet
  <2> QED  BY <1>0, <2>3, <2>4, <2>5
<1>2. CASE Command.journey # "disk"
  <2>1. Fixture.action = "ServiceRestart"
    BY <1>2 DEF Fixture, Journeys
  <2>2. WritesPackageDb(Impact) <=> MentionsPackageDb(Target)
    <3>1. DOMAIN Impact.writes = {1} /\ Impact.writes[1] = Target
      BY ImpactOfRun
    <3> QED  BY <3>1 DEF WritesPackageDb
  <2>3. CASE MentionsPackageDb(Target)
    <3>1. Checks = SystemPackageUpdate(Impact, Minimal)
      BY <2>1, <2>2, <2>3, ImpactOfRun DEF Checks, PlanVerification
    <3>2. PackageResource(Impact) = Target
      BY <2>3, ImpactOfRun, PackageIsTarget
    <3> DEFINE health == "service_health_for_affected_services"
               a == Check("package_db_consistent", Target, "DirectImpact")
               b == Check("package_state_matches_policy", Target, "DirectImpact")
               c == Check("changed_files_classified", Target, "DirectImpact")
               d == Check("affected_services_identified", Target, "Dependent")
               e == Check("reboot_required_detected", RebootResource(Impact, Target), "Dependent")
               h == Check(health, AffectedService(Impact), "Dependent")
               p == Check("package_audit", Target, "BroadRegression")
               affects == AffectsService(Impact)
               audits == "package_audit" \in Minimal
    <3>3. /\ Checks.required = <<a, b, c, d, e>> \o OnlyIf(affects, h) \o OnlyIf(audits, p)
          /\ Checks.skipped = <<"full_disk_scan">> \o OnlyIf(~ affects, health)
      BY <3>1, <3>2 DEF SystemPackageUpdate, VerificationPlan
    <3>4. /\ a.tier = "DirectImpact" /\ a.resource = Target /\ a.id = "package_db_consistent"
          /\ b.id = "package_state_matches_policy" /\ c.id = "changed_files_classified"
          /\ d.id = "affected_services_identified" /\ e.id = "reboot_required_detected"
          /\ h.id = "service_health_for_affected_services"
      BY DEF Check
    <3>5. ~ audits
      BY DEF Minimal
    <3> HIDE DEF a, b, c, d, e, h, p, affects, audits
    <3>6. ToSet(<<a, b, c, d, e>>) = {a, b, c, d, e} /\ ToSet(<<"full_disk_scan">>) = {"full_disk_scan"}
      BY DEF ToSet
    <3>7. IsVector(<<a, b, c, d, e>>) /\ IsVector(<<"full_disk_scan">>)
      <4>1. <<a, b, c, d, e>> \in Seq({a, b, c, d, e}) /\ <<"full_disk_scan">> \in Seq({"full_disk_scan"})
        OBVIOUS
      <4> QED  BY <4>1, SeqIsVector
    <3>8. /\ ToSet(<<a, b, c, d, e>> \o OnlyIf(affects, h)) = {a, b, c, d, e} \cup ToSet(OnlyIf(affects, h))
          /\ IsVector(<<a, b, c, d, e>> \o OnlyIf(affects, h))
      BY <3>6, <3>7, OnlyIfVector, ToSetConcat, VectorConcat
    <3>9. ToSet(Checks.required) = {a, b, c, d, e} \cup ToSet(OnlyIf(affects, h)) \cup ToSet(OnlyIf(audits, p))
      BY <3>3, <3>8, OnlyIfVector, ToSetConcat
    <3>10. ToSet(Checks.skipped) = {"full_disk_scan"} \cup ToSet(OnlyIf(~ affects, health))
      BY <3>3, <3>6, <3>7, OnlyIfVector, ToSetConcat
    <3>11. ToSet(OnlyIf(audits, p)) = {}
      BY <3>5, ToSetOnlyIf
    <3>12. CASE affects
      <4>1. ToSet(OnlyIf(affects, h)) = {h} /\ ToSet(OnlyIf(~ affects, health)) = {}
        BY <3>12, ToSetOnlyIf
      <4> QED  BY <1>0, <3>4, <3>9, <3>10, <3>11, <4>1
    <3>13. CASE ~ affects
      <4>1. ToSet(OnlyIf(affects, h)) = {} /\ ToSet(OnlyIf(~ affects, health)) = {health}
        BY <3>13, ToSetOnlyIf
      <4> QED  BY <1>0, <3>4, <3>9, <3>10, <3>11, <4>1
    <3> QED  BY <3>12, <3>13
  <2>4. CASE ~ MentionsPackageDb(Target)
    <3> DEFINE a == Check("helper_result_matches_request", Target, "DirectImpact")
               b == Check("service_active", Target, "DirectImpact")
    <3>1. Checks = VerificationPlan(<<a, b>>, <<>>)
      BY <2>1, <2>2, <2>4, ImpactOfRun DEF Checks, PlanVerification, GenericServiceChange
    <3>2. a.tier = "DirectImpact" /\ a.resource = Target /\ a.id = "helper_result_matches_request"
          /\ b.id = "service_active"
      BY DEF Check
    <3> HIDE DEF a, b
    <3>3. ToSet(<<a, b>>) = {a, b} /\ ToSet(<<>>) = {}
      BY DEF ToSet
    <3> QED  BY <1>0, <3>1, <3>2, <3>3 DEF VerificationPlan
  <2> QED  BY <2>3, <2>4
<1> QED  BY <1>1, <1>2

\* So it is of the plan a run selects.
LEMMA ChosenFits ==
  ASSUME Command.journey \in DOMAIN Journeys
  PROVE  /\ IsVector(Chosen.required) /\ IsVector(Chosen.skipped)
         /\ \E check \in ToSet(Chosen.required) : check.tier = "DirectImpact" /\ check.resource = Target
         /\ \A check \in ToSet(Chosen.required) : check.id \notin ToSet(Chosen.skipped)
<1>1. IsVector(Checks.required) /\ IsVector(Checks.skipped)
  BY VerificationVectors DEF Checks
<1>2. Chosen.required = Checks.required /\ Chosen.skipped = Checks.skipped \o RunbookSkips
  <2>1. PICK ids : ids = Checks.skipped \o RunbookSkips
    OBVIOUS
  <2>2. LET v == PlanVerification(Fixture.action, Impact, Minimal)
        IN  WithSkipped(v, ids).skipped = ids /\ WithSkipped(v, ids).required = v.required
    BY PlanVerificationSkips
  <2>3. WithSkipped(Checks, ids).skipped = ids /\ WithSkipped(Checks, ids).required = Checks.required
    BY <2>2 DEF Checks
  <2>4. Chosen = WithSkipped(Checks, ids)
    BY <2>1 DEF Chosen
  <2> QED  BY <2>1, <2>3, <2>4
<1>3. IsVector(Checks.skipped \o RunbookSkips)
      /\ ToSet(Checks.skipped \o RunbookSkips) = ToSet(Checks.skipped) \cup ToSet(RunbookSkips)
  BY <1>1, RunbookSkipsVector, VectorConcat, ToSetConcat
<1> QED  BY <1>1, <1>2, <1>3, ChecksFit

-----------------------------------------------------------------------------
(* What the command at work has told and decided.                          *)

\* The steps from the proposal on, and those at which there is a record, a lease, a deed.
Observed == Later \ {"collect"}
Recorded == {"approve", "execute", "verify", "receipt", "persist", "done"}
Leased == Recorded \ {"approve"}
Done == Leased \ {"execute"}

\* An event of the command's ledger is about its run and says what the run is about.
EventFits(e) ==
  /\ e.run = Fixture.run
  /\ e.kind = "IncidentCreated" => e.node = Node
  /\ e.kind = "ApprovalDecision" => e.id = Fixture.approval
  /\ e.kind = "CapabilityLeaseIssued" => e.lease = Fixture.approval /\ e.approval = Fixture.approval
  /\ e.kind = "ResourceLeaseGranted" => e.resource = Target
  /\ e.kind = "ActionResult" => e.action = Fixture.action /\ e.resource = Target
  /\ e.kind = "VerificationSelected" => e.plan = Chosen
  /\ e.kind = "VerificationCompleted" =>
       \E check \in ToSet(Chosen.required) : e.check = check.id /\ e.resource = check.resource
  /\ e.kind = "VerificationSkipped" => e.check \in ToSet(Chosen.skipped)

\* The command's ledger tells of the evidence it has.
Tells ==
  /\ \A e \in ToSet(audit) : EventFits(e)
  /\ AllWith(audit, "kind", "EvidenceCollected") =
       [i \in 1..Len(evidence) |-> EvidenceCollected(evidence[i])]

\* It tells of a deed only once there is one, and then of every check.
TellsAtStep ==
  /\ step \notin Done => \A e \in ToSet(audit) : e.kind # "ActionResult"
  /\ step \in Done \ {"verify"} =>
       \A check \in ToSet(Chosen.required) : VerificationCompleted(check) \in ToSet(audit)

\* The evidence is what all the collectors of the run found; a simulation takes it at once.
EvidenceAtStep ==
  /\ step = "collect" /\ ~ Dogfood => evidence = <<>>
  /\ step \in Observed =>
       /\ Len(evidence) = Len(RunCollectors)
       /\ ~ Dogfood => /\ Len(acceptedResults) = Len(evidence)
                       /\ \A i \in 1..Len(evidence) : evidence[i].source = acceptedResults[i].task

\* Decisions are about the approval of the run.
DecisionFits(d) ==
  /\ "kind" \in DOMAIN d /\ d.kind \in {"ApprovalRequested", "ApprovalDecision"}
  /\ d.kind = "ApprovalDecision" => "id" \in DOMAIN d /\ d.id = Fixture.approval

\* What is requested, approved, leased and done is about the target of the run.
AboutTarget ==
  /\ \A d \in ToSet(decisions) : DecisionFits(d)
  /\ step = "request" /\ ActionsNamed(Fixture.requested) # <<>> =>
       ActionsNamed(Fixture.requested)[1].target = Target
  /\ step \in Recorded =>
       /\ {"id", "target", "state"} \subseteq DOMAIN records[1]
       /\ records[1].id = Fixture.approval /\ records[1].target = Target
  /\ step \in Leased =>
       /\ records[1].state = "Approved"
       /\ leases[1].claims.lease = Fixture.approval
       /\ leases[1].claims.approval = Fixture.approval
       /\ leases[1].claims.target = Target
  /\ step \in Done =>
       /\ executed[1].approval = Fixture.approval
       /\ executed[1].action = Fixture.action
       /\ executed[1].target = Target
       /\ executed[1].node = Node

\* The invariant of what the command at work has told and decided.
Telling == step # "idle" => Tells /\ TellsAtStep /\ EvidenceAtStep /\ AboutTarget

\* As long as a command is at work its run is about the same.
LEMMA SameRun ==
  ASSUME UNCHANGED <<session, ended>>
  PROVE  /\ Command' = Command /\ Fixture' = Fixture /\ Dogfood' = Dogfood /\ Node' = Node
         /\ Target' = Target /\ RunCollectors' = RunCollectors /\ Chosen' = Chosen
<1>1. Command' = Command
  BY DEF Command
<1>2. Fixture' = Fixture /\ Dogfood' = Dogfood
  BY <1>1 DEF Fixture, Dogfood
<1>3. Node' = Node /\ Service' = Service
  BY <1>1, <1>2 DEF Node, Service
<1>4. Target' = Target
  BY <1>1, <1>2, <1>3 DEF Target
<1>5. PlanRequest' = PlanRequest
  BY <1>1, <1>2, <1>3 DEF PlanRequest
<1>6. Report' = Report
  BY <1>1, <1>2, <1>3 DEF Report, DeclaredReport, Candidates, Inventory, Fleet
<1>7. RunCollectors' = RunCollectors
  BY <1>1, <1>5, <1>6 DEF RunCollectors
<1>8. Impact' = Impact
  BY <1>1, <1>5 DEF Impact
<1>9. Chosen' = Chosen
  BY <1>2, <1>8 DEF Chosen, Checks
<1> QED  BY <1>1, <1>2, <1>3, <1>4, <1>7, <1>9

\* So an event that fits goes on fitting.
LEMMA SameFits ==
  ASSUME UNCHANGED <<session, ended>>
  PROVE  /\ \A e : EventFits(e) <=> EventFits(e)'
         /\ \A d : DecisionFits(d) <=> DecisionFits(d)'
<1>1. \A e : EventFits(e) <=> EventFits(e)'
  BY SameRun DEF EventFits
<1>2. \A d : DecisionFits(d) <=> DecisionFits(d)'
  BY SameRun DEF DecisionFits
<1> QED  BY <1>1, <1>2

\* The events a journey records of itself fit.
LEMMA EventsFit ==
  /\ EventFits(IncidentCreated) /\ IncidentCreated.kind = "IncidentCreated"
  /\ \A item : EventFits(EvidenceCollected(item)) /\ EvidenceCollected(item).kind = "EvidenceCollected"
  /\ \A p : EventFits(ProposalGenerated(p)) /\ ProposalGenerated(p).kind = "ProposalGenerated"
  /\ EventFits(CognitiveReceiptGenerated)
     /\ CognitiveReceiptGenerated.kind = "CognitiveReceiptGenerated"
  /\ EventFits(VerificationSelected(Chosen)) /\ VerificationSelected(Chosen).kind = "VerificationSelected"
  /\ \A check \in ToSet(Chosen.required) :
       EventFits(VerificationCompleted(check)) /\ VerificationCompleted(check).kind = "VerificationCompleted"
  /\ \A id \in ToSet(Chosen.skipped) :
       EventFits(VerificationSkipped(id)) /\ VerificationSkipped(id).kind = "VerificationSkipped"
<1>1. EventFits(IncidentCreated) /\ IncidentCreated.kind = "IncidentCreated"
  BY DEF EventFits, IncidentCreated
<1>2. \A item : EventFits(EvidenceCollected(item)) /\ EvidenceCollected(item).kind = "EvidenceCollected"
  BY DEF EventFits, EvidenceCollected
<1>3. \A p : EventFits(ProposalGenerated(p)) /\ ProposalGenerated(p).kind = "ProposalGenerated"
  BY DEF EventFits, ProposalGenerated
<1>4. EventFits(CognitiveReceiptGenerated) /\ CognitiveReceiptGenerated.kind = "CognitiveReceiptGenerated"
  BY DEF EventFits, CognitiveReceiptGenerated
<1>5. EventFits(VerificationSelected(Chosen)) /\ VerificationSelected(Chosen).kind = "VerificationSelected"
  BY DEF EventFits, VerificationSelected
<1>6. \A check \in ToSet(Chosen.required) :
        EventFits(VerificationCompleted(check)) /\ VerificationCompleted(check).kind = "VerificationCompleted"
  BY DEF EventFits, VerificationCompleted
<1>7. \A id \in ToSet(Chosen.skipped) :
        EventFits(VerificationSkipped(id)) /\ VerificationSkipped(id).kind = "VerificationSkipped"
  BY DEF EventFits, VerificationSkipped
<1> QED  BY <1>1, <1>2, <1>3, <1>4, <1>5, <1>6, <1>7

\* So do those about a lease on the target, and about what was done with it.
LEMMA LeaseEventsFit ==
  ASSUME NEW claims, claims.lease = Fixture.approval, claims.approval = Fixture.approval,
         claims.target = Target
  PROVE  /\ IsVector(LeaseEvents(claims))
         /\ \A e \in ToSet(LeaseEvents(claims)) :
              EventFits(e) /\ e.kind \in {"CapabilityLeaseIssued", "ResourceLeaseGranted"}
         /\ EventFits(ActionResult(claims)) /\ ActionResult(claims).kind = "ActionResult"
<1> DEFINE a == [kind |-> "CapabilityLeaseIssued", run |-> Fixture.run, lease |-> claims.lease,
                 approval |-> claims.approval]
           b == [kind |-> "ResourceLeaseGranted", run |-> Fixture.run, lease |-> claims.lease,
                 resource |-> claims.target]
<1>1. LeaseEvents(claims) = <<a, b>>
  BY DEF LeaseEvents
<1>2. EventFits(a) /\ a.kind = "CapabilityLeaseIssued" /\ EventFits(b) /\ b.kind = "ResourceLeaseGranted"
  BY DEF EventFits
<1>3. EventFits(ActionResult(claims)) /\ ActionResult(claims).kind = "ActionResult"
  BY DEF EventFits, ActionResult
<1> HIDE DEF a, b
<1>4. <<a, b>> \in Seq({a, b}) /\ ToSet(<<a, b>>) = {a, b}
  BY DEF ToSet
<1> QED  BY <1>1, <1>2, <1>3, <1>4, SeqIsVector

\* Events of the control plane say nothing a receipt is made of.
LEMMA ControlEventsFit ==
  ASSUME NEW q, IsVector(q), \A i \in 1..Len(q) : OfControl(q[i])
  PROVE  /\ IsVector(Relabelled(q))
         /\ \A e \in ToSet(Relabelled(q)) : EventFits(e) /\ e.kind \in ControlKinds
<1>1. DOMAIN q = 1..Len(q)
  BY VectorIsSeq
<1>2. ASSUME NEW i \in 1..Len(q)
      PROVE  EventFits(Labelled(q[i])) /\ Labelled(q[i]).kind \in ControlKinds
  <2>1. Labelled(q[i]).run = Fixture.run /\ Labelled(q[i]).kind = q[i].kind
    BY DEF Labelled, OfControl
  <2>2. q[i].kind \in ControlKinds
    BY DEF OfControl
  <2> QED  BY <2>1, <2>2 DEF EventFits, ControlKinds
<1>3. ToSet(Relabelled(q)) = {Labelled(q[i]) : i \in 1..Len(q)}
  BY <1>1 DEF ToSet, Relabelled
<1> QED  BY <1>2, <1>3, RelabelledVector

\* Decisions about the run's approval fit.
LEMMA DecisionEventsFit ==
  ASSUME NEW q, IsVector(q), \A d \in ToSet(q) : DecisionFits(d)
  PROVE  /\ IsVector(Relabelled(q))
         /\ \A e \in ToSet(Relabelled(q)) :
              EventFits(e) /\ e.kind \in {"ApprovalRequested", "ApprovalDecision"}
<1>1. DOMAIN q = 1..Len(q)
  BY VectorIsSeq
<1>2. ASSUME NEW i \in 1..Len(q)
      PROVE  /\ EventFits(Labelled(q[i]))
             /\ Labelled(q[i]).kind \in {"ApprovalRequested", "ApprovalDecision"}
  <2>0. DecisionFits(q[i])
    BY <1>1 DEF ToSet
  <2>1. Labelled(q[i]).run = Fixture.run /\ Labelled(q[i]).kind = q[i].kind
    BY <2>0 DEF Labelled, DecisionFits
  <2>2. q[i].kind = "ApprovalDecision" => Labelled(q[i]).id = Fixture.approval
    BY <2>0 DEF Labelled, DecisionFits
  <2>3. q[i].kind \in {"ApprovalRequested", "ApprovalDecision"}
    BY <2>0 DEF DecisionFits
  <2> QED  BY <2>1, <2>2, <2>3 DEF EventFits
<1>3. ToSet(Relabelled(q)) = {Labelled(q[i]) : i \in 1..Len(q)}
  BY <1>1 DEF ToSet, Relabelled
<1> QED  BY <1>2, <1>3, RelabelledVector

\* Events that fit, and are about no evidence, leave the ledger telling of the evidence.
LEMMA BlockFits ==
  ASSUME Vectors, Tells, NEW p, IsVector(p),
         \A e \in ToSet(p) : EventFits(e) /\ e.kind # "EvidenceCollected",
         audit' = audit \o p, UNCHANGED <<session, ended, evidence>>
  PROVE  Tells' /\ ToSet(audit') = ToSet(audit) \cup ToSet(p)
<1>0. IsVector(audit)
  BY DEF Vectors
<1>1. ToSet(audit') = ToSet(audit) \cup ToSet(p)
  BY <1>0, ToSetConcat
<1>2. \A e \in ToSet(audit') : EventFits(e)'
  BY <1>1, SameFits DEF Tells
<1>3. AllWith(p, "kind", "EvidenceCollected") = <<>>
  <2>1. DOMAIN p = 1..Len(p) /\ p \in Seq({p[i] : i \in 1..Len(p)})
    BY VectorIsSeq
  <2>2. \A i \in 1..Len(p) : p[i]["kind"] # "EvidenceCollected"
    BY <2>1 DEF ToSet
  <2> QED  BY <2>1, <2>2, AllWithNone
<1>4. AllWith(audit', "kind", "EvidenceCollected") = AllWith(audit, "kind", "EvidenceCollected")
  <2> DEFINE S == {audit[i] : i \in 1..Len(audit)} \cup {p[i] : i \in 1..Len(p)}
  <2>a. audit \in Seq(S)
    BY <1>0 DEF IsVector
  <2>b. p \in Seq(S)
    BY DEF IsVector
  <2>1. audit \in Seq(S) /\ p \in Seq(S)
    BY <2>a, <2>b
  <2> HIDE DEF S
  <2>2. AllWith(audit \o p, "kind", "EvidenceCollected") =
          AllWith(audit, "kind", "EvidenceCollected") \o AllWith(p, "kind", "EvidenceCollected")
    BY <2>1, AllWithConcat
  <2>3. AllWith(audit, "kind", "EvidenceCollected") \in Seq(S)
    BY <2>1, AllWithType
  <2> QED  BY <1>3, <2>2, <2>3
<1>5. \A item : EvidenceCollected(item)' = EvidenceCollected(item)
  BY SameRun DEF EvidenceCollected
<1> QED  BY <1>1, <1>2, <1>4, <1>5 DEF Tells

\* What is told of one more piece of evidence.
LEMMA EvidenceAppended ==
  ASSUME NEW v, IsVector(v), NEW e
  PROVE  [i \in 1..Len(Append(v, e)) |-> EvidenceCollected(Append(v, e)[i])] =
           Append([i \in 1..Len(v) |-> EvidenceCollected(v[i])], EvidenceCollected(e))
<1> DEFINE w == Append(v, e)
           p == [i \in 1..Len(v) |-> EvidenceCollected(v[i])]
           r == [i \in 1..Len(w) |-> EvidenceCollected(w[i])]
           a == Append(p, EvidenceCollected(e))
<1>1. /\ Len(v) \in Nat /\ Len(w) = Len(v) + 1 /\ w[Len(v) + 1] = e
      /\ \A i \in 1..Len(v) : w[i] = v[i]
  BY VectorAppend DEF IsVector
<1>2. IsVector(p) /\ Len(p) = Len(v)
  BY <1>1, VectorOf
<1> HIDE DEF w, p
<1>3. /\ IsVector(a) /\ Len(a) = Len(v) + 1 /\ a[Len(v) + 1] = EvidenceCollected(e)
      /\ \A i \in 1..Len(v) : a[i] = p[i]
  BY <1>2, VectorAppend
<1>4. DOMAIN a = 1..(Len(v) + 1) /\ DOMAIN r = 1..(Len(v) + 1)
  BY <1>1, <1>3, VectorIsSeq
<1>5. \A i \in 1..(Len(v) + 1) : r[i] = a[i]
  <2> TAKE i \in 1..(Len(v) + 1)
  <2>1. CASE i \in 1..Len(v)
    BY <1>1, <1>3, <2>1 DEF p
  <2>2. CASE i = Len(v) + 1
    BY <1>1, <1>3, <2>2
  <2>3. i \in 1..Len(v) \/ i = Len(v) + 1
    BY <1>1
  <2> QED  BY <2>1, <2>2, <2>3
<1>6. a = [i \in 1..(Len(v) + 1) |-> a[i]]
  BY <1>3 DEF IsVector
<1> HIDE DEF a
<1>7. r = a
  BY <1>1, <1>4, <1>5, <1>6
<1> QED  BY <1>7 DEF r, a, p, w

\* All of it is found among what is told of it.
LEMMA EvidenceIsTold ==
  ASSUME NEW v, IsVector(v)
  PROVE  LET p == [i \in 1..Len(v) |-> EvidenceCollected(v[i])]
         IN  /\ IsVector(p) /\ Len(p) = Len(v)
             /\ AllWith(p, "kind", "EvidenceCollected") = p
             /\ \A e \in ToSet(p) : EventFits(e) /\ e.kind = "EvidenceCollected"
<1> DEFINE p == [i \in 1..Len(v) |-> EvidenceCollected(v[i])]
<1>1. IsVector(p) /\ Len(p) = Len(v) /\ Len(v) \in Nat
  BY VectorOf DEF IsVector
<1>2. \A i \in 1..Len(v) : EventFits(p[i]) /\ p[i].kind = "EvidenceCollected"
  BY EventsFit
<1>3. \A e \in ToSet(p) : EventFits(e) /\ e.kind = "EvidenceCollected"
  BY <1>2 DEF ToSet
<1> HIDE DEF p
<1>4. p \in Seq({p[i] : i \in 1..Len(p)})
  BY <1>1, VectorIsSeq
<1>5. \A i \in 1..Len(p) : p[i]["kind"] \in {"EvidenceCollected"}
  BY <1>1, <1>2
<1>6. AllWithin(p, "kind", {"EvidenceCollected"}) = p
  BY <1>4, <1>5, AllWithinAll
<1>7. AllWith(p, "kind", "EvidenceCollected") = p
  BY <1>6 DEF AllWith
<1> QED  BY <1>1, <1>3, <1>7 DEF p

\* The analyzers propose one action, and if it is the one the journey asks for it is about
\* the target of the run.
LEMMA ProposedIsAboutTarget ==
  ASSUME proposal = Proposed
  PROVE  ActionsNamed(Fixture.requested) # <<>> =>
           ActionsNamed(Fixture.requested)[1].target = Target
<1>1. ASSUME NEW a, proposal.actions = <<a>>, a.id = Fixture.requested => a.target = Target
      PROVE  ActionsNamed(Fixture.requested) # <<>> =>
               ActionsNamed(Fixture.requested)[1].target = Target
  <2>0. PICK n : n = <<>>
    OBVIOUS
  <2> DEFINE S == {a}
  <2>a. Append(n, a) = <<a>> /\ Append(<<>>, a) = <<a>>
    BY <2>0
  <2>1. n \in Seq(S) /\ a \in S
    BY <2>0
  <2> HIDE DEF S
  <2>2. \A x : AllWith(Append(n, a), "id", x) =
          IF a["id"] = x THEN Append(AllWith(n, "id", x), a) ELSE AllWith(n, "id", x)
    BY <2>1, AllWithAppend
  <2>3. AllWith(n, "id", Fixture.requested) = <<>>
    BY <2>0, AllWithEmpty
  <2>4. ActionsNamed(Fixture.requested) = AllWith(Append(n, a), "id", Fixture.requested)
    BY <1>1, <2>a DEF ActionsNamed
  <2>5. CASE a.id = Fixture.requested
    <3>1. ActionsNamed(Fixture.requested) = <<a>>
      BY <2>a, <2>2, <2>3, <2>4, <2>5
    <3> QED  BY <1>1, <2>5, <3>1
  <2>6. CASE a.id # Fixture.requested
    <3>1. ActionsNamed(Fixture.requested) = <<>>
      BY <2>2, <2>3, <2>4, <2>6
    <3> QED  BY <3>1
  <2> QED  BY <2>5, <2>6
<1>2. CASE Command.journey = "disk"
  <2>1. Fixture.requested = "remove-allowlisted-cleanup-path" /\ Target = Fixture.cleanup
    BY <1>2 DEF Fixture, Journeys, Target
  <2>2. PICK a : /\ proposal.actions = <<a>>
                 /\ \/ a = Changing("remove-allowlisted-cleanup-path", "RemoveAllowlistedFile", Fixture.cleanup)
                    \/ a = Harmless("manual-takeover", "ManualTakeover",
                                    Resource("System", Node, "filesystem", Fixture.mount))
    BY <1>2 DEF Proposed, AnalyzeDiskPressure, Proposal
  <2>3. a.id = Fixture.requested => a.target = Target
    BY <2>1, <2>2 DEF Changing, Harmless
  <2> QED  BY <1>1, <2>2, <2>3
<1>3. CASE Command.journey # "disk"
  <2>1. Target = ServiceResource(Node, Service)
    BY <1>3 DEF Target
  <2>2. PICK a : /\ proposal.actions = <<a>>
                 /\ \/ a = Harmless("manual-takeover", "ManualTakeover", Target)
                    \/ a = Changing("restart-service", "ServiceRestart", Target)
                    \/ a = Harmless("collect-more-logs", "CollectMoreLogs", Target)
    BY <1>3, <2>1 DEF Proposed, AnalyzeServiceUnhealthy, Proposal
  <2>3. a.target = Target
    BY <2>2 DEF Changing, Harmless
  <2> QED  BY <1>1, <2>2, <2>3
<1> QED  BY <1>2, <1>3

\* Nothing is told of nothing.
LEMMA NothingTold ==
  [i \in 1..Len(<<>>) |-> EvidenceCollected(<<>>[i])] = <<>>
<1> DEFINE f == [i \in 1..Len(<<>>) |-> EvidenceCollected(<<>>[i])]
<1>1. Len(<<>>) = 0
  BY VectorEmpty
<1>2. 1..0 = {}
  OBVIOUS
<1>3. DOMAIN f = {} /\ f = [x \in {} |-> f[x]]
  BY <1>1, <1>2
<1> HIDE DEF f
<1>4. f = <<>>
  BY <1>3, EmptyFunction
<1> QED  BY <1>4 DEF f

LEMMA TellingStarts == Init => Telling
  BY DEF Init, Telling

\* A step that leaves the ledger, the evidence and the approval as they are tells nothing else.
LEMMA SilentSteps ==
  ASSUME Telling, UNCHANGED <<session, ended, step, evidence, audit, proposal, gate>>,
         step \in Observed => UNCHANGED acceptedResults
  PROVE  Telling'
<1> SUFFICES ASSUME step' # "idle" PROVE Telling'
  BY DEF Telling
<1>0. step # "idle" /\ UNCHANGED <<records, decisions, leases, executed>>
  BY DEF gate
<1>1. Tells /\ TellsAtStep /\ EvidenceAtStep /\ AboutTarget
  BY <1>0 DEF Telling
<1>2. Tells'
  <2>1. \A item : EvidenceCollected(item)' = EvidenceCollected(item)
    BY SameRun DEF EvidenceCollected
  <2> QED  BY <1>1, <2>1, SameFits DEF Tells
<1>3. TellsAtStep'
  <2>1. \A check : VerificationCompleted(check)' = VerificationCompleted(check)
    BY SameRun DEF VerificationCompleted
  <2> QED  BY <1>1, <2>1, SameRun DEF TellsAtStep
<1>4. EvidenceAtStep'
  BY <1>1, SameRun DEF EvidenceAtStep
<1>5. AboutTarget'
  BY <1>0, <1>1, SameRun, SameFits DEF AboutTarget, ActionsNamed
<1> QED  BY <1>2, <1>3, <1>4, <1>5 DEF Telling

\* A ledger that begins with the incident.
LEMMA IncidentTells ==
  ASSUME audit' = <<IncidentCreated>>, evidence' = <<>>, UNCHANGED <<session, ended>>
  PROVE  Tells' /\ \A e \in ToSet(audit') : e.kind # "ActionResult"
<1> DEFINE q == <<IncidentCreated>>
<1>1. ToSet(q) = {IncidentCreated}
  BY OneEntry
<1>2. q \in Seq({IncidentCreated}) /\ Len(q) = 1 /\ q[1] = IncidentCreated
  OBVIOUS
<1>3. \A i \in 1..Len(q) : q[i]["kind"] # "EvidenceCollected"
  BY <1>2, EventsFit
<1>4. AllWith(q, "kind", "EvidenceCollected") = <<>>
  BY <1>2, <1>3, AllWithNone
<1>5. \A e \in ToSet(audit') : EventFits(e)' /\ e.kind # "ActionResult"
  BY <1>1, EventsFit, SameFits
<1>6. [i \in 1..Len(evidence') |-> EvidenceCollected(evidence[i])'] = <<>>
  <2>1. \A item : EvidenceCollected(item)' = EvidenceCollected(item)
    BY SameRun DEF EvidenceCollected
  <2> QED  BY <2>1, NothingTold
<1> QED  BY <1>4, <1>5, <1>6 DEF Tells

\* A ledger that goes on telling of the evidence it told of.
LEMMA TellsMoves ==
  ASSUME Vectors, Tells, UNCHANGED <<session, ended, evidence, audit>>
  PROVE  Tells'
<1>1. \A item : EvidenceCollected(item)' = EvidenceCollected(item)
  BY SameRun DEF EvidenceCollected
<1> QED  BY <1>1, SameFits DEF Tells

\* One more event that fits and is about no evidence.
LEMMA EventTells ==
  ASSUME Vectors, Tells, NEW e, EventFits(e), e.kind # "EvidenceCollected",
         audit' = Append(audit, e), UNCHANGED <<session, ended, evidence>>
  PROVE  Tells' /\ ToSet(audit') = ToSet(audit) \cup {e}
<1>1. audit' = audit \o <<e>>
  BY AppendedBlock DEF Vectors
<1>2. IsVector(<<e>>) /\ ToSet(<<e>>) = {e}
  BY OneEntry
<1>3. PICK p : p = <<e>>
  OBVIOUS
<1>4. /\ IsVector(p) /\ audit' = audit \o p
      /\ \A x \in ToSet(p) : EventFits(x) /\ x.kind # "EvidenceCollected"
  BY <1>1, <1>2, <1>3
<1>5. Tells' /\ ToSet(audit') = ToSet(audit) \cup ToSet(p)
  BY <1>4, BlockFits
<1> QED  BY <1>2, <1>3, <1>5

\* What the approval is about stays while others move on.
LEMMA GateMoves ==
  ASSUME AboutTarget, UNCHANGED <<session, ended, gate>>, step' # "request",
         \A S \in {Recorded, Leased, Done} : step' \in S => step \in S
  PROVE  AboutTarget'
<1>1. UNCHANGED <<records, decisions, leases, executed>>
  BY DEF gate
<1>2. \A d \in ToSet(decisions') : DecisionFits(d)'
  BY <1>1, SameFits DEF AboutTarget
<1>3. /\ step' \in Recorded => step \in Recorded
      /\ step' \in Leased => step \in Leased
      /\ step' \in Done => step \in Done
  OBVIOUS
<1>4. step' \in Recorded =>
       /\ {"id", "target", "state"} \subseteq DOMAIN records'[1]
       /\ records'[1].id = Fixture' .approval /\ records'[1].target = Target'
  BY <1>1, <1>3, SameRun DEF AboutTarget
<1>5. step' \in Leased =>
       /\ records'[1].state = "Approved"
       /\ leases'[1].claims.lease = Fixture' .approval
       /\ leases'[1].claims.approval = Fixture' .approval
       /\ leases'[1].claims.target = Target'
  BY <1>1, <1>3, SameRun DEF AboutTarget
<1>6. step' \in Done =>
       /\ executed'[1].approval = Fixture' .approval
       /\ executed'[1].action = Fixture' .action
       /\ executed'[1].target = Target'
       /\ executed'[1].node = Node'
  BY <1>1, <1>3, SameRun DEF AboutTarget
<1> QED  BY <1>2, <1>4, <1>5, <1>6 DEF AboutTarget

\* So does the evidence once it is taken.
LEMMA EvidenceMoves ==
  ASSUME EvidenceAtStep, UNCHANGED <<session, ended, evidence, acceptedResults>>,
         step \in Observed, step' \in Observed
  PROVE  EvidenceAtStep'
<1>1. step' # "collect"
  BY DEF Observed
<1> QED  BY <1>1, SameRun DEF EvidenceAtStep

\* A run at work is of one of the journeys and has its plan.
LEMMA RunAtWork ==
  ASSUME Control, Progress, step \in Later
  PROVE  Command.journey \in DOMAIN Journeys /\ plan = Planned
<1>1. Command.journey \in DOMAIN Journeys
  BY CommandKnown DEF Control, StepFits, Later, StepsOfRuns, Running, Journeys
<1> QED  BY <1>1 DEF Progress, PlanAtStep

\* A simulation takes the answers the control plane accepted for evidence.
LEMMA AnswersAreEvidence ==
  ASSUME Control, Progress, Served, Observe
  PROVE  /\ IsVector(evidence') /\ Len(evidence') = Len(acceptedResults)
         /\ Len(evidence') = Len(RunCollectors)
         /\ \A i \in 1..Len(evidence') : evidence'[i].source = acceptedResults[i].task
<1> DEFINE n == Len(acceptedResults)
           a == AllWith(acceptedResults, "run", Fixture.run)
           b == AllWith(a, "status", "Succeeded")
<1>1. /\ step = "collect" /\ n = Len(CollectTasks) /\ Len(AcceptedEvidence) = n
      /\ evidence' = AcceptedEvidence
  BY DEF Observe, At
<1>2. IsVector(acceptedResults) /\ n \in Nat
  BY DEF Progress, Vectors, IsVector
<1>3. /\ \A x : IsVector(AllWith(acceptedResults, "run", x)) /\ Len(AllWith(acceptedResults, "run", x)) <= n
      /\ \A x : Len(AllWith(acceptedResults, "run", x)) = n =>
           AllWith(acceptedResults, "run", x) = acceptedResults
  BY <1>2, VectorAllWith, AllWithWhole
<1>4. IsVector(a) /\ Len(a) <= n /\ (Len(a) = n => a = acceptedResults)
  BY <1>3
<1> HIDE DEF a
<1>5. IsVector(b) /\ Len(b) <= Len(a) /\ (Len(b) = Len(a) => b = a)
  BY <1>4, VectorAllWith, AllWithWhole
<1> HIDE DEF b, n
<1>6. DOMAIN b = 1..Len(b) /\ Len(b) \in Nat /\ Len(a) \in Nat
  BY <1>4, <1>5, VectorIsSeq DEF IsVector
<1>7. AcceptedEvidence = [i \in 1..Len(b) |-> SimulatedEvidence[b[i].task]]
  BY <1>6 DEF AcceptedEvidence, a, b
<1>8. IsVector(AcceptedEvidence) /\ Len(AcceptedEvidence) = Len(b)
  <2> DEFINE f == AcceptedEvidence
  <2>1. DOMAIN f = 1..Len(b) /\ f = [i \in 1..Len(b) |-> f[i]]
    BY <1>7
  <2> HIDE DEF f
  <2>2. IsVector(f) /\ Len(f) = Len(b)
    BY <1>6, <2>1, VectorOf
  <2> QED  BY <2>2 DEF f
<1>9. b = acceptedResults /\ Len(b) = n
  <2>1. Len(b) = n
    BY <1>1, <1>8
  <2>2. Len(a) = n
    BY <1>2, <1>4, <1>5, <1>6, <2>1
  <2> QED  BY <1>4, <1>5, <2>1, <2>2
<1>10. \A i \in 1..n : evidence'[i].source = acceptedResults[i].task
  <2> TAKE i \in 1..n
  <2>1. evidence'[i] = SimulatedEvidence[acceptedResults[i].task]
    BY <1>1, <1>7, <1>9
  <2>2. acceptedResults[i].task \in DOMAIN SimulatedEvidence
    BY DEF Served, AboutKnown, n
  <2>3. \A id \in DOMAIN SimulatedEvidence : SimulatedEvidence[id].source = id
    BY DEF SimulatedEvidence
  <2> QED  BY <2>1, <2>2, <2>3
<1>11. CollectTasks = RunCollectors
  BY <1>1, RunAtWork, PlanOfRun DEF Later, StepsOfRuns
<1> QED  BY <1>1, <1>8, <1>9, <1>10, <1>11 DEF n

LEMMA ObserveTells ==
  ASSUME Control, Progress, Served, Telling, Observe
  PROVE  Telling'
<1>1. /\ step = "collect" /\ step' = "propose" /\ ~ Dogfood
      /\ UNCHANGED <<session, ended, gate, acceptedResults>>
  BY DEF Observe, At, Go, controlPlane
<1>2. Vectors /\ Tells /\ TellsAtStep /\ EvidenceAtStep /\ AboutTarget /\ evidence = <<>>
  BY <1>1 DEF Progress, Telling, EvidenceAtStep
<1>3. EvidenceAtStep'
  BY <1>1, AnswersAreEvidence, SameRun DEF EvidenceAtStep
<1>4. AboutTarget'
  BY <1>1, <1>2, GateMoves DEF Recorded, Leased, Done
<1>5. PICK v : v = evidence'
  OBVIOUS
<1>6. IsVector(v)
  BY <1>5, AnswersAreEvidence
<1> DEFINE p == Relabelled(controlLedger)
           b == [i \in 1..Len(v) |-> EvidenceCollected(v[i])]
<1>7. /\ IsVector(p)
      /\ \A e \in ToSet(p) : EventFits(e) /\ e.kind \in ControlKinds
  BY <1>2, ControlEventsFit DEF Served, Vectors
<1>8. /\ IsVector(b) /\ AllWith(b, "kind", "EvidenceCollected") = b
      /\ \A e \in ToSet(b) : EventFits(e) /\ e.kind = "EvidenceCollected"
  BY <1>6, EvidenceIsTold
<1>9. audit' = audit \o p \o b
  <2>1. DOMAIN v = 1..Len(v)
    BY <1>6, VectorIsSeq
  <2>2. audit' = audit \o Relabelled(controlLedger)
              \o [i \in DOMAIN evidence' |-> EvidenceCollected(evidence'[i])]
    BY DEF Observe
  <2> QED  BY <1>5, <2>1, <2>2
<1> HIDE DEF p, b
<1>10. /\ IsVector(audit) /\ IsVector(audit \o p)
       /\ ToSet(audit') = ToSet(audit) \cup ToSet(p) \cup ToSet(b)
  <2>1. IsVector(audit)
    BY <1>2 DEF Vectors
  <2>2. IsVector(audit \o p) /\ ToSet(audit \o p) = ToSet(audit) \cup ToSet(p)
    BY <1>7, <2>1, VectorConcat, ToSetConcat
  <2>3. ToSet((audit \o p) \o b) = ToSet(audit \o p) \cup ToSet(b)
    BY <1>8, <2>2, ToSetConcat
  <2> QED  BY <1>9, <2>1, <2>2, <2>3
<1>11. \A e \in ToSet(audit') : EventFits(e) /\ e.kind # "ActionResult"
  BY <1>1, <1>2, <1>7, <1>8, <1>10 DEF Tells, TellsAtStep, Done, Leased, Recorded, ControlKinds
<1>12. AllWith(audit', "kind", "EvidenceCollected") = b
  <2> DEFINE S == {audit[i] : i \in 1..Len(audit)} \cup {p[i] : i \in 1..Len(p)} \cup {b[i] : i \in 1..Len(b)}
  <2>1. audit \in Seq(S)
    BY <1>10 DEF IsVector
  <2>2. p \in Seq(S)
    BY <1>7 DEF IsVector
  <2>3. b \in Seq(S)
    BY <1>8 DEF IsVector
  <2>4. \A i \in 1..Len(p) : p[i]["kind"] # "EvidenceCollected"
    <3>1. DOMAIN p = 1..Len(p)
      BY <1>7, VectorIsSeq
    <3> QED  BY <1>7, <3>1 DEF ToSet, ControlKinds
  <2> HIDE DEF S
  <2>5. AllWith(p, "kind", "EvidenceCollected") = <<>>
    BY <2>2, <2>4, AllWithNone
  <2>6. AllWith(audit, "kind", "EvidenceCollected") = <<>>
    BY <1>2, NothingTold DEF Tells
  <2>7. AllWith(audit \o p, "kind", "EvidenceCollected") =
          AllWith(audit, "kind", "EvidenceCollected") \o AllWith(p, "kind", "EvidenceCollected")
    BY <2>1, <2>2, AllWithConcat
  <2>8. audit \o p \in Seq(S)
    BY <2>1, <2>2
  <2>9. AllWith((audit \o p) \o b, "kind", "EvidenceCollected") =
          AllWith(audit \o p, "kind", "EvidenceCollected") \o AllWith(b, "kind", "EvidenceCollected")
    <3>1. PICK r : r = audit \o p
      OBVIOUS
    <3>2. r \in Seq(S)
      BY <2>8, <3>1
    <3>3. AllWith(r \o b, "kind", "EvidenceCollected") =
            AllWith(r, "kind", "EvidenceCollected") \o AllWith(b, "kind", "EvidenceCollected")
      BY <2>3, <3>2, AllWithConcat
    <3> QED  BY <3>1, <3>3
  <2>10. <<>> \o b = b
    BY <2>3
  <2>11. <<>> \o <<>> = <<>>
    OBVIOUS
  <2> QED  BY <1>8, <1>9, <2>5, <2>6, <2>7, <2>9, <2>10, <2>11
<1>13. Tells'
  <2>1. \A item : EvidenceCollected(item)' = EvidenceCollected(item)
    BY <1>1, SameRun DEF EvidenceCollected
  <2>2. \A i : EvidenceCollected(v[i]) = EvidenceCollected(evidence[i])'
    BY <1>5, <2>1
  <2>3. b = [i \in 1..Len(v) |-> EvidenceCollected(evidence[i])']
    BY <2>2 DEF b
  <2>4. b = [i \in 1..Len(evidence) |-> EvidenceCollected(evidence[i])]'
    BY <1>5, <2>3
  <2>5. \A e \in ToSet(audit') : EventFits(e)'
    BY <1>1, <1>11, SameFits
  <2> QED  BY <1>12, <2>4, <2>5 DEF Tells
<1>14. TellsAtStep'
  BY <1>1, <1>11 DEF TellsAtStep, Done, Leased, Recorded
<1> QED  BY <1>3, <1>4, <1>13, <1>14 DEF Telling

\* A command that begins has told nothing.
LEMMA BeginTells == Begin => Telling'
<1> SUFFICES ASSUME Begin PROVE Telling'
  OBVIOUS
<1>1. /\ step' \in {"start", "reload", "load"} /\ audit' = <<>> /\ evidence' = <<>> /\ decisions' = <<>>
  BY DEF Begin, Go, ForgetAll
<1>2. PICK n : n = <<>>
  OBVIOUS
<1>3. ToSet(n) = {} /\ AllWith(n, "kind", "EvidenceCollected") = n
  BY <1>2, AllWithEmpty DEF ToSet
<1>4. [i \in 1..Len(n) |-> EvidenceCollected(n[i])'] = n
  <2>1. Len(n) = 0 /\ 1..0 = {}
    BY <1>2, VectorEmpty
  <2> DEFINE f == [i \in 1..Len(n) |-> EvidenceCollected(n[i])']
  <2>2. f = [x \in {} |-> f[x]]
    BY <2>1
  <2> HIDE DEF f
  <2>3. f = n
    BY <1>2, <2>2, EmptyFunction
  <2> QED  BY <2>3 DEF f
<1>5. Tells'
  <2>1. \A e \in ToSet(audit') : EventFits(e)'
    BY <1>1, <1>2, <1>3
  <2>2. AllWith(audit', "kind", "EvidenceCollected") =
          [i \in 1..Len(evidence') |-> EvidenceCollected(evidence[i])']
    BY <1>1, <1>2, <1>3, <1>4
  <2> QED  BY <2>1, <2>2 DEF Tells
<1>6. TellsAtStep' /\ EvidenceAtStep'
  BY <1>1, <1>2, <1>3 DEF TellsAtStep, EvidenceAtStep, Done, Leased, Recorded, Observed, Later,
     StepsOfRuns
<1>7. AboutTarget'
  BY <1>1, <1>2, <1>3 DEF AboutTarget, Done, Leased, Recorded
<1> QED  BY <1>5, <1>6, <1>7 DEF Telling

\* A command that has not observed anything yet may tell of the incident.
LEMMA EarlyTells ==
  ASSUME Control, Progress, Telling, step \in Early, step' \in {"summary", "enrol", "collect"},
         evidence' = evidence, UNCHANGED <<session, ended, gate>>,
         UNCHANGED audit \/ audit' = <<IncidentCreated>>
  PROVE  Telling'
<1>1. evidence = <<>> /\ evidence' = <<>> /\ step # "idle" /\ Vectors
  BY DEF Progress, PlanAtStep, Early
<1>2. Tells /\ TellsAtStep /\ AboutTarget
  BY <1>1 DEF Telling
<1>3. Tells' /\ \A e \in ToSet(audit') : e.kind # "ActionResult"
  <2>1. CASE UNCHANGED audit
    BY <1>1, <1>2, <2>1, TellsMoves DEF TellsAtStep, Early, Done, Leased, Recorded
  <2>2. CASE audit' = <<IncidentCreated>>
    BY <1>1, <2>2, IncidentTells
  <2> QED  BY <2>1, <2>2
<1>4. TellsAtStep' /\ EvidenceAtStep'
  BY <1>1, <1>3 DEF TellsAtStep, EvidenceAtStep, Done, Leased, Recorded, Observed, Later,
     StepsOfRuns
<1>5. AboutTarget'
  BY <1>2, GateMoves DEF Done, Leased, Recorded
<1> QED  BY <1>3, <1>4, <1>5 DEF Telling

\* One collector more has run.
LEMMA CollectTells ==
  ASSUME Control, Progress, Telling, CollectNatively, ~ Fail
  PROVE  Telling'
<1>1. /\ step = "collect" /\ Dogfood /\ Len(evidence) < Len(DogfoodKinds)
      /\ UNCHANGED <<session, ended, gate>>
      /\ step' = IF Len(evidence') = Len(DogfoodKinds) THEN "propose" ELSE "collect"
  BY DEF CollectNatively, At, Go
<1>2. PICK item : /\ evidence' = Append(evidence, item)
                  /\ audit' = Append(audit, EvidenceCollected(evidence'[Len(evidence')]))
  BY DEF CollectNatively
<1>3. Vectors /\ Tells /\ TellsAtStep /\ AboutTarget
  BY <1>1 DEF Progress, Telling
<1>4. /\ IsVector(evidence) /\ IsVector(audit) /\ Len(evidence') = Len(evidence) + 1
      /\ evidence'[Len(evidence) + 1] = item
  BY <1>2, <1>3, VectorAppend DEF Vectors
<1>5. PICK e : e = EvidenceCollected(item)
  OBVIOUS
<1>6. audit' = Append(audit, e) /\ EventFits(e) /\ e.kind = "EvidenceCollected"
  BY <1>2, <1>4, <1>5, EventsFit
<1>7. ToSet(audit') = ToSet(audit) \cup {e}
  <2> DEFINE S == {audit[i] : i \in 1..Len(audit)} \cup {e}
  <2>1. audit \in Seq(S)
    BY <1>4 DEF IsVector
  <2>2. e \in S
    OBVIOUS
  <2> HIDE DEF S
  <2> QED  BY <1>6, <2>1, <2>2, ToSetAppend
<1>8. AllWith(audit', "kind", "EvidenceCollected") =
        Append([i \in 1..Len(evidence) |-> EvidenceCollected(evidence[i])], e)
  <2> DEFINE S == {audit[i] : i \in 1..Len(audit)} \cup {e}
  <2>1. audit \in Seq(S)
    BY <1>4 DEF IsVector
  <2>2. e \in S /\ e["kind"] = "EvidenceCollected"
    BY <1>6
  <2> HIDE DEF S
  <2>3. AllWith(Append(audit, e), "kind", "EvidenceCollected") =
          IF e["kind"] = "EvidenceCollected" THEN Append(AllWith(audit, "kind", "EvidenceCollected"), e)
          ELSE AllWith(audit, "kind", "EvidenceCollected")
    BY <2>1, <2>2, AllWithAppend
  <2> QED  BY <1>3, <1>6, <2>2, <2>3 DEF Tells
<1>9. Tells'
  <2>1. PICK v : v = evidence'
    OBVIOUS
  <2>2. v = Append(evidence, item)
    BY <1>2, <2>1
  <2>3. [i \in 1..Len(v) |-> EvidenceCollected(v[i])] =
          Append([i \in 1..Len(evidence) |-> EvidenceCollected(evidence[i])], e)
    BY <1>4, <1>5, <2>2, EvidenceAppended
  <2>4. \A x : EvidenceCollected(x)' = EvidenceCollected(x)
    BY <1>1, SameRun DEF EvidenceCollected
  <2>5. \A i : EvidenceCollected(v[i]) = EvidenceCollected(evidence[i])'
    BY <2>1, <2>4
  <2>6. [i \in 1..Len(v) |-> EvidenceCollected(v[i])] = [i \in 1..Len(v) |-> EvidenceCollected(evidence[i])']
    BY <2>5
  <2>7. [i \in 1..Len(v) |-> EvidenceCollected(v[i])] =
          [i \in 1..Len(evidence) |-> EvidenceCollected(evidence[i])]'
    BY <2>1, <2>6
  <2>8. \A x \in ToSet(audit') : EventFits(x)'
    BY <1>1, <1>3, <1>6, <1>7, SameFits DEF Tells
  <2> QED  BY <1>8, <2>3, <2>7, <2>8 DEF Tells
<1>10. TellsAtStep'
  BY <1>1, <1>3, <1>6, <1>7 DEF TellsAtStep, Done, Leased, Recorded
<1>11. EvidenceAtStep'
  <2>1. Dogfood' /\ RunCollectors' = RunCollectors
    BY <1>1, SameRun
  <2>2. Len(RunCollectors) = 5
    <3>1. Command.does = "dogfood"
      BY <1>1 DEF Dogfood
    <3>2. Command.journey = "dogfood"
      BY <1>1, <3>1, CommandKnown DEF Control
    <3> QED  BY <3>2, ServiceCollectors DEF RunCollectors
  <2>3. Len(DogfoodKinds) = 5
    BY DEF DogfoodKinds
  <2> QED  BY <1>1, <2>1, <2>2, <2>3 DEF EvidenceAtStep, Observed
<1>12. AboutTarget'
  BY <1>1, <1>3, GateMoves DEF Done, Leased, Recorded
<1> QED  BY <1>9, <1>10, <1>11, <1>12 DEF Telling

\* So it is in the next state.
LEMMA ProposedNextIsAboutTarget ==
  (proposal = Proposed /\ ActionsNamed(Fixture.requested) # <<>> =>
     ActionsNamed(Fixture.requested)[1].target = Target)'
<1>1. proposal = Proposed /\ ActionsNamed(Fixture.requested) # <<>> =>
        ActionsNamed(Fixture.requested)[1].target = Target
  BY ProposedIsAboutTarget
<1> QED  BY <1>1, PTL

\* The proposal is told.
LEMMA ProposeTells ==
  ASSUME Control, Progress, Telling, Propose, ~ Fail
  PROVE  Telling'
<1>1. /\ step = "propose" /\ step' = "request" /\ proposal' = Proposed
      /\ audit' = Append(audit, ProposalGenerated(Proposed))
      /\ UNCHANGED <<session, ended, evidence, controlPlane, gate>>
  BY DEF Propose, At, Go
<1>2. Vectors /\ Tells /\ TellsAtStep /\ EvidenceAtStep /\ AboutTarget
  BY <1>1 DEF Progress, Telling
<1>3. PICK e : e = ProposalGenerated(Proposed)
  OBVIOUS
<1>4. EventFits(e) /\ e.kind = "ProposalGenerated" /\ audit' = Append(audit, e)
  BY <1>1, <1>3, EventsFit
<1>5. Tells' /\ ToSet(audit') = ToSet(audit) \cup {e}
  BY <1>1, <1>2, <1>4, EventTells
<1>6. TellsAtStep'
  BY <1>1, <1>2, <1>4, <1>5 DEF TellsAtStep, Done, Leased, Recorded
<1>7. EvidenceAtStep'
  BY <1>1, <1>2, EvidenceMoves DEF Observed, Later, StepsOfRuns, controlPlane
<1>8. AboutTarget'
  <2>1. (proposal = Proposed)'
    <3>1. Command' = Command /\ Fixture' = Fixture /\ Node' = Node /\ Service' = Service
      <4>1. Command' = Command
        BY <1>1 DEF Command
      <4> QED  BY <1>1, <4>1, SameRun DEF Service
    <3>2. AllowedCleanups' = AllowedCleanups
      BY <3>1 DEF AllowedCleanups, Fleet
    <3>3. Proposed' = Proposed
      BY <1>1, <3>1, <3>2 DEF Proposed
    <3> QED  BY <1>1, <3>3
  <2>2. (ActionsNamed(Fixture.requested) # <<>> => ActionsNamed(Fixture.requested)[1].target = Target)'
    BY <2>1, ProposedNextIsAboutTarget
  <2>3. \A d \in ToSet(decisions') : DecisionFits(d)'
    BY <1>1, <1>2, SameFits DEF AboutTarget, gate
  <2> QED  BY <1>1, <2>2, <2>3 DEF AboutTarget, Done, Leased, Recorded
<1> QED  BY <1>5, <1>6, <1>7, <1>8 DEF Telling

\* The approval that is requested is about the target of the run.
LEMMA RequestTells ==
  ASSUME Control, Progress, Telling, RequestApproval, ActionsNamed(Fixture.requested) # <<>>
  PROVE  Telling'
<1> DEFINE r == ApprovalRecord(ActionsNamed(Fixture.requested)[1])
<1>1. /\ step = "request" /\ step' = "approve" /\ Gate!Request(r)
      /\ UNCHANGED <<session, ended, findings, audit, controlPlane, executed>>
  BY DEF RequestApproval, At, Go
<1>2. Vectors /\ Tells /\ TellsAtStep /\ EvidenceAtStep /\ AboutTarget
  BY <1>1 DEF Progress, Telling
<1>3. {"id", "target", "state"} \subseteq DOMAIN r /\ r.id = Fixture.approval /\ r.target = Target
  BY <1>1, <1>2 DEF ApprovalRecord, AboutTarget
<1> HIDE DEF r
<1>4. records = <<>> /\ records' = Append(records, r)
      /\ decisions' = Append(decisions, Gate!ApprovalRequested(r))
  BY <1>1 DEF Gate!Request, Progress, GateAtStep
<1>5. records'[1] = r
  BY <1>4, FirstEntry
<1>6. \A d \in ToSet(decisions') : DecisionFits(d)'
  <2>1. DecisionFits(Gate!ApprovalRequested(r))
    BY DEF DecisionFits, Gate!ApprovalRequested
  <2>2. ToSet(decisions') = ToSet(decisions) \cup {Gate!ApprovalRequested(r)}
    BY <1>2, <1>4, ToSetOneMore DEF Vectors
  <2> QED  BY <1>1, <1>2, <2>1, <2>2, SameFits DEF AboutTarget
<1>7. Tells'
  BY <1>1, <1>2, TellsMoves DEF findings
<1>8. TellsAtStep'
  BY <1>1, <1>2 DEF TellsAtStep, Done, Leased, Recorded
<1>9. EvidenceAtStep'
  BY <1>1, <1>2, EvidenceMoves DEF Observed, Later, StepsOfRuns, controlPlane, findings
<1>10. AboutTarget'
  <2>1. {"id", "target", "state"} \subseteq DOMAIN records'[1]
        /\ records'[1].id = Fixture' .approval /\ records'[1].target = Target'
    BY <1>1, <1>3, <1>5, SameRun
  <2> QED  BY <1>1, <1>6, <2>1 DEF AboutTarget, Done, Leased
<1> QED  BY <1>7, <1>8, <1>9, <1>10 DEF Telling

\* So is the lease for it.
LEMMA ApproveTells ==
  ASSUME Control, Progress, Telling, ApproveAction
  PROVE  Telling'
<1> DEFINE decision == Gate!ApprovalDecision(Fixture.approval, Fixture.actor, "Approved")
           claims == Gate!Claims(records[1], Fixture.entry, Fixture.nonce)
<1>1. /\ step = "approve" /\ step' = "execute"
      /\ audit' = audit \o Relabelled(decisions') \o LeaseEvents(leases'[Len(leases')].claims)
      /\ UNCHANGED <<session, ended, findings, controlPlane, executed>>
  BY DEF ApproveAction, At, Go
<1>2. Vectors /\ Tells /\ TellsAtStep /\ EvidenceAtStep /\ AboutTarget
  BY <1>1 DEF Progress, Telling
<1>3. /\ {"id", "target", "state"} \subseteq DOMAIN records[1]
      /\ records[1].id = Fixture.approval /\ records[1].target = Target
      /\ IsVector(records) /\ Len(records) = 1 /\ leases = <<>>
  BY <1>1, <1>2 DEF AboutTarget, Recorded, Progress, GateAtStep, Vectors
<1>4. Gate!FirstWith(records, "id", Fixture.approval) = 1
  <2>1. Gate!FirstWith(records, "id", Fixture.approval) = FirstWith(records, "id", Fixture.approval)
    BY DEF Gate!FirstWith, FirstWith, Gate!SelectInSeq, SelectInSeq, Gate!Min, Min
  <2>2. records[1]["id"] = Fixture.approval
    BY <1>3
  <2> QED  BY <1>3, <2>1, <2>2, FirstOfOne
<1>5. /\ records' = [records EXCEPT ![1].state = "Approved"]
      /\ decisions' = Append(decisions, decision)
      /\ \E rest : leases' = Append(leases, [claims |-> claims, meant |-> rest, at |-> Fixture.approvedAt])
  BY <1>4 DEF ApproveAction, Gate!Approve, Gate!SetState
<1>6. /\ {"id", "target", "state"} \subseteq DOMAIN records'[1]
      /\ records'[1].id = Fixture.approval /\ records'[1].target = Target
      /\ records'[1].state = "Approved"
  <2>1. 1 \in DOMAIN records
    BY <1>3, VectorIsSeq
  <2>2. records'[1] = [records[1] EXCEPT !.state = "Approved"]
    BY <1>5, <2>1
  <2> QED  BY <1>3, <2>2
<1>7. leases'[1].claims = claims /\ Len(leases') = 1
  BY <1>3, <1>5, FirstEntry
<1>8. claims.lease = Fixture.approval /\ claims.approval = Fixture.approval /\ claims.target = Target
  BY <1>3 DEF Gate!Claims
<1>9. \A d \in ToSet(decisions') : DecisionFits(d)
  <2>1. DecisionFits(decision)
    BY DEF DecisionFits, Gate!ApprovalDecision
  <2>2. ToSet(decisions') = ToSet(decisions) \cup {decision}
    BY <1>2, <1>5, ToSetOneMore DEF Vectors
  <2> QED  BY <1>2, <2>1, <2>2 DEF AboutTarget
<1>10. IsVector(decisions')
  BY <1>2, <1>5, VectorAppend DEF Vectors
<1> HIDE DEF decision, claims
<1>11. PICK q : q = decisions'
  OBVIOUS
<1> DEFINE a == Relabelled(q)
           b == LeaseEvents(claims)
<1>12. /\ IsVector(a)
       /\ \A e \in ToSet(a) : EventFits(e) /\ e.kind \in {"ApprovalRequested", "ApprovalDecision"}
  BY <1>9, <1>10, <1>11, DecisionEventsFit
<1>13. /\ IsVector(b)
       /\ \A e \in ToSet(b) : EventFits(e) /\ e.kind \in {"CapabilityLeaseIssued", "ResourceLeaseGranted"}
  BY <1>8, LeaseEventsFit
<1>14. audit' = (audit \o a) \o b
  BY <1>1, <1>7, <1>11
<1> HIDE DEF a, b
<1>15. PICK p : p = a \o b
  OBVIOUS
<1>16. /\ IsVector(p) /\ ToSet(p) = ToSet(a) \cup ToSet(b)
  BY <1>12, <1>13, <1>15, VectorConcat, ToSetConcat
<1>17. audit' = audit \o p
  <2> DEFINE S == {audit[i] : i \in 1..Len(audit)} \cup {a[i] : i \in 1..Len(a)} \cup {b[i] : i \in 1..Len(b)}
  <2>0. IsVector(audit)
    BY <1>2 DEF Vectors
  <2>1. audit \in Seq(S)
    BY <2>0 DEF IsVector
  <2>2. a \in Seq(S)
    BY <1>12 DEF IsVector
  <2>3. b \in Seq(S)
    BY <1>13 DEF IsVector
  <2> HIDE DEF S
  <2>4. (audit \o a) \o b = audit \o (a \o b)
    BY <2>1, <2>2, <2>3
  <2> QED  BY <1>14, <1>15, <2>4
<1>18. Tells' /\ ToSet(audit') = ToSet(audit) \cup ToSet(p)
  <2>1. \A e \in ToSet(p) : EventFits(e) /\ e.kind # "EvidenceCollected"
    BY <1>12, <1>13, <1>16
  <2> QED  BY <1>1, <1>2, <1>16, <1>17, <2>1, BlockFits DEF findings
<1>19. TellsAtStep'
  BY <1>1, <1>2, <1>12, <1>13, <1>16, <1>18 DEF TellsAtStep, Done, Leased, Recorded
<1>20. EvidenceAtStep'
  BY <1>1, <1>2, EvidenceMoves DEF Observed, Later, StepsOfRuns, controlPlane, findings
<1>21. AboutTarget'
  <2>1. \A d \in ToSet(decisions') : DecisionFits(d)'
    BY <1>1, <1>9, SameFits
  <2>2. /\ {"id", "target", "state"} \subseteq DOMAIN records'[1]
        /\ records'[1].id = Fixture' .approval /\ records'[1].target = Target'
        /\ records'[1].state = "Approved"
        /\ leases'[1].claims.lease = Fixture' .approval
        /\ leases'[1].claims.approval = Fixture' .approval
        /\ leases'[1].claims.target = Target'
    BY <1>1, <1>6, <1>7, <1>8, SameRun
  <2> QED  BY <1>1, <2>1, <2>2 DEF AboutTarget, Done
<1> QED  BY <1>18, <1>19, <1>20, <1>21 DEF Telling

\* So is what the helper does.
LEMMA ExecuteTells ==
  ASSUME Control, Progress, Telling, ExecuteAction, ~ Fail
  PROVE  Telling'
<1>1. /\ step = "execute" /\ step' = "verify"
      /\ Gate!HelperExecute(HelperRequest, Claims, Node, Fixture.approvedAt, {})
      /\ audit' = Append(audit, ActionResult(Claims))
      /\ UNCHANGED <<session, ended, findings, controlPlane>>
  BY DEF ExecuteAction, At, Go
<1>2. Vectors /\ Tells /\ TellsAtStep /\ EvidenceAtStep /\ AboutTarget
  BY <1>1 DEF Progress, Telling
<1>3. /\ Claims.lease = Fixture.approval /\ Claims.approval = Fixture.approval /\ Claims.target = Target
      /\ executed = <<>>
  BY <1>1, <1>2 DEF Claims, AboutTarget, Leased, Recorded, Progress, GateAtStep
<1>4. PICK deed : /\ executed' = Append(executed, deed) /\ deed.approval = Claims.approval
                  /\ deed.action = HelperRequest.action /\ deed.target = HelperRequest.target
                  /\ deed.node = Node
                  /\ UNCHANGED <<records, decisions, leases>>
  BY <1>1 DEF Gate!HelperExecute, Gate!asVars
<1>5. /\ executed'[1].approval = Fixture.approval /\ executed'[1].action = Fixture.action
      /\ executed'[1].target = Target /\ executed'[1].node = Node
  BY <1>3, <1>4, FirstEntry DEF HelperRequest
<1>6. PICK claims : claims = Claims
  OBVIOUS
<1>7. PICK e : e = ActionResult(claims)
  OBVIOUS
<1>8. EventFits(e) /\ e.kind = "ActionResult" /\ audit' = Append(audit, e)
  BY <1>1, <1>3, <1>6, <1>7, LeaseEventsFit
<1>9. Tells' /\ ToSet(audit') = ToSet(audit) \cup {e}
  BY <1>1, <1>2, <1>8, EventTells DEF findings
<1>10. TellsAtStep'
  BY <1>1 DEF TellsAtStep, Done, Leased, Recorded
<1>11. EvidenceAtStep'
  BY <1>1, <1>2, EvidenceMoves DEF Observed, Later, StepsOfRuns, controlPlane, findings
<1>12. AboutTarget'
  <2>1. \A d \in ToSet(decisions') : DecisionFits(d)'
    BY <1>1, <1>2, <1>4, SameFits DEF AboutTarget
  <2>2. /\ {"id", "target", "state"} \subseteq DOMAIN records'[1]
        /\ records'[1].id = Fixture' .approval /\ records'[1].target = Target'
        /\ records'[1].state = "Approved"
        /\ leases'[1].claims.lease = Fixture' .approval
        /\ leases'[1].claims.approval = Fixture' .approval
        /\ leases'[1].claims.target = Target'
    BY <1>1, <1>2, <1>4, SameRun DEF AboutTarget, Leased, Recorded
  <2>3. /\ executed'[1].approval = Fixture' .approval
        /\ executed'[1].action = Fixture' .action
        /\ executed'[1].target = Target'
        /\ executed'[1].node = Node'
    BY <1>1, <1>5, SameRun
  <2> QED  BY <1>1, <2>1, <2>2, <2>3 DEF AboutTarget
<1> QED  BY <1>9, <1>10, <1>11, <1>12 DEF Telling

\* What is told of a verification.
LEMMA VerificationIsTold ==
  ASSUME NEW v, IsVector(v.required), IsVector(v.skipped)
  PROVE  ToSet(VerificationEvents(v)) =
           {VerificationSelected(v)} \cup {VerificationCompleted(check) : check \in ToSet(v.required)}
           \cup {VerificationSkipped(id) : id \in ToSet(v.skipped)}
<1> DEFINE a == <<VerificationSelected(v)>>
           b == [i \in DOMAIN v.required |-> VerificationCompleted(v.required[i])]
           c == [i \in DOMAIN v.skipped |-> VerificationSkipped(v.skipped[i])]
<1>1. IsVector(a) /\ ToSet(a) = {VerificationSelected(v)}
  BY OneEntry
<1>2. IsVector(b) /\ ToSet(b) = {VerificationCompleted(check) : check \in ToSet(v.required)}
  <2>1. DOMAIN v.required = 1..Len(v.required) /\ Len(v.required) \in Nat
    BY VectorIsSeq DEF IsVector
  <2>2. DOMAIN b = 1..Len(v.required) /\ b = [i \in 1..Len(v.required) |-> b[i]]
    BY <2>1
  <2>3. ToSet(b) = {VerificationCompleted(check) : check \in ToSet(v.required)}
    BY DEF ToSet
  <2> HIDE DEF b
  <2> QED  BY <2>1, <2>2, <2>3, VectorOf
<1>3. IsVector(c) /\ ToSet(c) = {VerificationSkipped(id) : id \in ToSet(v.skipped)}
  <2>1. DOMAIN v.skipped = 1..Len(v.skipped) /\ Len(v.skipped) \in Nat
    BY VectorIsSeq DEF IsVector
  <2>2. DOMAIN c = 1..Len(v.skipped) /\ c = [i \in 1..Len(v.skipped) |-> c[i]]
    BY <2>1
  <2>3. ToSet(c) = {VerificationSkipped(id) : id \in ToSet(v.skipped)}
    BY DEF ToSet
  <2> HIDE DEF c
  <2> QED  BY <2>1, <2>2, <2>3, VectorOf
<1>4. VerificationEvents(v) = (a \o b) \o c
  BY DEF VerificationEvents
<1> HIDE DEF a, b, c
<1>5. PICK p : p = a \o b
  OBVIOUS
<1>6. IsVector(p) /\ ToSet(p) = ToSet(a) \cup ToSet(b)
  BY <1>1, <1>2, <1>5, VectorConcat, ToSetConcat
<1>7. ToSet(p \o c) = ToSet(p) \cup ToSet(c)
  BY <1>3, <1>6, ToSetConcat
<1> QED  BY <1>1, <1>2, <1>3, <1>4, <1>5, <1>6, <1>7

\* The checks are chosen as the plan chose them, and each of them is told.
LEMMA VerifyTells ==
  ASSUME Control, Progress, Telling, Verify
  PROVE  Telling'
<1>1. /\ step = "verify" /\ step' = "receipt"
      /\ UNCHANGED <<session, ended, findings, controlPlane, gate>>
  BY DEF Verify, At, Go
<1>2. Vectors /\ Tells /\ TellsAtStep /\ EvidenceAtStep /\ AboutTarget
  BY <1>1 DEF Progress, Telling
<1>3. Command.journey \in DOMAIN Journeys /\ plan = Planned
  BY <1>1, RunAtWork DEF Later, StepsOfRuns
<1>4. MutatingTask.impact = Impact /\ MutatingTask.verification = AlsoSkipping(Checks, RunbookSkips)
  BY <1>3, PlanOfRun DEF Checks
<1>5. AlsoSkipping(Checks, RunbookSkips).skipped = Checks.skipped \o RunbookSkips
  <2>1. PICK ids : ids = RunbookSkips
    OBVIOUS
  <2>2. AlsoSkipping(Checks, ids).skipped = Checks.skipped \o ids
    BY PlanVerificationSkips DEF Checks
  <2> QED  BY <2>1, <2>2
<1>6. audit' = audit \o VerificationEvents(Chosen)
  BY <1>4, <1>5 DEF Verify, Chosen, Checks
<1>7. IsVector(Chosen.required) /\ IsVector(Chosen.skipped)
  BY <1>3, ChosenFits
<1>8. PICK v : v = Chosen
  OBVIOUS
<1>9. PICK p : p = VerificationEvents(v)
  OBVIOUS
<1>10. /\ IsVector(p)
       /\ ToSet(p) = {VerificationSelected(v)} \cup {VerificationCompleted(check) : check \in ToSet(v.required)}
                     \cup {VerificationSkipped(id) : id \in ToSet(v.skipped)}
  BY <1>7, <1>8, <1>9, EventsOfVerification, VerificationIsTold
<1>11. \A e \in ToSet(p) : EventFits(e) /\ e.kind # "EvidenceCollected"
  BY <1>8, <1>10, EventsFit
<1>12. Tells' /\ ToSet(audit') = ToSet(audit) \cup ToSet(p)
  BY <1>1, <1>2, <1>6, <1>8, <1>9, <1>10, <1>11, BlockFits DEF findings
<1>13. TellsAtStep'
  <2>1. \A check \in ToSet(Chosen.required) : VerificationCompleted(check) \in ToSet(audit')
    BY <1>8, <1>10, <1>12
  <2>2. \A check : VerificationCompleted(check)' = VerificationCompleted(check)
    BY <1>1, SameRun DEF VerificationCompleted
  <2>3. \A check \in ToSet(Chosen' .required) : VerificationCompleted(check)' \in ToSet(audit')
    BY <1>1, <2>1, <2>2, SameRun
  <2> QED  BY <1>1, <2>3 DEF TellsAtStep, Done, Leased, Recorded
<1>14. EvidenceAtStep'
  BY <1>1, <1>2, EvidenceMoves DEF Observed, Later, StepsOfRuns, controlPlane, findings
<1>15. AboutTarget'
  BY <1>1, <1>2, GateMoves DEF Done, Leased, Recorded
<1> QED  BY <1>12, <1>13, <1>14, <1>15 DEF Telling

\* That there is a receipt is told as well.
LEMMA ReceiptTells ==
  ASSUME Control, Progress, Telling, GenerateTheReceipt
  PROVE  Telling'
<1>1. /\ step = "receipt" /\ step' \in {"persist", "done"}
      /\ audit' = Append(audit, CognitiveReceiptGenerated)
      /\ UNCHANGED <<session, ended, evidence, controlPlane, gate>>
  BY DEF GenerateTheReceipt, At, Go
<1>2. Vectors /\ Tells /\ TellsAtStep /\ EvidenceAtStep /\ AboutTarget
  BY <1>1 DEF Progress, Telling
<1>3. PICK e : e = CognitiveReceiptGenerated
  OBVIOUS
<1>4. EventFits(e) /\ e.kind = "CognitiveReceiptGenerated" /\ audit' = Append(audit, e)
  BY <1>1, <1>3, EventsFit
<1>5. Tells' /\ ToSet(audit') = ToSet(audit) \cup {e}
  BY <1>1, <1>2, <1>4, EventTells
<1>6. TellsAtStep'
  <2>1. \A check : VerificationCompleted(check)' = VerificationCompleted(check)
    BY <1>1, SameRun DEF VerificationCompleted
  <2>2. \A check \in ToSet(Chosen.required) : VerificationCompleted(check) \in ToSet(audit)
    BY <1>1, <1>2 DEF TellsAtStep, Done, Leased, Recorded
  <2>3. \A check \in ToSet(Chosen' .required) : VerificationCompleted(check)' \in ToSet(audit')
    BY <1>1, <1>5, <2>1, <2>2, SameRun
  <2> QED  BY <1>1, <2>3 DEF TellsAtStep, Done, Leased, Recorded
<1>7. EvidenceAtStep'
  BY <1>1, <1>2, EvidenceMoves DEF Observed, Later, StepsOfRuns, controlPlane
<1>8. AboutTarget'
  BY <1>1, <1>2, GateMoves DEF Done, Leased, Recorded
<1> QED  BY <1>5, <1>6, <1>7, <1>8 DEF Telling

\* Every step tells what it does, and of nothing else.
LEMMA TellingSteps == Control /\ Progress /\ Served /\ Telling /\ [Next]_jVars => Telling'
<1> SUFFICES ASSUME Control, Progress, Served, Telling, [Next]_jVars PROVE Telling'
  OBVIOUS
<1>1. CASE UNCHANGED jVars
  BY <1>1, SilentSteps DEF jVars, memory, findings, controlPlane
<1>2. ASSUME NEW how, NEW shown, NEW reached, End(how, shown, reached) PROVE Telling'
  BY <1>2 DEF End, Telling
<1>3. CASE Fail
  BY <1>2, <1>3 DEF Fail
<1>4. CASE Kill \/ ShowSummary \/ Finish \/ ShowReceipt
  BY <1>2, <1>3, <1>4 DEF Kill, ShowSummary, Finish, ShowReceipt
<1>5. CASE Begin
  BY <1>5, BeginTells
<1>6. CASE LoadFleet /\ ~ Fail
  BY <1>6, EarlyTells DEF LoadFleet, At, Go, findings, Early
<1>7. CASE PlanSimulation /\ ~ Fail
  BY <1>7, EarlyTells DEF PlanSimulation, PlanRun, At, Go, Early
<1>8. CASE StartDogfood /\ ~ Fail
  BY <1>8, EarlyTells DEF StartDogfood, PlanRun, At, Go, Early
<1>9. CASE CreateToken
  BY <1>9, SilentSteps DEF CreateToken, At, findings, Observed, Later, StepsOfRuns
<1>10. CASE EnrolNode /\ ~ Fail
  BY <1>10, SilentSteps DEF EnrolNode, At, findings, Observed, Later, StepsOfRuns
<1>11. CASE EnqueueCollect
  BY <1>11, SilentSteps DEF EnqueueCollect, Observing, At, findings, Observed
<1>12. CASE PullCollect
  BY <1>12, SilentSteps DEF PullCollect, Observing, At, findings, Observed
<1>13. CASE SubmitCollect
  BY <1>13, SilentSteps DEF SubmitCollect, Observing, At, findings, Observed
<1>14. CASE Observe
  BY <1>14, ObserveTells
<1>15. CASE CollectNatively /\ ~ Fail
  BY <1>15, CollectTells
<1>16. CASE Propose /\ ~ Fail
  BY <1>16, ProposeTells
<1>17. CASE RequestApproval
  <2>1. CASE ActionsNamed(Fixture.requested) = <<>>
    BY <1>2, <1>17, <2>1 DEF RequestApproval
  <2> QED  BY <1>17, <2>1, RequestTells
<1>18. CASE ApproveAction
  BY <1>18, ApproveTells
<1>19. CASE ExecuteAction /\ ~ Fail
  BY <1>19, ExecuteTells
<1>20. CASE Verify
  BY <1>20, VerifyTells
<1>21. CASE GenerateTheReceipt
  BY <1>21, ReceiptTells
<1>22. CASE Persist /\ ~ Fail
  BY <1>22, SilentSteps DEF Persist, findings, controlPlane
<1> QED  BY <1>1, <1>3, <1>4, <1>5, <1>6, <1>7, <1>8, <1>9, <1>10, <1>11, <1>12, <1>13, <1>14,
            <1>15, <1>16, <1>17, <1>18, <1>19, <1>20, <1>21, <1>22 DEF Next, Step

\* The invariants of a run at work hold throughout.
LEMMA TellingKept == Spec => [](Control /\ Progress /\ Served /\ Telling)
<1>1. Init => Served /\ Telling
  BY ServedStarts, TellingStarts
<1>2. Control /\ Progress /\ Served /\ Telling /\ [Next]_jVars => (Served /\ Telling)'
  BY ServedSteps, TellingSteps
<1> QED  BY <1>1, <1>2, ProgressKept, PTL DEF Spec

\* Tasks of different ids have as many ids as there are tasks.
LEMMA IdsAreCounted ==
  ASSUME NEW q, IsVector(q), \A i, j \in 1..Len(q) : q[i].id = q[j].id => i = j
  PROVE  Cardinality(IdsOf(q)) = Len(q)
<1> DEFINE n == Len(q)
           f == [i \in 1..n |-> q[i].id]
<1>1. n \in Nat /\ DOMAIN q = 1..n
  BY VectorIsSeq DEF IsVector
<1>2. IdsOf(q) = {q[i].id : i \in 1..n}
  BY <1>1 DEF IdsOf
<1>3. f \in Bijection(1..n, IdsOf(q))
  <2>1. f \in [1..n -> IdsOf(q)]
    BY <1>2
  <2>2. \A x, y \in 1..n : f[x] = f[y] => x = y
    OBVIOUS
  <2>3. \A t \in IdsOf(q) : \E s \in 1..n : f[s] = t
    BY <1>2
  <2> HIDE DEF f, n
  <2>4. f \in Injection(1..n, IdsOf(q))
    BY <2>1, <2>2 DEF Injection, IsInjective
  <2>5. f \in Surjection(1..n, IdsOf(q))
    BY <2>1, <2>3 DEF Surjection
  <2> QED  BY <2>4, <2>5 DEF Bijection
<1>4. ExistsBijection(1..n, IdsOf(q))
  BY <1>3 DEF ExistsBijection
<1> HIDE DEF n
<1>5. Cardinality(IdsOf(q)) = n
  BY <1>1, <1>4, FS_CountingElements
<1> QED  BY <1>5 DEF n

\* Once the helper has acted, its one deed is about the target of the run.
LEMMA DeedOfRun ==
  ASSUME Control, Progress, Telling, JourneyRunning, NEW i \in DOMAIN executed
  PROVE  /\ i = 1 /\ step \in Done /\ DOMAIN executed = {1}
         /\ executed[i].target = Target /\ executed[i].node = Node
         /\ Command.journey \in DOMAIN Journeys /\ plan = Planned
<1>1. IsVector(executed) /\ step # "idle"
  BY DEF Progress, Vectors, JourneyRunning, At
<1>2. DOMAIN executed = 1..Len(executed) /\ Len(executed) \in Nat
  BY <1>1, VectorIsSeq DEF IsVector
<1>3. executed # <<>>
  BY <1>2, VectorEmpty
<1>4. step \in Done
  BY <1>1, <1>3 DEF Progress, GateAtStep, Control, StepFits, StepsOfRuns, Early, Done, Leased,
     Recorded
<1>5. Len(executed) = 1
  BY <1>4 DEF Progress, GateAtStep, Done, Leased, Recorded
<1>6. i = 1 /\ DOMAIN executed = {1}
  BY <1>2, <1>5
<1>7. executed[1].target = Target /\ executed[1].node = Node
  BY <1>1, <1>4 DEF Telling, AboutTarget
<1>8. Command.journey \in DOMAIN Journeys
  BY CommandKnown, <1>1 DEF Control, JourneyRunning, Journeys
<1>9. plan = Planned
  BY <1>4 DEF Progress, PlanAtStep, Later, StepsOfRuns, Done, Leased, Recorded
<1> QED  BY <1>4, <1>6, <1>7, <1>8, <1>9

\* ApprovedIsPlanned: what the helper is let do is what the runbook planned, for every
\* fleet, host and evidence: the target the analyzer proposed is written, under an exclusive
\* lease, by the plan's mutating task of the same node, once all that task depends on was
\* collected, and the verification that is chosen has a check of the direct impact about
\* that target (planners of lib.rs, analyzer.rs, approval.rs, e2e.rs).
THEOREM ApprovedWasPlanned == Spec => []ApprovedIsPlanned
<1>1. ASSUME Control, Progress, Served, Telling PROVE ApprovedIsPlanned
  <2> SUFFICES ASSUME JourneyRunning, NEW i \in DOMAIN executed
      PROVE /\ executed[i].target \in ToSet(MutatingTask.writes)
            /\ [resource |-> executed[i].target, mode |-> "Exclusive"] \in MutatingTask.requests
            /\ executed[i].node = Node
            /\ Cardinality(MutatingTask.dependencies) = Len(evidence)
            /\ \A j \in DOMAIN audit : audit[j].kind = "VerificationSelected" =>
                 \E check \in ToSet(audit[j].plan.required) :
                   check.tier = "DirectImpact" /\ check.resource = executed[i].target
    BY DEF ApprovedIsPlanned
  <2>1. /\ i = 1 /\ step \in Done
        /\ executed[i].target = Target /\ executed[i].node = Node
        /\ Command.journey \in DOMAIN Journeys /\ plan = Planned
    BY <1>1, DeedOfRun
  <2>2. /\ MutatingTask.writes = <<Target>>
        /\ MutatingTask.requests = {[resource |-> Target, mode |-> "Exclusive"]}
        /\ MutatingTask.dependencies = IdsOf(RunCollectors)
    BY <2>1, PlanOfRun
  <2>3. ToSet(<<Target>>) = {Target}
    BY OneEntry
  <2>4. Tells /\ EvidenceAtStep
    BY <1>1, <2>1 DEF Telling, Done, Leased, Recorded
  <2>5. Cardinality(MutatingTask.dependencies) = Len(evidence)
    <3>1. Len(evidence) = Len(RunCollectors)
      BY <2>1, <2>4 DEF EvidenceAtStep, Observed, Later, StepsOfRuns, Done, Leased, Recorded
    <3>2. Cardinality(IdsOf(RunCollectors)) = Len(RunCollectors)
      BY <2>1, CollectorsCollect, IdsAreCounted
    <3> QED  BY <2>2, <3>1, <3>2
  <2>6. ASSUME NEW j \in DOMAIN audit, audit[j].kind = "VerificationSelected"
        PROVE  \E check \in ToSet(audit[j].plan.required) :
                 check.tier = "DirectImpact" /\ check.resource = Target
    <3>1. audit[j] \in ToSet(audit)
      BY DEF ToSet
    <3>2. audit[j].plan = Chosen
      BY <2>4, <2>6, <3>1 DEF Tells, EventFits
    <3> QED  BY <2>1, <3>2, ChosenFits
  <2> QED  BY <2>1, <2>2, <2>3, <2>5, <2>6
<1> QED  BY <1>1, TellingKept, PTL

-----------------------------------------------------------------------------
(* What a receipt says of the events it is made of.                        *)

\* The parts of a receipt.
PartNames == DOMAIN NoParts
IsParts(parts) == parts = [x \in PartNames |-> parts[x]]

\* What one event does to the parts.
LEMMA ApplyParts ==
  ASSUME NEW parts, IsParts(parts), NEW e
  PROVE  LET p == Apply(parts, e)
         IN  /\ IsParts(p)
             /\ p.node = IF e.kind = "IncidentCreated" THEN e.node ELSE parts.node
             /\ p.evidence = IF e.kind = "EvidenceCollected" THEN Append(parts.evidence, e.source)
                             ELSE parts.evidence
             /\ \/ p.approval = parts.approval
                \/ e.kind = "ApprovalDecision" /\ p.approval = e.id
                \/ e.kind = "CapabilityLeaseIssued" /\ p.approval = e.approval
             /\ p.lease = IF e.kind = "CapabilityLeaseIssued" THEN e.lease ELSE parts.lease
             /\ p.changed = IF e.kind \in {"ResourceLeaseGranted", "ActionResult"}
                            THEN parts.changed \cup {e.resource} ELSE parts.changed
             /\ p.action = IF e.kind = "ActionResult" THEN e.action ELSE parts.action
             /\ p.checks = IF e.kind = "VerificationSelected" THEN parts.checks \o e.plan.required
                           ELSE parts.checks
             /\ p.completed = IF e.kind = "VerificationCompleted"
                              THEN Append(parts.completed, <<e.check, e.resource>>) ELSE parts.completed
             /\ p.skipped = IF e.kind = "VerificationSelected" THEN parts.skipped \cup ToSet(e.plan.skipped)
                            ELSE IF e.kind = "VerificationSkipped" THEN parts.skipped \cup {e.check}
                            ELSE parts.skipped
<1>0. PartNames = {"incident", "node", "evidence", "proposal", "approval", "lease", "changed", "action",
                   "status", "checks", "completed", "skipped"}
  BY DEF PartNames, NoParts
<1>1. CASE e.kind = "IncidentCreated"
  <2>1. Apply(parts, e) = [parts EXCEPT !.incident = e.incident, !.node = e.node]
    BY <1>1 DEF Apply
  <2> QED  BY <1>0, <1>1, <2>1 DEF IsParts
<1>2. CASE e.kind = "EvidenceCollected"
  <2>1. Apply(parts, e) = [parts EXCEPT !.evidence = Append(@, e.source)]
    BY <1>2 DEF Apply
  <2> QED  BY <1>0, <1>2, <2>1 DEF IsParts
<1>3. CASE e.kind = "ProposalGenerated"
  <2>1. Apply(parts, e) = [parts EXCEPT !.proposal = e.proposal]
    BY <1>3 DEF Apply
  <2> QED  BY <1>0, <1>3, <2>1 DEF IsParts
<1>4. CASE e.kind = "ApprovalDecision"
  <2>1. Apply(parts, e) = IF e.outcome = "Approved" THEN [parts EXCEPT !.approval = e.id] ELSE parts
    BY <1>4 DEF Apply
  <2> QED  BY <1>0, <1>4, <2>1 DEF IsParts
<1>5. CASE e.kind = "CapabilityLeaseIssued"
  <2>1. Apply(parts, e) = [parts EXCEPT !.lease = e.lease, !.approval = IF @ = "none" THEN e.approval ELSE @]
    BY <1>5 DEF Apply
  <2> QED  BY <1>0, <1>5, <2>1 DEF IsParts
<1>6. CASE e.kind = "ResourceLeaseGranted"
  <2>1. Apply(parts, e) = [parts EXCEPT !.changed = @ \cup {e.resource}]
    BY <1>6 DEF Apply
  <2> QED  BY <1>0, <1>6, <2>1 DEF IsParts
<1>7. CASE e.kind = "ActionResult"
  <2>1. Apply(parts, e) = [parts EXCEPT !.action = e.action, !.status = e.status,
                                        !.changed = @ \cup {e.resource}]
    BY <1>7 DEF Apply
  <2> QED  BY <1>0, <1>7, <2>1 DEF IsParts
<1>8. CASE e.kind = "VerificationSelected"
  <2>1. Apply(parts, e) = [parts EXCEPT !.checks = @ \o e.plan.required,
                                        !.skipped = @ \cup ToSet(e.plan.skipped)]
    BY <1>8 DEF Apply
  <2> QED  BY <1>0, <1>8, <2>1 DEF IsParts
<1>9. CASE e.kind = "VerificationCompleted"
  <2>1. Apply(parts, e) = [parts EXCEPT !.completed = Append(@, <<e.check, e.resource>>)]
    BY <1>9 DEF Apply
  <2> QED  BY <1>0, <1>9, <2>1 DEF IsParts
<1>10. CASE e.kind = "VerificationSkipped"
  <2>1. Apply(parts, e) = [parts EXCEPT !.skipped = @ \cup {e.check}]
    BY <1>10 DEF Apply
  <2> QED  BY <1>0, <1>10, <2>1 DEF IsParts
<1>11. CASE e.kind \notin {"IncidentCreated", "EvidenceCollected", "ProposalGenerated", "ApprovalDecision",
                           "CapabilityLeaseIssued", "ResourceLeaseGranted", "ActionResult",
                           "VerificationSelected", "VerificationCompleted", "VerificationSkipped"}
  <2>1. Apply(parts, e) = parts
    BY <1>11 DEF Apply
  <2> QED  BY <1>11, <2>1
<1> QED  BY <1>1, <1>2, <1>3, <1>4, <1>5, <1>6, <1>7, <1>8, <1>9, <1>10, <1>11

\* The events of one kind.
Of(kind, events) == {e \in events : e.kind = kind}

\* Every part of a receipt was said by an event, and no deed and no check is left out.
SaidBy(parts, events) ==
  /\ IsParts(parts) /\ IsVector(parts.checks) /\ IsVector(parts.completed)
  /\ parts.node # "none" => \E e \in Of("IncidentCreated", events) : e.node = parts.node
  /\ parts.approval # "none" =>
       \/ \E e \in Of("ApprovalDecision", events) : e.id = parts.approval
       \/ \E e \in Of("CapabilityLeaseIssued", events) : e.approval = parts.approval
  /\ parts.lease # "none" => \E e \in Of("CapabilityLeaseIssued", events) : e.lease = parts.lease
  /\ parts.changed =
       {e.resource : e \in Of("ResourceLeaseGranted", events) \cup Of("ActionResult", events)}
  /\ parts.action # "none" => \E e \in Of("ActionResult", events) : e.action = parts.action
  /\ \A check \in ToSet(parts.checks) :
       \E e \in Of("VerificationSelected", events) : check \in ToSet(e.plan.required)
  /\ ToSet(parts.completed) = {<<e.check, e.resource>> : e \in Of("VerificationCompleted", events)}
  /\ \A id \in parts.skipped :
       \/ \E e \in Of("VerificationSelected", events) : id \in ToSet(e.plan.skipped)
       \/ \E e \in Of("VerificationSkipped", events) : id = e.check

\* No event says nothing.
LEMMA NothingSaid == SaidBy(NoParts, {})
<1>1. ToSet(<<>>) = {}
  BY DEF ToSet
<1> QED  BY <1>1, VectorEmpty DEF SaidBy, NoParts, IsParts, PartNames, Of

\* One more event is applied.
LEMMA OneMoreSaid ==
  ASSUME NEW parts, NEW events, SaidBy(parts, events),
         NEW e, e.kind = "VerificationSelected" => IsVector(e.plan.required)
  PROVE  SaidBy(Apply(parts, e), events \cup {e})
<1> DEFINE p == Apply(parts, e)
           more == events \cup {e}
<1>1. IsParts(parts) /\ IsVector(parts.checks) /\ IsVector(parts.completed)
  BY DEF SaidBy
<1>2. /\ IsParts(p)
      /\ p.node = IF e.kind = "IncidentCreated" THEN e.node ELSE parts.node
      /\ \/ p.approval = parts.approval
         \/ e.kind = "ApprovalDecision" /\ p.approval = e.id
         \/ e.kind = "CapabilityLeaseIssued" /\ p.approval = e.approval
      /\ p.lease = IF e.kind = "CapabilityLeaseIssued" THEN e.lease ELSE parts.lease
      /\ p.changed = IF e.kind \in {"ResourceLeaseGranted", "ActionResult"}
                     THEN parts.changed \cup {e.resource} ELSE parts.changed
      /\ p.action = IF e.kind = "ActionResult" THEN e.action ELSE parts.action
      /\ p.checks = IF e.kind = "VerificationSelected" THEN parts.checks \o e.plan.required ELSE parts.checks
      /\ p.completed = IF e.kind = "VerificationCompleted"
                       THEN Append(parts.completed, <<e.check, e.resource>>) ELSE parts.completed
      /\ p.skipped = IF e.kind = "VerificationSelected" THEN parts.skipped \cup ToSet(e.plan.skipped)
                     ELSE IF e.kind = "VerificationSkipped" THEN parts.skipped \cup {e.check}
                     ELSE parts.skipped
  BY <1>1, ApplyParts
<1> HIDE DEF p
<1>3. \A kind : /\ e.kind = kind => Of(kind, more) = Of(kind, events) \cup {e}
                /\ e.kind # kind => Of(kind, more) = Of(kind, events)
                /\ Of(kind, events) \subseteq Of(kind, more)
  BY DEF Of
<1>4. p.node # "none" => \E x \in Of("IncidentCreated", more) : x.node = p.node
  BY <1>2, <1>3 DEF SaidBy
<1>5. p.approval # "none" =>
        \/ \E x \in Of("ApprovalDecision", more) : x.id = p.approval
        \/ \E x \in Of("CapabilityLeaseIssued", more) : x.approval = p.approval
  BY <1>2, <1>3 DEF SaidBy
<1>6. p.lease # "none" => \E x \in Of("CapabilityLeaseIssued", more) : x.lease = p.lease
  BY <1>2, <1>3 DEF SaidBy
<1>7. p.changed = {x.resource : x \in Of("ResourceLeaseGranted", more) \cup Of("ActionResult", more)}
  <2>1. parts.changed = {x.resource : x \in Of("ResourceLeaseGranted", events) \cup Of("ActionResult", events)}
    BY DEF SaidBy
  <2>2. CASE e.kind = "ResourceLeaseGranted"
    <3>1. Of("ResourceLeaseGranted", more) = Of("ResourceLeaseGranted", events) \cup {e}
          /\ Of("ActionResult", more) = Of("ActionResult", events)
      BY <1>3, <2>2
    <3> QED  BY <1>2, <2>1, <2>2, <3>1
  <2>3. CASE e.kind = "ActionResult"
    <3>1. Of("ActionResult", more) = Of("ActionResult", events) \cup {e}
          /\ Of("ResourceLeaseGranted", more) = Of("ResourceLeaseGranted", events)
      BY <1>3, <2>3
    <3> QED  BY <1>2, <2>1, <2>3, <3>1
  <2>4. CASE e.kind \notin {"ResourceLeaseGranted", "ActionResult"}
    <3>1. Of("ActionResult", more) = Of("ActionResult", events)
          /\ Of("ResourceLeaseGranted", more) = Of("ResourceLeaseGranted", events)
      BY <1>3, <2>4
    <3> QED  BY <1>2, <2>1, <2>4, <3>1
  <2> QED  BY <2>2, <2>3, <2>4
<1>8. p.action # "none" => \E x \in Of("ActionResult", more) : x.action = p.action
  BY <1>2, <1>3 DEF SaidBy
<1>9. /\ IsVector(p.checks)
      /\ \A check \in ToSet(p.checks) : \E x \in Of("VerificationSelected", more) : check \in ToSet(x.plan.required)
  <2>1. \A check \in ToSet(parts.checks) :
          \E x \in Of("VerificationSelected", events) : check \in ToSet(x.plan.required)
    BY DEF SaidBy
  <2>2. CASE e.kind = "VerificationSelected"
    <3>1. PICK a : a = parts.checks
      OBVIOUS
    <3>2. PICK b : b = e.plan.required
      OBVIOUS
    <3>3. IsVector(a \o b) /\ ToSet(a \o b) = ToSet(a) \cup ToSet(b)
      BY <1>1, <2>2, <3>1, <3>2, VectorConcat, ToSetConcat
    <3>4. p.checks = a \o b
      BY <1>2, <2>2, <3>1, <3>2
    <3>5. e \in Of("VerificationSelected", more)
      BY <2>2 DEF Of
    <3> QED  BY <1>3, <2>1, <3>1, <3>2, <3>3, <3>4, <3>5
  <2>3. CASE e.kind # "VerificationSelected"
    BY <1>1, <1>2, <1>3, <2>1, <2>3
  <2> QED  BY <2>2, <2>3
<1>10. /\ IsVector(p.completed)
       /\ ToSet(p.completed) = {<<x.check, x.resource>> : x \in Of("VerificationCompleted", more)}
  <2>1. ToSet(parts.completed) = {<<x.check, x.resource>> : x \in Of("VerificationCompleted", events)}
    BY DEF SaidBy
  <2>2. CASE e.kind = "VerificationCompleted"
    <3>1. PICK a : a = parts.completed
      OBVIOUS
    <3>2. PICK b : b = <<e.check, e.resource>>
      OBVIOUS
    <3>3. IsVector(Append(a, b)) /\ ToSet(Append(a, b)) = ToSet(a) \cup {b}
      BY <1>1, <3>1, VectorAppend, ToSetOneMore
    <3>4. p.completed = Append(a, b)
      BY <1>2, <2>2, <3>1, <3>2
    <3>5. Of("VerificationCompleted", more) = Of("VerificationCompleted", events) \cup {e}
      BY <1>3, <2>2
    <3> QED  BY <2>1, <3>1, <3>2, <3>3, <3>4, <3>5
  <2>3. CASE e.kind # "VerificationCompleted"
    <3>1. Of("VerificationCompleted", more) = Of("VerificationCompleted", events)
      BY <1>3, <2>3
    <3> QED  BY <1>1, <1>2, <2>1, <2>3, <3>1
  <2> QED  BY <2>2, <2>3
<1>11. \A id \in p.skipped :
         \/ \E x \in Of("VerificationSelected", more) : id \in ToSet(x.plan.skipped)
         \/ \E x \in Of("VerificationSkipped", more) : id = x.check
  <2>1. \A id \in parts.skipped :
          \/ \E x \in Of("VerificationSelected", events) : id \in ToSet(x.plan.skipped)
          \/ \E x \in Of("VerificationSkipped", events) : id = x.check
    BY DEF SaidBy
  <2>2. \A id \in parts.skipped :
          \/ \E x \in Of("VerificationSelected", more) : id \in ToSet(x.plan.skipped)
          \/ \E x \in Of("VerificationSkipped", more) : id = x.check
    BY <1>3, <2>1
  <2>3. CASE e.kind = "VerificationSelected"
    <3>1. e \in Of("VerificationSelected", more) /\ p.skipped = parts.skipped \cup ToSet(e.plan.skipped)
      BY <1>2, <2>3 DEF Of
    <3> QED  BY <2>2, <3>1
  <2>4. CASE e.kind = "VerificationSkipped"
    <3>1. e \in Of("VerificationSkipped", more) /\ p.skipped = parts.skipped \cup {e.check}
      BY <1>2, <2>4 DEF Of
    <3> QED  BY <2>2, <3>1
  <2>5. CASE e.kind \notin {"VerificationSelected", "VerificationSkipped"}
    BY <1>2, <2>2, <2>5
  <2> QED  BY <2>3, <2>4, <2>5
<1>12. SaidBy(p, more)
  BY <1>2, <1>4, <1>5, <1>6, <1>7, <1>8, <1>9, <1>10, <1>11 DEF SaidBy
<1> QED  BY <1>12 DEF p

\* So a receipt says what the events of its run say.
LEMMA PartsSaid ==
  ASSUME NEW q, IsVector(q), NEW run,
         \A e \in ToSet(q) : e.kind = "VerificationSelected" => IsVector(e.plan.required)
  PROVE  SaidBy(CollectParts(run, q), {e \in ToSet(q) : e.run = run})
<1> DEFINE Events(n) == {e \in {q[i] : i \in 1..n} : e.run = run}
<1>1. Len(q) \in Nat /\ ToSet(q) = {q[i] : i \in 1..Len(q)}
  <2>1. Len(q) \in Nat /\ DOMAIN q = 1..Len(q)
    BY VectorIsSeq DEF IsVector
  <2> QED  BY <2>1 DEF ToSet
<1>2. PICK f : FoldsUpTo(f, Len(q), run, q) /\ CollectParts(run, q) = f[Len(q)]
  BY PartsAreFolded
<1> DEFINE Holds == {n \in 0..Len(q) : SaidBy(f[n], Events(n))}
<1>3. 0 \in Holds
  <2>1. Events(0) = {} /\ f[0] = NoParts
    BY <1>2 DEF FoldsUpTo
  <2> QED  BY <1>1, <2>1, NothingSaid
<1>4. ASSUME NEW n \in 1..Len(q), n - 1 \in Holds PROVE n \in Holds
  <2>1. SaidBy(f[n - 1], Events(n - 1))
    BY <1>4
  <2>2. f[n] = Taken(run, f[n - 1], q[n])
    BY <1>2 DEF FoldsUpTo
  <2>3. {q[i] : i \in 1..n} = {q[i] : i \in 1..(n - 1)} \cup {q[n]}
    <3>1. 1..n = 1..(n - 1) \cup {n}
      BY <1>1
    <3> QED  BY <3>1
  <2>4. CASE q[n].run = run
    <3>1. Events(n) = Events(n - 1) \cup {q[n]}
      BY <2>3, <2>4
    <3>2. f[n] = Apply(f[n - 1], q[n])
      BY <2>2, <2>4 DEF Taken
    <3>3. q[n].kind = "VerificationSelected" => IsVector(q[n].plan.required)
      BY <1>1
    <3> HIDE DEF Events
    <3>4. SaidBy(f[n], Events(n))
      BY <2>1, <3>1, <3>2, <3>3, OneMoreSaid
    <3> QED  BY <1>1, <3>4
  <2>5. CASE q[n].run # run
    <3>1. Events(n) = Events(n - 1)
      BY <2>3, <2>5
    <3>2. f[n] = f[n - 1]
      BY <2>2, <2>5 DEF Taken
    <3> HIDE DEF Events
    <3>3. SaidBy(f[n], Events(n))
      BY <2>1, <3>1, <3>2
    <3> QED  BY <1>1, <3>3
  <2> QED  BY <2>4, <2>5
<1>5. Len(q) \in Holds
  <2>1. Holds \in SUBSET (0..Len(q))
    OBVIOUS
  <2> HIDE DEF Holds
  <2>2. Holds = 0..Len(q)
    BY <1>1, <1>3, <1>4, <2>1, UpToInduction
  <2> QED  BY <1>1, <2>2
<1> QED  BY <1>1, <1>2, <1>5

\* The sources of events about evidence.
Sources(q) == [i \in 1..Len(q) |-> q[i].source]

LEMMA SourcesOfNone == Sources(<<>>) = <<>>
<1> DEFINE f == Sources(<<>>)
<1>1. Len(<<>>) = 0 /\ 1..0 = {}
  BY VectorEmpty
<1>2. f = [x \in {} |-> f[x]]
  BY <1>1 DEF Sources
<1> HIDE DEF f
<1>3. f = <<>>
  BY <1>2, EmptyFunction
<1> QED  BY <1>3 DEF f

\* One source more.
LEMMA SourcesAppended ==
  ASSUME NEW v, IsVector(v), NEW e
  PROVE  Sources(Append(v, e)) = Append(Sources(v), e.source)
<1> DEFINE w == Append(v, e)
           p == Sources(v)
           r == Sources(w)
           a == Append(p, e.source)
<1>1. /\ Len(v) \in Nat /\ Len(w) = Len(v) + 1 /\ w[Len(v) + 1] = e
      /\ \A i \in 1..Len(v) : w[i] = v[i]
  BY VectorAppend DEF IsVector
<1>2. IsVector(p) /\ Len(p) = Len(v)
  <2>1. DOMAIN p = 1..Len(v) /\ p = [i \in 1..Len(v) |-> p[i]]
    BY DEF Sources
  <2> HIDE DEF p
  <2> QED  BY <1>1, <2>1, VectorOf
<1> HIDE DEF w, p
<1>3. /\ IsVector(a) /\ Len(a) = Len(v) + 1 /\ a[Len(v) + 1] = e.source
      /\ \A i \in 1..Len(v) : a[i] = p[i]
  BY <1>2, VectorAppend
<1>4. DOMAIN a = 1..(Len(v) + 1) /\ r = [i \in 1..(Len(v) + 1) |-> w[i].source]
  BY <1>1, <1>3, VectorIsSeq DEF Sources
<1>5. \A i \in 1..(Len(v) + 1) : w[i].source = a[i]
  <2> TAKE i \in 1..(Len(v) + 1)
  <2>1. CASE i \in 1..Len(v)
    <3>1. p[i] = v[i].source
      BY <2>1 DEF p, Sources
    <3> QED  BY <1>1, <1>3, <2>1, <3>1
  <2>2. CASE i = Len(v) + 1
    BY <1>1, <1>3, <2>2
  <2>3. i \in 1..Len(v) \/ i = Len(v) + 1
    BY <1>1
  <2> QED  BY <2>1, <2>2, <2>3
<1>6. a = [i \in 1..(Len(v) + 1) |-> a[i]]
  BY <1>3 DEF IsVector
<1> HIDE DEF a, r
<1>7. r = a
  BY <1>4, <1>5, <1>6
<1> QED  BY <1>7 DEF r, a, p, w

\* The evidence of a receipt is all that its run collected, in the order of the ledger.
LEMMA EvidenceSaid ==
  ASSUME NEW q, IsVector(q), NEW run, \A e \in ToSet(q) : e.run = run
  PROVE  CollectParts(run, q).evidence = Sources(AllWith(q, "kind", "EvidenceCollected"))
<1> DEFINE S == {q[i] : i \in 1..Len(q)}
           X == {"EvidenceCollected"}
<1>1. q \in Seq(S) /\ Len(q) \in Nat
  BY VectorIsSeq DEF IsVector
<1>2. \A n \in 1..Len(q) : q[n].run = run /\ q[n] \in S
  BY VectorIsSeq DEF ToSet
<1> HIDE DEF S
<1>3. PICK f : FoldsUpTo(f, Len(q), run, q) /\ CollectParts(run, q) = f[Len(q)]
  BY PartsAreFolded
<1>4. PICK g : CollectsUpTo(g, Len(q), S, q, "kind", X) /\ AllWithin(q, "kind", X) = g[Len(q)]
  BY <1>1, AllWithinCollects
<1>5. /\ g[0] = <<>>
      /\ \A n \in 0..Len(q) : g[n] \in Seq(S)
      /\ \A n \in 1..Len(q) :
           g[n] = IF q[n]["kind"] \in X THEN Append(g[n - 1], q[n]) ELSE g[n - 1]
  BY <1>4 DEF CollectsUpTo
<1> DEFINE Holds == {n \in 0..Len(q) : IsParts(f[n]) /\ f[n].evidence = Sources(g[n])}
<1>6. 0 \in Holds
  <2>1. f[0] = NoParts
    BY <1>3 DEF FoldsUpTo
  <2>2. IsParts(NoParts) /\ NoParts.evidence = <<>>
    BY DEF NoParts, IsParts, PartNames
  <2>3. f[0].evidence = Sources(g[0])
    BY <1>5, <2>1, <2>2, SourcesOfNone
  <2> QED  BY <1>1, <2>1, <2>2, <2>3
<1>7. ASSUME NEW n \in 1..Len(q), n - 1 \in Holds PROVE n \in Holds
  <2>1. IsParts(f[n - 1]) /\ f[n - 1].evidence = Sources(g[n - 1])
    BY <1>7
  <2>2. f[n] = Apply(f[n - 1], q[n])
    BY <1>2, <1>3 DEF FoldsUpTo, Taken
  <2>3. PICK parts : parts = f[n - 1]
    OBVIOUS
  <2>4. PICK e : e = q[n]
    OBVIOUS
  <2>5. LET p == Apply(parts, e)
        IN  /\ IsParts(p)
            /\ p.evidence = IF e.kind = "EvidenceCollected" THEN Append(parts.evidence, e.source)
                            ELSE parts.evidence
    <3>1. IsParts(parts)
      BY <2>1, <2>3
    <3> QED  BY <3>1, ApplyParts
  <2>6. /\ IsParts(f[n])
        /\ f[n].evidence = IF e.kind = "EvidenceCollected" THEN Append(parts.evidence, e.source)
                           ELSE parts.evidence
    BY <2>2, <2>3, <2>4, <2>5
  <2>7. IsVector(g[n - 1])
    <3>1. n - 1 \in 0..Len(q)
      BY <1>1
    <3> QED  BY <1>5, <3>1, SeqIsVector
  <2>8. CASE e.kind = "EvidenceCollected"
    <3>1. PICK v : v = g[n - 1]
      OBVIOUS
    <3>2. g[n] = Append(v, e)
      BY <1>5, <2>4, <2>8, <3>1
    <3>3. Sources(Append(v, e)) = Append(Sources(v), e.source)
      BY <2>7, <3>1, SourcesAppended
    <3>4. f[n].evidence = Sources(g[n])
      BY <2>1, <2>3, <2>6, <2>8, <3>1, <3>2, <3>3
    <3> QED  BY <1>1, <2>6, <3>4
  <2>9. CASE e.kind # "EvidenceCollected"
    <3>1. g[n] = g[n - 1]
      BY <1>5, <2>4, <2>9
    <3>2. f[n].evidence = Sources(g[n])
      BY <2>1, <2>3, <2>6, <2>9, <3>1
    <3> QED  BY <1>1, <2>6, <3>2
  <2> QED  BY <2>8, <2>9
<1>8. Len(q) \in Holds
  <2>1. Holds \in SUBSET (0..Len(q))
    OBVIOUS
  <2> HIDE DEF Holds
  <2>2. Holds = 0..Len(q)
    BY <1>1, <1>6, <1>7, <2>1, UpToInduction
  <2> QED  BY <1>1, <2>2
<1>9. AllWith(q, "kind", "EvidenceCollected") = g[Len(q)]
  BY <1>4 DEF AllWith
<1> QED  BY <1>3, <1>8, <1>9

\* The events of a run at work, all of which are about it, say what the run is about.
LEMMA RunSaid ==
  ASSUME Control, Progress, Telling, step # "idle", Command.journey \in DOMAIN Journeys
  PROVE  /\ SaidBy(CollectParts(Fixture.run, audit), ToSet(audit))
         /\ \A e \in ToSet(audit) : EventFits(e)
<1>1. IsVector(audit) /\ \A e \in ToSet(audit) : EventFits(e)
  BY DEF Progress, Vectors, Telling, Tells
<1>2. \A e \in ToSet(audit) : e.run = Fixture.run /\ (e.kind = "VerificationSelected" => e.plan = Chosen)
  BY <1>1 DEF EventFits
<1>3. \A e \in ToSet(audit) : e.kind = "VerificationSelected" => IsVector(e.plan.required)
  BY <1>2, ChosenFits
<1>4. {e \in ToSet(audit) : e.run = Fixture.run} = ToSet(audit)
  BY <1>2
<1>5. PICK run : run = Fixture.run
  OBVIOUS
<1>6. PICK q : q = audit
  OBVIOUS
<1>7. SaidBy(CollectParts(run, q), {e \in ToSet(q) : e.run = run})
  BY <1>1, <1>3, <1>6, PartsSaid
<1> QED  BY <1>1, <1>4, <1>5, <1>6, <1>7

\* The evidence that is told is the evidence that was taken.
LEMMA EvidenceOfRun ==
  ASSUME Control, Progress, Telling, step \in Observed
  PROVE  CollectParts(Fixture.run, audit).evidence = EvidenceTaken
<1>1. /\ IsVector(audit) /\ IsVector(evidence) /\ IsVector(acceptedResults)
      /\ Tells /\ EvidenceAtStep
  BY DEF Progress, Vectors, Telling, Observed, Later, StepsOfRuns
<1>2. \A e \in ToSet(audit) : e.run = Fixture.run
  BY <1>1 DEF Tells, EventFits
<1>3. DOMAIN evidence = 1..Len(evidence) /\ Len(evidence) \in Nat
      /\ DOMAIN acceptedResults = 1..Len(acceptedResults)
  BY <1>1, VectorIsSeq DEF IsVector
<1>4. PICK run : run = Fixture.run
  OBVIOUS
<1>5. CollectParts(run, audit).evidence = Sources(AllWith(audit, "kind", "EvidenceCollected"))
  BY <1>1, <1>2, <1>4, EvidenceSaid
<1> DEFINE p == [i \in 1..Len(evidence) |-> EvidenceCollected(evidence[i])]
<1>6. AllWith(audit, "kind", "EvidenceCollected") = p
  BY <1>1 DEF Tells
<1>7. Len(p) = Len(evidence)
  BY <1>1, EvidenceIsTold
<1>8. \A i \in 1..Len(evidence) : p[i].source = evidence[i].source
  BY DEF EvidenceCollected
<1> HIDE DEF p
<1>9. Sources(p) = [i \in 1..Len(evidence) |-> evidence[i].source]
  BY <1>7, <1>8 DEF Sources
<1>10. [i \in 1..Len(evidence) |-> evidence[i].source] = EvidenceTaken
  <2>1. CASE Dogfood
    BY <1>3, <2>1 DEF EvidenceTaken
  <2>2. CASE ~ Dogfood
    BY <1>1, <1>3, <2>2 DEF EvidenceTaken, EvidenceAtStep
  <2> QED  BY <2>1, <2>2
<1> QED  BY <1>4, <1>5, <1>6, <1>9, <1>10

\* ReceiptTellsWhatHappened: whenever the ledger of a journey yields a receipt, the approval
\* it names is the store's, approved; the action and the only resource it calls changed are
\* those the helper accepted under a lease of that approval; and its evidence is what the
\* control plane accepted, or the collectors returned, in that order, whatever the fleet,
\* the host and the answers (receipt.rs, e2e.rs, runlane-agent/src/main.rs).
THEOREM ReceiptIsTrue == Spec => []ReceiptTellsWhatHappened
<1>1. ASSUME Control, Progress, Served, Telling PROVE ReceiptTellsWhatHappened
  <2> DEFINE told == GenerateReceipt(Fixture.run, audit)
  <2> SUFFICES ASSUME JourneyRunning, told # NoReceipt
      PROVE /\ told.node = Node
            /\ told.evidence = EvidenceTaken
            /\ \E r \in ToSet(records) : r.id = told.approval /\ r.state = "Approved"
            /\ \E deed \in ToSet(executed), lease \in ToSet(leases) :
                 /\ lease.claims.lease = told.lease
                 /\ {lease.claims.approval, deed.approval} = {told.approval}
                 /\ told.action = deed.action
                 /\ told.changed = {deed.target}
    BY DEF ReceiptTellsWhatHappened
  <2>1. Complete(told) /\ told = CollectParts(Fixture.run, audit)
    BY DEF GenerateReceipt
  <2> HIDE DEF told
  <2>2. step # "idle" /\ Command.journey \in DOMAIN Journeys
    BY <1>1, CommandKnown DEF JourneyRunning, At, Control, Journeys
  <2>3. SaidBy(told, ToSet(audit)) /\ \A e \in ToSet(audit) : EventFits(e)
    BY <1>1, <2>1, <2>2, RunSaid
  <2>4. /\ told["node"] # "none" /\ told["approval"] # "none" /\ told["lease"] # "none"
        /\ told["action"] # "none"
    BY <2>1 DEF Complete
  <2>5. told.node = Node
    BY <2>3, <2>4 DEF SaidBy, Of, EventFits
  <2>6. told.approval = Fixture.approval
    BY <2>3, <2>4 DEF SaidBy, Of, EventFits
  <2>7. told.lease = Fixture.approval
    BY <2>3, <2>4 DEF SaidBy, Of, EventFits
  <2>8. PICK result \in ToSet(audit) : result.kind = "ActionResult" /\ result.action = told.action
    BY <2>3, <2>4 DEF SaidBy, Of
  <2>9. told.action = Fixture.action
    BY <2>3, <2>8 DEF EventFits
  <2>10. told.changed = {Target}
    <3>1. told.changed =
            {e.resource : e \in Of("ResourceLeaseGranted", ToSet(audit)) \cup Of("ActionResult", ToSet(audit))}
      BY <2>3 DEF SaidBy
    <3>2. \A e \in Of("ResourceLeaseGranted", ToSet(audit)) \cup Of("ActionResult", ToSet(audit)) :
            e.resource = Target
      BY <2>3 DEF Of, EventFits
    <3>3. result \in Of("ActionResult", ToSet(audit))
      BY <2>8 DEF Of
    <3> QED  BY <3>1, <3>2, <3>3
  <2>11. step \in Done
    BY <1>1, <2>2, <2>8 DEF Telling, TellsAtStep
  <2>12. told.evidence = EvidenceTaken
    BY <1>1, <2>1, <2>11, EvidenceOfRun DEF Observed, Later, StepsOfRuns, Done, Leased, Recorded
  <2>13. /\ records[1].id = Fixture.approval /\ records[1].state = "Approved"
         /\ leases[1].claims.lease = Fixture.approval /\ leases[1].claims.approval = Fixture.approval
         /\ executed[1].approval = Fixture.approval /\ executed[1].action = Fixture.action
         /\ executed[1].target = Target
    BY <1>1, <2>2, <2>11 DEF Telling, AboutTarget, Done, Leased, Recorded
  <2>14. records[1] \in ToSet(records) /\ leases[1] \in ToSet(leases) /\ executed[1] \in ToSet(executed)
    <3>1. Len(records) = 1 /\ Len(leases) = 1 /\ Len(executed) = 1
      BY <1>1, <2>11 DEF Progress, GateAtStep, Done, Leased, Recorded
    <3>2. IsVector(records) /\ IsVector(leases) /\ IsVector(executed)
      BY <1>1 DEF Progress, Vectors
    <3>3. 1 \in DOMAIN records /\ 1 \in DOMAIN leases /\ 1 \in DOMAIN executed
      BY <3>1, <3>2, VectorIsSeq
    <3> QED  BY <3>3 DEF ToSet
  <2> QED  BY <2>5, <2>6, <2>7, <2>9, <2>10, <2>12, <2>13, <2>14
<1> QED  BY <1>1, TellingKept, PTL

-----------------------------------------------------------------------------
(* What receipts say of checks.                                            *)

\* A choice of checks settles if none of them is required and skipped.
Settles(v) ==
  /\ IsVector(v.required) /\ IsVector(v.skipped)
  /\ \A check \in ToSet(v.required) : check.id \notin ToSet(v.skipped)

\* What an event says of checks agrees with a choice of them.
EventSettles(e, v) ==
  /\ e.kind = "VerificationSelected" => e.plan = v
  /\ e.kind = "VerificationCompleted" => \E check \in ToSet(v.required) : e.check = check.id
  /\ e.kind = "VerificationSkipped" => e.check \in ToSet(v.skipped)

NoneBoth(shown) ==
  shown # NoReceipt => \A done \in ToSet(shown.completed) : done[1] \notin shown.skipped

AllVerified(shown) ==
  shown # NoReceipt =>
    \A check \in ToSet(shown.checks) : <<check.id, check.resource>> \in ToSet(shown.completed)

\* The invariant of what receipts say of checks: the state directory holds the events of
\* one choice, however many commands appended to it.
Settled ==
  /\ \E v : Settles(v) /\ \A e \in ToSet(file) : EventSettles(e, v)
  /\ \A i \in 1..Len(ended) : NoneBoth(ended[i].shown)
  /\ AllVerified(receipt)

\* Events of one choice make no receipt that calls a check both verified and skipped.
LEMMA ReceiptsSettle ==
  ASSUME NEW q, IsVector(q), NEW v, Settles(v), \A e \in ToSet(q) : EventSettles(e, v), NEW run
  PROVE  NoneBoth(GenerateReceipt(run, q))
<1> DEFINE parts == CollectParts(run, q)
           events == {e \in ToSet(q) : e.run = run}
<1>1. \A e \in ToSet(q) : e.kind = "VerificationSelected" => IsVector(e.plan.required)
  BY DEF Settles, EventSettles
<1>2. SaidBy(parts, events)
  BY <1>1, PartsSaid
<1>3. \A e \in events : EventSettles(e, v)
  OBVIOUS
<1> HIDE DEF events, parts
<1>4. \A done \in ToSet(parts.completed) : \E check \in ToSet(v.required) : done[1] = check.id
  BY <1>2, <1>3 DEF SaidBy, Of, EventSettles
<1>5. \A id \in parts.skipped : id \in ToSet(v.skipped)
  BY <1>2, <1>3 DEF SaidBy, Of, EventSettles
<1>6. \A done \in ToSet(parts.completed) : done[1] \notin parts.skipped
  BY <1>4, <1>5 DEF Settles
<1>7. GenerateReceipt(run, q) # NoReceipt => GenerateReceipt(run, q) = parts
  BY DEF GenerateReceipt, parts
<1> QED  BY <1>6, <1>7 DEF NoneBoth

\* The ledger of a run at work holds the events of the checks chosen for it.
LEMMA RunSettles ==
  ASSUME Control, Progress, Telling, step \in Later
  PROVE  Settles(Chosen) /\ \A e \in ToSet(audit) : EventSettles(e, Chosen)
<1>1. step # "idle" /\ Command.journey \in DOMAIN Journeys
  BY RunAtWork DEF Later, StepsOfRuns
<1>2. Settles(Chosen)
  BY <1>1, ChosenFits DEF Settles
<1>3. \A e \in ToSet(audit) : EventFits(e)
  BY <1>1 DEF Telling, Tells
<1> QED  BY <1>2, <1>3 DEF EventFits, EventSettles

\* A command that ends shows a receipt that settles, or none.
LEMMA EndingSettles ==
  ASSUME Control, Settled, NEW how, NEW shown, NEW reached, End(how, shown, reached), NoneBoth(shown)
  PROVE  Settled'
<1>1. ended' = Append(ended, Outcome(how, shown, reached)) /\ UNCHANGED <<file, receipt>>
  BY DEF End, memory, findings
<1>2. /\ Len(ended') = Len(ended) + 1 /\ ended'[Len(ended) + 1] = Outcome(how, shown, reached)
      /\ \A i \in 1..Len(ended) : ended'[i] = ended[i]
  BY <1>1, VectorAppend DEF Control
<1>3. \A i \in 1..(Len(ended) + 1) : i \in 1..Len(ended) \/ i = Len(ended) + 1
  BY DEF Control, IsVector
<1>4. \A i \in 1..Len(ended') : NoneBoth(ended'[i].shown)
  BY <1>2, <1>3 DEF Settled, Outcome
<1> QED  BY <1>1, <1>4 DEF Settled

\* The receipt a command generates has every check it selected verified.
LEMMA GeneratedIsVerified ==
  ASSUME Control, Progress, Telling, GenerateTheReceipt
  PROVE  AllVerified(receipt')
<1>1. /\ step = "receipt"
      /\ audit' = Append(audit, CognitiveReceiptGenerated)
      /\ receipt' = GenerateReceipt(Fixture.run, IF Dogfood THEN audit' ELSE audit)
  BY DEF GenerateTheReceipt, At
<1>2. IsVector(audit) /\ TellsAtStep
  BY <1>1 DEF Progress, Vectors, Telling
<1>3. receipt' = GenerateReceipt(Fixture.run, audit)
  BY <1>1, <1>2, ReceiptIgnores
<1> DEFINE parts == CollectParts(Fixture.run, audit)
<1>4. step # "idle" /\ Command.journey \in DOMAIN Journeys
  BY <1>1, RunAtWork DEF Later, StepsOfRuns
<1>5. SaidBy(parts, ToSet(audit)) /\ \A e \in ToSet(audit) : EventFits(e)
  BY <1>4, RunSaid
<1>6. receipt' # NoReceipt => receipt' = parts
  BY <1>3 DEF GenerateReceipt
<1> HIDE DEF parts
<1>7. \A check \in ToSet(Chosen.required) : VerificationCompleted(check) \in ToSet(audit)
  BY <1>1, <1>2 DEF TellsAtStep, Done, Leased, Recorded
<1>8. ASSUME NEW check \in ToSet(parts.checks)
      PROVE  <<check.id, check.resource>> \in ToSet(parts.completed)
  <2>1. check \in ToSet(Chosen.required)
    BY <1>5, <1>8 DEF SaidBy, Of, EventFits
  <2>2. VerificationCompleted(check) \in Of("VerificationCompleted", ToSet(audit))
    BY <1>7, <2>1 DEF Of, VerificationCompleted
  <2>3. /\ VerificationCompleted(check).check = check.id
        /\ VerificationCompleted(check).resource = check.resource
    BY DEF VerificationCompleted
  <2> QED  BY <1>5, <2>2, <2>3 DEF SaidBy
<1> QED  BY <1>6, <1>8 DEF AllVerified

\* A command appends the events of its own choice, and only where no other has.
LEMMA PersistSettles ==
  ASSUME Control, Progress, Directory, Telling, Settled, Persist, ~ Fail
  PROVE  Settled'
<1>1. /\ step = "persist" /\ written < Len(audit) /\ Len(file) = written
      /\ file' = Append(file, audit[written + 1])
      /\ UNCHANGED <<ended, receipt>>
  BY DEF Persist, findings, At
<1>2. /\ IsVector(file) /\ IsVector(audit) /\ written \in Nat
      /\ Len(audit) \in Nat /\ DOMAIN audit = 1..Len(audit) /\ DOMAIN file = 1..Len(file)
  BY VectorIsSeq DEF Progress, Vectors, IsVector
<1>3. ToSet(file') = ToSet(file) \cup {audit[written + 1]}
  BY <1>1, <1>2, ToSetOneMore
<1>4. ToSet(file) \subseteq ToSet(audit)
  <2>1. ASSUME NEW k \in 1..written PROVE file[k] = audit[k] /\ k \in DOMAIN audit
    BY <1>1, <1>2 DEF Directory, FileFollows
  <2> QED  BY <1>1, <1>2, <2>1 DEF ToSet
<1>5. audit[written + 1] \in ToSet(audit)
  BY <1>1, <1>2 DEF ToSet
<1>6. Settles(Chosen) /\ \A e \in ToSet(audit) : EventSettles(e, Chosen)
  BY <1>1, RunSettles DEF Later, StepsOfRuns
<1>7. PICK v : v = Chosen
  OBVIOUS
<1>8. Settles(v) /\ \A e \in ToSet(file') : EventSettles(e, v)
  BY <1>3, <1>4, <1>5, <1>6, <1>7
<1> QED  BY <1>1, <1>8 DEF Settled

LEMMA SettledStarts == Init => Settled
<1> SUFFICES ASSUME Init PROVE Settled
  OBVIOUS
<1> DEFINE v == [required |-> <<>>, skipped |-> <<>>]
<1>1. Settles(v) /\ ToSet(<<>>) = {}
  <2>1. ToSet(<<>>) = {}
    BY DEF ToSet
  <2> QED  BY <2>1, VectorEmpty DEF Settles
<1> HIDE DEF v
<1>2. \E x : Settles(x) /\ \A e \in ToSet(<<>>) : EventSettles(e, x)
  BY <1>1
<1> QED  BY <1>2, VectorEmpty DEF Init, EmptyMemory, Settled, AllVerified

LEMMA SettledSteps == Control /\ Progress /\ Directory /\ Telling /\ Settled /\ [Next]_jVars => Settled'
<1> SUFFICES ASSUME Control, Progress, Directory, Telling, Settled, [Next]_jVars PROVE Settled'
  OBVIOUS
<1>1. ASSUME UNCHANGED <<file, ended, receipt>> PROVE Settled'
  BY <1>1 DEF Settled
<1>2. CASE UNCHANGED jVars
  BY <1>1, <1>2 DEF jVars, memory, findings
<1>3. ASSUME NEW how, NEW reached, End(how, NoReceipt, reached) PROVE Settled'
  BY <1>3, EndingSettles DEF NoneBoth
<1>4. CASE Fail
  BY <1>3, <1>4 DEF Fail
<1>5. CASE Kill \/ ShowSummary
  BY <1>3, <1>5 DEF Kill, ShowSummary
<1>6. CASE Begin
  <2>1. UNCHANGED <<file, ended>> /\ receipt' = NoReceipt
    BY <1>6 DEF Begin, Go, ForgetAll
  <2> QED  BY <2>1 DEF Settled, AllVerified
<1>7. CASE LoadFleet \/ PlanSimulation \/ StartDogfood \/ CreateToken \/ EnrolNode
  BY <1>1, <1>4, <1>7 DEF LoadFleet, PlanSimulation, StartDogfood, PlanRun, CreateToken, EnrolNode,
     Go, findings
<1>8. CASE EnqueueCollect \/ PullCollect \/ SubmitCollect \/ Observe \/ CollectNatively
  BY <1>1, <1>4, <1>8 DEF EnqueueCollect, PullCollect, SubmitCollect, Observing, Observe,
     CollectNatively,
                          Go, findings
<1>9. CASE Propose \/ RequestApproval \/ ApproveAction \/ ExecuteAction \/ Verify
  BY <1>1, <1>3, <1>4, <1>9 DEF Propose, RequestApproval, ApproveAction, ExecuteAction, Verify, Go,
     findings
<1>10. CASE GenerateTheReceipt
  <2>1. UNCHANGED <<file, ended>>
    BY <1>10 DEF GenerateTheReceipt, Go
  <2> QED  BY <1>10, <2>1, GeneratedIsVerified DEF Settled
<1>11. CASE Persist
  BY <1>4, <1>11, PersistSettles
<1>12. CASE Finish
  <2>1. step \in {"persist", "done"} /\ End("Done", receipt, "Reviewed")
    BY <1>12 DEF Finish, At
  <2>2. receipt = GenerateReceipt(Fixture.run, audit)
    BY <2>1 DEF Directory, HoldsReceipt
  <2>3. Settles(Chosen) /\ \A e \in ToSet(audit) : EventSettles(e, Chosen)
    BY <2>1, RunSettles DEF Later
  <2>4. IsVector(audit)
    BY DEF Progress, Vectors
  <2>5. PICK q, v, run : q = audit /\ v = Chosen /\ run = Fixture.run
    OBVIOUS
  <2>6. NoneBoth(GenerateReceipt(run, q))
    BY <2>3, <2>4, <2>5, ReceiptsSettle
  <2> QED  BY <2>1, <2>2, <2>5, <2>6, EndingSettles
<1>13. CASE ShowReceipt
  <2>1. PICK v : Settles(v) /\ \A e \in ToSet(file) : EventSettles(e, v)
    BY DEF Settled
  <2>2. IsVector(file)
    BY DEF Progress, Vectors
  <2>3. PICK run : run = Command.run
    OBVIOUS
  <2>4. NoneBoth(GenerateReceipt(run, file))
    BY <2>1, <2>2, ReceiptsSettle
  <2> QED  BY <1>4, <1>13, <2>3, <2>4, EndingSettles DEF ShowReceipt
<1> QED  BY <1>2, <1>4, <1>5, <1>6, <1>7, <1>8, <1>9, <1>10, <1>11, <1>12, <1>13 DEF Next, Step

\* ChecksSettle: whatever the state directory went through, no receipt calls a check both
\* verified and skipped, and one a command held has every selected check verified
\* (receipt.rs; the verification planner and the runbooks' skips in lib.rs).
THEOREM ChecksAreSettled == Spec => []ChecksSettle
<1>1. Init => Settled
  BY SettledStarts
<1>2. Control /\ Progress /\ Directory /\ Telling /\ Settled /\ [Next]_jVars => Settled'
  BY SettledSteps
<1>3. Control /\ Settled => ChecksSettle
  BY VectorIsSeq DEF Control, Settled, NoneBoth, AllVerified, ChecksSettle
<1> QED  BY <1>1, <1>2, <1>3, DirectoryKept, TellingKept, PTL DEF Spec

-----------------------------------------------------------------------------
(* Overlays.                                                               *)

\* The first n tiers.
FirstTiers(n) == {OverlayTiers[i] : i \in 1..n}

LEMMA RankOfTier == Len(OverlayTiers) = 6 /\ \A i \in 1..6 : Rank(OverlayTiers[i]) = i - 1
<1>1. /\ DOMAIN OverlayTiers = 1..6 /\ Len(OverlayTiers) = 6
      /\ OverlayTiers[1] = "global" /\ OverlayTiers[2] = "os" /\ OverlayTiers[3] = "layer"
      /\ OverlayTiers[4] = "role" /\ OverlayTiers[5] = "environment" /\ OverlayTiers[6] = "node"
  BY DEF OverlayTiers
<1>2. \A i, j \in 1..6 : OverlayTiers[i] = OverlayTiers[j] => i = j
  <2> TAKE i, j \in 1..6
  <2>1. /\ i = 1 \/ i = 2 \/ i = 3 \/ i = 4 \/ i = 5 \/ i = 6
        /\ j = 1 \/ j = 2 \/ j = 3 \/ j = 4 \/ j = 5 \/ j = 6
    OBVIOUS
  <2> QED  BY <1>1, <2>1
<1>3. ASSUME NEW i \in 1..6 PROVE Rank(OverlayTiers[i]) = i - 1
  <2>1. (CHOOSE j \in DOMAIN OverlayTiers : OverlayTiers[j] = OverlayTiers[i]) = i
    BY <1>1, <1>2
  <2> QED  BY <2>1 DEF Rank
<1> QED  BY <1>1, <1>3

\* g tells where in q the fragments of p are, of those of the first n tiers: each after
\* all that it overrides, and all of them.
ArrangesTiers(g, p, q, n) ==
  /\ IsVector(g) /\ IsVector(p) /\ Len(g) = Len(p)
  /\ \A k \in 1..Len(p) : g[k] \in 1..Len(q) /\ q[g[k]].tier \in FirstTiers(n) /\ p[k] = q[g[k]]
  /\ \A k, l \in 1..Len(p) : k < l => Overrides(g[l], g[k], q)
  /\ \A i \in 1..Len(q) : q[i].tier \in FirstTiers(n) => \E k \in 1..Len(p) : g[k] = i

\* The fragments of the next tier come after those of all tiers before it.
LEMMA NextTier ==
  ASSUME NEW q, IsVector(q), NEW n \in 1..6, NEW g, NEW p, ArrangesTiers(g, p, q, n - 1),
         NEW h, NEW r, PositionsIn(h, r, q, Len(q), "tier", {OverlayTiers[n]})
  PROVE  ArrangesTiers(g \o h, p \o r, q, n)
<1> DEFINE gh == g \o h
           pr == p \o r
<1>1. /\ IsVector(g) /\ IsVector(p) /\ Len(g) = Len(p) /\ Len(p) \in Nat
      /\ \A k \in 1..Len(p) : g[k] \in 1..Len(q) /\ q[g[k]].tier \in FirstTiers(n - 1) /\ p[k] = q[g[k]]
      /\ \A k, l \in 1..Len(p) : k < l => Overrides(g[l], g[k], q)
      /\ \A i \in 1..Len(q) : q[i].tier \in FirstTiers(n - 1) => \E k \in 1..Len(p) : g[k] = i
  BY DEF ArrangesTiers, IsVector
<1>2. /\ IsVector(h) /\ IsVector(r) /\ Len(h) = Len(r) /\ Len(r) \in Nat
      /\ \A k \in 1..Len(r) : h[k] \in 1..Len(q) /\ q[h[k]].tier = OverlayTiers[n] /\ r[k] = q[h[k]]
      /\ \A k, l \in 1..Len(r) : k < l => h[k] < h[l]
      /\ \A i \in 1..Len(q) : q[i].tier = OverlayTiers[n] => \E k \in 1..Len(r) : h[k] = i
  <2>1. q["tier"] = q.tier
    OBVIOUS
  <2> QED  BY DEF PositionsIn, IsVector
<1>3. /\ IsVector(gh) /\ Len(gh) = Len(p) + Len(r)
      /\ \A k \in 1..Len(p) : gh[k] = g[k]
      /\ \A k \in 1..Len(r) : gh[Len(p) + k] = h[k]
  <2>1. /\ IsVector(gh) /\ Len(gh) = Len(g) + Len(h)
        /\ \A k \in 1..Len(g) : gh[k] = g[k]
        /\ \A k \in 1..Len(h) : gh[Len(g) + k] = h[k]
    <3>1. IsVector(g) /\ IsVector(h)
      BY <1>1, <1>2
    <3> QED  BY ONLY <3>1, VectorConcat
  <2> HIDE DEF gh
  <2> QED  BY <1>1, <1>2, <2>1
<1>4. /\ IsVector(pr) /\ Len(pr) = Len(p) + Len(r)
      /\ \A k \in 1..Len(p) : pr[k] = p[k]
      /\ \A k \in 1..Len(r) : pr[Len(p) + k] = r[k]
  BY <1>1, <1>2, VectorConcat
<1> HIDE DEF gh, pr
<1>5. ASSUME NEW k \in 1..Len(pr)
      PROVE  \/ k \in 1..Len(p) /\ gh[k] = g[k] /\ pr[k] = p[k]
             \/ \E l \in 1..Len(r) : k = Len(p) + l /\ gh[k] = h[l] /\ pr[k] = r[l]
  <2>1. CASE k \in 1..Len(p)
    BY <1>3, <1>4, <2>1
  <2>2. CASE k \notin 1..Len(p)
    <3>1. k - Len(p) \in 1..Len(r) /\ k = Len(p) + (k - Len(p))
      BY <1>1, <1>2, <1>4, <2>2
    <3> QED  BY <1>3, <1>4, <3>1
  <2> QED  BY <2>1, <2>2
<1>6. FirstTiers(n) = FirstTiers(n - 1) \cup {OverlayTiers[n]}
  <2>1. 1..n = 1..(n - 1) \cup {n}
    OBVIOUS
  <2> QED  BY <2>1 DEF FirstTiers
<1>7. \A k \in 1..Len(pr) : gh[k] \in 1..Len(q) /\ q[gh[k]].tier \in FirstTiers(n) /\ pr[k] = q[gh[k]]
  <2> TAKE k \in 1..Len(pr)
  <2>1. CASE k \in 1..Len(p) /\ gh[k] = g[k] /\ pr[k] = p[k]
    <3>1. g[k] \in 1..Len(q) /\ q[g[k]].tier \in FirstTiers(n - 1) /\ p[k] = q[g[k]]
      BY <1>1, <2>1
    <3> QED  BY <1>6, <2>1, <3>1
  <2>2. CASE \E l \in 1..Len(r) : k = Len(p) + l /\ gh[k] = h[l] /\ pr[k] = r[l]
    <3>1. PICK l \in 1..Len(r) : gh[k] = h[l] /\ pr[k] = r[l]
      BY <2>2
    <3>2. h[l] \in 1..Len(q) /\ q[h[l]].tier = OverlayTiers[n] /\ r[l] = q[h[l]]
      BY <1>2
    <3> QED  BY <1>6, <3>1, <3>2
  <2> QED  BY <1>5, <2>1, <2>2
<1>8. \A k, l \in 1..Len(pr) : k < l => Overrides(gh[l], gh[k], q)
  <2> TAKE k, l \in 1..Len(pr)
  <2> HAVE k < l
  <2>1. CASE l \in 1..Len(p)
    <3>1. k \in 1..Len(p)
      BY <1>1, <2>1
    <3> QED  BY <1>1, <1>3, <2>1, <3>1
  <2>2. CASE l \notin 1..Len(p)
    <3>1. PICK m \in 1..Len(r) : l = Len(p) + m /\ gh[l] = h[m]
      BY <1>5, <2>2
    <3>2. Rank(q[h[m]].tier) = n - 1
      BY <1>2, RankOfTier
    <3>3. CASE k \in 1..Len(p)
      <4>1. PICK i \in 1..(n - 1) : q[g[k]].tier = OverlayTiers[i]
        BY <1>1, <3>3 DEF FirstTiers
      <4>2. Rank(q[g[k]].tier) = i - 1 /\ i - 1 < n - 1
        BY <4>1, RankOfTier
      <4>3. gh[k] = g[k]
        BY <1>3, <3>3
      <4> QED  BY <3>1, <3>2, <4>2, <4>3 DEF Overrides
    <3>4. CASE k \notin 1..Len(p)
      <4>1. PICK j \in 1..Len(r) : k = Len(p) + j /\ gh[k] = h[j]
        BY <1>5, <3>4
      <4>2. j < m
        BY <1>1, <3>1, <4>1
      <4>3. h[j] < h[m] /\ h[j] \in Int /\ h[m] \in Int
        BY <1>2, <4>2
      <4>4. Rank(q[h[j]].tier) = n - 1
        BY <1>2, RankOfTier
      <4> QED  BY <3>1, <3>2, <4>1, <4>3, <4>4 DEF Overrides
    <3> QED  BY <3>3, <3>4
  <2> QED  BY <2>1, <2>2
<1>9. \A i \in 1..Len(q) : q[i].tier \in FirstTiers(n) => \E k \in 1..Len(pr) : gh[k] = i
  <2> TAKE i \in 1..Len(q)
  <2> HAVE q[i].tier \in FirstTiers(n)
  <2>1. CASE q[i].tier \in FirstTiers(n - 1)
    <3>1. PICK k \in 1..Len(p) : g[k] = i
      BY <1>1, <2>1
    <3>2. k \in 1..Len(pr) /\ gh[k] = i
      BY <1>1, <1>2, <1>3, <1>4, <3>1
    <3> QED  BY <3>2
  <2>2. CASE q[i].tier = OverlayTiers[n]
    <3>1. PICK k \in 1..Len(r) : h[k] = i
      BY <1>2, <2>2
    <3>2. Len(p) + k \in 1..Len(pr) /\ gh[Len(p) + k] = i
      BY <1>1, <1>2, <1>3, <1>4, <3>1
    <3> QED  BY <3>2
  <2> QED  BY <1>6, <2>1, <2>2
<1>10. ArrangesTiers(gh, pr, q, n)
  BY <1>3, <1>4, <1>7, <1>8, <1>9 DEF ArrangesTiers
<1> QED  BY <1>10 DEF gh, pr

\* f[n]: the fragments of the first n tiers.
TiersUpTo(f, m, q) ==
  /\ f = [n \in 0..m |-> f[n]]
  /\ f[0] = <<>>
  /\ \A n \in 1..m : f[n] = f[n - 1] \o AllWith(q, "tier", OverlayTiers[n])

LEMMA TiersExist ==
  ASSUME NEW q
  PROVE  \E f : TiersUpTo(f, 6, q)
<1> DEFINE Holds == {m \in 0..6 : \E f : TiersUpTo(f, m, q)}
<1>1. 0 \in Holds
  <2>1. TiersUpTo([n \in 0..0 |-> <<>>], 0, q)
    BY DEF TiersUpTo
  <2> QED  BY <2>1
<1>2. ASSUME NEW m \in 1..6, m - 1 \in Holds PROVE m \in Holds
  <2>1. PICK f : TiersUpTo(f, m - 1, q)
    BY <1>2
  <2> DEFINE last == f[m - 1] \o AllWith(q, "tier", OverlayTiers[m])
             g == [n \in 0..m |-> IF n = m THEN last ELSE f[n]]
  <2> HIDE DEF last
  <2>2. g = [n \in 0..m |-> g[n]]
    OBVIOUS
  <2>3. g[0] = <<>>
    BY <2>1 DEF TiersUpTo
  <2>4. ASSUME NEW n \in 1..m PROVE g[n] = g[n - 1] \o AllWith(q, "tier", OverlayTiers[n])
    <3>1. CASE n = m
      <4>1. g[n] = last /\ g[n - 1] = f[m - 1]
        BY <3>1
      <4> HIDE DEF g
      <4> QED  BY <3>1, <4>1 DEF last
    <3>2. CASE n # m
      <4>1. n \in 1..(m - 1) /\ g[n] = f[n] /\ g[n - 1] = f[n - 1]
        BY <3>2
      <4>2. f[n] = f[n - 1] \o AllWith(q, "tier", OverlayTiers[n])
        BY <4>1, <2>1 DEF TiersUpTo
      <4> HIDE DEF g
      <4> QED  BY <4>1, <4>2
    <3> QED  BY <3>1, <3>2
  <2> HIDE DEF g
  <2>5. TiersUpTo(g, m, q)
    BY <2>2, <2>3, <2>4 DEF TiersUpTo
  <2> QED  BY <2>5
<1> HIDE DEF Holds
<1>3. Holds = 0..6
  <2>1. Holds \in SUBSET (0..6)
    BY DEF Holds
  <2> QED  BY <1>1, <1>2, <2>1, UpToInduction
<1>4. 6 \in Holds
  BY <1>3
<1> QED  BY <1>4 DEF Holds

\* The fragments by rank are those of all tiers.
LEMMA RankedByTiers ==
  ASSUME NEW q
  PROVE  \E f : TiersUpTo(f, 6, q) /\ ByRank(q) = f[6]
<1> DEFINE Ranking(f) == f = [i \in 0..Len(OverlayTiers) |->
                                IF i = 0 THEN <<>> ELSE f[i - 1] \o AllWith(q, "tier", OverlayTiers[i])]
           a == CHOOSE f : Ranking(f)
<1>0. Len(OverlayTiers) = 6
  BY RankOfTier
<1>1. PICK f : TiersUpTo(f, 6, q)
  BY TiersExist
<1>2. Ranking(f)
  <2> DEFINE h == [i \in 0..6 |-> IF i = 0 THEN <<>> ELSE f[i - 1] \o AllWith(q, "tier", OverlayTiers[i])]
  <2>1. ASSUME NEW n \in 0..6 PROVE f[n] = h[n]
    <3>1. CASE n = 0
      BY <1>1, <3>1 DEF TiersUpTo
    <3>2. CASE n # 0
      <4>1. n \in 1..6
        BY <3>2
      <4> QED  BY <1>1, <3>2, <4>1 DEF TiersUpTo
    <3> QED  BY <3>1, <3>2
  <2>2. f = [n \in 0..6 |-> f[n]]
    BY <1>1 DEF TiersUpTo
  <2>3. h = [n \in 0..6 |-> h[n]]
    OBVIOUS
  <2> HIDE DEF h
  <2>4. f = h
    BY <2>1, <2>2, <2>3
  <2> QED  BY <1>0, <2>4 DEF h
<1>3. Ranking(a)
  <2> HIDE DEF Ranking
  <2> QED  BY <1>2
<1>4. ByRank(q) = a[6]
  BY <1>0 DEF ByRank
<1> HIDE DEF a
<1>5. TiersUpTo(a, 6, q)
  <2>1. DOMAIN a = 0..6 /\ a = [n \in 0..6 |-> a[n]]
    BY <1>0, <1>3
  <2>2. a[0] = <<>>
    BY <1>0, <1>3
  <2>3. ASSUME NEW n \in 1..6 PROVE a[n] = a[n - 1] \o AllWith(q, "tier", OverlayTiers[n])
    <3>1. n \in 0..6 /\ n # 0
      OBVIOUS
    <3> QED  BY <1>0, <1>3, <3>1
  <2> QED  BY <2>1, <2>2, <2>3 DEF TiersUpTo
<1> QED  BY <1>4, <1>5

\* The stable sort puts each fragment after all that it overrides.
LEMMA RankedIsArranged ==
  ASSUME NEW q, IsVector(q)
  PROVE  \E g : ArrangesTiers(g, ByRank(q), q, 6)
<1>1. PICK f : TiersUpTo(f, 6, q) /\ ByRank(q) = f[6]
  BY RankedByTiers
<1> DEFINE Holds == {n \in 0..6 : \E g : ArrangesTiers(g, f[n], q, n)}
<1>2. 0 \in Holds
  <2>1. f[0] = <<>>
    BY <1>1 DEF TiersUpTo
  <2>2. FirstTiers(0) = {}
    BY DEF FirstTiers
  <2>3. ArrangesTiers(<<>>, <<>>, q, 0)
    BY <2>2, VectorEmpty DEF ArrangesTiers
  <2> QED  BY <2>1, <2>3
<1>3. ASSUME NEW n \in 1..6, n - 1 \in Holds PROVE n \in Holds
  <2>1. PICK g : ArrangesTiers(g, f[n - 1], q, n - 1)
    BY <1>3
  <2>2. PICK tier : tier = OverlayTiers[n]
    OBVIOUS
  <2>3. PICK h : PositionsIn(h, AllWith(q, "tier", tier), q, Len(q), "tier", {tier})
    BY SelectedPositions DEF AllWith
  <2>4. PICK p, r : p = f[n - 1] /\ r = AllWith(q, "tier", tier)
    OBVIOUS
  <2>5. ArrangesTiers(g \o h, p \o r, q, n)
    BY <2>1, <2>2, <2>3, <2>4, NextTier
  <2>6. f[n] = p \o r
    BY <1>1, <2>2, <2>4 DEF TiersUpTo
  <2>7. n \in 0..6 /\ ArrangesTiers(g \o h, f[n], q, n)
    BY <2>5, <2>6
  <2> QED  BY <2>7
<1>4. 6 \in Holds
  <2>1. Holds \in SUBSET (0..6)
    OBVIOUS
  <2> HIDE DEF Holds
  <2>2. Holds = 0..6
    BY <1>2, <1>3, <2>1, UpToInduction
  <2> QED  BY <2>2
<1> QED  BY <1>1, <1>4

\* f[n]: what the first n fragments of q resolve to.
OverlaidUpTo(f, m, q) ==
  /\ f = [n \in 0..m |-> f[n]]
  /\ f[0] = <<>>
  /\ \A n \in 1..m : f[n] = Over(q[n].settings, f[n - 1])

LEMMA OverlaysExist ==
  ASSUME NEW q, IsVector(q)
  PROVE  \E f : OverlaidUpTo(f, Len(q), q)
<1> DEFINE Holds == {m \in 0..Len(q) : \E f : OverlaidUpTo(f, m, q)}
<1>0. Len(q) \in Nat
  BY DEF IsVector
<1>1. 0 \in Holds
  <2>1. OverlaidUpTo([n \in 0..0 |-> <<>>], 0, q)
    BY DEF OverlaidUpTo
  <2> QED  BY <1>0, <2>1
<1>2. ASSUME NEW m \in 1..Len(q), m - 1 \in Holds PROVE m \in Holds
  <2>1. PICK f : OverlaidUpTo(f, m - 1, q)
    BY <1>2
  <2> DEFINE last == Over(q[m].settings, f[m - 1])
             g == [n \in 0..m |-> IF n = m THEN last ELSE f[n]]
  <2> HIDE DEF last
  <2>2. g = [n \in 0..m |-> g[n]]
    OBVIOUS
  <2>3. g[0] = <<>>
    BY <2>1, <1>0 DEF OverlaidUpTo
  <2>4. ASSUME NEW n \in 1..m PROVE g[n] = Over(q[n].settings, g[n - 1])
    <3>1. CASE n = m
      <4>1. g[n] = last /\ g[n - 1] = f[m - 1]
        BY <1>0, <3>1
      <4> HIDE DEF g
      <4> QED  BY <3>1, <4>1 DEF last
    <3>2. CASE n # m
      <4>1. n \in 1..(m - 1) /\ g[n] = f[n] /\ g[n - 1] = f[n - 1]
        BY <1>0, <3>2
      <4>2. f[n] = Over(q[n].settings, f[n - 1])
        BY <4>1, <2>1 DEF OverlaidUpTo
      <4> HIDE DEF g
      <4> QED  BY <4>1, <4>2
    <3> QED  BY <3>1, <3>2
  <2> HIDE DEF g
  <2>5. OverlaidUpTo(g, m, q)
    BY <2>2, <2>3, <2>4 DEF OverlaidUpTo
  <2> QED  BY <1>0, <2>5
<1> HIDE DEF Holds
<1>3. Holds = 0..Len(q)
  <2>1. Holds \in SUBSET (0..Len(q))
    BY DEF Holds
  <2> QED  BY <1>0, <1>1, <1>2, <2>1, UpToInduction
<1>4. Len(q) \in Holds
  BY <1>0, <1>3
<1> QED  BY <1>4 DEF Holds

\* Overlays resolve to what their fragments do, by rank.
LEMMA ResolvedByRank ==
  ASSUME NEW q, IsVector(ByRank(q))
  PROVE  \E f : OverlaidUpTo(f, Len(ByRank(q)), ByRank(q)) /\ ResolveOverlays(q) = f[Len(ByRank(q))]
<1> DEFINE p == ByRank(q)
           Resolving(f) == f = [n \in 0..Len(p) |-> IF n = 0 THEN <<>> ELSE Over(p[n].settings, f[n - 1])]
           a == CHOOSE f : Resolving(f)
<1>0. IsVector(p) /\ Len(p) \in Nat
  BY DEF IsVector
<1>4. ResolveOverlays(q) = a[Len(p)]
  BY DEF ResolveOverlays
<1> HIDE DEF p
<1>1. PICK f : OverlaidUpTo(f, Len(p), p)
  BY <1>0, OverlaysExist
<1>2. Resolving(f)
  <2> DEFINE h == [n \in 0..Len(p) |-> IF n = 0 THEN <<>> ELSE Over(p[n].settings, f[n - 1])]
  <2>1. ASSUME NEW n \in 0..Len(p) PROVE f[n] = h[n]
    <3>1. CASE n = 0
      BY <1>1, <3>1 DEF OverlaidUpTo
    <3>2. CASE n # 0
      <4>1. n \in 1..Len(p)
        BY <1>0, <3>2
      <4> QED  BY <1>1, <3>2, <4>1 DEF OverlaidUpTo
    <3> QED  BY <3>1, <3>2
  <2>2. f = [n \in 0..Len(p) |-> f[n]]
    BY <1>1 DEF OverlaidUpTo
  <2>3. h = [n \in 0..Len(p) |-> h[n]]
    OBVIOUS
  <2> HIDE DEF h
  <2>4. f = h
    BY <2>1, <2>2, <2>3
  <2> QED  BY <2>4 DEF h
<1>3. Resolving(a)
  <2> HIDE DEF Resolving
  <2> QED  BY <1>2
<1> HIDE DEF a
<1>5. OverlaidUpTo(a, Len(p), p)
  <2>1. DOMAIN a = 0..Len(p) /\ a = [n \in 0..Len(p) |-> a[n]]
    BY <1>3
  <2>2. a[0] = <<>>
    BY <1>0, <1>3
  <2>3. ASSUME NEW n \in 1..Len(p) PROVE a[n] = Over(p[n].settings, a[n - 1])
    <3>1. n \in 0..Len(p) /\ n # 0
      BY <1>0
    <3> QED  BY <1>3, <3>1
  <2> QED  BY <2>1, <2>2, <2>3 DEF OverlaidUpTo
<1> QED  BY <1>4, <1>5 DEF p

\* settings are those of the first n fragments of q, each from the last that has it.
LastWins(settings, n, q) ==
  /\ DOMAIN settings = UNION {DOMAIN q[k].settings : k \in 1..n}
  /\ \A key \in DOMAIN settings : \E k \in 1..n :
       /\ key \in DOMAIN q[k].settings /\ settings[key] = q[k].settings[key]
       /\ \A l \in 1..n : key \in DOMAIN q[l].settings => l <= k

\* One fragment more is laid over those before it.
LEMMA OneOverlayMore ==
  ASSUME NEW q, NEW n \in Nat, n > 0, NEW settings, LastWins(settings, n - 1, q)
  PROVE  LastWins(Over(q[n].settings, settings), n, q)
<1> DEFINE more == Over(q[n].settings, settings)
<1>1. /\ DOMAIN more = DOMAIN q[n].settings \cup DOMAIN settings
      /\ \A key \in DOMAIN more :
           more[key] = IF key \in DOMAIN q[n].settings THEN q[n].settings[key] ELSE settings[key]
  BY DEF Over
<1> HIDE DEF more
<1>2. 1..n = 1..(n - 1) \cup {n} /\ n \in 1..n /\ \A l \in 1..n : l <= n
  OBVIOUS
<1>3. DOMAIN more = UNION {DOMAIN q[k].settings : k \in 1..n}
  <2>1. DOMAIN settings = UNION {DOMAIN q[k].settings : k \in 1..(n - 1)}
    BY DEF LastWins
  <2> QED  BY <1>1, <1>2, <2>1
<1>4. ASSUME NEW key \in DOMAIN more
      PROVE  \E k \in 1..n :
               /\ key \in DOMAIN q[k].settings /\ more[key] = q[k].settings[key]
               /\ \A l \in 1..n : key \in DOMAIN q[l].settings => l <= k
  <2>1. CASE key \in DOMAIN q[n].settings
    BY <1>1, <1>2, <2>1
  <2>2. CASE key \notin DOMAIN q[n].settings
    <3>1. key \in DOMAIN settings /\ more[key] = settings[key]
      BY <1>1, <2>2
    <3>2. PICK k \in 1..(n - 1) :
             /\ key \in DOMAIN q[k].settings /\ settings[key] = q[k].settings[key]
             /\ \A l \in 1..(n - 1) : key \in DOMAIN q[l].settings => l <= k
      BY <3>1 DEF LastWins
    <3>3. \A l \in 1..n : key \in DOMAIN q[l].settings => l <= k
      BY <1>2, <2>2, <3>2
    <3> QED  BY <1>2, <3>1, <3>2, <3>3
  <2> QED  BY <2>1, <2>2
<1>5. LastWins(more, n, q)
  BY <1>3, <1>4 DEF LastWins
<1> QED  BY <1>5 DEF more

\* So the last fragment that has a key wins.
LEMMA LastOfRankWins ==
  ASSUME NEW q, IsVector(ByRank(q))
  PROVE  LastWins(ResolveOverlays(q), Len(ByRank(q)), ByRank(q))
<1>1. PICK f : OverlaidUpTo(f, Len(ByRank(q)), ByRank(q)) /\ ResolveOverlays(q) = f[Len(ByRank(q))]
  BY ResolvedByRank
<1>2. PICK p : p = ByRank(q)
  OBVIOUS
<1>3. OverlaidUpTo(f, Len(p), p) /\ Len(p) \in Nat
  BY <1>1, <1>2 DEF IsVector
<1> DEFINE Holds == {n \in 0..Len(p) : LastWins(f[n], n, p)}
<1>4. 0 \in Holds
  <2>1. f[0] = <<>> /\ DOMAIN <<>> = {} /\ 1..0 = {}
    BY <1>3 DEF OverlaidUpTo
  <2> QED  BY <1>3, <2>1 DEF LastWins
<1>5. ASSUME NEW n \in 1..Len(p), n - 1 \in Holds PROVE n \in Holds
  <2>1. n \in Nat /\ n > 0 /\ n \in 0..Len(p) /\ LastWins(f[n - 1], n - 1, p)
    BY <1>3, <1>5
  <2>2. PICK settings : settings = f[n - 1]
    OBVIOUS
  <2>3. LastWins(Over(p[n].settings, settings), n, p)
    BY <2>1, <2>2, OneOverlayMore
  <2>4. f[n] = Over(p[n].settings, settings)
    BY <1>3, <2>2 DEF OverlaidUpTo
  <2> QED  BY <2>1, <2>3, <2>4
<1>6. Len(p) \in Holds
  <2>1. Holds \in SUBSET (0..Len(p))
    OBVIOUS
  <2> HIDE DEF Holds
  <2>2. Holds = 0..Len(p)
    BY <1>3, <1>4, <1>5, <2>1, UpToInduction
  <2> QED  BY <1>3, <2>2
<1> QED  BY <1>1, <1>2, <1>6

\* Of fragments of known tiers, none is lost, and the one that overrides the others wins.
LEMMA OverridingWins ==
  ASSUME NEW q, IsVector(q), \A i \in DOMAIN q : q[i].tier \in ToSet(OverlayTiers),
         NEW settings, settings = ResolveOverlays(q)
  PROVE  LET Having(key) == {i \in DOMAIN q : key \in DOMAIN q[i].settings}
         IN  /\ DOMAIN settings = UNION {DOMAIN q[i].settings : i \in DOMAIN q}
             /\ \A key \in DOMAIN settings : \E i \in Having(key) :
                  /\ settings[key] = q[i].settings[key]
                  /\ \A j \in Having(key) \ {i} : Overrides(i, j, q)
<1> DEFINE Having(key) == {i \in DOMAIN q : key \in DOMAIN q[i].settings}
<1>1. PICK g : ArrangesTiers(g, ByRank(q), q, 6)
  BY RankedIsArranged
<1>2. PICK p : p = ByRank(q)
  OBVIOUS
<1>3. /\ IsVector(g) /\ IsVector(p) /\ Len(p) \in Nat
      /\ \A k \in 1..Len(p) : g[k] \in 1..Len(q) /\ p[k] = q[g[k]]
      /\ \A k, l \in 1..Len(p) : k < l => Overrides(g[l], g[k], q)
      /\ \A i \in 1..Len(q) : q[i].tier \in FirstTiers(6) => \E k \in 1..Len(p) : g[k] = i
  BY <1>1, <1>2 DEF ArrangesTiers, IsVector
<1>4. DOMAIN q = 1..Len(q)
  BY VectorIsSeq
<1>5. \A i \in 1..Len(q) : \E k \in 1..Len(p) : g[k] = i
  <2>1. DOMAIN OverlayTiers = 1..6
    BY DEF OverlayTiers
  <2>2. ToSet(OverlayTiers) = FirstTiers(6)
    BY <2>1 DEF ToSet, FirstTiers
  <2> QED  BY <1>3, <1>4, <2>2
<1>6. LastWins(settings, Len(p), p)
  BY <1>2, <1>3, LastOfRankWins
<1>7. DOMAIN settings = UNION {DOMAIN q[i].settings : i \in DOMAIN q}
  <2>1. DOMAIN settings = UNION {DOMAIN p[k].settings : k \in 1..Len(p)}
    BY <1>6 DEF LastWins
  <2>2. ASSUME NEW key, NEW k \in 1..Len(p), key \in DOMAIN p[k].settings
        PROVE  \E i \in DOMAIN q : key \in DOMAIN q[i].settings
    BY <1>3, <1>4, <2>2
  <2>3. ASSUME NEW key, NEW i \in DOMAIN q, key \in DOMAIN q[i].settings
        PROVE  \E k \in 1..Len(p) : key \in DOMAIN p[k].settings
    BY <1>3, <1>4, <1>5, <2>3
  <2> QED  BY <2>1, <2>2, <2>3
<1>8. ASSUME NEW key \in DOMAIN settings
      PROVE  \E i \in Having(key) :
               /\ settings[key] = q[i].settings[key]
               /\ \A j \in Having(key) \ {i} : Overrides(i, j, q)
  <2>1. PICK k \in 1..Len(p) :
           /\ key \in DOMAIN p[k].settings /\ settings[key] = p[k].settings[key]
           /\ \A l \in 1..Len(p) : key \in DOMAIN p[l].settings => l <= k
    BY <1>6 DEF LastWins
  <2>2. g[k] \in Having(key) /\ settings[key] = q[g[k]].settings[key]
    BY <1>3, <1>4, <2>1
  <2>3. ASSUME NEW j \in Having(key) \ {g[k]} PROVE Overrides(g[k], j, q)
    <3>1. PICK l \in 1..Len(p) : g[l] = j
      BY <1>4, <1>5
    <3>2. key \in DOMAIN p[l].settings /\ l # k
      BY <1>3, <3>1
    <3>3. l < k
      BY <1>3, <2>1, <3>2
    <3> QED  BY <1>3, <3>1, <3>3
  <2> QED  BY <2>2, <2>3
<1> QED  BY <1>7, <1>8

\* A repository that loads has no overlay of an unknown tier.
LEMMA LoadedTiers ==
  ASSUME NEW repository, LoadError(repository) = "None",
         \A directory \in ToSet(Directories) : IsVector(repository[directory])
  PROVE  \A i \in DOMAIN repository.overlays : repository.overlays[i].tier \in ToSet(OverlayTiers)
<1> SUFFICES ASSUME NEW i \in DOMAIN repository.overlays
             PROVE  repository.overlays[i].tier \in ToSet(OverlayTiers)
  OBVIOUS
<1> DEFINE docs == repository.overlays
           errors == [d \in DOMAIN Directories |->
                        [j \in DOMAIN repository[Directories[d]] |->
                           DocumentError(Directories[d], repository[Directories[d]][j])]]
           faulty == {d \in DOMAIN errors : \E j \in DOMAIN errors[d] : errors[d][j] # "None"}
           first == errors[Min(faulty)]
           at == {j \in DOMAIN first : first[j] # "None"}
<1>1. FirstDocumentError(repository) = IF faulty = {} THEN "None" ELSE first[Min(at)]
  BY DEF FirstDocumentError
<1>2. FirstDocumentError(repository) = "None"
  BY DEF LoadError
<1>3. /\ DOMAIN Directories = 1..6 /\ DOMAIN errors = 1..6
      /\ Directories[6] = "overlays"
  BY DEF Directories
<1>4. DocumentError("overlays", docs[i]) = "None"
  <2>1. CASE 6 \in faulty
    <3>1. faulty # {} /\ faulty \in SUBSET Nat
      <4>1. faulty \subseteq DOMAIN errors
        OBVIOUS
      <4> HIDE DEF faulty, errors
      <4> QED  BY <1>3, <2>1, <4>1
    <3> HIDE DEF faulty
    <3>2. \E d \in faulty : \A c \in faulty : d <= c
      BY <3>1, LeastExists
    <3>3. Min(faulty) \in faulty
      BY <3>2 DEF Min
    <3> DEFINE d == Min(faulty)
    <3>4. d \in 1..6 /\ \E j \in DOMAIN first : first[j] # "None"
      BY <1>3, <3>3 DEF faulty
    <3>5. DOMAIN first = DOMAIN repository[Directories[d]]
      BY <1>3, <3>4
    <3>6. IsVector(repository[Directories[d]])
      BY <1>3, <3>4 DEF ToSet
    <3> HIDE DEF first
    <3>7. at # {} /\ at \in SUBSET Nat
      BY <3>4, <3>5, <3>6, VectorIsSeq
    <3>8. \E j \in at : \A k \in at : j <= k
      BY <3>7, LeastExists
    <3>9. Min(at) \in at
      BY <3>8 DEF Min
    <3>10. first[Min(at)] # "None"
      BY <3>9
    <3> QED  BY <1>1, <1>2, <3>1, <3>10
  <2>2. CASE 6 \notin faulty
    <3>1. errors[6] = [j \in DOMAIN docs |-> DocumentError("overlays", docs[j])]
      BY <1>3
    <3> QED  BY <1>3, <2>2, <3>1
  <2> QED  BY <2>1, <2>2
<1>5. DocumentValid("overlays", docs[i])
  BY <1>4 DEF DocumentError
<1>6. OverlayValid(docs[i])
  BY <1>5 DEF DocumentValid
<1>7. ToSet(OverlayTiers) = {"global", "os", "layer", "role", "environment", "node"}
  BY DEF ToSet, OverlayTiers
<1> QED  BY <1>6, <1>7 DEF OverlayValid

\* The invariant of what a fleet is resolved to: that of a repository that loads.
Overlaid ==
  step \in {"summary", "enrol"} =>
    LoadError(Fleet) = "None" /\ resolved = ResolveOverlays(Fleet.overlays)

\* Only loading resolves overlays; whoever is where they matter has them as loaded.
LEMMA OverlaidSteps == Control /\ Overlaid /\ [Next]_jVars => Overlaid'
<1> SUFFICES ASSUME Control, Overlaid, [Next]_jVars PROVE Overlaid'
  OBVIOUS
<1>1. ASSUME UNCHANGED <<session, ended>> PROVE Fleet' = Fleet
  BY <1>1 DEF Fleet, Command
<1>2. ASSUME UNCHANGED <<session, ended, step, resolved>> PROVE Overlaid'
  BY <1>1, <1>2 DEF Overlaid
<1>3. ASSUME step' \notin {"summary", "enrol"} PROVE Overlaid'
  BY <1>3 DEF Overlaid
<1>4. CASE UNCHANGED jVars
  BY <1>2, <1>4 DEF jVars, memory
<1>5. ASSUME NEW how, NEW shown, NEW reached, End(how, shown, reached) PROVE Overlaid'
  BY <1>3, <1>5 DEF End
<1>6. CASE Fail
  BY <1>5, <1>6 DEF Fail
<1>7. CASE Kill \/ ShowSummary \/ Finish \/ ShowReceipt
  BY <1>5, <1>6, <1>7 DEF Kill, ShowSummary, Finish, ShowReceipt
<1>8. CASE Begin
  BY <1>3, <1>8 DEF Begin, Go
<1>9. CASE LoadFleet
  <2>1. CASE Fail
    BY <1>6, <2>1
  <2>2. CASE ~ Fail
    <3>1. /\ LoadError(Fleet) = "None" /\ resolved' = ResolveOverlays(Fleet.overlays)
          /\ UNCHANGED <<session, ended>>
      BY <1>9, <2>2 DEF LoadFleet, Go
    <3>2. Fleet' = Fleet
      BY <1>1, <3>1
    <3> QED  BY <3>1, <3>2 DEF Overlaid
  <2> QED  BY <2>1, <2>2
<1>10. CASE CreateToken \/ EnrolNode
  BY <1>2, <1>6, <1>10 DEF CreateToken, EnrolNode
<1>11. CASE PlanSimulation \/ StartDogfood
  BY <1>3, <1>6, <1>11 DEF PlanSimulation, StartDogfood, PlanRun, Go
<1>12. CASE EnqueueCollect \/ PullCollect \/ SubmitCollect
  BY <1>2, <1>12 DEF EnqueueCollect, PullCollect, SubmitCollect, Observing
<1>13. CASE Observe \/ CollectNatively \/ Propose
  BY <1>3, <1>6, <1>13 DEF Observe, CollectNatively, Propose, Go
<1>14. CASE RequestApproval \/ ApproveAction \/ ExecuteAction
  BY <1>3, <1>5, <1>6, <1>14 DEF RequestApproval, ApproveAction, ExecuteAction, Go
<1>15. CASE Verify \/ GenerateTheReceipt
  BY <1>3, <1>15 DEF Verify, GenerateTheReceipt, Go
<1>16. CASE Persist
  BY <1>2, <1>6, <1>16 DEF Persist
<1> QED  BY <1>4, <1>7, <1>8, <1>9, <1>10, <1>11, <1>12, <1>13, <1>14, <1>15, <1>16 DEF Next, Step

\* OverlayPrecedence: whatever repository a command loads, every setting of an overlay is
\* resolved, and each comes from the fragment that overrides all others that have it
\* (resolve_fleet_overlays in lib.rs, the overlay tiers of fleet.rs).
THEOREM OverridingOverlayWins == Spec => []OverlayPrecedence
<1>1. Init => Overlaid
  BY DEF Init, Overlaid
<1>2. Control /\ Overlaid => OverlayPrecedence
  <2> SUFFICES ASSUME Control, Overlaid, step \in {"summary", "enrol"}
               PROVE  LET overlays == Fleet.overlays
                          Having(key) == {i \in DOMAIN overlays : key \in DOMAIN overlays[i].settings}
                      IN  /\ DOMAIN resolved = UNION {DOMAIN overlays[i].settings : i \in DOMAIN overlays}
                          /\ \A key \in DOMAIN resolved : \E i \in Having(key) :
                               /\ resolved[key] = overlays[i].settings[key]
                               /\ \A j \in Having(key) \ {i} : Overrides(i, j, overlays)
    BY DEF OverlayPrecedence
  <2>1. Command.does \in {"load", "demo", "write"}
    BY DEF Control, StepFits, StepsOfRuns, Simulating
  <2>2. session \in Sessions /\ Len(ended) + 1 \in DOMAIN session
    <3>1. IsVector(session) /\ Len(ended) + 1 \in 1..Len(session)
      BY SessionsAssumption DEF Control, IsVector
    <3> QED  BY <3>1, VectorIsSeq DEF Control
  <2>3. Command.path \in DOMAIN Repositories
    BY <2>1, <2>2, RepositoriesAssumption DEF Command
  <2>4. \A directory \in ToSet(Directories) : IsVector(Fleet[directory])
    BY <2>3, RepositoriesAssumption DEF Fleet
  <2>5. IsVector(Fleet.overlays)
    <3>1. "overlays" \in ToSet(Directories)
      <4>1. 6 \in DOMAIN Directories /\ Directories[6] = "overlays"
        BY DEF Directories
      <4> QED  BY <4>1 DEF ToSet
    <3> QED  BY <2>4, <3>1
  <2>6. LoadError(Fleet) = "None" /\ resolved = ResolveOverlays(Fleet.overlays)
    BY DEF Overlaid
  <2>7. PICK repository : repository = Fleet
    OBVIOUS
  <2>8. \A i \in DOMAIN repository.overlays : repository.overlays[i].tier \in ToSet(OverlayTiers)
    BY <2>4, <2>6, <2>7, LoadedTiers
  <2>9. PICK q, settings : q = Fleet.overlays /\ settings = resolved
    OBVIOUS
  <2>10. /\ IsVector(q) /\ \A i \in DOMAIN q : q[i].tier \in ToSet(OverlayTiers)
         /\ settings = ResolveOverlays(q)
    BY <2>5, <2>6, <2>7, <2>8, <2>9
  <2>11. /\ DOMAIN settings = UNION {DOMAIN q[i].settings : i \in DOMAIN q}
         /\ \A key \in DOMAIN settings : \E i \in {x \in DOMAIN q : key \in DOMAIN q[x].settings} :
              /\ settings[key] = q[i].settings[key]
              /\ \A j \in {x \in DOMAIN q : key \in DOMAIN q[x].settings} \ {i} : Overrides(i, j, q)
    BY <2>10, OverridingWins
  <2> QED  BY ONLY <2>9, <2>11
<1> QED  BY <1>1, <1>2, ControlStarts, ControlSteps, OverlaidSteps, PTL DEF Spec

-----------------------------------------------------------------------------
(* What the verification planner chooses, for any action and impact.        *)

\* The elements of the lists of checks and skips the verification planner writes down.
LEMMA ElementsOfLists ==
  /\ IsVector(<<>>) /\ ToSet(<<>>) = {}
  /\ \A a : IsVector(<<a>>) /\ ToSet(<<a>>) = {a}
  /\ \A a, b : IsVector(<<a, b>>) /\ ToSet(<<a, b>>) = {a, b}
  /\ \A a, b, c : ToSet(<<a, b, c>>) = {a, b, c}
  /\ \A a, b, c, d : ToSet(<<a, b, c, d>>) = {a, b, c, d}
  /\ \A a, b, c, d, e :
       IsVector(<<a, b, c, d, e>>) /\ ToSet(<<a, b, c, d, e>>) = {a, b, c, d, e}
<1>1. IsVector(<<>>) /\ ToSet(<<>>) = {}
  BY VectorEmpty DEF ToSet
<1>2. ASSUME NEW a PROVE IsVector(<<a>>) /\ ToSet(<<a>>) = {a}
  <2>1. <<a>> \in Seq({a})
    OBVIOUS
  <2>2. IsVector(<<a>>)
    BY <2>1, SeqIsVector
  <2> QED  BY <2>2 DEF ToSet
<1>3. ASSUME NEW a, NEW b PROVE IsVector(<<a, b>>) /\ ToSet(<<a, b>>) = {a, b}
  <2>1. <<a, b>> \in Seq({a, b})
    OBVIOUS
  <2>2. IsVector(<<a, b>>)
    BY <2>1, SeqIsVector
  <2> QED  BY <2>2 DEF ToSet
<1>4. ASSUME NEW a, NEW b, NEW c PROVE ToSet(<<a, b, c>>) = {a, b, c}
  BY DEF ToSet
<1>5. ASSUME NEW a, NEW b, NEW c, NEW d PROVE ToSet(<<a, b, c, d>>) = {a, b, c, d}
  BY DEF ToSet
<1>6. ASSUME NEW a, NEW b, NEW c, NEW d, NEW e
      PROVE  IsVector(<<a, b, c, d, e>>) /\ ToSet(<<a, b, c, d, e>>) = {a, b, c, d, e}
  <2>1. <<a, b, c, d, e>> \in Seq({a, b, c, d, e})
    OBVIOUS
  <2>2. IsVector(<<a, b, c, d, e>>)
    BY <2>1, SeqIsVector
  <2> QED  BY <2>2 DEF ToSet
<1> QED  BY <1>1, <1>2, <1>3, <1>4, <1>5, <1>6

\* A search that finds anything finds an entry.
LEMMA FoundAmong ==
  ASSUME NEW q, IsVector(q), NEW I \in SUBSET (1..Len(q)), NEW k,
         k = IF I # {} THEN Min(I) ELSE 0
  PROVE  k # 0 => k \in I /\ q[k] \in ToSet(q)
<1>1. ASSUME I # {} PROVE Min(I) \in I
  <2>1. \E i \in I : \A j \in I : i <= j
    BY <1>1, LeastExists DEF IsVector
  <2> QED  BY <2>1 DEF Min
<1>2. 1..Len(q) = DOMAIN q
  BY VectorIsSeq DEF IsVector
<1> QED  BY <1>1, <1>2 DEF ToSet

\* Whatever resource the planner picks is one the action writes or may affect.
LEMMA PickedFromImpact ==
  ASSUME NEW impact, IsVector(impact.writes), IsVector(impact.mayAffect), impact.writes # <<>>
  PROVE  LET touched == ToSet(impact.writes) \cup ToSet(impact.mayAffect)
         IN  /\ PrimaryResource(impact) \in ToSet(impact.writes)
             /\ DependentResource(impact) \in touched
             /\ PackageResource(impact) \in touched
             /\ \A r \in touched : RebootResource(impact, r) \in touched
             /\ AffectedService(impact) \in touched
<1> DEFINE w == impact.writes
           m == impact.mayAffect
           touched == ToSet(w) \cup ToSet(m)
<1>1. \A q : IsVector(q) /\ q # <<>> => Head(q) \in ToSet(q)
  <2> TAKE q
  <2> HAVE IsVector(q) /\ q # <<>>
  <2>1. Len(q) # 0 /\ Len(q) \in Nat /\ 1..Len(q) = DOMAIN q
    BY VectorIsSeq, VectorOfNone DEF IsVector
  <2>2. 1 \in DOMAIN q /\ Head(q) = q[1]
    BY <2>1
  <2> QED  BY <2>2 DEF ToSet
<1>2. PrimaryResource(impact) \in ToSet(w)
  BY <1>1 DEF PrimaryResource, HeadOr
<1>3. DependentResource(impact) \in touched
  BY <1>1, <1>2 DEF DependentResource, HeadOr
<1>4. IsVector(w \o m) /\ ToSet(w \o m) = touched
  BY VectorConcat, ToSetConcat
<1>5. PackageResource(impact) \in touched
  <2> DEFINE q == w \o m
             I == {i \in 1..Len(q) : MentionsPackageDb(q[i])}
             k == SelectInSeq(q, MentionsPackageDb)
  <2>1. PackageResource(impact) = IF k = 0 THEN PrimaryResource(impact) ELSE q[k]
    BY DEF PackageResource, FirstOr
  <2>2. k = IF I # {} THEN Min(I) ELSE 0
    BY DEF SelectInSeq
  <2> HIDE DEF q, I, k
  <2>3. IsVector(q) /\ I \in SUBSET (1..Len(q)) /\ ToSet(q) = touched
    BY <1>4 DEF q, I
  <2>4. k # 0 => q[k] \in touched
    BY <2>2, <2>3, FoundAmong
  <2> QED  BY <1>2, <2>1, <2>4
<1>6. ASSUME NEW r \in touched PROVE RebootResource(impact, r) \in touched
  <2> DEFINE q == w \o m
             I == {i \in 1..Len(q) : MentionsReboot(q[i])}
             k == SelectInSeq(q, MentionsReboot)
  <2>1. RebootResource(impact, r) = IF k = 0 THEN r ELSE q[k]
    BY DEF RebootResource, FirstOr
  <2>2. k = IF I # {} THEN Min(I) ELSE 0
    BY DEF SelectInSeq
  <2> HIDE DEF q, I, k
  <2>3. IsVector(q) /\ I \in SUBSET (1..Len(q)) /\ ToSet(q) = touched
    BY <1>4 DEF q, I
  <2>4. k # 0 => q[k] \in touched
    BY <2>2, <2>3, FoundAmong
  <2> QED  BY <1>6, <2>1, <2>4
<1>7. AffectedService(impact) \in touched
  <2> DEFINE I == {i \in 1..Len(m) : MentionsService(m[i])}
             k == SelectInSeq(m, MentionsService)
  <2>1. AffectedService(impact) = IF k = 0 THEN PrimaryResource(impact) ELSE m[k]
    BY DEF AffectedService, FirstOr
  <2>2. k = IF I # {} THEN Min(I) ELSE 0
    BY DEF SelectInSeq
  <2> HIDE DEF I, k
  <2>3. I \in SUBSET (1..Len(m))
    BY DEF I
  <2>4. k # 0 => m[k] \in ToSet(m)
    BY <2>2, <2>3, FoundAmong
  <2> QED  BY <1>2, <2>1, <2>4
<1> QED  BY <1>2, <1>3, <1>5, <1>6, <1>7

\* A plan of verification that is sound for an impact: none of its checks is skipped as
\* well, each is about something the action writes or may affect, and one is about its
\* direct impact.
SoundFor(v, impact) ==
  /\ \A check \in ToSet(v.required) : check.id \notin ToSet(v.skipped)
  /\ \A check \in ToSet(v.required) :
       check.resource \in ToSet(impact.writes) \cup ToSet(impact.mayAffect)
  /\ \E check \in ToSet(v.required) : check.tier = "DirectImpact"

\* What the planner chooses for a package update is sound.
LEMMA PackageUpdateSound ==
  ASSUME NEW impact, IsVector(impact.writes), IsVector(impact.mayAffect), impact.writes # <<>>,
         NEW policy
  PROVE  SoundFor(SystemPackageUpdate(impact, policy), impact)
<1> DEFINE v == SystemPackageUpdate(impact, policy)
           health == "service_health_for_affected_services"
           touched == ToSet(impact.writes) \cup ToSet(impact.mayAffect)
           package == PackageResource(impact)
           a == Check("package_db_consistent", package, "DirectImpact")
           b == Check("package_state_matches_policy", package, "DirectImpact")
           c == Check("changed_files_classified", package, "DirectImpact")
           d == Check("affected_services_identified", package, "Dependent")
           e == Check("reboot_required_detected", RebootResource(impact, package), "Dependent")
           h == Check(health, AffectedService(impact), "Dependent")
           p == Check("package_audit", package, "BroadRegression")
           affects == AffectsService(impact)
           audits == "package_audit" \in policy
<1>1. /\ v.required = <<a, b, c, d, e>> \o OnlyIf(affects, h) \o OnlyIf(audits, p)
      /\ v.skipped = <<"full_disk_scan">> \o OnlyIf(~ affects, health)
  BY DEF SystemPackageUpdate, VerificationPlan
<1>2. /\ a.tier = "DirectImpact" /\ a.id = "package_db_consistent"
      /\ b.id = "package_state_matches_policy" /\ c.id = "changed_files_classified"
      /\ d.id = "affected_services_identified" /\ e.id = "reboot_required_detected"
      /\ h.id = "service_health_for_affected_services" /\ p.id = "package_audit"
  BY DEF Check
<1>3. {a.resource, b.resource, c.resource, d.resource, e.resource, h.resource, p.resource}
        \subseteq touched
  <2>1. /\ package \in touched /\ RebootResource(impact, package) \in touched
        /\ AffectedService(impact) \in touched
    BY PickedFromImpact
  <2> QED  BY <2>1 DEF Check
<1> HIDE DEF v, a, b, c, d, e, h, p, affects, audits, touched
<1>4. /\ IsVector(<<a, b, c, d, e>>) /\ ToSet(<<a, b, c, d, e>>) = {a, b, c, d, e}
      /\ IsVector(<<"full_disk_scan">>) /\ ToSet(<<"full_disk_scan">>) = {"full_disk_scan"}
  BY ElementsOfLists
<1>5. /\ ToSet(<<a, b, c, d, e>> \o OnlyIf(affects, h)) = {a, b, c, d, e} \cup ToSet(OnlyIf(affects, h))
      /\ IsVector(<<a, b, c, d, e>> \o OnlyIf(affects, h))
  <2>1. PICK first : first = <<a, b, c, d, e>>
    OBVIOUS
  <2>2. IsVector(first) /\ ToSet(first) = {a, b, c, d, e} /\ IsVector(OnlyIf(affects, h))
    BY <1>4, <2>1, OnlyIfVector
  <2>3. IsVector(first \o OnlyIf(affects, h))
    BY <2>2, VectorConcat
  <2>4. ToSet(first \o OnlyIf(affects, h)) = ToSet(first) \cup ToSet(OnlyIf(affects, h))
    BY <2>2, ToSetConcat
  <2> QED  BY <2>1, <2>2, <2>3, <2>4
<1>6. ToSet(v.required) = {a, b, c, d, e} \cup ToSet(OnlyIf(affects, h)) \cup ToSet(OnlyIf(audits, p))
  BY <1>1, <1>5, OnlyIfVector, ToSetConcat
<1>7. ToSet(v.skipped) = {"full_disk_scan"} \cup ToSet(OnlyIf(~ affects, health))
  BY <1>1, <1>4, OnlyIfVector, ToSetConcat
<1>8. /\ ToSet(OnlyIf(affects, h)) = IF affects THEN {h} ELSE {}
      /\ ToSet(OnlyIf(audits, p)) = IF audits THEN {p} ELSE {}
      /\ ToSet(OnlyIf(~ affects, health)) = IF affects THEN {} ELSE {health}
  BY ToSetOnlyIf
<1>9. \A check \in ToSet(v.required) : check.id \notin ToSet(v.skipped)
  BY <1>2, <1>6, <1>7, <1>8
<1>10. \A check \in ToSet(v.required) : check.resource \in touched
  BY <1>3, <1>6, <1>8
<1> QED  BY <1>2, <1>6, <1>9, <1>10 DEF SoundFor, touched, v

\* So is what it chooses for a platform reload.
LEMMA PlatformReloadSound ==
  ASSUME NEW impact, IsVector(impact.writes), IsVector(impact.mayAffect), impact.writes # <<>>,
         NEW policy
  PROVE  SoundFor(PlatformReload(impact, policy), impact)
<1> DEFINE v == PlatformReload(impact, policy)
           touched == ToSet(impact.writes) \cup ToSet(impact.mayAffect)
           a == Check("config_syntax_valid", PrimaryResource(impact), "Precondition")
           b == Check("platform_accepts_connections", PrimaryResource(impact), "DirectImpact")
           c == Check("dependent_app_canary", DependentResource(impact), "Dependent")
           canary == "dependent_app_canary" \in policy
<1>1. v.required = <<a, b>> \o OnlyIf(canary, c) /\ v.skipped = <<"full_package_audit">>
  BY DEF PlatformReload, VerificationPlan
<1>2. /\ b.tier = "DirectImpact" /\ a.id = "config_syntax_valid"
      /\ b.id = "platform_accepts_connections" /\ c.id = "dependent_app_canary"
  BY DEF Check
<1>3. {a.resource, b.resource, c.resource} \subseteq touched
  <2>1. PrimaryResource(impact) \in touched /\ DependentResource(impact) \in touched
    BY PickedFromImpact
  <2> QED  BY <2>1 DEF Check
<1> HIDE DEF v, a, b, c, canary, touched
<1>4. /\ IsVector(<<a, b>>) /\ ToSet(<<a, b>>) = {a, b}
      /\ ToSet(<<"full_package_audit">>) = {"full_package_audit"}
  BY ElementsOfLists
<1>5. /\ ToSet(v.required) = {a, b} \cup ToSet(OnlyIf(canary, c))
      /\ ToSet(v.skipped) = {"full_package_audit"}
  BY <1>1, <1>4, OnlyIfVector, ToSetConcat
<1>6. ToSet(OnlyIf(canary, c)) = IF canary THEN {c} ELSE {}
  BY ToSetOnlyIf
<1>7. \A check \in ToSet(v.required) : check.id \notin ToSet(v.skipped)
  BY <1>2, <1>5, <1>6
<1>8. \A check \in ToSet(v.required) : check.resource \in touched
  BY <1>3, <1>5, <1>6
<1> QED  BY <1>2, <1>5, <1>7, <1>8 DEF SoundFor, touched, v

\* So is what it chooses for a reboot and for a cleanup.
LEMMA RebootAndCleanupSound ==
  ASSUME NEW impact, IsVector(impact.writes), IsVector(impact.mayAffect), impact.writes # <<>>
  PROVE  SoundFor(SystemReboot(impact), impact) /\ SoundFor(AllowlistedFileCleanup(impact), impact)
<1> DEFINE touched == ToSet(impact.writes) \cup ToSet(impact.mayAffect)
           primary == PrimaryResource(impact)
           other == DependentResource(impact)
           reboot == RebootResource(impact, primary)
<1>1. {primary, other, reboot} \subseteq touched
  BY PickedFromImpact
<1>2. ASSUME NEW a, NEW b, NEW c, NEW d, NEW skipped
      PROVE  LET v == VerificationPlan(<<a, b, c, d>>, skipped)
             IN  ToSet(v.required) = {a, b, c, d} /\ v.skipped = skipped
  BY ElementsOfLists DEF VerificationPlan
<1>3. SoundFor(SystemReboot(impact), impact)
  <2> DEFINE v == SystemReboot(impact)
             a == Check("drain_completed", reboot, "Precondition")
             b == Check("reboot_completed", reboot, "DirectImpact")
             c == Check("node_health_after_reboot", reboot, "DirectImpact")
             d == Check("affected_services_healthy_after_reboot", other, "Dependent")
  <2>1. ToSet(v.required) = {a, b, c, d} /\ ToSet(v.skipped) = {"package_audit"}
    <3>1. v = VerificationPlan(<<a, b, c, d>>, <<"package_audit">>)
      BY DEF SystemReboot
    <3> HIDE DEF v, a, b, c, d
    <3> QED  BY <1>2, <3>1, ElementsOfLists
  <2>2. /\ b.tier = "DirectImpact" /\ a.id = "drain_completed" /\ b.id = "reboot_completed"
        /\ c.id = "node_health_after_reboot" /\ d.id = "affected_services_healthy_after_reboot"
        /\ a.resource = reboot /\ b.resource = reboot /\ c.resource = reboot /\ d.resource = other
    BY DEF Check
  <2> HIDE DEF v, a, b, c, d
  <2>3. \A check \in ToSet(v.required) : check.id \notin ToSet(v.skipped)
    BY <2>1, <2>2
  <2>4. \A check \in ToSet(v.required) : check.resource \in touched
    BY <1>1, <2>1, <2>2
  <2> QED  BY <2>1, <2>2, <2>3, <2>4 DEF SoundFor, v
<1>4. SoundFor(AllowlistedFileCleanup(impact), impact)
  <2> DEFINE v == AllowlistedFileCleanup(impact)
             a == Check("helper_result_matches_request", primary, "DirectImpact")
             b == Check("free_space_improved", other, "DirectImpact")
             c == Check("cleaned_paths_match_allowlist", primary, "DirectImpact")
             d == Check("no_unrelated_deletion_reported", primary, "DirectImpact")
  <2>1. ToSet(v.required) = {a, b, c, d} /\ ToSet(v.skipped) = {}
    <3>1. v = VerificationPlan(<<a, b, c, d>>, <<>>)
      BY DEF AllowlistedFileCleanup
    <3> HIDE DEF v, a, b, c, d
    <3> QED  BY <1>2, <3>1, ElementsOfLists
  <2>2. /\ a.tier = "DirectImpact"
        /\ a.resource = primary /\ b.resource = other /\ c.resource = primary /\ d.resource = primary
    BY DEF Check
  <2> HIDE DEF v, a, b, c, d
  <2>3. \A check \in ToSet(v.required) : check.resource \in touched
    BY <1>1, <2>1, <2>2
  <2> QED  BY <2>1, <2>2, <2>3 DEF SoundFor, v
<1> QED  BY <1>3, <1>4

\* Whatever the action, the policy and the impact, if the action writes anything: no check is
\* both required and skipped, no check is about a resource the impact does not name, and
\* there is a check of the direct impact (VerificationPlanner::plan in lib.rs, whose arms
\* and resources are chosen by searching ids for substrings).
THEOREM VerificationIsSound ==
  ASSUME NEW action, NEW policy,
         NEW impact, IsVector(impact.writes), IsVector(impact.mayAffect), impact.writes # <<>>
  PROVE  SoundFor(PlanVerification(action, impact, policy), impact)
<1> DEFINE primary == PrimaryResource(impact)
           a == Check("helper_result_matches_request", primary, "DirectImpact")
           b == Check(IF action = "ServiceReload" THEN "service_reloaded" ELSE "service_active",
                      primary, "DirectImpact")
<1>1. primary \in ToSet(impact.writes) \cup ToSet(impact.mayAffect)
  BY PickedFromImpact
<1>2. /\ a.tier = "DirectImpact" /\ a.id = "helper_result_matches_request" /\ a.resource = primary
      /\ b.id \in {"service_reloaded", "service_active"} /\ b.resource = primary
  BY DEF Check
<1>3. GenericServiceChange(action, impact) = <<a, b>>
  BY DEF GenericServiceChange
<1> HIDE DEF a, b
<1>4. ASSUME NEW skipped,
             ToSet(skipped) \subseteq {"package_audit", "full_disk_scan", "firewall_audit"}
      PROVE  /\ SoundFor(VerificationPlan(<<a>>, skipped), impact)
             /\ SoundFor(VerificationPlan(<<a, b>>, skipped), impact)
  <2>1. ToSet(<<a>>) = {a} /\ ToSet(<<a, b>>) = {a, b}
    BY ElementsOfLists
  <2> QED  BY <1>1, <1>2, <1>4, <2>1 DEF SoundFor, VerificationPlan
<1>5. /\ ToSet(<<"package_audit", "full_disk_scan", "firewall_audit">>)
           \subseteq {"package_audit", "full_disk_scan", "firewall_audit"}
      /\ ToSet(<<>>) \subseteq {"package_audit", "full_disk_scan", "firewall_audit"}
  BY ElementsOfLists
<1>6. /\ SoundFor(VerificationPlan(<<a, b>>, <<"package_audit", "full_disk_scan", "firewall_audit">>), impact)
      /\ SoundFor(VerificationPlan(<<a, b>>, <<>>), impact)
      /\ SoundFor(VerificationPlan(<<a>>, <<>>), impact)
  BY <1>4, <1>5
<1> QED
  BY <1>3, <1>6, PackageUpdateSound, PlatformReloadSound, RebootAndCleanupSound
     DEF PlanVerification, a

-----------------------------------------------------------------------------
(* What planners, collectors and analyzers, each with tables of its own, may *)
(* rely on.                                                                  *)

\* A runbook that is planned runs on what the node reported: every task's capabilities are
\* among those of the report, whatever the report claims and on any operating system
\* (ServiceUnhealthyRunbook::plan and DiskPressureRunbook::plan, which ask for capabilities
\* in one place and hand them to tasks in another).
THEOREM PlannedTasksAreSupported ==
  ASSUME NEW request, NEW report
  PROVE  /\ ServiceUnhealthyError(request, report) = <<>> =>
              \A task \in ToSet(ServiceUnhealthyPlan(request, report).tasks) :
                \A capability \in task.capabilities : Supports(report, capability)
         /\ DiskPressureError(request, report) = <<>> =>
              \A task \in ToSet(DiskPressurePlan(request, report).tasks) :
                \A capability \in task.capabilities : Supports(report, capability)
<1> DEFINE os == report.os
           Supported(tasks) == \A task \in ToSet(tasks) :
                                 \A capability \in task.capabilities : Supports(report, capability)
<1>1. \A x, y : <<x>> # <<>> /\ <<x, y>> # <<>>
  OBVIOUS
<1>2. ASSUME NEW needed, RequireReported(report, needed) = <<>>
      PROVE  \A i \in DOMAIN needed : Supports(report, needed[i])
  BY <1>1, <1>2 DEF RequireReported
<1>3. ASSUME NEW id, NEW capability, NEW reads PROVE Collect(id, capability, reads).capabilities = {capability}
  BY DEF Collect
<1>4. ASSUME NEW id, NEW some, NEW r, NEW ids, NEW impact, NEW v
      PROVE  Mutate(id, some, r, ids, impact, v).capabilities = some
  BY DEF Mutate
<1>5. ASSUME NEW q, IsVector(q), NEW task, Supported(q),
             \A capability \in task.capabilities : Supports(report, capability)
      PROVE  Supported(Append(q, task))
  BY <1>5, ToSetOneMore
<1>6. ASSUME ServiceUnhealthyError(request, report) = <<>>
      PROVE  Supported(ServiceUnhealthyPlan(request, report).tasks)
  <2>1. RequireReported(report, ServiceUnhealthyCapabilities(os)) = <<>>
    BY <1>1, <1>6 DEF ServiceUnhealthyError
  <2> DEFINE needed == ServiceUnhealthyCapabilities(os)
  <2>2. DOMAIN needed = 1..6 /\ needed[1] = ServiceCapability[os] /\ needed[2] = LogCapability[os]
        /\ needed[3] = ProcessCapability[os] /\ needed[4] = SocketCapability[os]
        /\ needed[5] = "storage.df" /\ needed[6] = PrivilegeCapability[os]
    BY DEF ServiceUnhealthyCapabilities
  <2> HIDE DEF needed
  <2>3. /\ Supports(report, ServiceCapability[os]) /\ Supports(report, LogCapability[os])
        /\ Supports(report, ProcessCapability[os]) /\ Supports(report, SocketCapability[os])
        /\ Supports(report, "storage.df") /\ Supports(report, PrivilegeCapability[os])
    <3>1. \A i \in 1..6 : Supports(report, needed[i])
      BY <1>2, <2>1, <2>2 DEF needed
    <3>2. {1, 2, 3, 4, 5, 6} \subseteq 1..6
      OBVIOUS
    <3> QED  BY <2>2, <3>1, <3>2
  <2> DEFINE c == ServiceUnhealthyCollectors(request, os)
  <2>4. /\ IsVector(c) /\ DOMAIN c = 1..5
        /\ c[1].capabilities = {ServiceCapability[os]} /\ c[2].capabilities = {LogCapability[os]}
        /\ c[3].capabilities = {"storage.df"} /\ c[4].capabilities = {ProcessCapability[os]}
        /\ c[5].capabilities = {SocketCapability[os]}
    <3>1. c \in Seq({c[1], c[2], c[3], c[4], c[5]})
      BY DEF ServiceUnhealthyCollectors
    <3>2. IsVector(c)
      BY <3>1, SeqIsVector
    <3>3. DOMAIN c = 1..5
      BY DEF ServiceUnhealthyCollectors
    <3> QED  BY <1>3, <3>2, <3>3 DEF ServiceUnhealthyCollectors
  <2> HIDE DEF c
  <2>5. Supported(c)
    BY <2>3, <2>4 DEF ToSet
  <2>6. PICK restart : /\ ServiceUnhealthyPlan(request, report).tasks = Append(c, restart)
                       /\ restart.capabilities = {ServiceCapability[os], PrivilegeCapability[os]}
    BY <1>4 DEF ServiceUnhealthyPlan, c
  <2> QED  BY <1>5, <2>3, <2>4, <2>5, <2>6
<1>7. ASSUME DiskPressureError(request, report) = <<>>
      PROVE  Supported(DiskPressurePlan(request, report).tasks)
  <2>1. RequireReported(report, DiskPressureCapabilities(os)) = <<>>
    BY <1>1, <1>7 DEF DiskPressureError
  <2> DEFINE needed == DiskPressureCapabilities(os)
  <2>2. DOMAIN needed = 1..3 /\ needed[1] = "storage.df" /\ needed[2] = LogCapability[os]
        /\ needed[3] = PrivilegeCapability[os]
    BY DEF DiskPressureCapabilities
  <2> HIDE DEF needed
  <2>3. /\ Supports(report, "storage.df") /\ Supports(report, LogCapability[os])
        /\ Supports(report, PrivilegeCapability[os])
    <3>1. \A i \in 1..3 : Supports(report, needed[i])
      BY <1>2, <2>1, <2>2 DEF needed
    <3>2. {1, 2, 3} \subseteq 1..3
      OBVIOUS
    <3> QED  BY <2>2, <3>1, <3>2
  <2> DEFINE c == DiskPressureCollectors(request, os)
  <2>4. /\ IsVector(c) /\ DOMAIN c = 1..4
        /\ c[1].capabilities = {"storage.df"} /\ c[2].capabilities = {"storage.df"}
        /\ c[3].capabilities = {LogCapability[os]} /\ c[4].capabilities = {"storage.df"}
    <3>1. c \in Seq({c[1], c[2], c[3], c[4]})
      BY DEF DiskPressureCollectors
    <3>2. IsVector(c)
      BY <3>1, SeqIsVector
    <3>3. DOMAIN c = 1..4
      BY DEF DiskPressureCollectors
    <3> QED  BY <1>3, <3>2, <3>3 DEF DiskPressureCollectors
  <2> HIDE DEF c
  <2>5. Supported(c)
    BY <2>3, <2>4 DEF ToSet
  <2>6. PICK cleanup : /\ DiskPressurePlan(request, report).tasks = Append(c, cleanup)
                       /\ cleanup.capabilities = {PrivilegeCapability[os]}
    BY <1>4 DEF DiskPressurePlan, c
  <2> QED  BY <1>5, <2>3, <2>4, <2>5, <2>6
<1> QED  BY <1>6, <1>7

\* What the native collectors of an operating system report is enough for both runbooks, and
\* each kind of evidence can be collected there for any service with a valid name
\* (platform.rs reports and collects by tables of its own; lib.rs plans by others).
THEOREM NativeReportsSuffice ==
  ASSUME NEW os \in PlannedSystems, NEW request,
         NEW kind \in EvidenceKinds, NEW service, ServiceNameValid(service)
  PROVE  /\ ServiceUnhealthyError(request, NativeReport(request.node, os)) = <<>>
         /\ DiskPressureError(request, NativeReport(request.node, os)) = <<>>
         /\ RequestError(CollectorRequest(kind, service)) = <<>>
         /\ CommandError(os, CollectorRequest(kind, service)) = <<>>
<1> DEFINE report == NativeReport(request.node, os)
<1>1. /\ report.node = request.node /\ report.os = os
      /\ report.capabilities = NativeCapabilities(os)
  BY DEF NativeReport, CapabilityReport
<1>2. os \in {"Linux", "FreeBsd", "OpenBsd"}
  BY DEF PlannedSystems
<1>3. {ServiceCapability[os], LogCapability[os], ProcessCapability[os], SocketCapability[os],
       "storage.df", PrivilegeCapability[os]} \subseteq NativeCapabilities(os)
  BY <1>2 DEF NativeCapabilities, LinuxReport, FreeBsdReport, OpenBsdReport, ServiceCapability,
              LogCapability, ProcessCapability, SocketCapability, PrivilegeCapability
<1> HIDE DEF report
<1>4. ASSUME NEW needed, \A i \in DOMAIN needed : needed[i] \in NativeCapabilities(os)
      PROVE  RequireReported(report, needed) = <<>>
  BY <1>1, <1>4 DEF RequireReported, Supports
<1>5. RequireReported(report, ServiceUnhealthyCapabilities(os)) = <<>>
  <2>1. \A i \in DOMAIN ServiceUnhealthyCapabilities(os) :
          ServiceUnhealthyCapabilities(os)[i] \in NativeCapabilities(os)
    BY <1>3 DEF ServiceUnhealthyCapabilities
  <2> QED  BY <1>4, <2>1
<1>6. RequireReported(report, DiskPressureCapabilities(os)) = <<>>
  <2>1. \A i \in DOMAIN DiskPressureCapabilities(os) :
          DiskPressureCapabilities(os)[i] \in NativeCapabilities(os)
    BY <1>3 DEF DiskPressureCapabilities
  <2> QED  BY <1>4, <2>1
<1>7. ServiceUnhealthyError(request, report) = <<>>
  BY <1>1, <1>5 DEF ServiceUnhealthyError
<1>8. DiskPressureError(request, report) = <<>>
  BY <1>1, <1>3, <1>6 DEF DiskPressureError, Supports
<1> DEFINE asked == CollectorRequest(kind, service)
<1>9. /\ asked.kind = kind
      /\ kind \in {"ServiceStatus", "RecentLogs"} => asked.service = service
  BY DEF CollectorRequest
<1> HIDE DEF asked
<1>10. RequestError(asked) = <<>>
  BY <1>9 DEF RequestError
<1>11. kind \in DOMAIN CollectorSpecs(os)
  BY <1>2 DEF CollectorSpecs, EvidenceKinds, LinuxCollectors, FreeBsdCollectors, OpenBsdCollectors
<1>12. CollectorSpecs(os)[kind].capability \in NativeCapabilities(os)
  BY <1>2 DEF CollectorSpecs, EvidenceKinds, LinuxCollectors, FreeBsdCollectors, OpenBsdCollectors,
     Collector, NativeCapabilities, LinuxReport, FreeBsdReport, OpenBsdReport
<1>13. CollectorSpecs(os)[kind].service => kind \in {"ServiceStatus", "RecentLogs"}
  BY <1>2 DEF CollectorSpecs, EvidenceKinds, LinuxCollectors, FreeBsdCollectors, OpenBsdCollectors,
     Collector
<1>14. CommandError(os, asked) = <<>>
  BY <1>9, <1>11, <1>12, <1>13 DEF CommandError, ServiceNameValid
<1> QED  BY <1>7, <1>8, <1>10, <1>14 DEF report, asked

\* A proposal obeys a policy if the policy lets it through and what changes a node asks for
\* approval and an exclusive lease on what it changes.
Obeys(p, policy) ==
  /\ ValidProposal(p, policy)
  /\ \A action \in ToSet(p.actions) :
       action.kind \in HelperAction =>
         /\ action.requiresApproval
         /\ [resource |-> action.target, mode |-> "Exclusive"] \in action.requests

\* A proposal of one action is what the action is.
LEMMA OneActionObeys ==
  ASSUME NEW id, NEW action, NEW policy, action.kind \in policy.allowed,
         action.requiresApproval = (action.kind \in policy.approvalRequired),
         action.kind \in HelperAction =>
           /\ action.requiresApproval
           /\ [resource |-> action.target, mode |-> "Exclusive"] \in action.requests
  PROVE  Obeys(Proposal(id, <<action>>), policy) /\ ToSet(Proposal(id, <<action>>).actions) = {action}
<1>1. /\ Proposal(id, <<action>>).actions = <<action>> /\ <<action>> # <<>>
      /\ DOMAIN <<action>> = {1} /\ <<action>>[1] = action
  BY DEF Proposal
<1>2. ToSet(<<action>>) = {action}
  BY DEF ToSet
<1> QED  BY <1>1, <1>2 DEF ValidProposal, Obeys

\* An analyzer proposes nothing its own policy refuses, and what changes a node asks for
\* approval and an exclusive lease on what it changes, which for a cleanup is an allowlisted
\* path, whatever the evidence says (the two analyzers and validate_proposal, analyzer.rs).
THEOREM AnalyzersObeyPolicies ==
  ASSUME NEW id, NEW node, NEW service, NEW mount, NEW cleanup, NEW found, NEW allowed
  PROVE  LET repair == AnalyzeServiceUnhealthy(id, node, service, found)
             freeing == AnalyzeDiskPressure(id, node, mount, cleanup, found, allowed)
         IN  /\ Obeys(repair, ServicePolicy) /\ Obeys(freeing, DiskPolicy)
             /\ \A action \in ToSet(freeing.actions) :
                  action.kind \in HelperAction => action.target \in allowed
<1> DEFINE target == ServiceResource(node, service)
<1>1. /\ "ManualTakeover" \in ServicePolicy.allowed \ ServicePolicy.approvalRequired
      /\ "CollectMoreLogs" \in ServicePolicy.allowed \ ServicePolicy.approvalRequired
      /\ "ServiceRestart" \in ServicePolicy.allowed \cap ServicePolicy.approvalRequired
      /\ "ManualTakeover" \in DiskPolicy.allowed \ DiskPolicy.approvalRequired
      /\ "RemoveAllowlistedFile" \in DiskPolicy.allowed \cap DiskPolicy.approvalRequired
      /\ "ManualTakeover" \notin HelperAction /\ "CollectMoreLogs" \notin HelperAction
  BY DEF ServicePolicy, DiskPolicy, HelperAction
<1>2. ASSUME NEW what, NEW kind, NEW r, NEW policy
      PROVE  /\ kind \in policy.allowed \cap policy.approvalRequired =>
                  /\ Obeys(Proposal(id, <<Changing(what, kind, r)>>), policy)
                  /\ \A action \in ToSet(Proposal(id, <<Changing(what, kind, r)>>).actions) : action.target = r
             /\ kind \in policy.allowed \ policy.approvalRequired /\ kind \notin HelperAction =>
                  /\ Obeys(Proposal(id, <<Harmless(what, kind, r)>>), policy)
                  /\ \A action \in ToSet(Proposal(id, <<Harmless(what, kind, r)>>).actions) : action.kind = kind
  <2> DEFINE changing == Changing(what, kind, r)
             harmless == Harmless(what, kind, r)
  <2>1. /\ changing.kind = kind /\ changing.requiresApproval = TRUE /\ changing.target = r
        /\ [resource |-> changing.target, mode |-> "Exclusive"] \in changing.requests
        /\ harmless.kind = kind /\ harmless.requiresApproval = FALSE
    BY DEF Changing, Harmless
  <2> HIDE DEF changing, harmless
  <2>2. ASSUME kind \in policy.allowed \cap policy.approvalRequired
        PROVE  /\ Obeys(Proposal(id, <<changing>>), policy)
               /\ ToSet(Proposal(id, <<changing>>).actions) = {changing}
    <3>1. changing.requiresApproval = (changing.kind \in policy.approvalRequired)
      BY <2>1, <2>2
    <3> QED  BY <2>1, <2>2, <3>1, OneActionObeys
  <2>3. ASSUME kind \in policy.allowed \ policy.approvalRequired, kind \notin HelperAction
        PROVE  /\ Obeys(Proposal(id, <<harmless>>), policy)
               /\ ToSet(Proposal(id, <<harmless>>).actions) = {harmless}
    <3>1. /\ harmless.kind \in policy.allowed /\ harmless.kind \notin HelperAction
          /\ harmless.kind \notin policy.approvalRequired
      BY <2>1, <2>3
    <3>2. harmless.requiresApproval = (harmless.kind \in policy.approvalRequired)
      <4>1. (harmless.kind \in policy.approvalRequired) = FALSE
        BY <3>1
      <4> QED  BY <2>1, <4>1
    <3> QED  BY <3>1, <3>2, OneActionObeys
  <2> QED  BY <2>1, <2>2, <2>3 DEF changing, harmless
<1>3. Obeys(AnalyzeServiceUnhealthy(id, node, service, found), ServicePolicy)
  <2>1. /\ Obeys(Proposal(id, <<Harmless("manual-takeover", "ManualTakeover", target)>>), ServicePolicy)
        /\ Obeys(Proposal(id, <<Changing("restart-service", "ServiceRestart", target)>>), ServicePolicy)
        /\ Obeys(Proposal(id, <<Harmless("collect-more-logs", "CollectMoreLogs", target)>>), ServicePolicy)
    BY <1>1, <1>2
  <2> QED  BY <2>1 DEF AnalyzeServiceUnhealthy
<1>4. /\ Obeys(AnalyzeDiskPressure(id, node, mount, cleanup, found, allowed), DiskPolicy)
      /\ \A action \in ToSet(AnalyzeDiskPressure(id, node, mount, cleanup, found, allowed).actions) :
           action.kind \in HelperAction => action.target \in allowed
  <2> DEFINE freeing == AnalyzeDiskPressure(id, node, mount, cleanup, found, allowed)
             takeover == Proposal(id, <<Harmless("manual-takeover", "ManualTakeover",
                                                 Resource("System", node, "filesystem", mount))>>)
             remove == Proposal(id, <<Changing("remove-allowlisted-cleanup-path",
                                               "RemoveAllowlistedFile", cleanup)>>)
  <2>1. /\ Obeys(takeover, DiskPolicy) /\ Obeys(remove, DiskPolicy)
        /\ \A action \in ToSet(takeover.actions) : action.kind = "ManualTakeover"
        /\ \A action \in ToSet(remove.actions) : action.target = cleanup
    BY <1>1, <1>2
  <2>2. freeing = takeover \/ (freeing = remove /\ cleanup \in allowed)
    BY DEF AnalyzeDiskPressure
  <2> HIDE DEF freeing, takeover, remove
  <2>3. /\ Obeys(freeing, DiskPolicy)
        /\ \A action \in ToSet(freeing.actions) : action.kind \in HelperAction => action.target \in allowed
    BY <1>1, <2>1, <2>2
  <2> QED  BY <2>3 DEF freeing
<1> QED  BY <1>3, <1>4

\* A service whose status was collected natively and says it is up is not restarted, on any
\* system and whatever else the evidence says: the marker the collector puts before the
\* program's words is the one the analyzer looks for (normalize_fixture in platform.rs,
\* analyze_service_unhealthy in analyzer.rs).
THEOREM RunningServiceIsLeftAlone ==
  ASSUME NEW os, NEW service, NEW output, output.markers \cap ServiceIsUp # {},
         NEW found, NEW i \in DOMAIN found,
         found[i] = CollectNative(os, CollectorRequest("ServiceStatus", service), output),
         NEW id, NEW node, NEW named
  PROVE  \A action \in ToSet(AnalyzeServiceUnhealthy(id, node, named, found).actions) :
           action.kind \notin HelperAction
<1>1. "service=active" \in found[i].markers
  BY DEF CollectNative, CollectorRequest, Normalized
<1>2. Mentions(found, ActiveMarkers)
  BY <1>1 DEF Mentions, ActiveMarkers
<1> DEFINE target == ServiceResource(node, named)
           takeover == Harmless("manual-takeover", "ManualTakeover", target)
           more == Harmless("collect-more-logs", "CollectMoreLogs", target)
<1>3. takeover.kind \notin HelperAction /\ more.kind \notin HelperAction
  BY DEF Harmless, HelperAction
<1> HIDE DEF takeover, more
<1>4. \/ AnalyzeServiceUnhealthy(id, node, named, found) = Proposal(id, <<takeover>>)
      \/ AnalyzeServiceUnhealthy(id, node, named, found) = Proposal(id, <<more>>)
  BY <1>2 DEF AnalyzeServiceUnhealthy, takeover, more
<1>5. ASSUME NEW action PROVE ToSet(Proposal(id, <<action>>).actions) = {action}
  <2>1. Proposal(id, <<action>>).actions = <<action>>
    BY DEF Proposal
  <2> QED  BY <2>1 DEF ToSet
<1> QED  BY <1>3, <1>4, <1>5

===============================================================================
