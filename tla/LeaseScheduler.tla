----------------------------- MODULE LeaseScheduler ----------------------------
(***************************************************************************)
(* The layer-aware scheduler (SchedulerSnapshot::decide_task in            *)
(* src/crates/runlane-core/src/lib.rs) at work: tasks of several runs wait *)
(* until the scheduler decides that they can run, hold their resource      *)
(* leases while they run, and give them back when they complete.           *)
(*                                                                         *)
(* decide_task is the repository's; it decides on a snapshot its caller    *)
(* builds.  The caller here is the one the API asks for: the snapshot is   *)
(* current, a task's leases are granted in the step that decides to run    *)
(* it, and the completed tasks are those of the task's own run, since task *)
(* ids ("restart-service") name a task only within its run.                *)
(*                                                                         *)
(* Reasons, lease ids and which of several conflicts is reported are left  *)
(* out.  Reads, writes, requests and dependencies are sets: decide_task    *)
(* only asks whether some member conflicts.                                *)
(***************************************************************************)
EXTENDS FiniteSets

CONSTANTS
  Tasks,     \* [run, id, layer, reads, writes, requests, dependencies]
  Resources,
  Paths      \* dependency paths [lower, upper] of the snapshot

Modes == {"Observe", "Intent", "Exclusive", "Drain", "Reboot"}
Layers == {"Application", "Platform", "System"}
LeaseRequests == [resource : Resources, mode : Modes]

ASSUME TasksAssumption ==
  /\ \A t \in Tasks :
       /\ t = [run |-> t.run, id |-> t.id, layer |-> t.layer, reads |-> t.reads,
               writes |-> t.writes, requests |-> t.requests, dependencies |-> t.dependencies]
       /\ t.layer \in Layers
       /\ t.reads \subseteq Resources /\ t.writes \subseteq Resources
       /\ t.requests \subseteq LeaseRequests
  /\ Paths \subseteq [lower : Resources, upper : Resources]

VARIABLES
  status,        \* status[t]: waiting, running or completed
  activeLeases,  \* the snapshot's active leases, each with the task that holds it
  joined         \* history: <<d, u>> when u was started while d was running; forgotten
                 \* when one of them completes

vars == <<status, activeLeases, joined>>

-----------------------------------------------------------------------------
(* Lease modes.                                                            *)

MutatingModes == {"Exclusive", "Drain", "Reboot"}

\* Mutant: a drain lease lets planning in, as an observe lease does.
CompatibleWithDrain(existing, requested) ==
  CASE existing = "Observe" -> requested \in {"Observe", "Intent", "Exclusive", "Drain"}
    [] existing = "Intent" -> requested \in {"Observe", "Intent", "Exclusive"}
    [] existing = "Exclusive" -> requested \in {"Observe", "Intent"}
    [] existing = "Drain" -> requested \in {"Observe", "Intent", "Reboot"}
    [] existing = "Reboot" -> requested \in {"Drain"}

Compatible(existing, requested) ==
  CASE existing = "Observe" -> requested \in {"Observe", "Intent", "Exclusive", "Drain"}
    [] existing = "Intent" -> requested \in {"Observe", "Intent", "Exclusive"}
    [] existing = "Exclusive" -> requested \in {"Observe", "Intent"}
    [] existing = "Drain" -> requested \in {"Observe", "Reboot"}
    [] existing = "Reboot" -> requested \in {"Drain"}

DefaultRequests(t) ==
  [resource : t.reads, mode : {"Observe"}] \cup [resource : t.writes, mode : {"Exclusive"}]

\* Mutant: a write is requested as an intent to write.
EffectiveLeaseRequestsAsIntents(t) ==
  IF t.requests # {} THEN t.requests
  ELSE [resource : t.reads, mode : {"Observe"}] \cup [resource : t.writes, mode : {"Intent"}]

EffectiveLeaseRequests(t) == IF t.requests # {} THEN t.requests ELSE DefaultRequests(t)

MutatedResources(t) ==
  t.writes \cup {r.resource : r \in {q \in t.requests : q.mode \in MutatingModes}}

-----------------------------------------------------------------------------
(* decide_task.                                                            *)

DependenciesSatisfied(t) ==
  \A id \in t.dependencies :
    \E u \in Tasks : u.run = t.run /\ u.id = id /\ status[u] = "completed"

ResourceConflict(t) ==
  \E request \in EffectiveLeaseRequests(t), existing \in activeLeases :
    existing.resource = request.resource /\ ~ Compatible(existing.mode, request.mode)

\* Mutant: a path is looked up from the upper resource.
LowerLayerDisruptionReversed(t) ==
  /\ t.layer # "System"
  /\ \E lease \in activeLeases, path \in Paths :
       /\ lease.mode \in {"Drain", "Reboot"}
       /\ path.upper = lease.resource
       /\ path.lower \in MutatedResources(t)

LowerLayerDisruption(t) ==
  /\ t.layer # "System"
  /\ \E lease \in activeLeases, path \in Paths :
       /\ lease.mode \in {"Drain", "Reboot"}
       /\ path.lower = lease.resource
       /\ path.upper \in MutatedResources(t)

DecidesToRun(t) ==
  DependenciesSatisfied(t) /\ ~ ResourceConflict(t) /\ ~ LowerLayerDisruption(t)

-----------------------------------------------------------------------------

Running == {t \in Tasks : status[t] = "running"}

Start(t) ==
  /\ status[t] = "waiting"
  /\ DecidesToRun(t)
  /\ status' = [status EXCEPT ![t] = "running"]
  /\ activeLeases' = activeLeases \cup
       {[task |-> t, resource |-> r.resource, mode |-> r.mode] : r \in EffectiveLeaseRequests(t)}
  /\ joined' = joined \cup {<<d, t>> : d \in Running}

Forget(t) == joined' = {p \in joined : t # p[1] /\ t # p[2]}

\* Mutant: the completed task keeps its leases.
CompleteKeepingLeases(t) ==
  /\ status[t] = "running"
  /\ status' = [status EXCEPT ![t] = "completed"]
  /\ UNCHANGED activeLeases
  /\ Forget(t)

\* Mutant: a task ends in the state of a run that has ended.
CompleteAsResolved(t) ==
  /\ status[t] = "running"
  /\ status' = [status EXCEPT ![t] = "resolved"]
  /\ activeLeases' = {l \in activeLeases : l.task # t}
  /\ Forget(t)

Complete(t) ==
  /\ status[t] = "running"
  /\ status' = [status EXCEPT ![t] = "completed"]
  /\ activeLeases' = {l \in activeLeases : l.task # t}
  /\ Forget(t)

Init ==
  /\ status = [t \in Tasks |-> "waiting"]
  /\ activeLeases = {}
  /\ joined = {}

Next == \E t \in Tasks : Start(t) \/ Complete(t)

Spec == Init /\ [][Next]_vars

\* The scheduler goes on deciding about every waiting task and a task ends.
FairSpec == Spec /\ \A t \in Tasks : WF_vars(Start(t)) /\ WF_vars(Complete(t))

-----------------------------------------------------------------------------

Leases == [task : Tasks, resource : Resources, mode : Modes]

\* Tasks have a status, leases a holder, and the history lists tasks.
TypeOK ==
  /\ status \in [Tasks -> {"waiting", "running", "completed"}]
  /\ activeLeases \subseteq Leases
  /\ joined \subseteq Running \X Running

\* Leases that two tasks hold on one resource are compatible, each with the other:
\* decide_task only asks whether the lease that is already there tolerates the new one
\* (lib.rs, is_compatible_with and decide_task).
LeasesCompatible ==
  \A l, m \in activeLeases :
    l.resource = m.resource /\ l.task # m.task => Compatible(l.mode, m.mode)

\* Two tasks never write one resource at the same time, if each asks for it exclusively;
\* a task that names its leases itself replaces the defaults, and one that names none
\* for what it writes is not protected (lib.rs, effective_lease_requests).
WritesExclusively(t, r) ==
  r \in t.writes /\
    (t.requests = {} \/ [resource |-> r, mode |-> "Exclusive"] \in t.requests)

WritersAreSerialised ==
  \A t, u \in Running, r \in Resources :
    WritesExclusively(t, r) /\ WritesExclusively(u, r) => t = u

\* While a drain or a reboot of a lower resource is in force, no task above it starts to
\* mutate what depends on that resource: where both are running, the upper one was
\* there first (lib.rs, find_lower_layer_disruption; execution-semantics.md,
\* "Layer-aware scheduling").
Disrupts(d, u) ==
  /\ u.layer # "System"
  /\ \E path \in Paths :
       /\ path.upper \in MutatedResources(u)
       /\ \E request \in EffectiveLeaseRequests(d) :
            request.resource = path.lower /\ request.mode \in {"Drain", "Reboot"}

NoMutationAboveDisruption == \A p \in joined : ~ Disrupts(p[1], p[2])

\* Nobody waits for ever: leases are granted all at once, so when no dependencies are
\* circular every task completes.
EveryTaskCompletes == \A t \in Tasks : <>(status[t] = "completed")

\* docs/execution-semantics.md, "Basic compatibility matrix", existing drain, new
\* reboot: "allow same run".
RebootJoinsDrainOfSameRun ==
  \A l, m \in activeLeases :
    l.resource = m.resource /\ l.mode = "Drain" /\ m.mode = "Reboot" => l.task.run = m.task.run

===============================================================================
