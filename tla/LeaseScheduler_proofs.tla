------------------------- MODULE LeaseScheduler_proofs -------------------------
(***************************************************************************)
(* Safety of the scheduler, for any tasks, resources and dependency paths. *)
(*                                                                         *)
(* decide_task looks at the leases that are active, so nothing follows     *)
(* from one decision alone: what carries the argument is that the active   *)
(* leases are exactly those of the running tasks.                          *)
(***************************************************************************)
EXTENDS LeaseScheduler, TLAPS

\* The lease t is granted for its request r.
LeaseOf(t, r) == [task |-> t, resource |-> r.resource, mode |-> r.mode]

LEMMA RequestsTyped ==
  ASSUME NEW t \in Tasks
  PROVE  EffectiveLeaseRequests(t) \subseteq LeaseRequests
<1>1. t.reads \subseteq Resources /\ t.writes \subseteq Resources
      /\ t.requests \subseteq LeaseRequests
  BY TasksAssumption
<1>2. [resource : t.reads, mode : {"Observe"}] \subseteq LeaseRequests
  BY <1>1 DEF LeaseRequests, Modes
<1>3. [resource : t.writes, mode : {"Exclusive"}] \subseteq LeaseRequests
  BY <1>1 DEF LeaseRequests, Modes
<1> QED  BY <1>1, <1>2, <1>3 DEF EffectiveLeaseRequests, DefaultRequests

\* The matrix of is_compatible_with is symmetric, although the code writes both halves.
LEMMA CompatibleIsSymmetric ==
  ASSUME NEW a \in Modes, NEW b \in Modes, Compatible(a, b)
  PROVE  Compatible(b, a)
BY DEF Modes, Compatible

\* What the caller of decide_task is taken to do with leases.
RunningTasksHoldTheirLeases ==
  activeLeases = {l \in Leases : l.task \in Running /\
                    [resource |-> l.resource, mode |-> l.mode] \in EffectiveLeaseRequests(l.task)}

SafetyInv ==
  /\ TypeOK
  /\ RunningTasksHoldTheirLeases
  /\ LeasesCompatible
  /\ NoMutationAboveDisruption

LEMMA InitSafe == Init => SafetyInv
BY DEF Init, SafetyInv, TypeOK, RunningTasksHoldTheirLeases, LeasesCompatible,
       NoMutationAboveDisruption, Running

\* Starting t makes it running and leaves the others where they are.
LEMMA StartRunning ==
  ASSUME TypeOK, NEW t \in Tasks, Start(t)
  PROVE  /\ status' \in [Tasks -> {"waiting", "running", "completed"}]
         /\ t \notin Running
         /\ Running' = Running \cup {t}
BY DEF TypeOK, Start, Running

LEMMA CompleteRunning ==
  ASSUME TypeOK, NEW t \in Tasks, Complete(t)
  PROVE  /\ status' \in [Tasks -> {"waiting", "running", "completed"}]
         /\ Running' = Running \ {t}
BY DEF TypeOK, Complete, Running

LEMMA StartTyped ==
  ASSUME TypeOK, NEW t \in Tasks, Start(t)
  PROVE  TypeOK'
<1>1. Running \subseteq Tasks
  BY DEF Running
<1>2. joined' \subseteq Running' \X Running'
  <2>1. joined' = joined \cup {<<d, t>> : d \in Running}
    BY DEF Start
  <2> QED  BY <2>1, StartRunning DEF TypeOK
<1>3. activeLeases' \subseteq Leases
  <2>1. activeLeases' = activeLeases \cup {LeaseOf(t, r) : r \in EffectiveLeaseRequests(t)}
    BY DEF Start, LeaseOf
  <2>2. \A r \in EffectiveLeaseRequests(t) : LeaseOf(t, r) \in Leases
    BY RequestsTyped DEF LeaseOf, Leases, LeaseRequests
  <2> QED  BY <2>1, <2>2 DEF TypeOK
<1> QED  BY <1>2, <1>3, StartRunning DEF TypeOK

LEMMA CompleteTyped ==
  ASSUME TypeOK, NEW t \in Tasks, Complete(t)
  PROVE  TypeOK'
<1>1. joined' \subseteq Running' \X Running'
  BY CompleteRunning DEF TypeOK, Complete, Forget
<1>2. activeLeases' \subseteq Leases
  BY DEF TypeOK, Complete
<1> QED  BY <1>1, <1>2, CompleteRunning DEF TypeOK

LEMMA StartSafe ==
  ASSUME SafetyInv, NEW t \in Tasks, Start(t)
  PROVE  SafetyInv'
<1> USE DEF SafetyInv
<1>1. TypeOK'
  BY StartTyped
<1>2. activeLeases' = activeLeases \cup {LeaseOf(t, r) : r \in EffectiveLeaseRequests(t)}
  BY DEF Start, LeaseOf
<1>3. Running' = Running \cup {t} /\ t \notin Running
  BY StartRunning
<1>4. RunningTasksHoldTheirLeases'
  <2>1. activeLeases = {l \in Leases : l.task \in Running /\
          [resource |-> l.resource, mode |-> l.mode] \in EffectiveLeaseRequests(l.task)}
    BY DEF RunningTasksHoldTheirLeases
  <2>2. {LeaseOf(t, r) : r \in EffectiveLeaseRequests(t)} =
        {l \in Leases : l.task = t /\
          [resource |-> l.resource, mode |-> l.mode] \in EffectiveLeaseRequests(t)}
    <3>1. ASSUME NEW r \in EffectiveLeaseRequests(t)
          PROVE  LeaseOf(t, r) \in Leases /\ r = [resource |-> r.resource, mode |-> r.mode]
      BY RequestsTyped DEF LeaseOf, Leases, LeaseRequests
    <3>2. ASSUME NEW l \in Leases, l.task = t
          PROVE  l = LeaseOf(t, [resource |-> l.resource, mode |-> l.mode])
      BY <3>2 DEF Leases, LeaseOf
    <3>3. ASSUME NEW r \in EffectiveLeaseRequests(t)
          PROVE  LeaseOf(t, r) \in {l \in Leases : l.task = t /\
                   [resource |-> l.resource, mode |-> l.mode] \in EffectiveLeaseRequests(t)}
      BY <3>1 DEF LeaseOf
    <3> QED  BY <3>2, <3>3
  <2> QED  BY <1>2, <1>3, <2>1, <2>2 DEF RunningTasksHoldTheirLeases
<1>5. LeasesCompatible'
  <2> SUFFICES ASSUME NEW l \in activeLeases', NEW m \in activeLeases',
                      l.resource = m.resource, l.task # m.task
               PROVE  Compatible(l.mode, m.mode)
    BY DEF LeasesCompatible
  <2>1. l \in Leases /\ m \in Leases
    BY <1>1 DEF TypeOK
  <2>2. l.mode \in Modes /\ m.mode \in Modes
    BY <2>1 DEF Leases
  <2>3. ASSUME NEW old \in activeLeases, NEW r \in EffectiveLeaseRequests(t),
               old.resource = r.resource
        PROVE  Compatible(old.mode, r.mode)
    BY <2>3 DEF Start, DecidesToRun, ResourceConflict
  <2>4. \A r \in EffectiveLeaseRequests(t) :
          /\ LeaseOf(t, r).task = t
          /\ LeaseOf(t, r).resource = r.resource
          /\ LeaseOf(t, r).mode = r.mode
    BY DEF LeaseOf
  <2>5. CASE l \in activeLeases /\ m \in activeLeases
    BY <2>5 DEF LeasesCompatible
  <2>6. CASE l \in activeLeases /\ m \notin activeLeases
    BY <1>2, <2>3, <2>4, <2>6
  <2>7. CASE l \notin activeLeases /\ m \in activeLeases
    <3>1. Compatible(m.mode, l.mode)
      BY <1>2, <2>3, <2>4, <2>7
    <3> QED  BY <2>2, <3>1, CompatibleIsSymmetric
  <2>8. CASE l \notin activeLeases /\ m \notin activeLeases
    BY <1>2, <2>4, <2>8
  <2> QED  BY <2>5, <2>6, <2>7, <2>8
<1>6. NoMutationAboveDisruption'
  <2>1. ASSUME NEW d \in Running
        PROVE  ~ Disrupts(d, t)
    <3> SUFFICES ASSUME Disrupts(d, t) PROVE FALSE
      OBVIOUS
    <3>1. t.layer # "System"
      BY DEF Disrupts
    <3>2. PICK path \in Paths :
            /\ path.upper \in MutatedResources(t)
            /\ \E request \in EffectiveLeaseRequests(d) :
                 request.resource = path.lower /\ request.mode \in {"Drain", "Reboot"}
      BY DEF Disrupts
    <3>3. PICK request \in EffectiveLeaseRequests(d) :
            request.resource = path.lower /\ request.mode \in {"Drain", "Reboot"}
      BY <3>2
    <3>4. d \in Tasks /\ request \in LeaseRequests
      BY RequestsTyped DEF Running
    <3>5. request = [resource |-> request.resource, mode |-> request.mode]
      BY <3>4 DEF LeaseRequests
    <3>6. LeaseOf(d, request) \in activeLeases
      BY <3>4, <3>5 DEF RunningTasksHoldTheirLeases, LeaseOf, Leases, LeaseRequests
    <3>7. LeaseOf(d, request).mode \in {"Drain", "Reboot"}
          /\ path.lower = LeaseOf(d, request).resource
      BY <3>3 DEF LeaseOf
    <3>8. LowerLayerDisruption(t)
      BY <3>1, <3>2, <3>6, <3>7 DEF LowerLayerDisruption
    <3> QED  BY <3>8 DEF Start, DecidesToRun
  <2>2. joined' = joined \cup {<<d, t>> : d \in Running}
    BY DEF Start
  <2> QED  BY <2>1, <2>2 DEF NoMutationAboveDisruption
<1> QED  BY <1>1, <1>4, <1>5, <1>6

LEMMA CompleteSafe ==
  ASSUME SafetyInv, NEW t \in Tasks, Complete(t)
  PROVE  SafetyInv'
<1> USE DEF SafetyInv
<1>1. TypeOK'
  BY CompleteTyped
<1>2. activeLeases' = {l \in activeLeases : l.task # t} /\ Running' = Running \ {t}
  BY CompleteRunning DEF Complete
<1>3. RunningTasksHoldTheirLeases'
  BY <1>2 DEF RunningTasksHoldTheirLeases
<1>4. LeasesCompatible'
  BY <1>2 DEF LeasesCompatible
<1>5. NoMutationAboveDisruption'
  BY DEF NoMutationAboveDisruption, Complete, Forget
<1> QED  BY <1>1, <1>3, <1>4, <1>5

LEMMA NextSafe == SafetyInv /\ [Next]_vars => SafetyInv'
<1> SUFFICES ASSUME SafetyInv, [Next]_vars PROVE SafetyInv'
  OBVIOUS
<1>1. ASSUME NEW t \in Tasks, Start(t) PROVE SafetyInv'
  BY <1>1, StartSafe
<1>2. ASSUME NEW t \in Tasks, Complete(t) PROVE SafetyInv'
  BY <1>2, CompleteSafe
<1>3. CASE UNCHANGED vars
  BY <1>3 DEF vars, SafetyInv, TypeOK, RunningTasksHoldTheirLeases, LeasesCompatible,
              NoMutationAboveDisruption, Running
<1> QED  BY <1>1, <1>2, <1>3 DEF Next

\* The invariant behind the theorems below: what is held is what the running tasks asked
\* for, and what is held together is compatible.
THEOREM SchedulerSafe == Spec => []SafetyInv
<1>1. Init => SafetyInv
  BY InitSafe
<1>2. SafetyInv /\ [Next]_vars => SafetyInv'
  BY NextSafe
<1> QED  BY <1>1, <1>2, PTL DEF Spec

\* The scheduler's state is well typed, whatever tasks it is given.
THEOREM SchedulerTypeCorrect == Spec => []TypeOK
<1>1. SafetyInv => TypeOK
  BY DEF SafetyInv
<1> QED  BY <1>1, SchedulerSafe, PTL

\* Any two leases that different tasks hold on a resource tolerate each other, in both
\* directions, although decide_task asks in one (is_compatible_with, decide_task).
THEOREM CompatibleLeases == Spec => []LeasesCompatible
<1>1. SafetyInv => LeasesCompatible
  BY DEF SafetyInv
<1> QED  BY <1>1, SchedulerSafe, PTL

\* No two running tasks write one resource, if each asks for it exclusively.
THEOREM SerialisedWriters == Spec => []WritersAreSerialised
<1>1. ASSUME SafetyInv PROVE WritersAreSerialised
  <2> SUFFICES ASSUME NEW t \in Running, NEW u \in Running, NEW r \in Resources,
                      WritesExclusively(t, r), WritesExclusively(u, r), t # u
               PROVE  FALSE
    BY DEF WritersAreSerialised
  <2> DEFINE exclusive == [resource |-> r, mode |-> "Exclusive"]
  <2>1. exclusive \in EffectiveLeaseRequests(t) /\ exclusive \in EffectiveLeaseRequests(u)
    BY DEF WritesExclusively, EffectiveLeaseRequests, DefaultRequests
  <2>2. LeaseOf(t, exclusive) \in activeLeases /\ LeaseOf(u, exclusive) \in activeLeases
    BY <1>1, <2>1
       DEF SafetyInv, RunningTasksHoldTheirLeases, LeaseOf, Leases, Modes, Running
  <2>3. Compatible("Exclusive", "Exclusive")
    BY <1>1, <2>2 DEF SafetyInv, LeasesCompatible, LeaseOf
  <2> QED  BY <2>3 DEF Compatible
<1>2. SafetyInv => WritersAreSerialised
  BY <1>1
<1> QED  BY <1>2, SchedulerSafe, PTL

\* While a drain or reboot of a lower resource is in force, no task that mutates what
\* depends on it is started (find_lower_layer_disruption).
THEOREM NothingStartsAboveDisruption == Spec => []NoMutationAboveDisruption
<1>1. SafetyInv => NoMutationAboveDisruption
  BY DEF SafetyInv
<1> QED  BY <1>1, SchedulerSafe, PTL

===============================================================================
