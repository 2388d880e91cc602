# Runlane: verification project

TLA+ specifications of [runlane](../src): a control plane from which agents on
a fleet of nodes pull tasks, an approval flow that turns a proposed repair into a
capability lease, a privileged helper that acts on such a lease, a layer-aware scheduler,
audit ledgers that receipts are made of, and the journeys that drive all of them from a
fleet repository to a receipt. TLC checks the models on small instances;
TLAPS proves every safety property, every action property and every refinement among the checked
properties for every value of the constants; liveness is left to TLC. `PROJECT.json` lists
the runs, says which source lines each definition stands for, and for each checked
property names a plausible bug that breaks it.

    tlc -workers 2 -config MCControlPlane.cfg MCControlPlane.tla
    tlapm ControlPlane_proofs.tla

- [The system](#the-system)
- [The modules and the code](#the-modules-and-the-code)
- [What the runs check](#what-the-runs-check)
- [What is proved](#what-is-proved)
- [Where the code and its documents disagree](#where-the-code-and-its-documents-disagree)
- [Assumptions](#assumptions)
- [What is not modelled](#what-is-not-modelled)
- [Plan](#plan)

## The system

Nearly all logic is in `crates/runlane-core`; the other crates put an HTTP server, an agent,
a helper executable and a command line around it.

| Component | State it keeps | Operations | What makes it correct |
|---|---|---|---|
| Control plane (`runtime.rs`) | vectors of tokens, agents, pending and pulled tasks, accepted results and their nonces, spool records; an audit ledger | create token, enroll, enqueue, pull, submit result, record a spooled result | one accepted result per envelope, and only for what was pulled; queues first in first out per node; an identity never changes; the ledger explains the state |
| HTTP API (`runlane-server/src/http.rs`) | the control plane behind one mutex | the five `/v1/agent` and enrollment endpoints | a lost response and the replay after it never hide an unanswered task |
| Approval store (`approval.rs`) | a vector of approval records, an audit ledger | request, approve, reject, expire, supersede, record an adapter's refusal | each approval is decided once; a lease is for exactly what was approved |
| Telegram adapter (`telegram.rs`) | the chats it knows and the actors they speak for | parse a command, list, show, approve, reject | only mapped chats decide, and through the store's own checks |
| Helper (`runlane-helper`, `validate_helper_request` in `lib.rs`) | none: lease, request and seen nonces are files | preflight, execute (a dry run) | it accepts only what an approval bound, on the node and while it is valid |
| Scheduler (`SchedulerSnapshot::decide_task` in `lib.rs`) | none: a snapshot of active leases, completed tasks and dependency paths | decide whether a task may run | leases held together are compatible; no mutation starts above a drained resource; nobody waits for ever |
| Durable ledger (`durable.rs`) | `ledger/audit.yaml`, a stream of YAML documents | init, load, append one event, append a ledger | what was reported as persisted is there after a restart |
| Run lifecycle (`lib.rs`) | the state of a run | `transition_to` | an approved state is passed before execution; nothing goes back |
| Operator receipt (`receipt.rs`) | none: a fold over a ledger | generate | no receipt without approval, lease, action and verification; none that mixes runs |
| Journeys (`e2e.rs`, the dogfood run of `runlane-agent`) | a ledger over all of the above | the service-unhealthy and disk-pressure simulations, the run on a real host, persisting and showing a receipt | what is executed was planned and approved; a receipt tells what happened, now and after a restart; every command ends |
| Planners, verification planner, analyzer (`lib.rs`, `analyzer.rs`) | none: pure functions | plan a runbook, select checks, propose a repair, validate a proposal | destructive steps ask for a lease and an approval; a proposal outside its policy is refused; planner and analyzer mean one resource |
| Fleet repository (`fleet.rs`) | none: documents | load, resolve overlays, validate | overlay order is by tier; every reference is defined |
| Agent configuration (`runlane-agent/src/config.rs`) | configuration and identity files, key material, spool directory | `config init`, `identity install`, the checks before `run` | an agent starts with one identity, its own; a command without `--force` does no harm |
| Native collectors (`platform.rs`) | none | report capabilities, run a program, read markers off what it printed | a failed program is not evidence |
| Command lines, `xtask` | none | parse, call the above, print | input checks and I/O |

How they interact. An operator creates a token; an agent enrolls with it and from then on
names itself by node id and certificate fingerprint in every request. The server side
enqueues evidence tasks; agents pull them, execute collectors and submit results, keeping
a result in a local spool while they cannot submit it and replaying the spool later.
From the evidence the analyzer makes a proposal, which becomes an approval record;
an operator decides it on the command line or in Telegram. Approving returns the claims of a
capability lease. A signer outside the repository signs them, and the helper compares lease, request, its
own node, the clock and its local allowlist before it acts. The scheduler decides which
tasks of which runs may go on at once. Everything that happened is in audit ledgers, which a
command may persist and from which a receipt is generated.

What is hard. Every handler takes its time from its caller, so time need not advance
between two calls. Messages are lost after the server has changed its state. Vectors are
searched for the first match, so a later record under the same key is there but never
seen. The store and the helper share nothing but a lease, and helper executions share
nothing at all. The durable ledger is a file that several commands may extend, none of
which locks it, and any of which may be killed between two writes; the same is true of an agent's files. Planner and
analyzer build the id of one resource each in its own way, and the verification planner recognises
resources by substrings of such ids, whatever node and service are called. The hazards, each with
its line, are listed in `PROJECT.json`.

## The modules and the code

| Module | Models | Notes |
|---|---|---|
| `Lookup` | the front-to-back search of a vector, and the filter of one | used by every store |
| `ControlPlane` | `runtime.rs` | one action per handler; the mutex in `http.rs` makes it atomic |
| `TaskExchange` | what the control plane promises | abstract; `ControlPlane` implements it |
| `PullProtocol` | `http.rs` and the client of it | composes `ControlPlane` with agents, clocks, spools and a network that loses and reorders messages |
| `ApprovalStore` | `approval.rs`, `telegram.rs` | one action per operation, and the adapter's commands in front of them |
| `HelperGate` | `validate_helper_request` and its callers | composes `ApprovalStore` with helpers on several nodes |
| `GatedAction` | what approvals and helpers promise together | abstract; `HelperGate` implements it |
| `LeaseScheduler` | `decide_task`, `LeaseMode` | composes the decision with tasks that start and complete |
| `DurableLedger` | `durable.rs` | one action per file operation |
| `RunLifecycle` | `RunState`, `transition_to` | abstract; every journey implements it |
| `Planning` | both runbook planners, the verification planner, capability selection | functions |
| `Analyzer` | `analyzer.rs`, `validate_proposal` | functions |
| `Collectors` | `platform.rs`: reports, errors, markers | functions |
| `Fleet` | `fleet.rs` and overlay resolution in `lib.rs` | functions |
| `Receipt` | the fold of `receipt.rs` | a function of a ledger |
| `Journey` | `e2e.rs`, the dogfood run, the commands that load, persist and show | composes `ControlPlane`, `ApprovalStore`, `HelperGate` and the functions above with a state directory and kills |
| `AgentFiles` | `config.rs` of the agent | one action per file operation, several processes |
| `AgentFiles_proofs`, `ControlPlane_proofs`, `DurableLedger_proofs`, `HelperGate_proofs`, `Journey_proofs`, `LeaseScheduler_proofs`, `PullProtocol_proofs` | | theorems about the module of that name and their proofs; `HelperGate_proofs` holds those about `ApprovalStore` as well, `Journey_proofs` those about what it calls in `Planning`, `Analyzer`, `Fleet` and `Receipt` |
| `Lookup_proofs` | | what a search and a filter of a vector return, which positions a filter keeps; induction along a vector |
| `MC*` | | instances for TLC |

**Control plane.** Each vector of `ControlPlane` is a sequence under the
name the code gives it. A handler that returns an error without touching
state is a disabled action; a handler that audits a refusal changes `rejections`.
The audit ledger is split: events that go with a change of state are the sequence
`ledger`, because `LedgerExplainsState` compares it with the state; events that only
record a refusal are the set `rejections`, because keeping their order would multiply
states by every interleaving of refused calls. `SubmitOutcome` and `PullOutcome` make
the code's checks in the code's order. Details that the code compares for equality only, such as
operating system and trust root of a token, are one field, and so are a token's id and its secret: enrolling looks a token up
by its secret, while the id is only written to the ledger. The state is in the server's memory, so that a restart begins with
`Init` again; that an agent's certificate, spool and tasks then mean nothing to the server is not modelled. `enqueued`
is a history variable.

**Pull protocol.** `PullProtocol` starts with an enrolled fleet. A request carries the
clock reading of its sender at the time it was sent, as the HTTP body does, and is served
later or never. An agent keeps a result until the server has answered `Accepted`. First
submission, retry and replay are one action, as they end in one handler of the code.

**Approvals and the helper.** `records` is the store's vector; `decisions` its ledger. The
lease claims that `approve` returns are kept in the history `leases`, with the action the
caller said it meant. In `HelperGate` a helper may be given any issued claims, any
request, any time and any list of seen nonces, because all four come from files.

**Scheduler.** `decide_task` answers for a snapshot. `Start` is the caller that
asks with a current snapshot and grants the leases of the task in the
same step; `Complete` gives them back. Reads, writes and lease requests are sets, as the code
asks only whether some pair conflicts. `joined` is a history of who was running when
a task started; without it the state cannot tell a mutation that was there before the
drain from one that came after, which the code treats differently.

**Durable ledger.** `append_event` is three actions, because the file is read, then
extended twice, with nothing held in between: `Check` (load, validate, compare the
sequence), `WriteSeparator`, `WriteDocument`. `Kill` may come between any two, and
stands for a write that returns an error as well.

**Planning, analysis, fleet, collectors.** These are functions in the code and operators here. A resource id
(`system:node/n/service/web`) is the record of its parts, a name the sequence of its
"-"-separated words. What a substring search finds in the node or the name of an id is the constant `IdContains`, so that the theorems are
about any ids and any searches; the instance says it for its own. Evidence is the set of markers an analyzer looks for. A fleet document is a record with
its form and its set of nested key paths, so that an unknown field, a missing field
and a runtime key are cases of their own. Checks and errors keep the code's order: an error operator
yields the first error or nothing.

**Journeys.** `step` is where the function of the command at work is; each action is one call the function
makes, with the events it appends to the journey's ledger. The handlers of the control plane, the
approval store and the helper are the actions of their modules, called with the fixtures' values. A
step whose callee returns an error ends the command (`Fail`); the one place that panics is
an outcome of its own. `session` is what an operator types one after the other; all memory is lost between
two commands, only the state directory (`file`) stays. `Reached` reads the state of the run off
where the command is, because no journey calls `transition_to`; that these states change as
`is_valid_run_transition` permits is the refinement of `RunLifecycle`. The helper's allowlist is written from the lease's claims, so the
targets it may permit, `JourneyTargets`, are the service of every dogfood command on its node and what the simulations are about.

**Agent files.** The variable `at` keeps what a command has read so far, and `files` what is there now: between the two lies the
race. `write_yaml_restrictive` is `Open`, `Write` and `Protect`. A write may stop anywhere (`Torn`). As
`expires_at_unix_seconds` is the last line of an identity and optional, one that stops inside either of the last two lines leaves an identity with
fewer digits of a number, or without expiry (`Fragments`). Two commands that have one file open each write at its beginning. The second leaves its own body, followed by
the rest of a longer one: since fields the parser does not know are ignored, that reads as the second body or not at all (`Overwritten`). One that stops leaves its beginning followed by
the rest of the other, which is readable where the lines align (`Spliced`): the lines up to the cut are the new ones, those after it the old, and in between a
value may be made of both. Which numbers and names such a cut spells is left to the constants `Beginnings` and `Splices`. The history `mixed`
names the files that two commands may have a part in; what is promised of such a file is less.

## What the runs check

| Run | States | Question |
|---|---|---|
| `control_plane` | 269,946 | Two nodes, three identities, one of them wrong; two envelopes, one of which expires within the run; right answers, and answers with one field of another envelope; every request at either of two times, in any order. Is acceptance once per envelope and only for what was pulled (`AcceptedOncePerEnvelope`, `AcceptedAnswersPulled`), is each node's queue in order (`QueueIsFifoPerNode`), can the state be rebuilt from the ledger (`LedgerExplainsState`), does the certificate of a node stay (`IdentityNeverChanges`), and do the handlers implement `TaskExchange`? |
| `pull_protocol` | 23,695 | One agent, two envelopes, a clock that moves once, messages lost and reordered. Does a replay refusal mean that the envelope is answered (`ReplayMeansAccepted`), is a result ever lost (`ResultNeverLost`), does every kept result settle (`ResultSettles`), is every queued task handed out unless an expired one stands before it (`TaskHandedOut`)? |
| `helper_gate` | 177,488 | Three requests that share two ids, for targets on two nodes; a command-line operator, an authorized and an unauthorized chat; helpers on both nodes given every combination of lease, request, time and seen nonces. One lease per id (`LeasedOnce`), for what was meant (`LeaseIsWhatWasApproved`), a ledger that tells the state (`DecisionsExplainStates`), decisions that stay (`DecisionIsFinal`), helpers that act as approved (`ExecutedAsApproved`), and the refinement of `GatedAction`. |
| `lease_scheduler` | 6,544 | Eight tasks of seven runs with every lease mode on a service, a node and an application the node carries: `LeasesCompatible`, `WritersAreSerialised`, `NoMutationAboveDisruption`, and under fairness `EveryTaskCompletes`. |
| `durable_ledger` | 10,656 | Three commands with ledgers of one, two and three events, taking turns, killed anywhere, each started up to three times: `OneLedgerPerFile`, `TornOnlyAtTheEnd`, `ReportedMeansDurable`. |
| `journey` | 9,363 | A fleet that is right and one wrong in each way a document or reference can be; every sequence of up to three overlays; both simulations on each fleet that loads; the dogfood run on hosts where the service is down or flaps and where each collector fails, for a service of any name, node and service names that contain separators, and names in which the verification planner finds what it searches ids for; sessions of up to three commands on one state directory; a kill at any step. Receipts tell what happened (`ReceiptTellsWhatHappened`) and still do when read back (`ReloadedReceiptIsReported`), what is executed was planned (`ApprovedIsPlanned`), no check is both done and skipped (`ChecksSettle`), `OverlayPrecedence`, the refinement of `RunLifecycle`, and `EveryCommandEnds`. |
| `agent_files` | 144,219 | Two processes, three commands out of ten (three configurations that are accepted and three that are refused, three identities, runs) on five initial file systems, killed anywhere, writes that stop anywhere. Is what a file holds one body, in full or cut short, unless two commands had it open (`AgentFilesTypeOK`), does an agent start with one identity only (`StartedAgentIsConsistent`), do commands without `--force` no harm (`UnforcedIsHarmless`)? |
| `enroll_once`, `drain_same_run`, `helper_nonce`, `durable_two_writers`, `partial_receipt` | | each refutes one sentence of the documents; see below |

**Bounds and why they are enough.** Acceptance, queues and identities each
relate at most two entries of a vector, so two enqueued tasks, two enrollments (the
second shadows the first) and two nodes reach the cases that can
differ: another node's task in between, the same envelope twice, the same node enrolled twice. Two times
decide every comparison, because the code compares a time with an expiry and never two times:
before and at expiry. Submissions include each field wrong once, so each check
of `submit_result` is the one that refuses. `MaxRejections` in `control_plane`
bounds a set no property but `TypeOK` reads. In `pull_protocol` it exceeds the number of
different refusals, so that the bound never disables a handler the fairness condition
relies on; `MaxInFlight` allows one copy of a result in the network at a time, repeated
as often as it is lost. Three requests with two ids give a
first record, a shadowed one and another approval. Ledgers of
different lengths make every prefix of one as long as some part of another, the only
thing the sequence check looks at; three starts allow a kill, a retry and a retry of that.
In `lease_scheduler` every pair of modes the matrix treats differently meets on one resource.
In `journey` values vary one at a time from a fleet that loads, because every check is independent of those before it
once they pass; three overlays are enough for two of one tier and one of another in every order, and sorting
compares two at a time. Sessions of two and three commands meet every state a directory
can be left in: empty, cut short, complete, of the same run and of another. In `agent_files`
two commands race and the third is the agent that starts on what they left; each initial file system has one mode or kind
a check is there for. Numbers have two or three digits (an enrolment at 12, an expiry at 250 or 12), so that cuts of an expiry lie on both sides of the enrolment; names
that meet in one line are one or the other. In `journey` the node and service names contain each text the planner searches for, split by another word, and not at all.

**Fairness.** `PullProtocol` assumes that an agent keeps polling and keeps offering what its
spool holds (weak fairness of sending), and that of infinitely many requests some are
served (strong fairness of serving, as the network may lose any one message but not all of them).
Nothing is assumed of responses, so a result may be accepted and its agent never learn of it.
The agent's loop is what `docs/agent-protocol.md` asks of an agent; the
server answers whatever arrives, one request at a time. `LeaseScheduler` assumes that tasks end, and
that the caller goes on deciding about a task that may run continuously (weak
fairness only; no priority is assumed, and the property still holds because every task runs once).
`Journey` assumes that a command that is not killed goes on (weak fairness of its own steps, which are sequential
code); nothing makes an operator start the next command, and nothing makes a kill happen or not happen.
All other specifications are checked for safety without fairness. Deadlock
is not an error in any run: all counters are bounded, so every instance stops.

**Refinements.** `Journey` maps each command to a run of `RunLifecycle`: a run that fails, panics or is killed stays in
the state it had reached. `ControlPlane` maps its one pending vector to one queue per node, its
pulled vector to a set and its accepted results to a function from envelope ids. Re-enrollment,
refusals, nonces and clocks become stuttering. That the function is well defined is
`AcceptedOncePerEnvelope`; that answers only ever grow is what nonces are for. `HelperGate` maps
an id to the first record under it: a shadowed request is a stutter of `GatedAction`.

## What is proved

TLAPS checks every step; nothing is assumed but the named `ASSUME`s on constants. The constants are what an instance
chooses (who takes part, what they ask for, which clocks and bounds) and a theorem is about all choices; the fixtures
that the code itself fixes, such as the journeys' approval ids, are definitions.

**Filters and folds.** Several invariants compare a filtered vector with another one, and a receipt and a resolved overlay are
folds. `SelectSeq` and the library's folds take an operator as a parameter, which the prover cannot look into, and
neither can it use the library's induction theorems. The filter of `Lookup` (`AllWithin`), the merge of `Fleet` (`Over`)
and the fold of `Receipt` are therefore recursive functions over lengths, and induction along a vector is stated once in `Lookup_proofs`
with a *set* of lengths in place of a predicate (`UpToInduction`). A recursive function is known to be what its body says only
once some such function is shown to exist; `CollectingExists` builds it, one length at a time. What the other proofs cite is
how a filter meets an append (`AllWithinAppend`), a concatenation (`AllWithinConcat`), the removal of a first match
(`AllWithRemoveFirst`), and which positions it keeps (`SelectedPositions`).

**Control plane.** `TypeCorrect`, `AcceptedOnce`, `AcceptedAnswers` and `IdentityIsStable`
hold for any sets of identities, tokens, envelopes and submissions and any bounds. That no two accepted results answer
one envelope is not inductive: `submit_result` never compares
envelope ids of results. It looks the envelope up among the pulled tasks and compares nonces. The
invariant that carries it, `AcceptanceInv`, says that (1) the nonce list
mirrors the accepted results, entry by entry; (2) each accepted result agrees with the *first*
task pulled under its envelope id; and (3) no two results answer one envelope. A second result for an envelope
would find the same first task, because appending to a vector does
not change a first match (`FirstIsStable` in `Lookup_proofs`), so it would carry the same
nonce, which the list holds. Re-enqueued envelopes need no assumption: a second
task under the same id is never looked up. `IdentityIsStable` follows from `FirstIsStable`
alone. `QueuesAreFifo`: a pull takes the first pending task *of its node*, wherever in the shared
vector that is, and `AllWithRemoveFirst` says that this is the head of the node's queue and touches no other queue.
`LedgerTellsState`: each handler appends the record and its event together; that each acceptance comes after its pull needs one part
more, `PullsAreRecorded`, and `AcceptanceInv` to find the pull. `ExchangeImplemented` maps every step to a step of `TaskExchange`
or a stutter (`StepRefines`); that the answers are a function of envelope ids, and that an accepted result adds to it, is
`AcceptanceInv` again.

**Scheduler.** `SchedulerTypeCorrect`, `CompatibleLeases`, `SerialisedWriters` and
`NothingStartsAboveDisruption` hold for any tasks, resources and paths. The invariant, `SafetyInv`, says that the active leases are
exactly what the running tasks asked for, which is how the caller is modelled; without it the decision, which sees only leases, says
nothing about tasks. `decide_task` asks in one direction (does the lease that is held tolerate the new one?); the
invariant states both, and `CompatibleIsSymmetric`, a fact about the matrix, closes
the gap.

**Approvals and the helper.** `ApprovalTypeCorrect`, `OneLeasePerApproval`, `LeaseBindsApproval`, `DecisionsAreFinal` and
`HelpersActAsApproved` hold for any requests, operators, clocks, targets and allowlists. All rest on one lemma,
`DecidedStays`: once the first record under an id is decided, the id leads to that record for ever and the record never changes.
One lease per id is not inductive alone; with `LeaseIsWhatWasApproved` it is, as an id that has a lease is no longer pending.
`DecisionsTellStates` needs that the ledger says nothing of an id the store does not know (`DecisionInv`). `ActionIsGated` is the
refinement of `GatedAction`: a request is a proposal if its id is new and a stutter if it is shadowed (`RequestProposes`), a decision
is one decision of the abstract action because `DecidedStays` (`DecidingDecides`), and what a helper accepts is
the performing of an approved action because of `GateInv` (`ExecutingPerforms`).

**Agent files.** `AgentFilesTypeSafe`, `StartedAgentsAreConsistent`, `PrivateFilesStayPrivate` and `UnforcedCommandsHarmNothing` hold for any initial
files with the types the system has, any commands and any number of processes. `StartedAgentIsConsistent` is about one
step, `ReadIdentity`, but that step checks neither the mode of the file nor the platform: it relies on checks made
steps before, in files that others have changed since. The invariant, `AgentInv`, says what each check leaves true
(`StepInv`), and `Kept` why it stays true: no step of any process removes a file, changes a file into a directory or back, or opens
to others what was private. What may have changed, the content, is traced back to a body that some command set out to
write and that may be cut short (`ConfigIsWritten`, `IdentityIsWritten`), unless two commands had the file open at once: then it is still
the identity of the configuration that was read. The theorems hold for any `Beginnings` and `Splices`. `UnforcedCommandsHarmNothing` is about steps: what an agent needs in order to start stays
where it is unless a file it reads is opened with `--force` or still being written (`UnharmedStarts`).

**Durable ledger.** `LedgerTypeCorrect`, `FileHoldsOneLedger`, `FileTornOnlyAtTheEnd` and `SuccessIsDurable` hold for any
commands with ledgers of any length, started and killed any number of times, one at a time (`MaxActive = 1`, which each theorem
assumes; `durable_two_writers` shows that it is needed). The invariant, `LedgerInv`, says that the file holds the first events
of one command's ledger, each after a separator, and at most one separator more, and that a command that has written stands where
the file ends. That the command is the same from the first event on is the sequence check: another command starts at event 1,
which a file that holds anything refuses.

**Pull protocol.** `ProtocolTypeCorrect`, `NoResultIsLost` and `ReplaysAreAnswered` hold for any fleet, envelopes, clocks and
bounds, and whatever is lost, late or out of order. Every request that is served is a step of `ControlPlane`, so the control plane's invariant, `AcceptanceInv`, is
available; `ProtocolInv` adds that every message in flight, answers included, says what is true (`Truthful`) and that
what is true of the server stays true. An answer may thus come late or never, and an agent may ask again. `ReplaysAreAnswered` alone assumes that nonces tell envelopes
apart (`DistinctNonces`).

**Journeys.** `LifecycleImplemented`, `JourneyTypeCorrect`, `PersistedReceiptStays`, `ReceiptIsTrue`, `ApprovedWasPlanned`, `ChecksAreSettled`
and `OverridingOverlayWins` hold for every set of sessions of any length, every fleet repository, well formed or not, every host and whatever
its collectors answer, with a kill at any step. Assumed is that a session consists of commands that exist and names
repositories that do (`SessionsAssumption`, `RepositoriesAssumption`), and that sessions have a greatest length
(`LongestAssumption`), as the mapping to `RunLifecycle` numbers the runs. None of the properties is inductive: each is about what
a command says at its end, and all it rests on happened steps before, in other components. Seven invariants carry them, each on top of those before it:

| Invariant | What it adds | What for |
|---|---|---|
| `Control` | which command can be at which step | all others split on it |
| `Progress` | which plan, records, leases and deeds are there at each step, and that a collector is enqueued when the one before it was answered | `LifecycleImplemented`, `JourneyTypeCorrect` |
| `Directory` | a command that has appended anything began with an empty file, and the file is what it appended; a file of which a receipt was reported yields that receipt and takes nothing more | `PersistedReceiptStays` |
| `Served` | every task queued, handed out or answered is one the simulated agents know, and the control plane's ledger has only its own kinds of events | an accepted answer has evidence to it, and relabelled events say nothing a receipt is made of |
| `Telling` | each event of the ledger says of node, approval, lease, action, resource and checks what the run is about; so do the record, the lease and the deed once they are there; and the evidence is what was collected, in that order | `ApprovedWasPlanned`, `ReceiptIsTrue` |
| `Settled` | all events of the file agree with one choice of checks, in which none is both required and skipped, and so do the receipts | `ChecksAreSettled` |
| `Overlaid` | the resolved settings are those of a fleet that loads | `OverridingOverlayWins` |

`ReceiptIsTrue` does not follow the fold of `receipt.rs` event by event: `PartsSaid` says, once, that each part of what was collected
comes from an event of the run that says so, and `Telling` says what such events say. Only the evidence, which is a list, is
kept in order by `AllWith`. A receipt exists only if an action was recorded, so that there is a deed to compare it with.
`ApprovedWasPlanned` relates ids that planner, analyzer, approval store and verification planner build separately; where the
verification planner searches them for substrings, `PackageIsTarget` and `ChecksFit` go through what it may find, whatever `IdContains` is, and
so whatever nodes and services are called.
For `ChecksAreSettled` the file may hold any part of a killed command's ledger, which is why it is stated of
single events. `OverridingOverlayWins` says by position which fragments come first (`ArrangesTiers`): those of a lower tier, and
within a tier those earlier in path order; of those that have a key, the last one in that arrangement is what the merge leaves.

**Planners, collectors, analyzers.** These are functions, so that their theorems are about all arguments and have no invariant.
`VerificationIsSound`: whatever the verification planner finds in the ids of an impact, it requires no check that it also skips, every check is about
a resource of the impact (`PickedFromImpact`), and one is of the direct impact, provided the action writes anything; with
an empty impact the code makes up a resource, and no runbook has one. The other four are about tables that are kept twice:
`PlannedTasksAreSupported` (capabilities asked for and capabilities handed to tasks), `NativeReportsSuffice` (what the agent reports and collects, and what the planners ask
for), `AnalyzersObeyPolicies` (what an analyzer proposes and what its policy allows), `RunningServiceIsLeftAlone`
(the marker a collector writes and the marker the analyzer reads).

**Only model-checked** is liveness: `ResultSettles`, `TaskHandedOut`, `EveryTaskCompletes`, `EveryCommandEnds`. Each needs fairness, and
the prover has no rules for `ENABLED` and the fairness conditions defined by it.

## Where the code and its documents disagree

| Run | The document | The code |
|---|---|---|
| `enroll_once` | `docs/agent-protocol.md:12`: "Agents enroll once with a short-lived enrollment token." | The token stays valid until it expires, and a second enrollment of a node is stored; lookups never reach it. |
| `drain_same_run` | `docs/execution-semantics.md:114`: existing drain, new reboot: "allow same run" | `is_compatible_with` and `decide_task` never compare runs. |
| `helper_nonce` | `docs/helper-contract.md:231`: the helper rejects if the "nonce has already been used" | The helper compares with nonces its caller lists and records none. |
| `partial_receipt` | `docs/server-state.md:52`: "Missing required events remain receipt-generation errors; the server does not produce partial success receipts from incomplete durable state." | A command killed while it persists leaves a prefix. From the first `VerificationCompleted` on, `finalize` finds all it asks for, and the receipt says the run succeeded although checks are missing. |
| `durable_two_writers` | `docs/server-state.md:18`: "Each document is one `AuditEvent` with a monotonic sequence number." | Two commands on one directory both read length 0 and both append event 1; the ledger no longer loads. |

Two more sentences were met that no run refutes, because the code has nothing to run: `docs/architecture.md:175` draws a
state "cancelled" that `RunState` lacks, and `docs/architecture.md:182` says every transition writes an audit event, while
`transition_to` takes no ledger and only tests call it.

## Assumptions

- Different envelopes carry different nonces, in the instances. The control plane enforces nothing of the
  kind: of two envelopes with one nonce only one can be answered. Of the safety
  theorems only `ReplaysAreAnswered` needs the assumption, and states it.
- A lease whose signature status is Valid carries claims the approval store issued. Signing is
  outside the repository, and the helper is told the status.
- The scheduler's caller grants the leases of a task before it decides about another, and a
  snapshot's completed tasks are those of the task's own run.
- One command at a time is at work on a state directory in `durable_ledger`; commands may be
  killed and repeated. `durable_two_writers` drops the assumption.
- A separator and a document are each written whole or not at all. What a half-written document would
  do is not modelled.
- In `Journey` an event is appended to the state directory in one step, and one command is at work at a time;
  `DurableLedger` is about the steps of an append and `durable_two_writers` about two commands.
- In `AgentFiles` a write is one operation that may stop on the way, as the texts are short; two processes with one file open each write at
  its beginning. A text made of two is taken to be readable only where their lines align, or where a cut in the line of the enrolment meets the
  old line of the expiry; any other lacks a field, has one twice or spells none, or has one the parser ignores. A text that is not readable stays so under a write that stops, but for what the new beginning is by itself. Key material and trust root are there from the start, as nothing of the agent's writes them,
  and no one but the agent's commands changes files meanwhile.
- An agent's clock does not run backwards in `PullProtocol`. In `ControlPlane` and `ApprovalStore` calls carry any
  time in any order.

## What is not modelled

Header and body parsing of the HTTP API, YAML syntax and Telegram message syntax and views are left out: a request or
document is the record they yield. The helper's preflight compares file owners and modes; how it parses lease and
request files yields the claims `HelperGate` quantifies over. Of the collectors, argument lists of the programs they run are
left out, and so is what turns a program's output into the words the markers are looked for in. Rendering of receipts, summaries and
help texts, event ids, goals, reasons and hypotheses are text. `xtask` builds and lints. The demonstrations of the `runlane`
command line call operations modelled elsewhere with fixed values. The redelivery of a task whose response was lost is not modelled because there is none.

## Plan

Done: every component of `runlane-core` that keeps state or decides something, the agent's files, the journeys; their
runs; the theorems above.

Left, in this order:

1. Two agents in `pull_protocol`, which the theorems cover and the run does not.
2. The promises of `Fleet` for every repository (a fleet that loads has no undefined reference), as theorems about its operators.
3. How receipts and the lifecycle of a run agree: a receipt of success exists only where the run has reached its end.
