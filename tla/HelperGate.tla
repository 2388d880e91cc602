------------------------------- MODULE HelperGate ------------------------------
(***************************************************************************)
(* The privileged helper behind the approval store: a lease the store      *)
(* issued is signed, handed to the helper with a request, and the helper   *)
(* validates both against its own node and allowlist before it acts        *)
(* (validate_helper_request in src/crates/runlane-core/src/lib.rs; its     *)
(* callers in runlane-helper/src/main.rs, runlane-agent/src/main.rs and    *)
(* runlane-core/src/e2e.rs).                                               *)
(*                                                                         *)
(* Only claims the store issued carry a valid signature; the status of     *)
(* every other lease file is Invalid, which the first check refuses.  A    *)
(* helper run is a process of its own: the nonces it has seen are those    *)
(* its caller lists for it (parse_seen_nonces), and it records none.       *)
(***************************************************************************)
EXTENDS ApprovalStore

CONSTANTS
  HelperNodes,   \* nodes helpers run on
  Targets,       \* targets a request may name
  Allowlist,     \* the helper's local allowlist, a set of [id, action, target]
  MaxExecutions  \* bound of the model

ASSUME HelperAssumption ==
  /\ \A e \in Allowlist : e = [id |-> e.id, action |-> e.action, target |-> e.target]
  /\ MaxExecutions \in Nat

VARIABLE executed   \* history: the invocations helpers accepted, in order

gateVars == <<asVars, executed>>

HelperRequests == [lease : ApprovalIds, action : HelperActions, target : Targets]

AllowlistPermits(entry, action, target) ==
  \E e \in Allowlist : e.id = entry /\ e.action = action /\ e.target = target

\* Mutant: the request's target is left to the allowlist.
HelperAcceptsAnyTarget(request, claims, node, now, seen) ==
  /\ claims.expires > now
  /\ claims.nonce \notin seen
  /\ claims.node = node
  /\ claims.lease = request.lease
  /\ claims.action = request.action
  /\ AllowlistPermits(claims.entry, request.action, request.target)

\* Mutant: a lease still works at the moment it expires.
HelperAcceptsAtExpiry(request, claims, node, now, seen) ==
  /\ claims.expires >= now
  /\ claims.nonce \notin seen
  /\ claims.node = node
  /\ claims.lease = request.lease
  /\ claims.action = request.action
  /\ claims.target = request.target
  /\ AllowlistPermits(claims.entry, request.action, request.target)

\* The checks of validate_helper_request; all must pass, so their order only chooses
\* the error.
HelperAccepts(request, claims, node, now, seen) ==
  /\ claims.expires > now
  /\ claims.nonce \notin seen
  /\ claims.node = node
  /\ claims.lease = request.lease
  /\ claims.action = request.action
  /\ claims.target = request.target
  /\ AllowlistPermits(claims.entry, request.action, request.target)

HelperExecute(request, claims, node, now, seen) ==
  /\ Len(executed) < MaxExecutions
  /\ HelperAccepts(request, claims, node, now, seen)
  /\ executed' = Append(executed,
       [approval |-> claims.approval, action |-> request.action, target |-> request.target,
        node |-> node, nonce |-> claims.nonce, at |-> now])
  /\ UNCHANGED asVars

Issued == {leases[i].claims : i \in DOMAIN leases}

GateInit == AsInit /\ executed = <<>>

GateNext ==
  \/ AsNext /\ UNCHANGED executed
  \/ \E request \in HelperRequests, claims \in Issued, node \in HelperNodes, now \in Times,
        seen \in SUBSET Nonces : HelperExecute(request, claims, node, now, seen)

GateSpec == GateInit /\ [][GateNext]_gateVars

-----------------------------------------------------------------------------

\* A helper acts only on what an operator approved, where and while it was approved:
\* the approval behind every invocation is Approved, for that action and target, on the
\* node the target belongs to, the allowlist names it, and the approval had not expired
\* by the helper's own clock (lib.rs, validate_helper_request; approval.rs, approve).
ExecutedAsApproved ==
  \A i \in DOMAIN executed :
    LET done == executed[i]
        k == FirstWith(records, "id", done.approval)
    IN  /\ k # 0
        /\ records[k].state = "Approved"
        /\ records[k].action = done.action
        /\ records[k].target = done.target
        /\ NodeOf(done.target) = done.node
        /\ done.at < records[k].expires
        /\ \E e \in Allowlist : e.action = done.action /\ e.target = done.target

\* Approval store and helper together implement GatedAction: each id is decided once and
\* what is performed is what the first request under that id proposed.
FirstUnder(id) == records[FirstWith(records, "id", id)]
KnownIds == {records[i].id : i \in DOMAIN records}
DeedOf(r) == [action |-> r.action, target |-> r.target]

Gate == INSTANCE GatedAction WITH
  Ids <- ApprovalIds,
  Deeds <- {DeedOf(r) : r \in Requests},
  proposed <- [id \in KnownIds |-> DeedOf(FirstUnder(id))],
  decided <- [id \in {i \in KnownIds : FirstUnder(i).state # "Pending"} |->
                FirstUnder(id).state = "Approved"],
  performed <- {[id |-> executed[i].approval,
                 deed |-> [action |-> executed[i].action, target |-> executed[i].target]] :
                i \in DOMAIN executed}

ImplementsGatedAction == Gate!Spec

\* docs/helper-contract.md, "Fail-Closed Checks": the helper rejects the request if the
\* nonce has already been used.
NonceUsedOnce ==
  \A i, j \in DOMAIN executed : executed[i].nonce = executed[j].nonce => i = j

===============================================================================
