-------------------------------- MODULE Receipt --------------------------------
(***************************************************************************)
(* The operator receipt (src/crates/runlane-core/src/receipt.rs): a fold   *)
(* over the audit events of one run, in ledger order, that fails when a    *)
(* part is missing.                                                        *)
(*                                                                         *)
(* Parts an event sets are "none" until it comes.  Resources and skipped   *)
(* checks are sorted and deduplicated in the receipt, so they are sets     *)
(* here; hypothesis, risk and takeover notes, and the layer, which is      *)
(* System whatever the run, are left out.                                  *)
(***************************************************************************)
EXTENDS Naturals, Sequences, SequencesExt

NoParts ==
  [incident |-> "none", node |-> "none", evidence |-> <<>>, proposal |-> "none",
   approval |-> "none", lease |-> "none", changed |-> {}, action |-> "none",
   status |-> "none", checks |-> <<>>, completed |-> <<>>, skipped |-> {}]

\* ReceiptParts::apply.  A lease stands in for the approval only when no decision came.
Apply(parts, event) ==
  CASE event.kind = "IncidentCreated" ->
         [parts EXCEPT !.incident = event.incident, !.node = event.node]
    [] event.kind = "EvidenceCollected" -> [parts EXCEPT !.evidence = Append(@, event.source)]
    [] event.kind = "ProposalGenerated" -> [parts EXCEPT !.proposal = event.proposal]
    [] event.kind = "ApprovalDecision" ->
         IF event.outcome = "Approved" THEN [parts EXCEPT !.approval = event.id] ELSE parts
    [] event.kind = "CapabilityLeaseIssued" ->
         [parts EXCEPT !.lease = event.lease, !.approval = IF @ = "none" THEN event.approval ELSE @]
    [] event.kind = "ResourceLeaseGranted" -> [parts EXCEPT !.changed = @ \cup {event.resource}]
    [] event.kind = "ActionResult" ->
         [parts EXCEPT !.action = event.action, !.status = event.status,
                       !.changed = @ \cup {event.resource}]
    [] event.kind = "VerificationSelected" ->
         [parts EXCEPT !.checks = @ \o event.plan.required, !.skipped = @ \cup ToSet(event.plan.skipped)]
    [] event.kind = "VerificationCompleted" ->
         [parts EXCEPT !.completed = Append(@, <<event.check, event.resource>>)]
    [] event.kind = "VerificationSkipped" -> [parts EXCEPT !.skipped = @ \cup {event.check}]
    [] OTHER -> parts

CollectParts(run, ledger) ==
  LET parts[n \in 0..Len(ledger)] ==
        IF n = 0 THEN NoParts
        ELSE IF ledger[n].run = run THEN Apply(parts[n - 1], ledger[n]) ELSE parts[n - 1]
  IN  parts[Len(ledger)]

\* What finalize asks of the parts.  One completed check is enough.
Complete(parts) ==
  /\ \A part \in {"incident", "node", "proposal", "approval", "lease", "action", "status"} :
       parts[part] # "none"
  /\ parts.evidence # <<>>
  /\ parts.checks # <<>>
  /\ parts.completed # <<>>

\* Result<OperatorReceipt, ReceiptError>
NoReceipt == [error |-> "MissingEvent"]
GenerateReceipt(run, ledger) ==
  LET parts == CollectParts(run, ledger)
  IN  IF Complete(parts) THEN parts ELSE NoReceipt

===============================================================================
