------------------------------- MODULE Analyzer --------------------------------
(***************************************************************************)
(* The deterministic analyzers and the proposal policy of                  *)
(* src/crates/runlane-core/src/analyzer.rs: what a proposal says, given    *)
(* the evidence and the allowlists.                                        *)
(*                                                                         *)
(* Evidence is [source, markers]: a marker is one of the substrings the    *)
(* analyzers look for in the lower-cased bodies, which they search all at  *)
(* once.  Hypotheses, confidence and excerpts are left out; so are the     *)
(* references, which are the sources of the evidence in order.             *)
(***************************************************************************)
EXTENDS Planning

ProposedActionKinds ==
  {"ServiceRestart", "ServiceReload", "RemoveAllowlistedFile", "CollectMoreLogs", "ManualTakeover"}

\* The proposed kinds a helper can perform.
HelperAction == {"ServiceRestart", "ServiceReload", "RemoveAllowlistedFile"}

ServicePolicy ==
  [allowed |-> {"ServiceRestart", "ServiceReload", "CollectMoreLogs", "ManualTakeover"},
   approvalRequired |-> {"ServiceRestart", "ServiceReload"}]
DiskPolicy ==
  [allowed |-> {"RemoveAllowlistedFile", "ManualTakeover"},
   approvalRequired |-> {"RemoveAllowlistedFile"}]

ActiveMarkers == {"service=active", "activestate=active", "is running", "(ok)"}
UnhealthyMarkers ==
  {"service=not-active", "activestate=failed", "failed", "exited", "connection refused"}
UnsupportedMarkers == {"unsupported", "not available"}
PressureMarkers == {"disk_pressure=high", "usage=92", "free_space=low"}
CandidateMarkers == {"cleanup_candidate=present"}

Mentions(evidence, markers) == \E i \in DOMAIN evidence : evidence[i].markers \cap markers # {}

\* An action that changes something asks for approval and an exclusive lease.
Changing(id, kind, target) ==
  [id |-> id, kind |-> kind, target |-> target, requiresApproval |-> TRUE,
   requests |-> {[resource |-> target, mode |-> "Exclusive"]}]
Harmless(id, kind, target) ==
  [id |-> id, kind |-> kind, target |-> target, requiresApproval |-> FALSE, requests |-> {}]

Proposal(id, actions) ==
  [id |-> id, actions |-> actions,
   approvalRequired |-> \E i \in DOMAIN actions : actions[i].requiresApproval]

AnalyzeServiceUnhealthy(id, node, service, evidence) ==
  LET target == ServiceResource(node, service)
      unhealthy == Mentions(evidence, UnhealthyMarkers)
      active == Mentions(evidence, ActiveMarkers)
  IN  Proposal(id,
        <<IF Mentions(evidence, UnsupportedMarkers)
            THEN Harmless("manual-takeover", "ManualTakeover", target)
          ELSE IF unhealthy /\ ~ active
            THEN Changing("restart-service", "ServiceRestart", target)
          ELSE Harmless("collect-more-logs", "CollectMoreLogs", target)>>)

\* The mount appears in the fallback's target as it was written.
AnalyzeDiskPressure(id, node, mount, cleanup, evidence, allowed) ==
  Proposal(id,
    <<IF /\ Mentions(evidence, PressureMarkers)
         /\ Mentions(evidence, CandidateMarkers)
         /\ cleanup \in allowed
      THEN Changing("remove-allowlisted-cleanup-path", "RemoveAllowlistedFile", cleanup)
      ELSE Harmless("manual-takeover", "ManualTakeover",
                    Resource("System", node, "filesystem", mount))>>)

ValidProposal(proposal, policy) ==
  /\ proposal.actions # <<>>
  /\ \A i \in DOMAIN proposal.actions :
       LET action == proposal.actions[i]
       IN  /\ action.kind \in policy.allowed
           /\ action.requiresApproval = (action.kind \in policy.approvalRequired)

===============================================================================
