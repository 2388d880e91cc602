------------------------------ MODULE MCHelperGate -----------------------------
(* Targets on two nodes; a second request under the first id, which is shadowed *)
(* or decided instead; another approval with a helper action and the same id    *)
(* proposed without one; an authorized and an unauthorized chat.  The allowlist *)
(* permits a restart of every target under one entry, so that the lease's own   *)
(* target decides.                                                              *)
EXTENDS HelperGate

MCRequest(id, actionId, action, target, expires) ==
  [id |-> id, actionId |-> actionId, action |-> action, target |-> target,
   expires |-> expires, state |-> "Pending"]

MCRequests ==
  {MCRequest("ap1", "restart-service", "ServiceRestart", "n1/sshd", 1),
   MCRequest("ap1", "reload-service", "ServiceReload", "n1/web", 2),
   MCRequest("ap2", "restart-service", "ServiceRestart", "n2/web", 2),
   MCRequest("ap2", "manual-takeover", "ManualTakeover", "n1/web", 1)}

MCNodeOf(target) == IF target = "n2/web" THEN "n2" ELSE "n1"
MCActorOf == [c \in {"chat1"} |-> "operator"]
MCAllowlist ==
  {[id |-> "entry1", action |-> "ServiceRestart", target |-> t] :
     t \in {"n1/sshd", "n1/web", "n2/web"}}
===============================================================================
