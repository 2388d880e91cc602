--------------------------- MODULE MCLeaseScheduler ----------------------------
(* Two runs of the service-unhealthy runbook on one service, cut down to a      *)
(* collecting task and the restart it leads to; a drain and a reboot of the     *)
(* node that carries an application, in two runs; a restart of that application *)
(* and a plan to change the node.                                               *)
EXTENDS LeaseScheduler

Task(run, id, layer, reads, writes, requests, dependencies) ==
  [run |-> run, id |-> id, layer |-> layer, reads |-> reads, writes |-> writes,
   requests |-> requests, dependencies |-> dependencies]

Ask(r, m) == [resource |-> r, mode |-> m]

MCTasks ==
  {Task("run1", "collect-service-status", "System", {"service"}, {}, {}, {}),
   Task("run1", "restart-service", "System", {"service"}, {"service"},
        {Ask("service", "Exclusive")}, {"collect-service-status"}),
   Task("run2", "restart-service", "System", {"service"}, {"service"},
        {Ask("service", "Exclusive")}, {}),
   Task("run3", "drain-node", "System", {}, {}, {Ask("node", "Drain")}, {}),
   Task("run4", "reboot-node", "System", {}, {}, {Ask("node", "Reboot")}, {}),
   Task("run5", "plan-node", "System", {}, {}, {Ask("node", "Intent")}, {}),
   Task("run6", "restart-app", "Application", {"app"}, {"app"}, {}, {}),
   Task("run7", "deploy-app", "Application", {}, {"app"}, {}, {})}

MCPaths == {[lower |-> "node", upper |-> "app"]}
===============================================================================
