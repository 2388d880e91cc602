---------------------------- MODULE MCControlPlane ----------------------------
(* Two nodes; one token each; a task for each node, one of them short-lived,    *)
(* that may be enqueued more than once;                                         *)
(* the results are the right answer to each task and answers with one field     *)
(* that belongs to another task.                                                *)
EXTENDS ControlPlane

MCIdentities == {[node |-> "n1", cert |-> "c1"], [node |-> "n1", cert |-> "c2"],
                 [node |-> "n2", cert |-> "c2"]}

MCTokens == {[secret |-> "s1", node |-> "n1", platform |-> "linux", expires |-> 1],
             [secret |-> "s2", node |-> "n2", platform |-> "linux", expires |-> 2]}

MCEnrollments ==
  {[secret |-> "s1", node |-> "n1", platform |-> "linux", cert |-> "c1"],
   [secret |-> "s1", node |-> "n1", platform |-> "linux", cert |-> "c2"],
   [secret |-> "s2", node |-> "n2", platform |-> "linux", cert |-> "c2"],
   [secret |-> "s2", node |-> "n1", platform |-> "linux", cert |-> "c2"],
   [secret |-> "s2", node |-> "n2", platform |-> "openbsd", cert |-> "c2"]}

ShortTask ==
  [id |-> "e1", run |-> "r1", task |-> "t1", node |-> "n1", nonce |-> "x1", expires |-> 1]
OtherTask ==
  [id |-> "e2", run |-> "r2", task |-> "t2", node |-> "n2", nonce |-> "x2", expires |-> 2]

MCEnvelopes == {ShortTask, OtherTask}

Answer(e, st) ==
  [envelope |-> e.id, run |-> e.run, task |-> e.task, node |-> e.node, nonce |-> e.nonce,
   status |-> st]

MCSubmissions ==
  {Answer(ShortTask, "failed"), Answer(OtherTask, "succeeded")}
  \cup {[Answer(ShortTask, "failed") EXCEPT !.run = "r2"],
        [Answer(ShortTask, "failed") EXCEPT !.task = "t2"],
        [Answer(ShortTask, "failed") EXCEPT !.nonce = "x2"],
        [Answer(ShortTask, "failed") EXCEPT !.node = "n2"]}
MCSpoolItems == {Answer(ShortTask, "failed")}
===============================================================================
