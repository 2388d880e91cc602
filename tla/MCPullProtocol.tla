---------------------------- MODULE MCPullProtocol ----------------------------
(* One node and its enrolled agent; a task that expires while it is queued or   *)
(* executed and one that does not; the agent's clock moves once.                *)
EXTENDS PullProtocol

MCIdentities == {[node |-> "n1", cert |-> "c1"]}

Token == [secret |-> "s1", node |-> "n1", platform |-> "linux", expires |-> 1]
MCTokens == {Token}

MCEnrollments == {[secret |-> "s1", node |-> "n1", platform |-> "linux", cert |-> "c1"]}
MCFleet ==
  <<[token |-> Token, agent |-> [node |-> "n1", platform |-> "linux", cert |-> "c1"]]>>

ShortTask ==
  [id |-> "e1", run |-> "r1", task |-> "t1", node |-> "n1", nonce |-> "x1", expires |-> 1]
LongTask ==
  [id |-> "e2", run |-> "r1", task |-> "t2", node |-> "n1", nonce |-> "x2", expires |-> 2]

MCEnvelopes == {ShortTask, LongTask}
MCStatuses == {"succeeded"}
MCSubmissions == {ResultOf(e, st) : e \in MCEnvelopes, st \in MCStatuses}
===============================================================================
