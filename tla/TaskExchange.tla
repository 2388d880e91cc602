----------------------------- MODULE TaskExchange -----------------------------
(***************************************************************************)
(* What the control plane promises about tasks and results, with none of   *)
(* its vectors, nonces, identities or clocks: each node has a queue of its *)
(* own, tasks leave it in order, and an envelope that was handed out is    *)
(* answered at most once, by an answer that belongs to it.                 *)
(***************************************************************************)
EXTENDS Sequences

CONSTANTS Nodes, Envelopes, Submissions,
          AnswersTask(_, _)  \* is this submission an answer to this task?

VARIABLES queue,      \* queue[n]: the tasks waiting for node n
          handedOut,  \* the tasks some agent was given
          answer      \* answer[id]: the result accepted for the envelope id

\* The function f, with y for x as well.
With(f, x, y) == [z \in DOMAIN f \cup {x} |-> IF z = x THEN y ELSE f[z]]

exchangeVars == <<queue, handedOut, answer>>

Init ==
  /\ queue = [n \in Nodes |-> <<>>]
  /\ handedOut = {}
  /\ answer = <<>>

Enqueue(e) ==
  /\ queue' = [queue EXCEPT ![e.node] = Append(@, e)]
  /\ UNCHANGED <<handedOut, answer>>

HandOut(n) ==
  /\ queue[n] # <<>>
  /\ handedOut' = handedOut \cup {Head(queue[n])}
  /\ queue' = [queue EXCEPT ![n] = Tail(@)]
  /\ UNCHANGED answer

Answer(e, s) ==
  /\ e \in handedOut
  /\ AnswersTask(s, e)
  /\ e.id \notin DOMAIN answer
  /\ answer' = With(answer, e.id, s)
  /\ UNCHANGED <<queue, handedOut>>

Next ==
  \/ \E e \in Envelopes : Enqueue(e)
  \/ \E n \in Nodes : HandOut(n)
  \/ \E e \in Envelopes, s \in Submissions : Answer(e, s)

Spec == Init /\ [][Next]_exchangeVars

===============================================================================
