-------------------------------- MODULE Lookup --------------------------------
(***************************************************************************)
(* The lookup the stores of runlane-core share: a vector is scanned from   *)
(* the front and the first match is taken (iter().find(),                  *)
(* iter().position()), so of two entries under one key only the older one  *)
(* is ever seen.                                                           *)
(***************************************************************************)
EXTENDS Naturals, Sequences, SequencesExt

\* q is a vector, of whatever it may hold.
IsVector(q) == Len(q) \in Nat /\ q = [i \in 1..Len(q) |-> q[i]]

\* Mutant: the last match wins, as a map keyed by the field would behave.
LastWith(q, field, x) == SelectLastInSeq(q, LAMBDA r : r[field] = x)

\* The position of the first record of q whose field is x, 0 when there is none.
FirstWith(q, field, x) == SelectInSeq(q, LAMBDA r : r[field] = x)

\* The records of q whose field is in X, in order: iter().filter().  A recursive function,
\* where SelectSeq would do, because the proofs look into it.
AllWithin(q, field, X) ==
  LET among[n \in 0..Len(q)] ==
        IF n = 0 THEN <<>>
        ELSE IF q[n][field] \in X THEN Append(among[n - 1], q[n]) ELSE among[n - 1]
  IN  among[Len(q)]

AllWith(q, field, x) == AllWithin(q, field, {x})

===============================================================================
