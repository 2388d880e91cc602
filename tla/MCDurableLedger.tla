---------------------------- MODULE MCDurableLedger ----------------------------
(* A ledger of three events, one of two and one of one, so that every prefix of *)
(* one has the length of a part of another.                                     *)
EXTENDS DurableLedger

MCLedgerSize == [c \in Commands |-> CASE c = "demo" -> 3 [] c = "dogfood" -> 2 [] OTHER -> 1]
===============================================================================
