--------------------------- MODULE MCInteractions ---------------------------
(* Interactions with two answers to the first interaction and one to the   *)
(* second.                                                                 *)
EXTENDS Interactions

CONSTANTS i1, i2, a, b, c

MCTarget == [x \in Answers |-> IF x \in {a, b} THEN i1 ELSE i2]
=============================================================================
