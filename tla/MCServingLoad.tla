--------------------------- MODULE MCServingLoad ---------------------------
(* Two payloads of different length.                                       *)
EXTENDS ServingLoad

CONSTANTS m1, m2, a, b

MCSize == [c \in {a, b} |-> IF c = a THEN 2 ELSE 1]
=============================================================================
