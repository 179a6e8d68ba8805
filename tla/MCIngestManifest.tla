------------------------- MODULE MCIngestManifest --------------------------
(* A small instance: the worker and one command line, two matches, two     *)
(* payloads of the first and one of the second, one retry.                 *)
EXTENDS IngestManifest

CONSTANTS m1, m2, a, b, ka, kb

MCKeyOf == [c \in {a, b} |-> IF c = a THEN ka ELSE kb]
MCServes == [m \in {m1, m2} |-> IF m = m1 THEN {a, b} ELSE {a}]
=============================================================================
