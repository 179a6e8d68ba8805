--------------------------- MODULE MCStageRecords ---------------------------
(* One worker run and two rebuild runs, which are interchangeable.         *)
EXTENDS StageRecords, TLC

CONSTANTS w, r1, r2

\* Of no consequence: SilverVolumes stays empty.
MCUnusual(lines) == TRUE

RebuildSymmetry == Permutations({r1, r2})
=============================================================================
