--------------------------- MODULE MCGoldRebuild ---------------------------
(* One match.  Payload b corrects a's numbers, c replaces one of a's teams.*)
EXTENDS GoldRebuild

CONSTANTS m1, a, b, c, T1, T2, T3

MCBox == [p \in {a, b, c} |->
            CASE p = a -> [t \in {T1, T2} |-> 1]
              [] p = b -> [t \in {T1, T2} |-> IF t = T1 THEN 2 ELSE 1]
              [] p = c -> [t \in {T1, T3} |-> 1]]

AllRevisions == [m \in {m1} |-> {a, b, c}]
=============================================================================
