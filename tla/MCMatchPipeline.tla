-------------------------- MODULE MCMatchPipeline --------------------------
(* A small instance.  Payload b corrects a's numbers, c replaces one of    *)
(* a's teams, x is JSON that Silver rejects, y is not JSON.                *)
EXTENDS MatchPipeline

CONSTANTS m1, m2, a, b, c, x, y, T1, T2, T3

MCBox == [p \in {a, b, c, x, y} |->
            CASE p = a -> [t \in {T1, T2} |-> 1]
              [] p = b -> [t \in {T1, T2} |-> IF t = T1 THEN 2 ELSE 1]
              [] p = c -> [t \in {T1, T3} |-> 1]
              [] p \in {x, y} -> [t \in {} |-> 0]]

\* One revision of m1.
Revision == [m \in {m1, m2} |-> IF m = m1 THEN {a, c} ELSE {a, x}]

\* Two revisions of m1, and a provider that may answer m2 with an error page.
Revisions == [m \in {m1, m2} |-> IF m = m1 THEN {a, b, c} ELSE {a, x, y}]
=============================================================================
