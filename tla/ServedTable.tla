---------------------------- MODULE ServedTable ----------------------------
(***************************************************************************)
(* What the serving table promises its readers (ADR-005): a load of a      *)
(* match replaces the match as a whole and at once, and a load that fails  *)
(* changes nothing.                                                        *)
(*                                                                         *)
(* The promise is about loads of one match that follow each other.  When   *)
(* two of them were under way together, the one that commits may leave the *)
(* match in a state nothing is said of (Unknown), until a load that had    *)
(* the match for itself replaces it.                                       *)
(***************************************************************************)

CONSTANTS Match, Content, Load, NoContent, Unknown

VARIABLES table,     \* table[m]: the payload whose rows m consists of
          loading,   \* loading[l]: the match and payload of a load under way
          clean      \* the loads that had their match for themselves so far

vars == <<table, loading, clean>>

Idle == [match |-> CHOOSE m \in Match : TRUE, content |-> NoContent]

Init == /\ table = [m \in Match |-> NoContent]
        /\ loading = [l \in Load |-> Idle]
        /\ clean = {}

Rivals(l, m) == {k \in Load \ {l} : loading[k] # Idle /\ loading[k].match = m}

Begin(l, m, c) ==
    /\ loading[l] = Idle
    /\ loading' = [loading EXCEPT ![l] = [match |-> m, content |-> c]]
    /\ clean' = IF Rivals(l, m) = {} THEN clean \cup {l} ELSE clean \ Rivals(l, m)
    /\ UNCHANGED table

Ended(l) ==
    /\ loading[l] # Idle
    /\ loading' = [loading EXCEPT ![l] = Idle]
    /\ clean' = clean \ {l}

Commit(l) ==
    /\ Ended(l)
    /\ \E c \in {loading[l].content} \cup (IF l \in clean THEN {} ELSE {Unknown}) :
          table' = [table EXCEPT ![loading[l].match] = c]

Rollback(l) == Ended(l) /\ UNCHANGED table

Next == \E l \in Load :
            \/ \E m \in Match, c \in Content : Begin(l, m, c)
            \/ Commit(l)
            \/ Rollback(l)

Spec == Init /\ [][Next]_vars
=============================================================================
