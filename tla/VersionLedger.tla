--------------------------- MODULE VersionLedger ---------------------------
(***************************************************************************)
(* What the ingestion manifest promises about one match's source versions, *)
(* with no file, no download and no process in it: the ledger of a match   *)
(* is the sequence of the distinct payloads seen for it, oldest first, and *)
(* the position of a payload is its source_version.                        *)
(*                                                                         *)
(* The promise lapses for a match once two ingests of it have overlapped   *)
(* (src/ingest_match.py takes no lock): such a match is "disputed", and    *)
(* the ledger says no more about it than that it grows.                    *)
(***************************************************************************)
EXTENDS Sequences

CONSTANTS Match,    \* match ids
          Content   \* payloads the provider may serve, one per file_hash

VARIABLES known,    \* known[m]: payloads registered for m, in version order
          disputed  \* matches with overlapping ingests

vars == <<known, disputed>>

Payloads(m) == {known[m][i] : i \in DOMAIN known[m]}

Init == /\ known = [m \in Match |-> <<>>]
        /\ disputed = {}

\* A payload is registered: a new one, unless the match is disputed.
Register(m, c) ==
    /\ m \notin disputed => c \notin Payloads(m)
    /\ known' = [known EXCEPT ![m] = Append(@, c)]
    /\ UNCHANGED disputed

Dispute(m) ==
    /\ disputed' = disputed \cup {m}
    /\ UNCHANGED known

Next == \E m \in Match : Dispute(m) \/ \E c \in Content : Register(m, c)

Spec == Init /\ [][Next]_vars
=============================================================================
