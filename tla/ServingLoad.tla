---------------------------- MODULE ServingLoad ----------------------------
(***************************************************************************)
(* The load task in detail (src/serving/load_silver_events.py): DELETE and *)
(* COPY of one match in one transaction of PostgreSQL, and the task        *)
(* executions around it.                                                   *)
(*                                                                         *)
(* The scheduler starts one load after another.  It may take a running     *)
(* load for dead (its heartbeat is lost, or the task was cleared) and go   *)
(* on although the process still runs; nothing fences that process off.    *)
(*                                                                         *)
(* PostgreSQL runs the transaction as READ COMMITTED, the default that     *)
(* storage/database.py leaves as it is: a statement sees the rows that     *)
(* were committed when it began, and DELETE waits for a transaction that   *)
(* has deleted one of them, then skips the row if that one committed.      *)
(* serving.src_silver_events has no key that would refuse a second copy.   *)
(***************************************************************************)
EXTENDS Naturals, FiniteSets

CONSTANTS
    Match,      \* match ids
    Content,    \* payloads of Silver
    Load,       \* executions of the load task, numbered as started
    Size,       \* Size[c]: the rows of payload c
    NoContent, Unknown

ASSUME LoadAssumption ==
    /\ Match # {}
    /\ Load \subseteq Nat \ {0}
    /\ Size \in [Content -> Nat \ {0}]
    /\ NoContent \notin Content
    /\ Unknown \notin Content \cup {NoContent}

VARIABLES
    load,       \* load[l]: the execution of upsert_src_silver_events
    rows,       \* rows[l]: how many rows load l has copied
    deleter,    \* deleter[l]: the load whose DELETE took l's rows last
    open,       \* the loads with an open transaction
    dead,       \* the loads the scheduler took for dead
    clean       \* the open loads that had their match for themselves so far
                \* (a history variable: no action reads it)

vars == <<load, rows, deleter, open, dead, clean>>

NoLoad == 0     \* deleter of rows that nobody has deleted

States == {"none",         \* not started
           "scanned",      \* has the rows of its snapshot
           "deleting",     \* the DELETE statement has begun
           "copying",      \* it has ended
           "committed", "failed"}

Loads == [state : States, match : Match, content : Content \cup {NoContent},
          target : SUBSET Load]     \* whose rows the DELETE statement sees

Committed(l) == load[l].state = "committed"

Running(l) == load[l].state \in {"scanned", "deleting", "copying"}

\* The loads whose rows of match m a statement that begins now sees.
Visible(m) ==
    {l \in Load : /\ Committed(l) /\ load[l].match = m
                  /\ deleter[l] \in Load => ~Committed(deleter[l])}

Init ==
    /\ load = [l \in Load |-> [state |-> "none", match |-> CHOOSE m \in Match : TRUE,
                               content |-> NoContent, target |-> {}]]
    /\ rows = [l \in Load |-> 0]
    /\ deleter = [l \in Load |-> NoLoad]
    /\ open = {}
    /\ dead = {}
    /\ clean = {}

-----------------------------------------------------------------------------

\* The task begins and reads its pinned snapshot.  The tasks before it have
\* ended, or are taken for dead.
Start(l, m, c) ==
    /\ load[l].state = "none"
    /\ \A k \in Load : k < l => load[k].state # "none" /\ (Running(k) => k \in dead)
    /\ load' = [load EXCEPT ![l].state = "scanned", ![l].match = m, ![l].content = c]
    /\ UNCHANGED <<rows, deleter, open, dead, clean>>

\* DELETE FROM serving.src_silver_events WHERE match_id = ...
\* begins, and the transaction with it.
BeginDelete(l) ==
    LET m == load[l].match
        rivals == {k \in open : load[k].match = m} IN
    /\ load[l].state = "scanned"
    /\ load' = [load EXCEPT ![l].state = "deleting", ![l].target = Visible(m)]
    /\ open' = open \cup {l}
    /\ clean' = IF rivals = {} THEN clean \cup {l} ELSE clean \ rivals
    /\ UNCHANGED <<rows, deleter, dead>>

\* Slip: the match is not deleted before the copy.
DeleteNothing(l) ==
    /\ load[l].state = "deleting"
    /\ load' = [load EXCEPT ![l].state = "copying"]
    /\ UNCHANGED <<rows, deleter, open, dead, clean>>

\* Slip: DELETE commits on its own (autocommit).
DeleteAtOnce(l) ==
    /\ load[l].state = "deleting"
    /\ load' = [k \in Load |-> IF k \in load[l].target
                               THEN [load[k] EXCEPT !.state = "failed"]
                               ELSE IF k = l THEN [load[k] EXCEPT !.state = "copying"]
                               ELSE load[k]]
    /\ UNCHANGED <<rows, deleter, open, dead, clean>>

\* The statement ends, once no open transaction holds one of its rows; rows
\* whose deletion has been committed meanwhile are skipped.
Delete(l) ==
    /\ load[l].state = "deleting"
    /\ \A k \in load[l].target : deleter[k] \notin open
    /\ load' = [load EXCEPT ![l].state = "copying"]
    /\ deleter' = [k \in Load |->
                     IF /\ k \in load[l].target
                        /\ deleter[k] \in Load => ~Committed(deleter[k])
                     THEN l ELSE deleter[k]]
    /\ UNCHANGED <<rows, open, dead, clean>>

\* copy.write_row
Copy(l) ==
    /\ load[l].state = "copying"
    /\ rows[l] < Size[load[l].content]
    /\ rows' = [rows EXCEPT ![l] = @ + 1]
    /\ UNCHANGED <<load, deleter, open, dead, clean>>

\* The connection's context ends without an exception.
Commit(l) ==
    /\ load[l].state = "copying"
    /\ rows[l] = Size[load[l].content]
    /\ load' = [load EXCEPT ![l].state = "committed"]
    /\ open' = open \ {l}
    /\ clean' = clean \ {l}
    /\ UNCHANGED <<rows, deleter, dead>>

\* Slip: the connection of a load that raises is not closed.
FailOpen(l) ==
    /\ Running(l)
    /\ load' = [load EXCEPT ![l].state = "failed"]
    /\ UNCHANGED <<rows, deleter, open, dead, clean>>

\* Slip: the context commits after an exception too.
FailCommits(l) ==
    /\ Running(l)
    /\ load' = [load EXCEPT ![l].state = IF l \in open THEN "committed" ELSE "failed"]
    /\ open' = open \ {l}
    /\ clean' = clean \ {l}
    /\ UNCHANGED <<rows, deleter, dead>>

\* The task raises, is killed or loses its connection: rollback.
Fail(l) ==
    /\ Running(l)
    /\ load' = [load EXCEPT ![l].state = "failed"]
    /\ open' = open \ {l}
    /\ clean' = clean \ {l}
    /\ UNCHANGED <<rows, deleter, dead>>

\* The scheduler gives a load up that still runs.
TakenForDead(l) ==
    /\ Running(l) /\ l \notin dead
    /\ dead' = dead \cup {l}
    /\ UNCHANGED <<load, rows, deleter, open, clean>>

Proceed(l) == BeginDelete(l) \/ Delete(l) \/ Copy(l) \/ Commit(l)

Next ==
    \E l \in Load :
        \/ \E m \in Match, c \in Content : Start(l, m, c)
        \/ Proceed(l)
        \/ Fail(l)
        \/ TakenForDead(l)

\* A process that runs goes on; PostgreSQL grants a lock that is free.
Spec == Init /\ [][Next]_vars /\ \A l \in Load : WF_vars(Proceed(l))

-----------------------------------------------------------------------------
(* Properties *)

\* Executions and rows are well-typed, and a transaction is open exactly
\* while the task is between its DELETE and its end.
TypeOK ==
    /\ load \in [Load -> Loads]
    /\ rows \in [Load -> Nat]
    /\ deleter \in [Load -> Load \cup {NoLoad}]
    /\ dead \subseteq Load
    /\ open = {l \in Load : load[l].state \in {"deleting", "copying"}}
    /\ clean \subseteq open

\* "A retry does not append duplicate match data": readers see one copy of a
\* match, complete and of the newest load that committed, whatever loads of
\* it failed at any point and whatever loads of other matches overlap it -
\* unless a load that was taken for dead committed all the same.
OneCopy ==
    \A m \in Match :
        LET done == {l \in Load : Committed(l) /\ load[l].match = m} IN
        done \cap dead = {} =>
            /\ Visible(m) = {l \in done : \A k \in done : k <= l}
            /\ \A l \in Visible(m) : rows[l] = Size[load[l].content]

\* A load that had its match for itself from the DELETE to the COMMIT leaves
\* the match in one complete copy, its own, whatever was there before: also
\* two copies from loads that overlapped.
LoadHeals ==
    [][\A l \in Load :
         (l \in clean /\ ~Committed(l) /\ Committed(l)') =>
             Visible(load[l].match)' = {l}]_vars

\* What ServedTable shows for match m: a copy that is not whole, or not the
\* only one, would be a payload no load has brought.
Served(m) ==
    IF Visible(m) = {} THEN NoContent
    ELSE LET l == CHOOSE k \in Visible(m) : \A j \in Visible(m) : j <= k IN
         IF Visible(m) = {l} /\ rows[l] = Size[load[l].content]
         THEN load[l].content ELSE Unknown

Loading ==
    [l \in Load |-> [match |-> IF l \in open THEN load[l].match
                                             ELSE CHOOSE m \in Match : TRUE,
                     content |-> IF l \in open THEN load[l].content ELSE NoContent]]

Table == INSTANCE ServedTable
            WITH table <- [m \in Match |-> Served(m)], loading <- Loading

\* The load task implements ServedTable: between the DELETE and the COMMIT,
\* and after a failure at any point, readers see the match as it was.
TableSpec == Table!Spec

\* No load waits for ever: every transaction ends and gives its rows free.
LoadsEnd == \A l \in Load : Running(l) ~> ~Running(l)
=============================================================================
