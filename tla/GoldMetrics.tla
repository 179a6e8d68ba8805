---------------------------- MODULE GoldMetrics ----------------------------
(***************************************************************************)
(* The numbers of a match: the two fact tables dbt computes from accepted  *)
(* Silver rows (fact_gold_team.sql, fact_gold_intervals.sql), the tests    *)
(* over them, and what the reports derive (xg_timeline.py, xt_momentum.py).*)
(*                                                                         *)
(* The payload grows by one event at a time; the properties relate what    *)
(* the transformations make of every payload so reached.                   *)
(***************************************************************************)
EXTENDS SilverEvents

CONSTANTS
    Event,      \* events the provider may send, id and index still to be set
    MaxEvents,  \* bound: events of a payload
    MaxBadIds   \* bound: events without an id, or with that of the first event

ASSUME EventAssumption ==
    /\ MaxEvents \in Nat
    /\ MaxBadIds \in Nat
    /\ Event \subseteq RawEvent
    \* The clock runs on: 45 is the first minute of the second half.
    /\ \A e \in Event : e.period = 2 => e.minute >= 45

VARIABLES payload

Init == payload = <<>>

BadIds(p) == {i \in DOMAIN p : p[i].id # i}

Next ==
    /\ Len(payload) < MaxEvents
    /\ \E e \in Event, id \in {Len(payload) + 1, 1, Null} :
          payload' = Append(payload, [e EXCEPT !.id = id, !.index = Len(payload) + 1])
    /\ Cardinality(BadIds(payload')) <= MaxBadIds

Spec == Init /\ [][Next]_payload

-----------------------------------------------------------------------------
(* fact_gold_team *)

TeamIds(rows) == Column(rows, "team") \ {Null}

RowsOf(rows, t) == {i \in DOMAIN rows : rows[i].team = t}

Shots(rows, t) == {i \in RowsOf(rows, t) : rows[i].type = "Shot"}

\* The sum of column f over the rows of S, NULL counting nothing.
SumOf(rows, f, S) ==
    LET value(i) == IF rows[i][f] = Null THEN 0 ELSE rows[i][f]
    IN  MapThenSumSet(value, S)

TeamFacts(rows, t) ==
    LET passes == {i \in RowsOf(rows, t) : rows[i].type = "Pass"}
        completed == {i \in passes : rows[i].completed}
    IN  [shots |-> Cardinality(Shots(rows, t)),
         goals |-> Cardinality({i \in Shots(rows, t) : rows[i].outcome = "Goal"}),
         \* a sum over no rows is NULL
         xg |-> IF Shots(rows, t) = {} THEN Null ELSE SumOf(rows, "shot_xg", Shots(rows, t)),
         attempted_passes |-> Cardinality(passes),
         completed_passes |-> Cardinality(completed),
         progressive_passes |-> Cardinality({i \in completed : rows[i].progressive}),
         \* a division of integers in PostgreSQL
         pass_completion_pct |->
            IF passes = {} THEN Null
            ELSE (Cardinality(completed) \div Cardinality(passes)) * 100]

FactGoldTeam(rows) == [t \in TeamIds(rows) |-> TeamFacts(rows, t)]

-----------------------------------------------------------------------------
(* fact_gold_intervals *)

\* Slip: the 46th minute is taken for the first of stoppage time.
StoppageLate(r) == (r.period = 1 /\ r.minute > 45) \/ (r.period = 2 /\ r.minute > 90)

IsStoppageTime(r) == (r.period = 1 /\ r.minute >= 45) \/ (r.period = 2 /\ r.minute >= 90)

PeriodMinute(r) == IF r.period = 1 THEN r.minute ELSE r.minute - 45

IntervalStart(r) ==
    IF IsStoppageTime(r) THEN 45 ELSE (PeriodMinute(r) \div 5) * 5

\* Slip: the row of stoppage time is missing.
PlaySlots == {[start |-> s, stoppage |-> FALSE] : s \in {5 * k : k \in 0..8}}

Slots ==
    {[start |-> s, stoppage |-> FALSE] : s \in {5 * k : k \in 0..8}}
        \cup {[start |-> 45, stoppage |-> TRUE]}

\* The events the table is built from.
InPlay(rows) == {i \in DOMAIN rows : rows[i].team # Null /\ rows[i].period \in {1, 2}}

Key == [team : Team, period : {1, 2}, slot : Slots]

\* teams x periods x slots
Spine(rows) == {k \in Key : \E i \in InPlay(rows) : rows[i].team = k.team}

KeyOf(r) == [team |-> r.team, period |-> r.period,
             slot |-> [start |-> IntervalStart(r), stoppage |-> IsStoppageTime(r)]]

IntervalFacts(rows, k) ==
    LET in == {i \in InPlay(rows) : KeyOf(rows[i]) = k}
        moves == {i \in in : rows[i].move}
        shots == {i \in in : rows[i].type = "Shot"}
        gains == {i \in moves : rows[i].xt_added # Null /\ rows[i].xt_added > 0}
        losses == {i \in moves : rows[i].xt_added # Null /\ rows[i].xt_added < 0}
    IN  [positive_xt |-> SumOf(rows, "xt_added", gains),
         negative_xt |-> SumOf(rows, "xt_added", losses),
         net_xt |-> SumOf(rows, "xt_added", moves),
         successful_moves |-> Cardinality(moves),
         shots |-> Cardinality(shots),
         xg |-> SumOf(rows, "xt_added", shots)]

FactGoldIntervals(rows) == [k \in Spine(rows) |-> IntervalFacts(rows, k)]

\* Slip: the second half is labelled like the first.
LabelOfHalf(k) == IF k.slot.stoppage THEN <<90>> ELSE <<k.slot.start, k.slot.start + 5>>

\* interval_label: <<0, 5>> stands for 0-5, <<45>> for 45+.
IntervalLabel(k) ==
    LET from == IF k.period = 1 THEN k.slot.start ELSE 45 + k.slot.start
    IN  IF k.slot.stoppage THEN <<from>> ELSE <<from, from + 5>>

-----------------------------------------------------------------------------
(* The dbt tests of the facts *)

\* assert_gold_team_invariants
TeamInvariants(facts) ==
    \A t \in DOMAIN facts :
        /\ facts[t].goals <= facts[t].shots
        /\ facts[t].completed_passes <= facts[t].attempted_passes
        /\ facts[t].progressive_passes <= facts[t].completed_passes

\* assert_gold_intervals_boundries, assert_gold_intervals_net_xt
IntervalInvariants(facts) ==
    \A k \in DOMAIN facts :
        /\ k.slot.start % 5 = 0
        /\ facts[k].positive_xt + facts[k].negative_xt = facts[k].net_xt

\* assert_gold_intervals_number_of_rows_per_match
RowCount(facts) == Cardinality(DOMAIN facts) = 40

-----------------------------------------------------------------------------
(* The reports *)

\* Slip: the sum runs over the shots of both teams.
CumulativeOfMatch(rows, t, i) ==
    SumOf(rows, "shot_xg", {j \in DOMAIN rows : /\ rows[j].type = "Shot"
                                                /\ rows[j].index <= rows[i].index})

\* prepare_xg_timeline: groupby(team).cumsum() in the order of event_index.
CumulativeXg(rows, t, i) ==
    SumOf(rows, "shot_xg", {j \in Shots(rows, t) : rows[j].index <= rows[i].index})

\* Where the line of team t ends.
TimelineEnd(rows, t) ==
    CumulativeXg(rows, t, CHOOSE i \in Shots(rows, t) :
                             \A j \in Shots(rows, t) : rows[j].index <= rows[i].index)

\* INTERVAL_ORDER of xt_momentum.py
IntervalOrder ==
    [i \in 1..20 |-> CASE i < 10 -> <<5 * (i - 1), 5 * i>>
                       [] i = 10 -> <<45>>
                       [] i > 10 /\ i < 20 -> <<5 * (i - 2), 5 * (i - 1)>>
                       [] i = 20 -> <<90>>]

\* generate_xt_momentum: every label is known, and every team has a row of
\* each; two rows of one label would make reindex raise.
MomentumDrawn(facts) ==
    LET order == {IntervalOrder[i] : i \in DOMAIN IntervalOrder} IN
    \A t \in {k.team : k \in DOMAIN facts} :
        LET keys == {k \in DOMAIN facts : k.team = t} IN
        /\ {IntervalLabel(k) : k \in keys} = order
        /\ Cardinality(keys) = Cardinality(order)

-----------------------------------------------------------------------------
(* Properties *)

Rows == SilverRows(payload)

\* Both teams have events in the two halves.
TwoTeams == Cardinality({Rows[i].team : i \in InPlay(Rows)}) = 2

\* Both coordinates of a location are there.
Placed(loc) == Len(loc) >= 2

\* A carry or a completed pass.
IsMove(e) == e.type = "Carry" \/ (e.type = "Pass" /\ e.outcome = Null)

\* Nothing is wrong with an event of its own.
Sound(e) ==
    /\ Null \notin {e.id, e.type, e.team}
    /\ Len(e.loc) >= 1 => e.loc[1] \in 0..120
    /\ Len(e.loc) >= 2 => e.loc[2] \in 0..80
    /\ e.type = "Shot" /\ e.xg # Null => 0 <= e.xg /\ e.xg <= XgOne
    /\ IsMove(e) => Placed(e.loc) /\ Placed(e.end)

\* It comes nearer to the goal or not: it has two ends and does not start there.
Advances(e) ==
    /\ e.type \in {"Pass", "Carry", "Shot"}
    /\ Placed(e.loc) /\ Placed(e.end)
    /\ <<e.loc[1], e.loc[2]>> # <<120, 40>>

\* Every optional column of Silver has a number from some event.
Complete(p) ==
    /\ \E i \in DOMAIN p : IsMove(p[i])
    /\ \E i \in DOMAIN p : p[i].type = "Shot" /\ p[i].xg # Null
    /\ \E i \in DOMAIN p : Advances(p[i])

\* Silver rejects a match for a cause in the provider's events and for no
\* other: an event that is wrong, an id that comes twice, or a match in which
\* a whole column has nothing.  That an incomplete match is rejected is what
\* the whole-column check of the types makes of it; a single event without
\* location, end or xG must not reject a match.
RejectedForCause ==
    Accepted(payload) <=>
        /\ \A i \in DOMAIN payload : Sound(payload[i])
        /\ \A i, j \in DOMAIN payload : payload[i].id = payload[j].id => i = j
        /\ Complete(payload)

\* The cells a raw coordinate lies in: n cells, size yards together.  On a
\* line between two cells it is in the cell behind it; on or beyond the edge
\* of the pitch in the border cell.
CellsAt(raw, n, size) ==
    {c \in 0..n - 1 : /\ c = 0 \/ c * size <= raw * n
                      /\ c = n - 1 \/ raw * n < (c + 1) * size}

\* The values of the grid in the cells of a point.
ValuesAt(point) == {Grid[r][c] : r \in CellsAt(point[2], GridRows, 80),
                                 c \in CellsAt(point[1], Columns, 120)}

\* The xT of a move is that of the cells its ends lie in, and of no other.
XtOfContainingCell ==
    \A i \in DOMAIN payload :
        (Rows[i].move /\ Rows[i].xt_added # Null) =>
            /\ {Rows[i].xt_start} = ValuesAt(payload[i].loc)
            /\ {Rows[i].xt_end} = ValuesAt(payload[i].end)
            /\ Rows[i].xt_added = Rows[i].xt_end - Rows[i].xt_start

\* Column f of a table of facts, summed over the rows of K.
Total(facts, f, K) == LET of(k) == facts[k][f] IN MapThenSumSet(of, K)

\* The intervals split the two halves: each event of a team in play falls
\* into one row of the table, and over all rows of the team moves, shots and
\* threat add up to those of its Silver rows in the two periods - whichever
\* minute at 45, at 90 or in stoppage time it is.
IntervalsPartition ==
    LET facts == FactGoldIntervals(Rows) IN
    \A t \in TeamIds(Rows) :
        LET mine == {i \in InPlay(Rows) : Rows[i].team = t}
            keys == {k \in DOMAIN facts : k.team = t}
        IN  /\ \A i \in mine : KeyOf(Rows[i]) \in keys
            /\ Total(facts, "shots", keys) = Cardinality({i \in mine : Rows[i].type = "Shot"})
            /\ Total(facts, "successful_moves", keys) = Cardinality({i \in mine : Rows[i].move})
            /\ Total(facts, "net_xt", keys) = SumOf(Rows, "xt_added", mine)

\* What Silver accepts passes the tests modelled above, those of the fact
\* tables that read one match: a match with two teams is not stopped there by
\* a number of its own.  The generic tests of schema.yml are not among them.
AcceptedPassesTests ==
    Accepted(payload) =>
        /\ TeamInvariants(FactGoldTeam(Rows))
        /\ IntervalInvariants(FactGoldIntervals(Rows))
        /\ TwoTeams => RowCount(FactGoldIntervals(Rows))

\* Report and table agree: the xG timeline of a team, drawn from the events,
\* ends at the xG of fact_gold_team, which the match summary shows.
\* (A team is its id here; that the report groups by name is not in reach.)
TimelineEndsAtXg ==
    \A t \in TeamIds(Rows) :
        FactGoldTeam(Rows)[t].xg # Null =>
            TimelineEnd(Rows, t) = FactGoldTeam(Rows)[t].xg

\* The labels dbt makes are those the momentum report knows, each once per
\* team: an accepted match with two teams does not fail to be drawn.
MomentumKnowsLabels ==
    Accepted(payload) => MomentumDrawn(FactGoldIntervals(Rows))

\* "Percentage of passes completed by the team."
CompletionIsPercentage ==
    \A t \in TeamIds(Rows) :
        LET f == FactGoldTeam(Rows)[t] IN
        f.attempted_passes > 0 =>
            f.pass_completion_pct = (100 * f.completed_passes) \div f.attempted_passes
=============================================================================
