---------------------------- MODULE SilverEvents ----------------------------
(***************************************************************************)
(* From the provider's events to Silver (src/transforms/bronze.py and      *)
(* silver.py, src/metrics/expected_threat.py, src/contracts/silver.py):    *)
(* the row of one event, and whether the rows of a match are accepted.     *)
(*                                                                         *)
(* A payload is a sequence of events.  Bronze keeps every event and all of *)
(* its payload, so the Silver row is a function of the event.  Raw         *)
(* coordinates are whole yards of a pitch of 120 by 80; lengths in metres  *)
(* are kept exact as multiples of 1/8 (x) and 1/20 (y) of a metre.         *)
(***************************************************************************)
EXTENDS Integers, Sequences, FiniteSets, FiniteSetsExt

CONSTANTS
    Team,       \* team ids
    Grid,       \* Grid[row][col]: the xT model, rows and columns from 0
    XgOne,      \* the number that stands for an xG of 1.0
    Null        \* None, NaN or NULL

Columns == 12
GridRows == 8

ASSUME GridAssumption == Grid \in [0..GridRows - 1 -> [0..Columns - 1 -> Int]]

\* Null is none of the values it stands beside.
ASSUME NullAssumption ==
    Null \notin Int /\ Null \notin Team /\ Null \notin [from : Int, to : Int]

Type == {"Pass", "Carry", "Shot", "Other"}

\* What the code reads of an event.
RawEvent == [id      : Int \cup {Null},
             index   : Int,
             period  : 1..5,
             minute  : Nat,
             type    : Type \cup {Null},
             team    : Team \cup {Null},
             outcome : {Null, "Goal", "Incomplete", "Saved"},
             xg      : Int \cup {Null},
             loc     : Seq(Int),        \* location, <<>> if there is none
             end     : Seq(Int)]        \* end_location of its pass, carry or shot

-----------------------------------------------------------------------------
(* One event *)

\* location_value: the first, the second element, if the list is long enough.
LocationValue(loc, i) == IF Len(loc) < i THEN Null ELSE loc[i]

\* value / 120 * 105, in eighths of a metre.
NormalizeX(x) == IF x = Null THEN Null ELSE 7 * x

\* value / 80 * 68, in twentieths of a metre.
NormalizeY(y) == IF y = Null THEN Null ELSE 17 * y

TargetLength == 8 * 105
TargetWidth == 20 * 68

\* get_end_location: of passes, carries and shots, with both coordinates.
EndLocation(e) ==
    IF e.type \in {"Pass", "Carry", "Shot"} /\ Len(e.end) >= 2 THEN e.end ELSE <<>>

IsCompletedPass(e) == e.type = "Pass" /\ e.outcome = Null

\* The square of distance_to_goal, in 1/40 of a metre.
GoalDistance(x, y) ==
    LET dx == 5 * (TargetLength - x)
        dy == 2 * (TargetWidth \div 2 - y)
    IN  dx * dx + dy * dy

\* calculate_progression: the squared distances before and after, unless a
\* coordinate is missing or the event starts on the goal.
Progression(sx, sy, ex, ey) ==
    IF Null \in {sx, sy, ex, ey} \/ GoalDistance(sx, sy) = 0
    THEN Null
    ELSE [from |-> GoalDistance(sx, sy), to |-> GoalDistance(ex, ey)]

\* progress_ratio >= 0.25: three quarters of the distance or less are left.
FarEnough(p) == 16 * p.to <= 9 * p.from

\* int(): towards zero.
Truncated(n, d) == IF n < 0 THEN -((-n) \div d) ELSE n \div d

Clamped(i, n) == IF i < 0 THEN 0 ELSE IF i > n - 1 THEN n - 1 ELSE i

\* Slip: the nearest cell boundary instead of the cell.
RoundedToCell(x, y) ==
    <<Clamped((2 * x * Columns + TargetLength) \div (2 * TargetLength), Columns),
      Clamped((2 * y * GridRows + TargetWidth) \div (2 * TargetWidth), GridRows)>>

ContinuousToCell(x, y) ==
    <<Clamped(Truncated(x * Columns, TargetLength), Columns),
      Clamped(Truncated(y * GridRows, TargetWidth), GridRows)>>

XtValue(x, y) ==
    IF Null \in {x, y} THEN Null
    ELSE LET cell == ContinuousToCell(x, y) IN Grid[cell[2]][cell[1]]

\* rate_move: all three values, or none.
RateMove(sx, sy, ex, ey) ==
    LET start == XtValue(sx, sy)
        end == XtValue(ex, ey)
    IN  IF Null \in {start, end}
        THEN [xt_start |-> Null, xt_end |-> Null, xt_added |-> Null]
        ELSE [xt_start |-> start, xt_end |-> end, xt_added |-> end - start]

\* bronze_to_silver_row, of the row event_to_bronze_row makes of e.
SilverRow(e) ==
    LET sx == NormalizeX(LocationValue(e.loc, 1))
        sy == NormalizeY(LocationValue(e.loc, 2))
        ex == NormalizeX(LocationValue(EndLocation(e), 1))
        ey == NormalizeY(LocationValue(EndLocation(e), 2))
        p  == Progression(sx, sy, ex, ey)
        move == IsCompletedPass(e) \/ e.type = "Carry"
        xt == IF move THEN RateMove(sx, sy, ex, ey)
              ELSE [xt_start |-> Null, xt_end |-> Null, xt_added |-> Null]
    IN  [id |-> e.id, index |-> e.index, period |-> e.period, minute |-> e.minute,
         type |-> e.type, team |-> e.team,
         start_x |-> sx, start_y |-> sy, end_x |-> ex, end_y |-> ey,
         outcome |-> IF e.type \in {"Pass", "Shot"} THEN e.outcome ELSE Null,
         shot_xg |-> IF e.type = "Shot" THEN e.xg ELSE Null,
         completed |-> IsCompletedPass(e),
         progress |-> p,
         progressive |-> IsCompletedPass(e) /\ p # Null /\ FarEnough(p),
         move |-> move,
         xt_start |-> xt.xt_start, xt_end |-> xt.xt_end, xt_added |-> xt.xt_added]

SilverRows(payload) == [i \in DOMAIN payload |-> SilverRow(payload[i])]

-----------------------------------------------------------------------------
(* A match *)

Column(rows, f) == {rows[i][f] : i \in DOMAIN rows}

\* Slip: a column of numbers may have no missing value.
NumericIsComplete(rows) ==
    /\ \A f \in {"index", "period", "minute", "team"} : Null \notin Column(rows, f)
    /\ \A f \in {"start_x", "start_y", "end_x", "end_y"} : Null \notin Column(rows, f)
    /\ \A f \in {"shot_xg", "progress", "xt_start", "xt_end", "xt_added"} :
          Column(rows, f) # {Null}

\* validate_silver_type: one None makes an integer column one of floats, and
\* a numeric column without any number is a column of objects.
TypeContract(rows) ==
    /\ \A f \in {"index", "period", "minute", "team"} : Null \notin Column(rows, f)
    /\ \A f \in {"start_x", "start_y", "end_x", "end_y", "shot_xg", "progress",
                 "xt_start", "xt_end", "xt_added"} : Column(rows, f) # {Null}

\* reconcile_bronze_to_silver
Reconciled(payload, rows) ==
    /\ Len(rows) = Len(payload)
    /\ Column(rows, "id") = Column(payload, "id")

\* Missing and duplicate event ids.
IdsValid(rows) ==
    /\ Null \notin Column(rows, "id")
    /\ \A i, j \in DOMAIN rows : i # j => rows[i].id # rows[j].id

Between(v, lo, hi) == v = Null \/ (lo <= v /\ v <= hi)

\* run_silver_dq_checks
DqChecks(rows) ==
    /\ IdsValid(rows)
    /\ \A i \in DOMAIN rows :
        LET r == rows[i] IN
        /\ r.type # Null
        /\ Between(r.start_x, 0, TargetLength)
        /\ Between(r.start_y, 0, TargetWidth)
        /\ Between(r.shot_xg, 0, XgOne)
        /\ r.completed => r.type = "Pass"
        /\ r.progressive => r.completed /\ FarEnough(r.progress)
        /\ r.move => Null \notin {r.xt_start, r.xt_end, r.xt_added}

\* bronze_to_silver returns; on no events it fails for want of columns.
Accepted(payload) ==
    /\ payload # <<>>
    /\ TypeContract(SilverRows(payload))
    /\ Reconciled(payload, SilverRows(payload))
    /\ DqChecks(SilverRows(payload))
=============================================================================
