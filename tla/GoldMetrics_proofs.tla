------------------------- MODULE GoldMetrics_proofs -------------------------
(***************************************************************************)
(* Proofs about GoldMetrics, for any payload, teams and xT grid: what      *)
(* Silver rejects, and that what it accepts passes the tests; the threat   *)
(* of a move is that of the cells of the pitch it leads from and to;       *)
(* intervals add up to halves, and the reports to the tables.              *)
(***************************************************************************)
EXTENDS GoldMetrics, SumLaws

\* The events of a payload, numbered as they come; the clock of the second
\* half starts at 45.
PayloadInv ==
    /\ payload \in Seq(RawEvent)
    /\ \A i \in DOMAIN payload : /\ payload[i].index = i
                                 /\ payload[i].period = 2 => payload[i].minute >= 45

\* The empty payload is one.
LEMMA PayloadInit == Init => PayloadInv
  BY DEF Init, PayloadInv

\* An event with its number is an event.
LEMMA Numbered ==
    ASSUME NEW e \in RawEvent, NEW id \in Int \cup {Null}, NEW n \in Int
    PROVE  LET x == [e EXCEPT !.id = id, !.index = n] IN
           x \in RawEvent /\ x.index = n /\ x.period = e.period /\ x.minute = e.minute
  BY DEF RawEvent

\* An event that is appended gets the next number.
LEMMA PayloadStep == PayloadInv /\ [Next]_payload => PayloadInv'
  <1> SUFFICES ASSUME PayloadInv, [Next]_payload PROVE PayloadInv'
    OBVIOUS
  <1>1. CASE UNCHANGED payload
    BY <1>1 DEF PayloadInv
  <1>2. CASE Next
    <2>1. PICK e \in Event, id \in {Len(payload) + 1, 1, Null} :
             payload' = Append(payload, [e EXCEPT !.id = id, !.index = Len(payload) + 1])
      BY <1>2 DEF Next
    <2> DEFINE x == [e EXCEPT !.id = id, !.index = Len(payload) + 1]
    <2>2. e \in RawEvent /\ (e.period = 2 => e.minute >= 45)
      BY EventAssumption
    <2>3. Len(payload) \in Nat
      BY DEF PayloadInv
    <2>4. /\ x \in RawEvent /\ x.index = Len(payload) + 1
          /\ x.period = 2 => x.minute >= 45
      <3>1. PICK n \in Int : n = Len(payload) + 1
        BY <2>3
      <3>2. id \in Int \cup {Null} /\ e \in RawEvent
        BY <2>2, <3>1
      <3>3. x = [e EXCEPT !.id = id, !.index = n]
        BY <3>1
      <3> HIDE DEF x
      <3>4. x \in RawEvent /\ x.index = n /\ x.period = e.period /\ x.minute = e.minute
        BY ONLY <3>2, <3>3, Numbered
      <3> QED
        BY <2>2, <3>1, <3>4
    <2>5. payload' = Append(payload, x)
      BY <2>1
    <2> HIDE DEF x
    <2> QED
      BY <2>4, <2>5 DEF PayloadInv
  <1> QED
    BY <1>1, <1>2

\* Every reachable payload is one.
LEMMA PayloadInvariant == Spec => []PayloadInv
  BY PayloadInit, PayloadStep, PTL DEF Spec

-----------------------------------------------------------------------------
(* Rows *)

\* Rows are numbered like events, and each is made of its event.
LEMMA RowsOfPayload ==
    ASSUME PayloadInv
    PROVE  /\ Len(payload) \in Nat /\ DOMAIN payload = 1..Len(payload)
           /\ DOMAIN Rows = 1..Len(payload)
           /\ \A i \in 1..Len(payload) :
                 payload[i] \in RawEvent /\ Rows[i] = SilverRow(payload[i])
  BY DEF PayloadInv, Rows, SilverRows

\* What a row takes over from its event.
LEMMA RowFields ==
    ASSUME NEW e \in RawEvent
    PROVE  LET r == SilverRow(e) IN
           /\ r.id = e.id /\ r.index = e.index /\ r.period = e.period
           /\ r.minute = e.minute /\ r.type = e.type /\ r.team = e.team
           /\ r.shot_xg \in Int \cup {Null}
           /\ r.completed = IsCompletedPass(e)
           /\ r.move = (IsCompletedPass(e) \/ e.type = "Carry")
  BY DEF SilverRow, RawEvent

-----------------------------------------------------------------------------
(* Sums over rows *)

\* The value of column f in row i, 0 for NULL.
Value(rows, f, i) == IF rows[i][f] = Null THEN 0 ELSE rows[i][f]

\* SumOf is a sum in the sense of SumLaws.
LEMMA SumOfSums ==
    ASSUME NEW rows, NEW f, NEW D, IsFiniteSet(D), \A i \in D : Value(rows, f, i) \in Int,
           NEW g, Sums(g, [i \in D |-> Value(rows, f, i)], D),
           NEW S \in SUBSET D
    PROVE  SumOf(rows, f, S) = g[S]
  <1> DEFINE v == [i \in S |-> Value(rows, f, i)]
             Step(h) == [s \in SUBSET S |->
                           IF s = {} THEN 0
                           ELSE Value(rows, f, CHOOSE x \in s : TRUE) + h[s \ {CHOOSE x \in s : TRUE}]]
             H == CHOOSE h : h = Step(h)
  <1>1. IsFiniteSet(S) /\ v \in [S -> Int]
    BY FS_Subset
  <1>2. ASSUME NEW h PROVE Folds(h, v, S) <=> h = Step(h)
    <2>1. ASSUME NEW s \in SUBSET S, s # {} PROVE v[Chosen(s)] = Value(rows, f, CHOOSE x \in s : TRUE)
      <3>1. Chosen(s) \in S
        BY <2>1, ChosenIsIn
      <3> QED
        BY <3>1 DEF Chosen
    <2> QED
      BY <2>1 DEF Folds, Chosen
  <1>3. \E h : Folds(h, v, S)
    <2> HIDE DEF v
    <2> QED
      BY <1>1, FoldExists
  <1>4. H = Step(H)
    <2> HIDE DEF Step, v
    <2>1. PICK h : Folds(h, v, S)
      BY <1>3
    <2>2. h = Step(h)
      BY <1>2, <2>1
    <2> QED
      BY <2>2
  <1>5. Sums(H, v, S)
    <2> HIDE DEF v, H, Step
    <2> QED
      BY <1>1, <1>2, <1>4, FoldSums
  <1>6. SumOf(rows, f, S) = H[S]
    BY DEF SumOf, MapThenSumSet, MapThenFoldSet, Value
  <1> QED
    <2> DEFINE w == [i \in D |-> Value(rows, f, i)]
    <2>1. \A x \in S : v[x] = w[x]
      OBVIOUS
    <2>2. Sums(g, w, D)
      OBVIOUS
    <2> HIDE DEF v, w, H
    <2>3. H[S] = g[S]
      BY ONLY <1>1, <1>5, <2>1, <2>2, SumsAgree, S \in SUBSET D
    <2> QED
      BY <1>6, <2>3

\* The sums of a column of rows there are.
LEMMA ColumnSums ==
    ASSUME NEW rows, NEW f, NEW D, IsFiniteSet(D), \A i \in D : Value(rows, f, i) \in Int
    PROVE  \E g : Sums(g, [i \in D |-> Value(rows, f, i)], D)
  <1> DEFINE v == [i \in D |-> Value(rows, f, i)]
  <1>1. v \in [D -> Int]
    OBVIOUS
  <1> HIDE DEF v
  <1>2. \E g : Sums(g, v, D)
    BY <1>1, FoldExists, FoldSums
  <1> QED
    BY <1>2 DEF v

-----------------------------------------------------------------------------
(* What is accepted *)

\* No NULL in the columns the contract and the checks look at.
LEMMA AcceptedColumns ==
    ASSUME Accepted(payload), NEW i \in DOMAIN Rows
    PROVE  /\ Rows[i].id # Null /\ Rows[i].index # Null /\ Rows[i].period # Null
           /\ Rows[i].minute # Null /\ Rows[i].type # Null /\ Rows[i].team # Null
           /\ \A j \in DOMAIN Rows : i # j => Rows[i].id # Rows[j].id
  <1>1. TypeContract(Rows) /\ DqChecks(Rows) /\ IdsValid(Rows)
    BY DEF Accepted, Rows, DqChecks
  <1>2. \A f \in {"index", "period", "minute", "team", "id"} : Rows[i][f] # Null
    BY <1>1 DEF TypeContract, IdsValid, Column
  <1>3. Rows[i].type # Null
    BY <1>1 DEF DqChecks
  <1>4. \A j \in DOMAIN Rows : i # j => Rows[i].id # Rows[j].id
    BY <1>1 DEF IdsValid
  <1> QED
    BY <1>2, <1>3, <1>4

\* The distinct values of a column without duplicates are as many as the rows.
LEMMA DistinctColumn ==
    ASSUME NEW n \in Nat, NEW F, DOMAIN F = 1..n,
           \A i, j \in 1..n : F[i] = F[j] => i = j
    PROVE  Cardinality({F[i] : i \in 1..n}) = n
  <1> DEFINE T == {F[i] : i \in 1..n}
             G == [i \in 1..n |-> F[i]]
  <1>1. G \in Surjection(1..n, T) /\ G \in Injection(1..n, T)
    BY DEF Surjection, Injection, IsInjective
  <1>2. IsFiniteSet(1..n) /\ Cardinality(1..n) = n
    BY FS_Interval
  <1> HIDE DEF T, G
  <1>3. Cardinality(T) = n
    BY ONLY <1>1, <1>2, FS_Surjection
  <1> QED
    BY <1>3 DEF T

-----------------------------------------------------------------------------
(* The cells of a move *)

\* Along the pitch: scaling to metres and truncating finds the one cell.
LEMMA ColumnOfX ==
    ASSUME NEW x \in Int
    PROVE  CellsAt(x, Columns, 120) = {Clamped(Truncated((7 * x) * Columns, TargetLength), Columns)}
  <1> DEFINE q == (7 * x * 12) \div 840
             m == ((-(7 * x * 12)) \div 840)
  <1>1. q \in Int /\ 840 * q <= 84 * x /\ 84 * x < 840 * q + 840
    OBVIOUS
  <1>2. m \in Int /\ 840 * m <= -(84 * x) /\ -(84 * x) < 840 * m + 840
    OBVIOUS
  <1>3. PICK k \in 0..11 : k = Clamped(Truncated((7 * x) * Columns, TargetLength), Columns)
    BY <1>1, <1>2 DEF Clamped, Truncated, Columns, TargetLength
  <1>4. /\ k = 0 \/ k * 120 <= x * 12
        /\ k = 11 \/ x * 12 < (k + 1) * 120
    BY <1>1, <1>2, <1>3 DEF Clamped, Truncated, Columns, TargetLength
  <1>5. ASSUME NEW c \in 0..11, c = 0 \/ c * 120 <= x * 12, c = 11 \/ x * 12 < (c + 1) * 120
        PROVE  c = k
    BY ONLY <1>4, <1>5
  <1> QED
    BY <1>3, <1>4, <1>5 DEF CellsAt, Columns

\* Across the pitch.
LEMMA RowOfY ==
    ASSUME NEW y \in Int
    PROVE  CellsAt(y, GridRows, 80) = {Clamped(Truncated((17 * y) * GridRows, TargetWidth), GridRows)}
  <1> DEFINE q == (17 * y * 8) \div 1360
             m == ((-(17 * y * 8)) \div 1360)
  <1>1. q \in Int /\ 1360 * q <= 136 * y /\ 136 * y < 1360 * q + 1360
    OBVIOUS
  <1>2. m \in Int /\ 1360 * m <= -(136 * y) /\ -(136 * y) < 1360 * m + 1360
    OBVIOUS
  <1>3. PICK k \in 0..7 : k = Clamped(Truncated((17 * y) * GridRows, TargetWidth), GridRows)
    BY <1>1, <1>2 DEF Clamped, Truncated, GridRows, TargetWidth
  <1>4. /\ k = 0 \/ k * 80 <= y * 8
        /\ k = 7 \/ y * 8 < (k + 1) * 80
    BY <1>1, <1>2, <1>3 DEF Clamped, Truncated, GridRows, TargetWidth
  <1>5. ASSUME NEW c \in 0..7, c = 0 \/ c * 80 <= y * 8, c = 7 \/ y * 8 < (c + 1) * 80
        PROVE  c = k
    BY ONLY <1>4, <1>5
  <1> QED
    BY <1>3, <1>4, <1>5 DEF CellsAt, GridRows

\* XtValue is the value of the one cell of a point, if it has two coordinates.
LEMMA XtOfPoint ==
    ASSUME NEW p \in Seq(Int)
    PROVE  LET v == XtValue(NormalizeX(LocationValue(p, 1)), NormalizeY(LocationValue(p, 2))) IN
           /\ Len(p) < 2 => v = Null
           /\ Len(p) >= 2 => v \in Int /\ {v} = ValuesAt(p)
  <1> DEFINE v == XtValue(NormalizeX(LocationValue(p, 1)), NormalizeY(LocationValue(p, 2)))
  <1>1. CASE Len(p) < 2
    <2>1. LocationValue(p, 2) = Null
      BY <1>1 DEF LocationValue
    <2>2. v = Null
      BY <2>1 DEF XtValue, NormalizeY
    <2> QED
      BY <1>1, <2>2
  <1>2. CASE Len(p) >= 2
    <2>1. PICK x \in Int, y \in Int : x = p[1] /\ y = p[2]
      BY <1>2
    <2>2. NormalizeX(LocationValue(p, 1)) = 7 * x /\ NormalizeY(LocationValue(p, 2)) = 17 * y
      BY <1>2, <2>1, NullAssumption DEF NormalizeX, NormalizeY, LocationValue
    <2>3. PICK c : CellsAt(x, Columns, 120) = {c} /\ c = ContinuousToCell(7 * x, 17 * y)[1]
      BY ColumnOfX DEF ContinuousToCell
    <2>4. PICK r : CellsAt(y, GridRows, 80) = {r} /\ r = ContinuousToCell(7 * x, 17 * y)[2]
      BY RowOfY DEF ContinuousToCell
    <2>5. c \in 0..Columns - 1 /\ r \in 0..GridRows - 1
      BY <2>3, <2>4 DEF CellsAt
    <2>6. Grid[r][c] \in Int
      BY <2>5, GridAssumption
    <2>7. Null \notin {7 * x, 17 * y}
      <3>1. 7 * x \in Int /\ 17 * y \in Int
        OBVIOUS
      <3> QED
        BY ONLY <3>1, NullAssumption
    <2>8. v = Grid[r][c]
      BY <2>2, <2>3, <2>4, <2>7 DEF XtValue
    <2>9. ValuesAt(p) = {Grid[r][c]}
      BY <2>1, <2>3, <2>4 DEF ValuesAt
    <2> QED
      BY <1>2, <2>6, <2>8, <2>9
  <1> QED
    BY <1>1, <1>2

\* The threat of a row with an xt_added is that of the points of its event.
LEMMA XtOfRow ==
    ASSUME NEW e \in RawEvent, SilverRow(e).move, SilverRow(e).xt_added # Null
    PROVE  LET r == SilverRow(e) IN
           /\ {r.xt_start} = ValuesAt(e.loc)
           /\ {r.xt_end} = ValuesAt(e.end)
           /\ r.xt_start \in Int /\ r.xt_end \in Int
           /\ r.xt_added = r.xt_end - r.xt_start
  <1> DEFINE sx == NormalizeX(LocationValue(e.loc, 1))
             sy == NormalizeY(LocationValue(e.loc, 2))
             ex == NormalizeX(LocationValue(EndLocation(e), 1))
             ey == NormalizeY(LocationValue(EndLocation(e), 2))
             xt == RateMove(sx, sy, ex, ey)
             r == SilverRow(e)
  <1>1. r.xt_start = xt.xt_start /\ r.xt_end = xt.xt_end /\ r.xt_added = xt.xt_added
    <2>1. r.move = (IsCompletedPass(e) \/ e.type = "Carry")
      BY DEF SilverRow
    <2>2. IsCompletedPass(e) \/ e.type = "Carry"
      BY <2>1
    <2> QED
      BY <2>2 DEF SilverRow
  <1>2. /\ xt.xt_start = XtValue(sx, sy) /\ xt.xt_end = XtValue(ex, ey)
        /\ xt.xt_added = XtValue(ex, ey) - XtValue(sx, sy)
        /\ XtValue(sx, sy) # Null /\ XtValue(ex, ey) # Null
    BY <1>1 DEF RateMove
  <1>3. e.loc \in Seq(Int) /\ EndLocation(e) \in Seq(Int)
    BY DEF RawEvent, EndLocation
  <1> HIDE DEF sx, sy, ex, ey, xt, r
  <1>4. XtValue(sx, sy) \in Int /\ {XtValue(sx, sy)} = ValuesAt(e.loc)
    BY <1>2, <1>3, XtOfPoint DEF sx, sy
  <1>5. /\ XtValue(ex, ey) \in Int /\ {XtValue(ex, ey)} = ValuesAt(EndLocation(e))
        /\ Len(EndLocation(e)) >= 2
    BY <1>2, <1>3, XtOfPoint DEF ex, ey
  <1>6. EndLocation(e) = e.end
    BY <1>5 DEF EndLocation
  <1> QED
    BY <1>1, <1>2, <1>4, <1>5, <1>6 DEF r

\* Each rated move of a payload has the values of the cells its ends lie in.
LEMMA PayloadXt == PayloadInv => XtOfContainingCell
  <1> SUFFICES ASSUME PayloadInv, NEW i \in DOMAIN payload,
                      Rows[i].move, Rows[i].xt_added # Null
               PROVE  /\ {Rows[i].xt_start} = ValuesAt(payload[i].loc)
                      /\ {Rows[i].xt_end} = ValuesAt(payload[i].end)
                      /\ Rows[i].xt_added = Rows[i].xt_end - Rows[i].xt_start
    BY DEF XtOfContainingCell
  <1>1. payload[i] \in RawEvent /\ Rows[i] = SilverRow(payload[i])
    BY RowsOfPayload
  <1> QED
    BY <1>1, XtOfRow

\* The threat added by a move is that of the one cell it ends in less that of
\* the one it starts in, for any xT model and any coordinates - on the lines
\* between cells and beyond the pitch too (expected_threat.py).
THEOREM XtAlwaysOfContainingCell == Spec => []XtOfContainingCell
  BY PayloadInvariant, PayloadXt, PTL

-----------------------------------------------------------------------------
(* The causes of a rejection *)

\* The coordinates of a row are those of the lists, as far as they go.
LEMMA Coordinates ==
    ASSUME NEW p \in Seq(Int)
    PROVE  LET x == NormalizeX(LocationValue(p, 1))
               y == NormalizeY(LocationValue(p, 2)) IN
           /\ Len(p) \in Nat
           /\ Len(p) < 1 => x = Null
           /\ Len(p) < 2 => y = Null
           /\ Len(p) >= 1 => p[1] \in Int /\ x = 7 * p[1] /\ x # Null
           /\ Len(p) >= 2 => p[2] \in Int /\ y = 17 * p[2] /\ y # Null
  <1> DEFINE x == NormalizeX(LocationValue(p, 1))
             y == NormalizeY(LocationValue(p, 2))
  <1>1. Len(p) \in Nat
    OBVIOUS
  <1>2. (Len(p) < 1 => x = Null) /\ (Len(p) < 2 => y = Null)
    BY DEF LocationValue, NormalizeX, NormalizeY
  <1>3. ASSUME Len(p) >= 1 PROVE p[1] \in Int /\ x = 7 * p[1] /\ x # Null
    <2>1. PICK a \in Int : a = p[1]
      BY <1>3
    <2>2. a # Null /\ 7 * a \in Int /\ 7 * a # Null
      BY NullAssumption
    <2>3. LocationValue(p, 1) = a
      BY <1>1, <1>3, <2>1 DEF LocationValue
    <2> QED
      BY <2>1, <2>2, <2>3 DEF NormalizeX
  <1>4. ASSUME Len(p) >= 2 PROVE p[2] \in Int /\ y = 17 * p[2] /\ y # Null
    <2>1. PICK a \in Int : a = p[2]
      BY <1>4
    <2>2. a # Null /\ 17 * a \in Int /\ 17 * a # Null
      BY NullAssumption
    <2>3. LocationValue(p, 2) = a
      BY <1>1, <1>4, <2>1 DEF LocationValue
    <2> QED
      BY <2>1, <2>2, <2>3 DEF NormalizeY
  <1> QED
    BY <1>1, <1>2, <1>3, <1>4

\* The distance is 0 in the middle of the goal and nowhere else.
LEMMA OnlyGoalIsGoal ==
    ASSUME NEW a \in Int, NEW b \in Int
    PROVE  /\ GoalDistance(7 * a, 17 * b) \in Int
           /\ GoalDistance(7 * a, 17 * b) = 0 <=> a = 120 /\ b = 40
  <1> DEFINE dx == 5 * (840 - 7 * a)
             dy == 2 * (680 - 17 * b)
  <1>1. GoalDistance(7 * a, 17 * b) = dx * dx + dy * dy
    BY DEF GoalDistance, TargetLength, TargetWidth
  <1>2. ASSUME NEW u \in Int PROVE u * u \in Int /\ u * u >= 0 /\ (u * u = 0 <=> u = 0)
    BY <1>2
  <1>3. dx \in Int /\ dy \in Int /\ (dx = 0 <=> a = 120) /\ (dy = 0 <=> b = 40)
    OBVIOUS
  <1> HIDE DEF dx, dy
  <1>4. PICK m \in Int, n \in Int : m = dx * dx /\ n = dy * dy
    BY <1>2, <1>3
  <1>5. m >= 0 /\ n >= 0 /\ (m = 0 <=> a = 120) /\ (n = 0 <=> b = 40)
    BY <1>2, <1>3, <1>4
  <1>6. GoalDistance(7 * a, 17 * b) = m + n
    BY <1>1, <1>4
  <1> QED
    BY <1>5, <1>6

\* A row has a progress if its event has two ends and is not on the goal.
LEMMA ProgressOfRow ==
    ASSUME NEW e \in RawEvent
    PROVE  SilverRow(e).progress # Null <=> Advances(e)
  <1> DEFINE sx == NormalizeX(LocationValue(e.loc, 1))
             sy == NormalizeY(LocationValue(e.loc, 2))
             ex == NormalizeX(LocationValue(EndLocation(e), 1))
             ey == NormalizeY(LocationValue(EndLocation(e), 2))
  <1>1. SilverRow(e).progress = Progression(sx, sy, ex, ey)
    BY DEF SilverRow
  <1>2. e.loc \in Seq(Int) /\ e.end \in Seq(Int) /\ EndLocation(e) \in Seq(Int)
    BY DEF RawEvent, EndLocation
  <1>3. Null \notin {sx, sy} <=> Placed(e.loc)
    BY <1>2, Coordinates DEF Placed
  <1>4. Null \notin {ex, ey} <=> Placed(EndLocation(e))
    BY <1>2, Coordinates DEF Placed
  <1>5. Placed(EndLocation(e)) <=> e.type \in {"Pass", "Carry", "Shot"} /\ Placed(e.end)
    BY <1>2 DEF EndLocation, Placed
  <1>6. CASE Placed(e.loc) /\ Placed(EndLocation(e))
    <2>a. e.loc[1] \in Int /\ e.loc[2] \in Int /\ sx = 7 * e.loc[1] /\ sy = 17 * e.loc[2]
      BY <1>2, <1>6, Coordinates DEF Placed
    <2>b. /\ EndLocation(e)[1] \in Int /\ EndLocation(e)[2] \in Int
          /\ ex = 7 * EndLocation(e)[1] /\ ey = 17 * EndLocation(e)[2]
      BY <1>2, <1>6, Coordinates DEF Placed
    <2> HIDE DEF sx, sy, ex, ey
    <2>1. PICK a \in Int, b \in Int, c \in Int, d \in Int :
             /\ a = e.loc[1] /\ b = e.loc[2]
             /\ sx = 7 * a /\ sy = 17 * b /\ ex = 7 * c /\ ey = 17 * d
      BY <2>a, <2>b
    <2>2. GoalDistance(sx, sy) \in Int /\ GoalDistance(ex, ey) \in Int
      BY <2>1, OnlyGoalIsGoal
    <2>3. [from |-> GoalDistance(sx, sy), to |-> GoalDistance(ex, ey)] # Null
      BY <2>2, NullAssumption
    <2>4. Progression(sx, sy, ex, ey) # Null <=> GoalDistance(sx, sy) # 0
      BY <1>3, <1>4, <1>6, <2>3 DEF Progression
    <2>5. GoalDistance(sx, sy) # 0 <=> <<e.loc[1], e.loc[2]>> # <<120, 40>>
      BY <2>1, OnlyGoalIsGoal
    <2> QED
      BY <1>1, <1>5, <1>6, <2>4, <2>5 DEF Advances
  <1>7. CASE ~(Placed(e.loc) /\ Placed(EndLocation(e)))
    <2>1. Progression(sx, sy, ex, ey) = Null
      BY <1>3, <1>4, <1>7 DEF Progression
    <2> QED
      BY <1>1, <1>5, <1>7, <2>1 DEF Advances
  <1> QED
    BY <1>6, <1>7

\* A move has its xT if it has two ends; no other row has any.
LEMMA RatedMoves ==
    ASSUME NEW e \in RawEvent
    PROVE  LET r == SilverRow(e) IN
           /\ r.move = IsMove(e)
           /\ ~IsMove(e) => r.xt_start = Null
           /\ IsMove(e) => (Null \notin {r.xt_start, r.xt_end, r.xt_added}
                              <=> Placed(e.loc) /\ Placed(e.end))
  <1> DEFINE vs == XtValue(NormalizeX(LocationValue(e.loc, 1)), NormalizeY(LocationValue(e.loc, 2)))
             ve == XtValue(NormalizeX(LocationValue(EndLocation(e), 1)),
                           NormalizeY(LocationValue(EndLocation(e), 2)))
             r == SilverRow(e)
  <1>1. r.move = IsMove(e) /\ (~IsMove(e) => r.xt_start = Null)
    BY DEF SilverRow, IsMove, IsCompletedPass
  <1>2. ASSUME IsMove(e)
        PROVE  Null \notin {r.xt_start, r.xt_end, r.xt_added} <=> Placed(e.loc) /\ Placed(e.end)
    <2>1. e.loc \in Seq(Int) /\ e.end \in Seq(Int) /\ EndLocation(e) \in Seq(Int)
      BY DEF RawEvent, EndLocation
    <2>2. Placed(EndLocation(e)) <=> Placed(e.end)
      BY <1>2 DEF EndLocation, Placed, IsMove
    <2>3. /\ Placed(e.loc) => vs \in Int
          /\ ~Placed(e.loc) => vs = Null
      BY <2>1, XtOfPoint DEF Placed
    <2>4. /\ Placed(e.end) => ve \in Int
          /\ ~Placed(e.end) => ve = Null
      BY <2>1, <2>2, XtOfPoint DEF Placed
    <2>5. /\ r.xt_start = IF Null \in {vs, ve} THEN Null ELSE vs
          /\ r.xt_end = IF Null \in {vs, ve} THEN Null ELSE ve
          /\ r.xt_added = IF Null \in {vs, ve} THEN Null ELSE ve - vs
      BY <1>2 DEF SilverRow, IsMove, IsCompletedPass, RateMove
    <2> HIDE DEF vs, ve, r
    <2>6. CASE Placed(e.loc) /\ Placed(e.end)
      <3>1. vs \in Int /\ ve \in Int /\ ve - vs \in Int
        BY <2>3, <2>4, <2>6
      <3>2. vs # Null /\ ve # Null /\ ve - vs # Null
        BY <3>1, NullAssumption
      <3> QED
        BY <2>5, <2>6, <3>2
    <2>7. CASE ~(Placed(e.loc) /\ Placed(e.end))
      BY <2>3, <2>4, <2>5, <2>7
    <2> QED
      BY <2>6, <2>7
  <1> QED
    BY <1>1, <1>2

\* A column has a number if a row has one.
LEMMA ColumnHasNumber ==
    ASSUME PayloadInv, payload # <<>>, NEW f
    PROVE  Column(Rows, f) # {Null} <=> \E i \in DOMAIN payload : Rows[i][f] # Null
  <1>1. DOMAIN Rows = DOMAIN payload /\ DOMAIN payload # {}
    BY RowsOfPayload DEF PayloadInv
  <1> QED
    BY <1>1 DEF Column

\* What an accepted payload has: every event is sound, no id comes twice, and
\* no column is empty.
LEMMA AcceptedHasNoCause ==
    ASSUME PayloadInv, Accepted(payload)
    PROVE  /\ \A i \in DOMAIN payload : Sound(payload[i])
           /\ \A i, j \in DOMAIN payload : payload[i].id = payload[j].id => i = j
           /\ Complete(payload)
  <1>1. payload # <<>> /\ TypeContract(Rows) /\ DqChecks(Rows)
    BY DEF Accepted, Rows
  <1>2. /\ DOMAIN Rows = DOMAIN payload
        /\ \A i \in DOMAIN payload : payload[i] \in RawEvent /\ Rows[i] = SilverRow(payload[i])
    BY RowsOfPayload
  <1>3. ASSUME NEW i \in DOMAIN payload PROVE Sound(payload[i])
    <2>1. PICK e \in RawEvent : e = payload[i] /\ Rows[i] = SilverRow(e)
      BY <1>2
    <2>2. Null \notin {e.id, e.type, e.team}
      BY <1>2, <2>1, AcceptedColumns, RowFields
    <2>3. /\ Between(Rows[i].start_x, 0, TargetLength)
          /\ Between(Rows[i].start_y, 0, TargetWidth)
          /\ Between(Rows[i].shot_xg, 0, XgOne)
          /\ Rows[i].move => Null \notin {Rows[i].xt_start, Rows[i].xt_end, Rows[i].xt_added}
      BY <1>1, <1>2 DEF DqChecks
    <2>4. e.loc \in Seq(Int) /\ e.xg \in Int \cup {Null}
      BY DEF RawEvent
    <2>5. /\ Rows[i].start_x = NormalizeX(LocationValue(e.loc, 1))
          /\ Rows[i].start_y = NormalizeY(LocationValue(e.loc, 2))
          /\ e.type = "Shot" => Rows[i].shot_xg = e.xg
      BY <2>1 DEF SilverRow
    <2>6. Len(e.loc) >= 1 => e.loc[1] \in 0..120
      <3> SUFFICES ASSUME Len(e.loc) >= 1 PROVE e.loc[1] \in 0..120
        OBVIOUS
      <3>1. PICK a \in Int : a = e.loc[1] /\ Rows[i].start_x = 7 * a /\ Rows[i].start_x # Null
        BY <2>4, <2>5, Coordinates
      <3>2. 0 <= 7 * a /\ 7 * a <= 840
        BY <2>3, <3>1 DEF Between, TargetLength
      <3>3. a \in 0..120
        BY ONLY <3>2, a \in Int
      <3> QED
        BY ONLY <3>1, <3>3
    <2>7. Len(e.loc) >= 2 => e.loc[2] \in 0..80
      <3> SUFFICES ASSUME Len(e.loc) >= 2 PROVE e.loc[2] \in 0..80
        OBVIOUS
      <3>1. PICK a \in Int : a = e.loc[2] /\ Rows[i].start_y = 17 * a /\ Rows[i].start_y # Null
        BY <2>4, <2>5, Coordinates
      <3>2. 0 <= 17 * a /\ 17 * a <= 1360
        BY <2>3, <3>1 DEF Between, TargetWidth
      <3>3. a \in 0..80
        BY ONLY <3>2, a \in Int
      <3> QED
        BY ONLY <3>1, <3>3
    <2>8. e.type = "Shot" /\ e.xg # Null => 0 <= e.xg /\ e.xg <= XgOne
      BY <2>3, <2>5 DEF Between
    <2>9. IsMove(e) => Placed(e.loc) /\ Placed(e.end)
      BY <2>1, <2>3, RatedMoves
    <2> QED
      BY <2>1, <2>2, <2>6, <2>7, <2>8, <2>9 DEF Sound
  <1>4. ASSUME NEW i \in DOMAIN payload, NEW j \in DOMAIN payload, payload[i].id = payload[j].id
        PROVE  i = j
    <2>1. Rows[i].id = payload[i].id /\ Rows[j].id = payload[j].id
      BY <1>2, RowFields
    <2> QED
      BY <1>2, <1>4, <2>1, AcceptedColumns
  <1>5. \A f \in {"xt_start", "shot_xg", "progress"} : \E i \in DOMAIN payload : Rows[i][f] # Null
    BY <1>1, ColumnHasNumber DEF TypeContract
  <1>6. \E i \in DOMAIN payload : IsMove(payload[i])
    <2>1. PICK i \in DOMAIN payload : Rows[i].xt_start # Null
      BY <1>5
    <2> QED
      BY <1>2, <2>1, RatedMoves
  <1>7. \E i \in DOMAIN payload : payload[i].type = "Shot" /\ payload[i].xg # Null
    <2>1. PICK i \in DOMAIN payload : Rows[i].shot_xg # Null
      BY <1>5
    <2>2. PICK e \in RawEvent : e = payload[i] /\ Rows[i] = SilverRow(e)
      BY <1>2
    <2>3. Rows[i].shot_xg = IF e.type = "Shot" THEN e.xg ELSE Null
      BY <2>2 DEF SilverRow
    <2> QED
      BY <2>1, <2>2, <2>3
  <1>8. \E i \in DOMAIN payload : Advances(payload[i])
    <2>1. PICK i \in DOMAIN payload : Rows[i].progress # Null
      BY <1>5
    <2> QED
      BY <1>2, <2>1, ProgressOfRow
  <1> QED
    BY <1>3, <1>4, <1>6, <1>7, <1>8 DEF Complete

\* What passes the checks of the rows: a payload of sound events.
LEMMA SoundRowsPass ==
    ASSUME PayloadInv, \A i \in DOMAIN payload : Sound(payload[i]),
           \A i, j \in DOMAIN payload : payload[i].id = payload[j].id => i = j
    PROVE  DqChecks(Rows)
  <1>1. /\ DOMAIN Rows = DOMAIN payload
        /\ \A i \in DOMAIN payload : payload[i] \in RawEvent /\ Rows[i] = SilverRow(payload[i])
    BY RowsOfPayload
  <1>2. \A i \in DOMAIN payload : Rows[i].id = payload[i].id /\ payload[i].id # Null
    BY <1>1, RowFields DEF Sound
  <1>3. IdsValid(Rows)
    BY <1>1, <1>2 DEF IdsValid, Column
  <1>4. ASSUME NEW i \in DOMAIN payload
        PROVE  LET r == Rows[i] IN
               /\ r.type # Null
               /\ Between(r.start_x, 0, TargetLength)
               /\ Between(r.start_y, 0, TargetWidth)
               /\ Between(r.shot_xg, 0, XgOne)
               /\ r.completed => r.type = "Pass"
               /\ r.progressive => r.completed /\ FarEnough(r.progress)
               /\ r.move => Null \notin {r.xt_start, r.xt_end, r.xt_added}
    <2>1. PICK e \in RawEvent : e = payload[i] /\ Rows[i] = SilverRow(e) /\ Sound(e)
      BY <1>1
    <2>2. e.loc \in Seq(Int)
      BY DEF RawEvent
    <2>3. /\ Rows[i].start_x = NormalizeX(LocationValue(e.loc, 1))
          /\ Rows[i].start_y = NormalizeY(LocationValue(e.loc, 2))
          /\ Rows[i].shot_xg = IF e.type = "Shot" THEN e.xg ELSE Null
          /\ Rows[i].type = e.type /\ Rows[i].completed = IsCompletedPass(e)
      BY <2>1 DEF SilverRow
    <2>4. Between(Rows[i].start_x, 0, TargetLength)
      <3>1. CASE Len(e.loc) < 1
        BY <2>2, <2>3, <3>1, Coordinates DEF Between
      <3>2. CASE Len(e.loc) >= 1
        <4>1. PICK a \in Int : a = e.loc[1] /\ Rows[i].start_x = 7 * a
          BY <2>2, <2>3, <3>2, Coordinates
        <4>2. a \in 0..120
          BY <2>1, <3>2, <4>1 DEF Sound
        <4>3. 0 <= 7 * a /\ 7 * a <= 840
          BY <4>2
        <4> QED
          BY <4>1, <4>3 DEF Between, TargetLength
      <3> QED
        BY <2>2, <3>1, <3>2
    <2>5. Between(Rows[i].start_y, 0, TargetWidth)
      <3>1. CASE Len(e.loc) < 2
        BY <2>2, <2>3, <3>1, Coordinates DEF Between
      <3>2. CASE Len(e.loc) >= 2
        <4>1. PICK a \in Int : a = e.loc[2] /\ Rows[i].start_y = 17 * a
          BY <2>2, <2>3, <3>2, Coordinates
        <4>2. a \in 0..80
          BY <2>1, <3>2, <4>1 DEF Sound
        <4>3. 0 <= 17 * a /\ 17 * a <= 1360
          BY <4>2
        <4> QED
          BY <4>1, <4>3 DEF Between, TargetWidth
      <3> QED
        BY <2>2, <3>1, <3>2
    <2>6. Between(Rows[i].shot_xg, 0, XgOne)
      BY <2>1, <2>3 DEF Between, Sound
    <2>7. Rows[i].type # Null /\ (Rows[i].completed => Rows[i].type = "Pass")
      BY <2>1, <2>3 DEF Sound, IsCompletedPass
    <2>8. Rows[i].progressive => Rows[i].completed /\ FarEnough(Rows[i].progress)
      <3>1. SilverRow(e).progressive =
               (IsCompletedPass(e) /\ SilverRow(e).progress # Null
                                   /\ FarEnough(SilverRow(e).progress))
        BY Zenon DEF SilverRow
      <3> QED
        BY <2>1, <2>3, <3>1
    <2>9. Rows[i].move => Null \notin {Rows[i].xt_start, Rows[i].xt_end, Rows[i].xt_added}
      BY <2>1, RatedMoves DEF Sound
    <2> QED
      BY <2>4, <2>5, <2>6, <2>7, <2>8, <2>9
  <1> QED
    BY <1>1, <1>3, <1>4 DEF DqChecks

\* A complete payload of sound events passes the type check: a move has both
\* its ends and its xT, a shot an xG, and one event a progress.
LEMMA CompletePasses ==
    ASSUME PayloadInv, \A i \in DOMAIN payload : Sound(payload[i]), Complete(payload)
    PROVE  payload # <<>> /\ TypeContract(Rows)
  <1>1. /\ DOMAIN Rows = DOMAIN payload
        /\ \A i \in DOMAIN payload : payload[i] \in RawEvent /\ Rows[i] = SilverRow(payload[i])
    BY RowsOfPayload
  <1>2. payload # <<>>
    BY DEF Complete
  <1>3. \A f \in {"index", "period", "minute", "team"} : Null \notin Column(Rows, f)
    <2>1. ASSUME NEW i \in DOMAIN payload
          PROVE  Null \notin {Rows[i].index, Rows[i].period, Rows[i].minute, Rows[i].team}
      <3>1. PICK e \in RawEvent : e = payload[i] /\ Rows[i] = SilverRow(e) /\ Sound(e)
        BY <1>1
      <3>2. e.index \in Int /\ e.period \in Int /\ e.minute \in Int /\ e.team # Null
        BY <3>1 DEF RawEvent, Sound
      <3> QED
        BY <3>1, <3>2, RowFields, NullAssumption
    <2> QED
      BY <1>1, <2>1 DEF Column
  <1>4. PICK m \in DOMAIN payload : IsMove(payload[m])
    BY DEF Complete
  <1>5. Null \notin {Rows[m].start_x, Rows[m].start_y, Rows[m].end_x, Rows[m].end_y,
                     Rows[m].xt_start, Rows[m].xt_end, Rows[m].xt_added}
    <2>1. PICK e \in RawEvent : e = payload[m] /\ Rows[m] = SilverRow(e) /\ Sound(e)
      BY <1>1
    <2>2. IsMove(e) /\ Placed(e.loc) /\ Placed(e.end)
      BY <1>4, <2>1 DEF Sound
    <2>3. Null \notin {Rows[m].xt_start, Rows[m].xt_end, Rows[m].xt_added}
      BY <2>1, <2>2, RatedMoves
    <2>4. e.loc \in Seq(Int) /\ e.end \in Seq(Int) /\ EndLocation(e) = e.end
      BY <2>2 DEF RawEvent, EndLocation, IsMove, Placed
    <2>5. /\ Rows[m].start_x = NormalizeX(LocationValue(e.loc, 1))
          /\ Rows[m].start_y = NormalizeY(LocationValue(e.loc, 2))
          /\ Rows[m].end_x = NormalizeX(LocationValue(e.end, 1))
          /\ Rows[m].end_y = NormalizeY(LocationValue(e.end, 2))
      BY <2>1, <2>4 DEF SilverRow
    <2>6. Null \notin {Rows[m].start_x, Rows[m].start_y}
      BY <2>2, <2>4, <2>5, Coordinates DEF Placed
    <2>7. Null \notin {Rows[m].end_x, Rows[m].end_y}
      BY <2>2, <2>4, <2>5, Coordinates DEF Placed
    <2> QED
      BY <2>3, <2>6, <2>7
  <1>6. \E i \in DOMAIN payload : Rows[i].shot_xg # Null
    <2>1. PICK i \in DOMAIN payload : payload[i].type = "Shot" /\ payload[i].xg # Null
      BY DEF Complete
    <2> QED
      BY <1>1, <2>1 DEF SilverRow
  <1>7. \E i \in DOMAIN payload : Rows[i].progress # Null
    <2>1. PICK i \in DOMAIN payload : Advances(payload[i])
      BY DEF Complete
    <2> QED
      BY <1>1, <2>1, ProgressOfRow
  <1>8. ASSUME NEW f \in {"start_x", "start_y", "end_x", "end_y", "shot_xg", "progress",
                          "xt_start", "xt_end", "xt_added"}
        PROVE  Column(Rows, f) # {Null}
    <2>1. \E i \in DOMAIN payload : Rows[i][f] # Null
      BY <1>5, <1>6, <1>7
    <2> QED
      BY <1>2, <2>1, ColumnHasNumber
  <1> QED
    BY <1>2, <1>3, <1>8 DEF TypeContract

\* The checks of a payload find the causes and nothing else.
LEMMA PayloadCauses == PayloadInv => RejectedForCause
  <1> SUFFICES ASSUME PayloadInv PROVE RejectedForCause
    OBVIOUS
  <1>1. ASSUME \A i \in DOMAIN payload : Sound(payload[i]), Complete(payload),
               \A i, j \in DOMAIN payload : payload[i].id = payload[j].id => i = j
        PROVE  Accepted(payload)
    <2>1. payload # <<>> /\ TypeContract(Rows) /\ DqChecks(Rows)
      BY <1>1, SoundRowsPass, CompletePasses
    <2>2. Reconciled(payload, Rows)
      <3>1. /\ Len(payload) \in Nat /\ DOMAIN payload = 1..Len(payload)
            /\ DOMAIN Rows = 1..Len(payload)
            /\ \A i \in 1..Len(payload) : Rows[i].id = payload[i].id
        BY RowsOfPayload, RowFields
      <3>2. Len(Rows) = Len(payload)
        BY <3>1 DEF Rows, SilverRows
      <3>3. Column(Rows, "id") = Column(payload, "id")
        BY <3>1 DEF Column
      <3> QED
        BY <3>2, <3>3 DEF Reconciled
    <2> QED
      BY <2>1, <2>2 DEF Accepted, Rows
  <1> QED
    BY <1>1, AcceptedHasNoCause DEF RejectedForCause

\* Whatever payload the provider sends, Silver rejects it for a wrong event, a
\* repeated id or a column with nothing in it, and for nothing else: whole
\* columns are judged, yet no event is rejected for what it may lack
\* (contracts/silver.py and run_silver_dq_checks against the events).
THEOREM RejectedAlwaysForCause == Spec => []RejectedForCause
  BY PayloadInvariant, PayloadCauses, PTL

-----------------------------------------------------------------------------
(* The rows of the interval table *)

\* The row of team t the report draws at place i.
RowAt(t, i) ==
    [team |-> t, period |-> IF i <= 10 THEN 1 ELSE 2,
     slot |-> [start |-> IF i <= 10 THEN 5 * (i - 1) ELSE 5 * (i - 11),
               stoppage |-> i = 10 \/ i = 20]]

\* Each slot has its place in the order of a half.
LEMMA SlotAt ==
    \A s : s \in Slots <=> \E k \in 0..9 : s = [start |-> 5 * k, stoppage |-> k = 9]
  <1>1. ASSUME NEW s \in Slots PROVE \E k \in 0..9 : s = [start |-> 5 * k, stoppage |-> k = 9]
    <2>1. CASE s \in {[start |-> n, stoppage |-> FALSE] : n \in {5 * k : k \in 0..8}}
      <3>1. PICK k \in 0..8 : s = [start |-> 5 * k, stoppage |-> FALSE]
        BY <2>1
      <3>2. k \in 0..9 /\ (k = 9 <=> FALSE)
        OBVIOUS
      <3> QED
        BY <3>1, <3>2
    <2>2. CASE s = [start |-> 45, stoppage |-> TRUE]
      <3>1. s = [start |-> 5 * 9, stoppage |-> 9 = 9]
        <4>1. 5 * 9 = 45 /\ (9 = 9 <=> TRUE)
          OBVIOUS
        <4> QED
          BY <2>2, <4>1
      <3> QED
        BY <3>1
    <2> QED
      BY <2>1, <2>2 DEF Slots
  <1>2. ASSUME NEW k \in 0..9 PROVE [start |-> 5 * k, stoppage |-> k = 9] \in Slots
    <2>1. CASE k = 9
      <3>1. 5 * k = 45 /\ (k = 9 <=> TRUE)
        BY <2>1
      <3> QED
        BY <3>1 DEF Slots
    <2>2. CASE k # 9
      <3>1. k \in 0..8 /\ (k = 9 <=> FALSE)
        BY <2>2
      <3> QED
        BY <3>1 DEF Slots
    <2> QED
      BY <2>1, <2>2
  <1> QED
    BY <1>1, <1>2

\* The rows of a team are the twenty places, each once.
LEMMA RowsOfTeam ==
    ASSUME NEW t \in Team
    PROVE  /\ {k \in Key : k.team = t} = {RowAt(t, i) : i \in 1..20}
           /\ \A i, j \in 1..20 : RowAt(t, i) = RowAt(t, j) => i = j
  <1>1. ASSUME NEW i \in 1..20 PROVE RowAt(t, i) \in Key /\ RowAt(t, i).team = t
    <2>1. RowAt(t, i).slot \in Slots
      <3>1. CASE i <= 10
        <4>1. RowAt(t, i).slot = [start |-> 5 * (i - 1), stoppage |-> i - 1 = 9]
          <5>1. (i = 10 \/ i = 20) <=> (i - 1 = 9)
            BY <3>1
          <5> QED
            BY <3>1, <5>1 DEF RowAt
        <4>2. i - 1 \in 0..9
          BY <3>1
        <4> QED
          BY <4>1, <4>2, SlotAt
      <3>2. CASE i > 10
        <4>1. RowAt(t, i).slot = [start |-> 5 * (i - 11), stoppage |-> i - 11 = 9]
          <5>1. (i = 10 \/ i = 20) <=> (i - 11 = 9)
            BY <3>2
          <5> QED
            BY <3>2, <5>1 DEF RowAt
        <4>2. i - 11 \in 0..9
          BY <3>2
        <4> QED
          BY <4>1, <4>2, SlotAt
      <3> QED
        BY <3>1, <3>2
    <2> QED
      BY <2>1 DEF RowAt, Key
  <1>2. ASSUME NEW k \in Key, k.team = t PROVE \E i \in 1..20 : k = RowAt(t, i)
    <2>1. PICK n \in 0..9 : k.slot = [start |-> 5 * n, stoppage |-> n = 9]
      BY SlotAt DEF Key
    <2>2. k = [team |-> t, period |-> k.period, slot |-> k.slot] /\ k.period \in {1, 2}
      BY <1>2 DEF Key
    <2>3. CASE k.period = 1
      <3>1. k = RowAt(t, n + 1) /\ n + 1 \in 1..20
        <4>1. n + 1 \in 1..20 /\ n + 1 <= 10 /\ (n + 1) - 1 = n
              /\ ((n + 1 = 10 \/ n + 1 = 20) <=> n = 9)
          OBVIOUS
        <4> QED
          BY <2>1, <2>2, <2>3, <4>1 DEF RowAt
      <3> QED
        BY <3>1
    <2>4. CASE k.period = 2
      <3>1. k = RowAt(t, n + 11) /\ n + 11 \in 1..20
        <4>1. n + 11 \in 1..20 /\ ~(n + 11 <= 10) /\ (n + 11) - 11 = n
              /\ ((n + 11 = 10 \/ n + 11 = 20) <=> n = 9)
          OBVIOUS
        <4> QED
          BY <2>1, <2>2, <2>4, <4>1 DEF RowAt
      <3> QED
        BY <3>1
    <2> QED
      BY <2>2, <2>3, <2>4
  <1>3. ASSUME NEW i \in 1..20, NEW j \in 1..20, RowAt(t, i) = RowAt(t, j) PROVE i = j
    <2>1. /\ RowAt(t, i).period = RowAt(t, j).period
          /\ RowAt(t, i).slot.start = RowAt(t, j).slot.start
      BY <1>3
    <2> QED
      BY <2>1 DEF RowAt
  <1> QED
    BY <1>1, <1>2, <1>3

\* The order of the report, place by place.
LEMMA OrderAt ==
    ASSUME NEW i \in 1..20
    PROVE  /\ i < 10 => IntervalOrder[i] = <<5 * (i - 1), 5 * i>>
           /\ i = 10 => IntervalOrder[i] = <<45>>
           /\ (i > 10 /\ i < 20) => IntervalOrder[i] = <<5 * (i - 2), 5 * (i - 1)>>
           /\ i = 20 => IntervalOrder[i] = <<90>>
  <1> DEFINE At(j) == CASE j < 10 -> <<5 * (j - 1), 5 * j>>
                        [] j = 10 -> <<45>>
                        [] j > 10 /\ j < 20 -> <<5 * (j - 2), 5 * (j - 1)>>
                        [] j = 20 -> <<90>>
  <1>1. IntervalOrder[i] = At(i)
    BY DEF IntervalOrder
  <1>2. CASE i < 10
    <2>1. ~(i = 10) /\ ~(i > 10 /\ i < 20) /\ ~(i = 20)
      BY <1>2
    <2> QED
      BY <1>1, <1>2, <2>1
  <1>3. CASE i = 10
    <2>1. ~(i < 10) /\ ~(i > 10 /\ i < 20) /\ ~(i = 20)
      BY <1>3
    <2> QED
      BY <1>1, <1>3, <2>1
  <1>4. CASE i > 10 /\ i < 20
    <2>1. ~(i < 10) /\ ~(i = 10) /\ ~(i = 20)
      BY <1>4
    <2> QED
      BY <1>1, <1>4, <2>1
  <1>5. CASE i = 20
    <2>1. ~(i < 10) /\ ~(i = 10) /\ ~(i > 10 /\ i < 20)
      BY <1>5
    <2> QED
      BY <1>1, <1>5, <2>1
  <1> QED
    BY <1>2, <1>3, <1>4, <1>5

\* The label of a row is the one the report has at its place.
LEMMA LabelAt ==
    ASSUME NEW t, NEW i \in 1..20
    PROVE  IntervalLabel(RowAt(t, i)) = IntervalOrder[i]
  <1> DEFINE k == RowAt(t, i)
             from == IF k.period = 1 THEN k.slot.start ELSE 45 + k.slot.start
  <1>1. IntervalLabel(k) = IF k.slot.stoppage THEN <<from>> ELSE <<from, from + 5>>
    BY DEF IntervalLabel
  <1>2. from = (IF i <= 10 THEN 5 * (i - 1) ELSE 5 * (i - 2))
    BY DEF RowAt
  <1>3. k.slot.stoppage <=> (i = 10 \/ i = 20)
    BY DEF RowAt
  <1> HIDE DEF k, from
  <1>4. CASE i < 10
    <2>1. from = 5 * (i - 1) /\ from + 5 = 5 * i /\ ~k.slot.stoppage
      BY <1>2, <1>3, <1>4
    <2> QED
      BY <1>1, <1>4, <2>1, OrderAt DEF k
  <1>5. CASE i = 10
    <2>1. from = 45 /\ k.slot.stoppage
      BY <1>2, <1>3, <1>5
    <2> QED
      BY <1>1, <1>5, <2>1, OrderAt DEF k
  <1>6. CASE i > 10 /\ i < 20
    <2>1. from = 5 * (i - 2) /\ from + 5 = 5 * (i - 1) /\ ~k.slot.stoppage
      BY <1>2, <1>3, <1>6
    <2> QED
      BY <1>1, <1>6, <2>1, OrderAt DEF k
  <1>7. CASE i = 20
    <2>1. from = 90 /\ k.slot.stoppage
      BY <1>2, <1>3, <1>7
    <2> QED
      BY <1>1, <1>7, <2>1, OrderAt DEF k
  <1> QED
    BY <1>4, <1>5, <1>6, <1>7

\* No label comes twice in the order of the report.
LEMMA LabelsDistinct ==
    /\ DOMAIN IntervalOrder = 1..20
    /\ \A i, j \in 1..20 : IntervalOrder[i] = IntervalOrder[j] => i = j
  <1>1. ASSUME NEW i \in 1..20
        PROVE  /\ IntervalOrder[i][1] = (IF i <= 10 THEN 5 * (i - 1) ELSE 5 * (i - 2))
               /\ Len(IntervalOrder[i]) = (IF i = 10 \/ i = 20 THEN 1 ELSE 2)
    <2>1. CASE i < 10
      <3>1. PICK a \in Int : a = 5 * (i - 1)
        OBVIOUS
      <3>2. IntervalOrder[i] = <<a, 5 * i>>
        BY <2>1, <3>1, OrderAt
      <3>3. IntervalOrder[i][1] = a /\ Len(IntervalOrder[i]) = 2
        BY ONLY <3>2
      <3> QED
        BY <2>1, <3>1, <3>3
    <2>2. CASE i = 10
      <3>1. PICK a \in Int : a = 45
        OBVIOUS
      <3>2. IntervalOrder[i] = <<a>>
        BY <2>2, <3>1, OrderAt
      <3>3. IntervalOrder[i][1] = a /\ Len(IntervalOrder[i]) = 1
        BY ONLY <3>2
      <3> QED
        BY <2>2, <3>1, <3>3
    <2>3. CASE i > 10 /\ i < 20
      <3>1. PICK a \in Int : a = 5 * (i - 2)
        OBVIOUS
      <3>2. IntervalOrder[i] = <<a, 5 * (i - 1)>>
        BY <2>3, <3>1, OrderAt
      <3>3. IntervalOrder[i][1] = a /\ Len(IntervalOrder[i]) = 2
        BY ONLY <3>2
      <3> QED
        BY <2>3, <3>1, <3>3
    <2>4. CASE i = 20
      <3>1. PICK a \in Int : a = 90
        OBVIOUS
      <3>2. IntervalOrder[i] = <<a>>
        BY <2>4, <3>1, OrderAt
      <3>3. IntervalOrder[i][1] = a /\ Len(IntervalOrder[i]) = 1
        BY ONLY <3>2
      <3> QED
        BY <2>4, <3>1, <3>3
    <2> QED
      BY <2>1, <2>2, <2>3, <2>4
  <1>2. DOMAIN IntervalOrder = 1..20
    BY DEF IntervalOrder
  <1>3. ASSUME NEW i \in 1..20, NEW j \in 1..20, IntervalOrder[i] = IntervalOrder[j] PROVE i = j
    <2>1. PICK a, b : a = IntervalOrder[i][1] /\ b = Len(IntervalOrder[i])
      OBVIOUS
    <2>2. /\ a = (IF i <= 10 THEN 5 * (i - 1) ELSE 5 * (i - 2))
          /\ b = (IF i = 10 \/ i = 20 THEN 1 ELSE 2)
          /\ a = (IF j <= 10 THEN 5 * (j - 1) ELSE 5 * (j - 2))
          /\ b = (IF j = 10 \/ j = 20 THEN 1 ELSE 2)
      BY <1>1, <1>3, <2>1
    <2> QED
      BY ONLY <2>2
  <1> QED
    BY <1>2, <1>3

\* The spine has all rows of a team with an event in play.
LEMMA SpineRows ==
    ASSUME NEW rows, NEW k \in Spine(rows)
    PROVE  k.team \in Team /\ {l \in Spine(rows) : l.team = k.team} = {l \in Key : l.team = k.team}
  BY DEF Spine, Key

\* Twenty distinct things are twenty.
LEMMA TwentyDistinct ==
    ASSUME NEW F, DOMAIN F = 1..20, \A i, j \in 1..20 : F[i] = F[j] => i = j
    PROVE  Cardinality({F[i] : i \in 1..20}) = 20
  <1>1. PICK n \in Nat : n = 20
    OBVIOUS
  <1>2. DOMAIN F = 1..n /\ \A i, j \in 1..n : F[i] = F[j] => i = j
    BY <1>1
  <1>3. Cardinality({F[i] : i \in 1..n}) = n
    BY ONLY <1>2, DistinctColumn
  <1> QED
    BY <1>1, <1>3

\* A table of intervals can be drawn: whatever the events, the labels are the
\* twenty of the report.
LEMMA IntervalsDrawn ==
    ASSUME NEW rows
    PROVE  MomentumDrawn(FactGoldIntervals(rows))
  <1> DEFINE facts == FactGoldIntervals(rows)
             order == {IntervalOrder[i] : i \in DOMAIN IntervalOrder}
  <1>1. DOMAIN facts = Spine(rows)
    BY DEF FactGoldIntervals
  <1>2. ASSUME NEW k \in Spine(rows)
        PROVE  LET keys == {l \in Spine(rows) : l.team = k.team} IN
               /\ {IntervalLabel(l) : l \in keys} = order
               /\ Cardinality(keys) = Cardinality(order)
    <2>1. PICK t \in Team : t = k.team
      BY SpineRows
    <2>2. PICK keys : keys = {l \in Spine(rows) : l.team = k.team}
      OBVIOUS
    <2>3. keys = {RowAt(t, i) : i \in 1..20}
      BY <2>1, <2>2, SpineRows, RowsOfTeam
    <2>4. order = {IntervalOrder[i] : i \in 1..20}
      BY LabelsDistinct
    <2>5. {IntervalLabel(l) : l \in keys} = order
      BY <2>3, <2>4, LabelAt
    <2>6. Cardinality(order) = 20
      <3>1. Cardinality({IntervalOrder[i] : i \in 1..20}) = 20
        BY LabelsDistinct, TwentyDistinct
      <3> QED
        BY <2>4, <3>1
    <2>7. Cardinality(keys) = 20
      <3>1. PICK F : F = [i \in 1..20 |-> RowAt(t, i)]
        OBVIOUS
      <3>2. DOMAIN F = 1..20 /\ \A i, j \in 1..20 : F[i] = F[j] => i = j
        BY <3>1, RowsOfTeam
      <3>3. Cardinality({F[i] : i \in 1..20}) = 20
        BY <3>2, TwentyDistinct
      <3>4. {F[i] : i \in 1..20} = keys
        BY <2>3, <3>1
      <3> QED
        BY <3>3, <3>4
    <2> QED
      BY <2>2, <2>5, <2>6, <2>7
  <1>3. ASSUME NEW t \in {k.team : k \in Spine(rows)}
        PROVE  LET keys == {l \in Spine(rows) : l.team = t} IN
               /\ {IntervalLabel(l) : l \in keys} = order
               /\ Cardinality(keys) = Cardinality(order)
    <2>1. PICK k \in Spine(rows) : k.team = t
      OBVIOUS
    <2> HIDE DEF order
    <2> QED
      BY <1>2, <2>1
  <1> HIDE DEF facts
  <1>4. \A t \in {k.team : k \in DOMAIN facts} :
           LET keys == {k \in DOMAIN facts : k.team = t} IN
           /\ {IntervalLabel(k) : k \in keys} = order
           /\ Cardinality(keys) = Cardinality(order)
    <2> HIDE DEF order
    <2> QED
      BY <1>1, <1>3
  <1>5. MomentumDrawn(facts)
    BY ONLY <1>4 DEF MomentumDrawn
  <1> QED
    BY <1>5 DEF facts

\* An accepted match does not fail to be drawn for its labels
\* (fact_gold_intervals.sql and INTERVAL_ORDER in xt_momentum.py).
THEOREM MomentumAlwaysKnowsLabels == Spec => []MomentumKnowsLabels
  <1>1. MomentumKnowsLabels
    BY IntervalsDrawn DEF MomentumKnowsLabels
  <1> QED
    BY <1>1, PTL

-----------------------------------------------------------------------------
(* The timeline *)

\* The timeline of a team ends at its last shot, with all of them counted.
LEMMA PayloadTimeline == PayloadInv => TimelineEndsAtXg
  <1> SUFFICES ASSUME PayloadInv, NEW t \in TeamIds(Rows), FactGoldTeam(Rows)[t].xg # Null
               PROVE  TimelineEnd(Rows, t) = FactGoldTeam(Rows)[t].xg
    BY DEF TimelineEndsAtXg
  <1>1. PICK rows, n : rows = Rows /\ n = Len(payload)
    OBVIOUS
  <1> n \in Nat
    BY <1>1, RowsOfPayload
  <1>2. DOMAIN rows = 1..n /\ \A i \in 1..n : rows[i].index = i
    BY <1>1, RowsOfPayload, RowFields DEF PayloadInv
  <1>3. PICK S : S = Shots(rows, t)
    OBVIOUS
  <1>4. S # {} /\ FactGoldTeam(rows)[t].xg = SumOf(rows, "shot_xg", S)
    BY <1>1, <1>3 DEF FactGoldTeam, TeamFacts
  <1>5. S \in SUBSET (1..n)
    BY <1>2, <1>3 DEF Shots, RowsOf
  <1>6. \E i \in S : \A j \in S : rows[j].index <= rows[i].index
    <2>1. PICK i \in S : \A j \in S : j <= i
      BY <1>4, <1>5, GreatestOf
    <2> QED
      BY <1>2, <1>5, <2>1
  <1>7. PICK last \in S : /\ last = (CHOOSE i \in S : \A j \in S : rows[j].index <= rows[i].index)
                          /\ \A j \in S : rows[j].index <= rows[last].index
    BY <1>6
  <1>8. {j \in S : rows[j].index <= rows[last].index} = S
    BY <1>7
  <1>9. TimelineEnd(rows, t) = SumOf(rows, "shot_xg", S)
    BY <1>3, <1>7, <1>8 DEF TimelineEnd, CumulativeXg
  <1> QED
    BY <1>1, <1>4, <1>9

\* The xG timeline a report draws for a team ends at the xG of its row in
\* fact_gold_team (xg_timeline.py, fact_gold_team.sql).
THEOREM TimelineAlwaysEndsAtXg == Spec => []TimelineEndsAtXg
  BY PayloadInvariant, PayloadTimeline, PTL

-----------------------------------------------------------------------------
(* Sums of facts *)

\* Total is a sum in the sense of SumLaws.
LEMMA TotalSums ==
    ASSUME NEW facts, NEW f, NEW K, IsFiniteSet(K),
           NEW v, v = [k \in K |-> facts[k][f]], \A k \in K : facts[k][f] \in Int
    PROVE  \E G : Sums(G, v, K) /\ Total(facts, f, K) = G[K]
  <1> DEFINE Step(h) == [s \in SUBSET K |->
                           IF s = {} THEN 0
                           ELSE facts[CHOOSE x \in s : TRUE][f] + h[s \ {CHOOSE x \in s : TRUE}]]
             H == CHOOSE h : h = Step(h)
  <1>1. v \in [K -> Int]
    OBVIOUS
  <1>2. ASSUME NEW h PROVE Folds(h, v, K) <=> h = Step(h)
    <2>1. ASSUME NEW s \in SUBSET K, s # {} PROVE v[Chosen(s)] = facts[CHOOSE x \in s : TRUE][f]
      <3>1. Chosen(s) \in K
        BY <2>1, ChosenIsIn
      <3> QED
        BY <3>1 DEF Chosen
    <2> QED
      BY <2>1 DEF Folds, Chosen
  <1>3. \E h : Folds(h, v, K)
    BY <1>1, FoldExists
  <1>4. H = Step(H)
    <2> HIDE DEF Step
    <2>1. PICK h : Folds(h, v, K)
      BY <1>3
    <2>2. h = Step(h)
      BY <1>2, <2>1
    <2> QED
      BY <2>2
  <1>5. Sums(H, v, K)
    <2> HIDE DEF H, Step
    <2> QED
      BY <1>1, <1>2, <1>4, FoldSums
  <1>6. Total(facts, f, K) = H[K]
    BY DEF Total, MapThenSumSet, MapThenFoldSet
  <1> HIDE DEF H
  <1> QED
    BY <1>5, <1>6

\* The threat of a row is a number where it is a rated move, and NULL for all
\* other rows.
LEMMA RowXt ==
    ASSUME NEW e \in RawEvent
    PROVE  /\ SilverRow(e).xt_added \in Int \cup {Null}
           /\ ~SilverRow(e).move => SilverRow(e).xt_added = Null
  <1>1. SilverRow(e).move = (IsCompletedPass(e) \/ e.type = "Carry")
    BY DEF SilverRow
  <1>2. CASE SilverRow(e).move
    <2>1. SilverRow(e).xt_added # Null => SilverRow(e).xt_added \in Int
      <3> SUFFICES ASSUME SilverRow(e).xt_added # Null PROVE SilverRow(e).xt_added \in Int
        OBVIOUS
      <3>1. PICK a \in Int, b \in Int : SilverRow(e).xt_added = b - a
        BY <1>2, XtOfRow
      <3> QED
        BY <3>1
    <2> QED
      BY <1>2, <2>1
  <1>3. CASE ~SilverRow(e).move
    <2>1. ~(IsCompletedPass(e) \/ e.type = "Carry")
      BY <1>1, <1>3
    <2>2. SilverRow(e).xt_added = Null
      BY <2>1 DEF SilverRow
    <2> QED
      BY <2>2
  <1> QED
    BY <1>2, <1>3

\* The threat of the rows of a payload sums up.
LEMMA RowsXt ==
    ASSUME PayloadInv
    PROVE  /\ IsFiniteSet(DOMAIN Rows) /\ DOMAIN Rows = 1..Len(payload)
           /\ \A i \in DOMAIN Rows : /\ Value(Rows, "xt_added", i) \in Int
                                     /\ ~Rows[i].move => Value(Rows, "xt_added", i) = 0
                                     /\ Rows[i].xt_added # Null => Rows[i].xt_added \in Int
           /\ \E g : Sums(g, [i \in DOMAIN Rows |-> Value(Rows, "xt_added", i)], DOMAIN Rows)
  <1>1. Len(payload) \in Nat /\ DOMAIN Rows = 1..Len(payload)
    BY RowsOfPayload
  <1>2. IsFiniteSet(DOMAIN Rows)
    BY <1>1, FS_Interval
  <1>3. ASSUME NEW i \in DOMAIN Rows
        PROVE  /\ Rows[i].xt_added \in Int \cup {Null}
               /\ ~Rows[i].move => Rows[i].xt_added = Null
    BY <1>1, RowsOfPayload, RowXt
  <1>4. \A i \in DOMAIN Rows : /\ Value(Rows, "xt_added", i) \in Int
                               /\ ~Rows[i].move => Value(Rows, "xt_added", i) = 0
    BY <1>3 DEF Value
  <1>5. \E g : Sums(g, [i \in DOMAIN Rows |-> Value(Rows, "xt_added", i)], DOMAIN Rows)
    BY <1>2, <1>4, ColumnSums
  <1> QED
    BY <1>1, <1>2, <1>3, <1>4, <1>5

-----------------------------------------------------------------------------
(* Intervals add up *)

\* An event in play has its slot: a minute before stoppage time one of the
\* nine of five minutes, all later ones the last.
LEMMA SlotOfMinute ==
    ASSUME NEW e \in RawEvent, e.period \in {1, 2}, e.period = 2 => e.minute >= 45,
           e.team \in Team
    PROVE  KeyOf(SilverRow(e)) \in Key /\ KeyOf(SilverRow(e)).team = e.team
  <1> DEFINE r == SilverRow(e)
  <1>1. PICK m \in Nat, p \in {1, 2} : m = e.minute /\ p = e.period
    BY DEF RawEvent
  <1>2. r.minute = m /\ r.period = p /\ r.team = e.team
    BY <1>1, RowFields
  <1> HIDE DEF r
  <1>3. PICK s : s = [start |-> IntervalStart(r), stoppage |-> IsStoppageTime(r)]
    OBVIOUS
  <1>4. s \in Slots
    <2>1. CASE IsStoppageTime(r)
      <3>1. s = [start |-> 45, stoppage |-> TRUE]
        <4>1. IsStoppageTime(r) <=> TRUE
          BY <2>1
        <4>2. IsStoppageTime(r) \in BOOLEAN
          BY DEF IsStoppageTime
        <4>3. IntervalStart(r) = 45
          BY <2>1 DEF IntervalStart
        <4> QED
          BY <1>3, <4>1, <4>2, <4>3
      <3> QED
        BY <3>1 DEF Slots
    <2>2. CASE ~IsStoppageTime(r)
      <3>1. PICK q \in 0..44 : q = PeriodMinute(r)
        BY <1>1, <1>2, <2>2 DEF IsStoppageTime, PeriodMinute
      <3>2. PICK k \in 0..8 : k = q \div 5
        BY <3>1
      <3>3. s = [start |-> 5 * k, stoppage |-> FALSE]
        <4>1. IsStoppageTime(r) \in BOOLEAN
          BY DEF IsStoppageTime
        <4>2. IntervalStart(r) = 5 * k
          BY <2>2, <3>1, <3>2 DEF IntervalStart
        <4> QED
          BY <1>3, <2>2, <4>1, <4>2
      <3> QED
        BY <3>3 DEF Slots
    <2> QED
      BY <2>1, <2>2
  <1>5. KeyOf(r) = [team |-> e.team, period |-> p, slot |-> s]
    BY <1>2, <1>3 DEF KeyOf
  <1>6. KeyOf(r) \in Key /\ KeyOf(r).team = e.team
    BY <1>4, <1>5 DEF Key
  <1> QED
    BY <1>6 DEF r

\* So each event in play has its row in the table.
LEMMA RowOfEvent ==
    ASSUME PayloadInv, NEW i \in InPlay(Rows)
    PROVE  KeyOf(Rows[i]) \in Spine(Rows) /\ KeyOf(Rows[i]).team = Rows[i].team
  <1>1. i \in DOMAIN Rows /\ Rows[i].team # Null /\ Rows[i].period \in {1, 2}
    BY DEF InPlay
  <1>2. PICK e \in RawEvent : e = payload[i] /\ Rows[i] = SilverRow(e)
    BY <1>1, RowsOfPayload
  <1>3. e.period = 2 => e.minute >= 45
    BY <1>1, <1>2, RowsOfPayload DEF PayloadInv
  <1>4. e.team = Rows[i].team /\ e.period = Rows[i].period
    BY <1>2, RowFields
  <1>5. e.team \in Team /\ e.period \in {1, 2}
    BY <1>1, <1>4 DEF RawEvent
  <1>6. KeyOf(Rows[i]) \in Key /\ KeyOf(Rows[i]).team = Rows[i].team
    BY <1>2, <1>3, <1>4, <1>5, SlotOfMinute
  <1> QED
    BY <1>6 DEF Spine

\* The rows of a team are finitely many.
LEMMA KeysFinite ==
    ASSUME NEW t \in Team
    PROVE  IsFiniteSet({k \in Key : k.team = t}) /\ Cardinality({k \in Key : k.team = t}) = 20
  <1>1. PICK K : K = {k \in Key : k.team = t}
    OBVIOUS
  <1>2. PICK F : F = [i \in 1..20 |-> RowAt(t, i)]
    OBVIOUS
  <1>3. K = {F[i] : i \in 1..20} /\ DOMAIN F = 1..20
        /\ \A i, j \in 1..20 : F[i] = F[j] => i = j
    BY <1>1, <1>2, RowsOfTeam
  <1>4. Cardinality(K) = 20
    BY ONLY <1>3, TwentyDistinct
  <1>5. F \in Surjection(1..20, K)
    BY <1>2, <1>3 DEF Surjection
  <1>6. IsFiniteSet(1..20)
    <2>1. PICK a \in Int, b \in Int : a = 1 /\ b = 20
      OBVIOUS
    <2>2. IsFiniteSet(a..b)
      BY FS_Interval
    <2> QED
      BY <2>1, <2>2
  <1>7. IsFiniteSet(K)
    BY ONLY <1>5, <1>6, FS_Surjection
  <1> QED
    BY <1>1, <1>4, <1>7

\* The columns of the interval table are sums over the events of a row.
LEMMA ColumnsOfIntervals ==
    ASSUME PayloadInv, NEW k \in Spine(Rows)
    PROVE  LET facts == FactGoldIntervals(Rows)
               in == {i \in InPlay(Rows) : KeyOf(Rows[i]) = k}
           IN  /\ DOMAIN facts = Spine(Rows)
               /\ facts[k].shots = Cardinality({i \in in : Rows[i].type = "Shot"})
               /\ facts[k].successful_moves = Cardinality({i \in in : Rows[i].move})
               /\ facts[k].net_xt = SumOf(Rows, "xt_added", {i \in in : Rows[i].move})
  BY DEF FactGoldIntervals, IntervalFacts

\* The rows of the table of one team, and its events in play.
KeysOf(t) == {k \in Spine(Rows) : k.team = t}
InPlayOf(t) == {i \in InPlay(Rows) : Rows[i].team = t}

\* Both are finite.
LEMMA TeamFinite ==
    ASSUME PayloadInv, NEW t \in Team
    PROVE  /\ IsFiniteSet(KeysOf(t))
           /\ InPlayOf(t) \in SUBSET DOMAIN Rows /\ IsFiniteSet(InPlayOf(t))
           /\ \A i \in InPlayOf(t) : KeyOf(Rows[i]) \in KeysOf(t)
  <1>1. KeysOf(t) \in SUBSET {k \in Key : k.team = t}
    BY DEF KeysOf, Spine
  <1>2. IsFiniteSet(KeysOf(t))
    BY ONLY <1>1, KeysFinite, FS_Subset, t \in Team
  <1>3. InPlayOf(t) \in SUBSET DOMAIN Rows
    BY DEF InPlayOf, InPlay
  <1>4. IsFiniteSet(InPlayOf(t))
    BY <1>3, RowsXt, FS_Subset
  <1>5. \A i \in InPlayOf(t) : KeyOf(Rows[i]) \in KeysOf(t)
    BY RowOfEvent DEF InPlayOf, KeysOf
  <1> QED
    BY <1>2, <1>3, <1>4, <1>5

\* A column that counts the events of M in each row adds up to M.
LEMMA CountGroups ==
    ASSUME PayloadInv, NEW t \in Team, NEW M \in SUBSET InPlayOf(t), NEW facts, NEW f,
           \A k \in KeysOf(t) : facts[k][f] = Cardinality({i \in M : KeyOf(Rows[i]) = k})
    PROVE  Total(facts, f, KeysOf(t)) = Cardinality(M)
  <1>1. PICK K : K = KeysOf(t)
    OBVIOUS
  <1>2. IsFiniteSet(K) /\ IsFiniteSet(M) /\ \A i \in M : KeyOf(Rows[i]) \in K
    BY <1>1, TeamFinite, FS_Subset
  <1>3. PICK key : key = [i \in M |-> KeyOf(Rows[i])]
    OBVIOUS
  <1>4. PICK v \in [M -> Int] : \A i \in M : v[i] = 1
    <2>1. [i \in M |-> 1] \in [M -> Int] /\ \A i \in M : [j \in M |-> 1][i] = 1
      OBVIOUS
    <2> QED
      BY <2>1
  <1>5. PICK g : Sums(g, v, M)
    BY <1>2, FoldExists, FoldSums
  <1>6. ASSUME NEW U \in SUBSET M PROVE g[U] = Cardinality(U) /\ Cardinality(U) \in Int
    <2>1. IsFiniteSet(U)
      BY <1>2, FS_Subset
    <2>2. \A i \in U : v[i] = 1
      BY <1>4
    <2> QED
      BY <1>5, <2>1, <2>2, SumsOnes, FS_CardinalityType
  <1>8. PICK part : part = [k \in K |-> {i \in M : KeyOf(Rows[i]) = k}]
    OBVIOUS
  <1>9. PICK w : w = [k \in K |-> facts[k][f]]
    OBVIOUS
  <1>10. /\ \A k \in K : part[k] \in SUBSET M
         /\ \A k \in K : \A i \in M : i \in part[k] <=> key[i] = k
         /\ \A i \in M : key[i] \in K
    BY <1>2, <1>3, <1>8
  <1>11. \A k \in K : w[k] = g[part[k]] /\ facts[k][f] \in Int
    <2>1. \A k \in K : part[k] \in SUBSET M /\ facts[k][f] = Cardinality(part[k])
      BY <1>1, <1>8
    <2> QED
      BY <1>6, <1>9, <2>1
  <1>12. PICK G : Sums(G, w, K) /\ Total(facts, f, K) = G[K]
    <2>1. IsFiniteSet(K) /\ \A k \in K : facts[k][f] \in Int
      BY <1>2, <1>11
    <2> QED
      BY ONLY <1>9, <2>1, TotalSums
  <1>13. G[K] = g[M]
    BY ONLY <1>2, <1>5, <1>10, <1>11, <1>12, SumsGroup, v \in [M -> Int]
  <1> QED
    BY <1>1, <1>6, <1>12, <1>13

\* The threat of the rows of a team adds up to that of its moves.
LEMMA ThreatGroups ==
    ASSUME PayloadInv, NEW t \in Team, NEW M \in SUBSET InPlayOf(t), NEW facts,
           \A k \in KeysOf(t) :
              facts[k].net_xt = SumOf(Rows, "xt_added", {i \in M : KeyOf(Rows[i]) = k})
    PROVE  Total(facts, "net_xt", KeysOf(t)) = SumOf(Rows, "xt_added", M)
  <1>1. PICK K, D : K = KeysOf(t) /\ D = DOMAIN Rows
    OBVIOUS
  <1>2. /\ IsFiniteSet(K) /\ IsFiniteSet(D) /\ M \in SUBSET D /\ IsFiniteSet(M)
        /\ \A i \in M : KeyOf(Rows[i]) \in K
    BY <1>1, TeamFinite, RowsXt, FS_Subset
  <1>3. PICK key : key = [i \in M |-> KeyOf(Rows[i])]
    OBVIOUS
  <1>4. PICK v, g : v = [i \in D |-> Value(Rows, "xt_added", i)] /\ Sums(g, v, D)
    BY <1>1, RowsXt
  <1>5. v \in [D -> Int]
    BY <1>1, <1>4, RowsXt
  <1>6. ASSUME NEW U \in SUBSET D PROVE SumOf(Rows, "xt_added", U) = g[U] /\ g[U] \in Int
    <2>1. \A i \in D : Value(Rows, "xt_added", i) \in Int
      BY <1>1, RowsXt
    <2>2. SumOf(Rows, "xt_added", U) = g[U]
      BY <1>2, <1>4, <2>1, SumOfSums
    <2> QED
      BY <1>4, <2>2 DEF Sums
  <1>8. PICK part : part = [k \in K |-> {i \in M : KeyOf(Rows[i]) = k}]
    OBVIOUS
  <1>9. PICK w : w = [k \in K |-> facts[k]["net_xt"]]
    OBVIOUS
  <1>10. /\ \A k \in K : part[k] \in SUBSET M
         /\ \A k \in K : \A i \in M : i \in part[k] <=> key[i] = k
         /\ \A i \in M : key[i] \in K
    BY <1>2, <1>3, <1>8
  <1>11. \A k \in K : w[k] = g[part[k]] /\ facts[k]["net_xt"] \in Int
    <2>1. \A k \in K : part[k] \in SUBSET D /\ facts[k].net_xt = SumOf(Rows, "xt_added", part[k])
      BY <1>1, <1>2, <1>8
    <2> QED
      BY <1>6, <1>9, <2>1
  <1>12. PICK G : Sums(G, w, K) /\ Total(facts, "net_xt", K) = G[K]
    BY <1>2, <1>9, <1>11, TotalSums
  <1>13. G[K] = g[M]
    BY ONLY <1>2, <1>4, <1>5, <1>10, <1>11, <1>12, SumsGroup
  <1> QED
    BY <1>1, <1>2, <1>6, <1>12, <1>13

\* The events of a row of a team are the team's.
LEMMA EventsOfRow ==
    ASSUME PayloadInv, NEW t, NEW k \in KeysOf(t)
    PROVE  {i \in InPlay(Rows) : KeyOf(Rows[i]) = k} = {i \in InPlayOf(t) : KeyOf(Rows[i]) = k}
  BY RowOfEvent DEF KeysOf, InPlayOf

\* The table of a payload adds up to its events, team by team.
LEMMA PayloadPartition == PayloadInv => IntervalsPartition
  <1> SUFFICES ASSUME PayloadInv, NEW t \in TeamIds(Rows)
               PROVE  LET facts == FactGoldIntervals(Rows)
                          mine == InPlayOf(t)
                          keys == KeysOf(t)
                      IN  /\ \A i \in mine : KeyOf(Rows[i]) \in keys
                          /\ Total(facts, "shots", keys)
                                = Cardinality({i \in mine : Rows[i].type = "Shot"})
                          /\ Total(facts, "successful_moves", keys)
                                = Cardinality({i \in mine : Rows[i].move})
                          /\ Total(facts, "net_xt", keys) = SumOf(Rows, "xt_added", mine)
    <2>1. DOMAIN FactGoldIntervals(Rows) = Spine(Rows)
      BY DEF FactGoldIntervals
    <2> QED
      BY <2>1 DEF IntervalsPartition, InPlayOf, KeysOf
  <1>1. t \in Team
    <2>1. PICK i \in DOMAIN Rows : t = Rows[i].team /\ t # Null
      BY DEF TeamIds, Column
    <2>2. PICK e \in RawEvent : Rows[i] = SilverRow(e)
      BY RowsOfPayload
    <2>3. t = e.team
      BY <2>1, <2>2, RowFields
    <2> QED
      BY <2>1, <2>3 DEF RawEvent
  <1>2. PICK facts : facts = FactGoldIntervals(Rows)
    OBVIOUS
  <1>3. PICK S \in SUBSET InPlayOf(t) : S = {i \in InPlayOf(t) : Rows[i].type = "Shot"}
    OBVIOUS
  <1>4. PICK M \in SUBSET InPlayOf(t) : M = {i \in InPlayOf(t) : Rows[i].move}
    OBVIOUS
  <1>5. ASSUME NEW k \in KeysOf(t)
        PROVE  /\ facts[k].shots = Cardinality({i \in S : KeyOf(Rows[i]) = k})
               /\ facts[k].successful_moves = Cardinality({i \in M : KeyOf(Rows[i]) = k})
               /\ facts[k].net_xt = SumOf(Rows, "xt_added", {i \in M : KeyOf(Rows[i]) = k})
    <2>1. PICK in : in = {i \in InPlay(Rows) : KeyOf(Rows[i]) = k}
      OBVIOUS
    <2>2. k \in Spine(Rows)
      BY DEF KeysOf
    <2>3. /\ facts[k].shots = Cardinality({i \in in : Rows[i].type = "Shot"})
          /\ facts[k].successful_moves = Cardinality({i \in in : Rows[i].move})
          /\ facts[k].net_xt = SumOf(Rows, "xt_added", {i \in in : Rows[i].move})
      BY <1>2, <2>1, <2>2, ColumnsOfIntervals
    <2>4. in = {i \in InPlayOf(t) : KeyOf(Rows[i]) = k}
      BY <2>1, EventsOfRow
    <2>5. /\ {i \in in : Rows[i].type = "Shot"} = {i \in S : KeyOf(Rows[i]) = k}
          /\ {i \in in : Rows[i].move} = {i \in M : KeyOf(Rows[i]) = k}
      BY <1>3, <1>4, <2>4
    <2> QED
      BY <2>3, <2>5
  <1>6. Total(facts, "shots", KeysOf(t)) = Cardinality(S)
    <2>1. \A k \in KeysOf(t) : facts[k]["shots"] = Cardinality({i \in S : KeyOf(Rows[i]) = k})
      BY <1>5
    <2> QED
      BY ONLY <1>1, <2>1, PayloadInv, CountGroups
  <1>7. Total(facts, "successful_moves", KeysOf(t)) = Cardinality(M)
    <2>1. \A k \in KeysOf(t) : facts[k]["successful_moves"] = Cardinality({i \in M : KeyOf(Rows[i]) = k})
      BY <1>5
    <2> QED
      BY ONLY <1>1, <2>1, PayloadInv, CountGroups
  <1>8. Total(facts, "net_xt", KeysOf(t)) = SumOf(Rows, "xt_added", M)
    BY <1>1, <1>5, ThreatGroups
  <1>9. SumOf(Rows, "xt_added", M) = SumOf(Rows, "xt_added", InPlayOf(t))
    <2>1. PICK D, I : D = DOMAIN Rows /\ I = InPlayOf(t)
      OBVIOUS
    <2>2. I \in SUBSET D /\ IsFiniteSet(D) /\ IsFiniteSet(I) /\ M \in SUBSET I
      BY <1>1, <2>1, TeamFinite, RowsXt
    <2>3. PICK v, g : v = [i \in D |-> Value(Rows, "xt_added", i)] /\ Sums(g, v, D)
      BY <2>1, RowsXt
    <2>4. v \in [D -> Int] /\ \A i \in I \ M : v[i] = 0
      BY <1>4, <2>1, <2>2, <2>3, RowsXt
    <2>5. ASSUME NEW U \in SUBSET D PROVE SumOf(Rows, "xt_added", U) = g[U] /\ g[U] \in Int
      <3>1. \A i \in D : Value(Rows, "xt_added", i) \in Int
        BY <2>1, RowsXt
      <3>2. SumOf(Rows, "xt_added", U) = g[U]
        BY <2>2, <2>3, <3>1, SumOfSums
      <3> QED
        BY <2>3, <3>2 DEF Sums
    <2>6. I \in SUBSET D /\ M \in SUBSET D /\ M \in SUBSET I /\ IsFiniteSet(I) /\ v \in [D -> Int]
      BY <2>2, <2>4
    <2>7. Sums(g, v, D) /\ \A i \in I \ M : v[i] = 0
      BY <2>3, <2>4
    <2>8. g[I] = g[M]
      BY ONLY <2>6, <2>7, SumsRest
    <2> QED
      BY <2>1, <2>5, <2>6, <2>8
  <1> QED
    BY <1>1, <1>2, <1>3, <1>4, <1>6, <1>7, <1>8, <1>9, TeamFinite

\* The intervals of a match split its two halves: every event in play is in
\* one of them, and their moves, shots and threat add up to those of the team
\* (fact_gold_intervals.sql).
THEOREM IntervalsAlwaysPartition == Spec => []IntervalsPartition
  BY PayloadInvariant, PayloadPartition, PTL

-----------------------------------------------------------------------------
(* The tests of the facts *)

\* Goals are shots; completed passes are passes, progressive ones completed.
LEMMA PayloadTeamTests == PayloadInv => TeamInvariants(FactGoldTeam(Rows))
  <1> SUFFICES ASSUME PayloadInv PROVE TeamInvariants(FactGoldTeam(Rows))
    OBVIOUS
  <1>1. ASSUME NEW t \in TeamIds(Rows)
        PROVE  LET f == TeamFacts(Rows, t) IN
               /\ f.goals <= f.shots
               /\ f.completed_passes <= f.attempted_passes
               /\ f.progressive_passes <= f.completed_passes
    <2>1. PICK S, G : S = Shots(Rows, t) /\ G = {i \in S : Rows[i].outcome = "Goal"}
      OBVIOUS
    <2>2. PICK P, C, F : /\ P = {i \in RowsOf(Rows, t) : Rows[i].type = "Pass"}
                         /\ C = {i \in P : Rows[i].completed}
                         /\ F = {i \in C : Rows[i].progressive}
      OBVIOUS
    <2>3. S \in SUBSET DOMAIN Rows /\ P \in SUBSET DOMAIN Rows
      BY <2>1, <2>2 DEF Shots, RowsOf
    <2>4. IsFiniteSet(S) /\ IsFiniteSet(P)
      BY <2>3, RowsXt, FS_Subset
    <2>5. Cardinality(G) <= Cardinality(S)
      <3>1. G \in SUBSET S
        BY <2>1
      <3> QED
        BY <2>4, <3>1, FS_Subset
    <2>6. IsFiniteSet(C) /\ Cardinality(C) <= Cardinality(P)
      <3>1. C \in SUBSET P
        BY <2>2
      <3> QED
        BY <2>4, <3>1, FS_Subset
    <2>7. Cardinality(F) <= Cardinality(C)
      <3>1. F \in SUBSET C
        BY <2>2
      <3> QED
        BY <2>6, <3>1, FS_Subset
    <2>8. PICK f : f = TeamFacts(Rows, t)
      OBVIOUS
    <2>9. /\ f.goals = Cardinality(G) /\ f.shots = Cardinality(S)
          /\ f.completed_passes = Cardinality(C) /\ f.attempted_passes = Cardinality(P)
          /\ f.progressive_passes = Cardinality(F)
      BY <2>1, <2>2, <2>8 DEF TeamFacts
    <2> QED
      BY <2>5, <2>6, <2>7, <2>8, <2>9
  <1>2. PICK facts : facts = FactGoldTeam(Rows)
    OBVIOUS
  <1>3. DOMAIN facts = TeamIds(Rows) /\ \A t \in TeamIds(Rows) : facts[t] = TeamFacts(Rows, t)
    BY <1>2 DEF FactGoldTeam
  <1> QED
    BY <1>1, <1>2, <1>3 DEF TeamInvariants

\* The threat gained and the threat lost make the net threat of an interval.
LEMMA NetOfRow ==
    ASSUME PayloadInv, NEW M \in SUBSET DOMAIN Rows
    PROVE  LET Gains == {i \in M : Rows[i].xt_added # Null /\ Rows[i].xt_added > 0}
               Losses == {i \in M : Rows[i].xt_added # Null /\ Rows[i].xt_added < 0}
           IN  SumOf(Rows, "xt_added", Gains) + SumOf(Rows, "xt_added", Losses)
                  = SumOf(Rows, "xt_added", M)
  <1>1. PICK G \in SUBSET M : G = {i \in M : Rows[i].xt_added # Null /\ Rows[i].xt_added > 0}
    OBVIOUS
  <1>2. PICK L \in SUBSET M : L = {i \in M : Rows[i].xt_added # Null /\ Rows[i].xt_added < 0}
    OBVIOUS
  <1>3. PICK D : D = DOMAIN Rows
    OBVIOUS
  <1>4. IsFiniteSet(D) /\ M \in SUBSET D /\ IsFiniteSet(M) /\ IsFiniteSet(L)
    BY <1>3, RowsXt, FS_Subset
  <1>5. PICK v, g : v = [i \in D |-> Value(Rows, "xt_added", i)] /\ Sums(g, v, D)
    BY <1>3, RowsXt
  <1>6. v \in [D -> Int] /\ Sums(g, v, D)
    BY <1>3, <1>5, RowsXt
  <1>7. ASSUME NEW U \in SUBSET D PROVE SumOf(Rows, "xt_added", U) = g[U]
    <2>1. \A i \in D : Value(Rows, "xt_added", i) \in Int
      BY <1>3, RowsXt
    <2> QED
      BY <1>4, <1>5, <2>1, SumOfSums
  <1>8. G \cap L = {} /\ G \in SUBSET D /\ L \in SUBSET D /\ G \cup L \in SUBSET M
    <2>1. \A i \in M : Rows[i].xt_added # Null => Rows[i].xt_added \in Int
      BY RowsXt
    <2>2. G \cap L = {}
      BY <1>1, <1>2, <2>1
    <2> QED
      BY <1>4, <2>2
  <1>9. g[G \cup L] = g[G] + g[L]
    <2>1. G \cap L = {} /\ G \in SUBSET D /\ L \in SUBSET D /\ IsFiniteSet(L)
      BY <1>4, <1>8
    <2> QED
      BY ONLY <1>6, <2>1, SumsSplit
  <1>10. \A i \in M \ (G \cup L) : v[i] = 0
    <2>1. \A i \in M \ (G \cup L) : Rows[i].xt_added = Null \/ Rows[i].xt_added = 0
      <3>1. \A i \in M : Rows[i].xt_added # Null => Rows[i].xt_added \in Int
        BY RowsXt
      <3> QED
        BY <1>1, <1>2, <3>1
    <2>2. \A i \in M : v[i] = Value(Rows, "xt_added", i)
      BY <1>4, <1>5
    <2> QED
      BY <2>1, <2>2 DEF Value
  <1>11. g[M] = g[G \cup L]
    BY ONLY <1>4, <1>6, <1>8, <1>10, SumsRest
  <1>12. SumOf(Rows, "xt_added", G) + SumOf(Rows, "xt_added", L) = SumOf(Rows, "xt_added", M)
    BY <1>4, <1>7, <1>8, <1>9, <1>11
  <1> QED
    BY <1>1, <1>2, <1>12

\* The boundaries and the threat of every interval are as the tests want them.
LEMMA PayloadIntervalTests == PayloadInv => IntervalInvariants(FactGoldIntervals(Rows))
  <1> SUFFICES ASSUME PayloadInv PROVE IntervalInvariants(FactGoldIntervals(Rows))
    OBVIOUS
  <1>1. PICK facts : facts = FactGoldIntervals(Rows)
    OBVIOUS
  <1>2. DOMAIN facts = Spine(Rows)
        /\ \A k \in Spine(Rows) : facts[k] = IntervalFacts(Rows, k)
    BY <1>1 DEF FactGoldIntervals
  <1>3. ASSUME NEW k \in Spine(Rows) PROVE k.slot.start % 5 = 0
    <2>1. PICK n \in 0..9 : k.slot = [start |-> 5 * n, stoppage |-> n = 9]
      BY SlotAt DEF Spine, Key
    <2>2. k.slot.start = 5 * n
      BY <2>1
    <2>3. (5 * n) % 5 = 0
      OBVIOUS
    <2> QED
      BY <2>2, <2>3
  <1>4. ASSUME NEW k \in Spine(Rows)
        PROVE  facts[k].positive_xt + facts[k].negative_xt = facts[k].net_xt
    <2>1. PICK M : M = {i \in {j \in InPlay(Rows) : KeyOf(Rows[j]) = k} : Rows[i].move}
      OBVIOUS
    <2>2. PICK f : f = IntervalFacts(Rows, k)
      OBVIOUS
    <2>3. /\ f.positive_xt = SumOf(Rows, "xt_added",
                {i \in M : Rows[i].xt_added # Null /\ Rows[i].xt_added > 0})
          /\ f.negative_xt = SumOf(Rows, "xt_added",
                {i \in M : Rows[i].xt_added # Null /\ Rows[i].xt_added < 0})
          /\ f.net_xt = SumOf(Rows, "xt_added", M)
      BY <2>1, <2>2 DEF IntervalFacts
    <2>4. M \in SUBSET DOMAIN Rows
      BY <2>1 DEF InPlay
    <2> QED
      BY <1>2, <2>2, <2>3, <2>4, NetOfRow
  <1> QED
    BY <1>1, <1>2, <1>3, <1>4 DEF IntervalInvariants

\* Two teams make forty rows.
LEMMA TwoTeamsFortyRows ==
    ASSUME PayloadInv, TwoTeams
    PROVE  RowCount(FactGoldIntervals(Rows))
  <1>1. PICK T : T = {Rows[i].team : i \in InPlay(Rows)}
    OBVIOUS
  <1>2. T \in SUBSET Team
    <2>1. ASSUME NEW i \in InPlay(Rows) PROVE Rows[i].team \in Team
      BY RowOfEvent, SpineRows
    <2> QED
      BY <1>1, <2>1
  <1>3. Cardinality(T) = 2
    BY <1>1 DEF TwoTeams
  <1>4. IsFiniteSet(T)
    <2>1. InPlay(Rows) \in SUBSET DOMAIN Rows
      BY DEF InPlay
    <2>2. IsFiniteSet(InPlay(Rows))
      BY <2>1, RowsXt, FS_Subset
    <2>3. [i \in InPlay(Rows) |-> Rows[i].team] \in Surjection(InPlay(Rows), T)
      BY <1>1 DEF Surjection
    <2> QED
      BY <2>2, <2>3, FS_Surjection
  <1>5. PICK a \in T : TRUE
    <2>1. T # {}
      BY <1>3, FS_EmptySet
    <2> QED
      BY <2>1
  <1>6. PICK b : T \ {a} = {b}
    <2>1. IsFiniteSet(T \ {a}) /\ Cardinality(T \ {a}) = 1
      BY <1>3, <1>4, <1>5, FS_RemoveElement
    <2> QED
      BY <2>1, FS_Singleton
  <1>7. a # b /\ T = {a, b} /\ a \in Team /\ b \in Team
    BY <1>2, <1>5, <1>6
  <1>8. PICK A, B : A = {k \in Key : k.team = a} /\ B = {k \in Key : k.team = b}
    OBVIOUS
  <1>9. IsFiniteSet(A) /\ Cardinality(A) = 20 /\ IsFiniteSet(B) /\ Cardinality(B) = 20
    BY <1>7, <1>8, KeysFinite
  <1>10. A \cap B = {}
    BY <1>7, <1>8
  <1>11. Cardinality(A \cup B) = 40
    <2>1. Cardinality(A \cup B) = Cardinality(A) + Cardinality(B) - Cardinality(A \cap B)
      BY <1>9, FS_Union
    <2>2. Cardinality(A \cap B) = 0
      BY <1>10, FS_EmptySet
    <2> QED
      BY <1>9, <2>1, <2>2
  <1>12. Spine(Rows) = A \cup B
    <2>1. Spine(Rows) = {k \in Key : k.team \in T}
      BY <1>1 DEF Spine
    <2> QED
      BY <1>7, <1>8, <2>1
  <1>13. DOMAIN FactGoldIntervals(Rows) = Spine(Rows)
    BY DEF FactGoldIntervals
  <1> QED
    BY <1>11, <1>12, <1>13 DEF RowCount

\* A match with two teams that Silver accepts passes the dbt tests over the
\* fact tables (assert_gold_team_invariants, assert_gold_intervals_*).
THEOREM AcceptedAlwaysPassesTests == Spec => []AcceptedPassesTests
  <1>1. PayloadInv => AcceptedPassesTests
    BY PayloadTeamTests, PayloadIntervalTests, TwoTeamsFortyRows DEF AcceptedPassesTests
  <1> QED
    BY <1>1, PayloadInvariant, PTL
=============================================================================
