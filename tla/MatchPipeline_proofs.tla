------------------------ MODULE MatchPipeline_proofs ------------------------
(***************************************************************************)
(* Proofs about MatchPipeline, for any matches, teams, payloads, runs and  *)
(* number of cleared tasks.                                                *)
(***************************************************************************)
EXTENDS MatchPipeline, FiniteSetTheorems, TLAPS

\* A dbt build or a call of generate_reports is open only while the run that
\* opened it is running, and in the task that opened it.
Busy ==
    \A r \in Run :
        /\ job[r].open => /\ run[r].state = "running"
                          /\ run[r].task \in {"build_dbt", "build_gold_facts"}
        /\ desk[r].step # "closed" => /\ run[r].state = "running"
                                      /\ run[r].task = "reports"

\* A run carries a snapshot exactly when it is behind its Silver task.
SnapshotBehindSilver ==
    \A r \in Run : run[r].snap # 0 <=>
        run[r].task \notin {"ingest", "bronze", "silver"}

\* What makes PinnedSnapshotIsOwn inductive.
PinInv == TypeOK /\ Busy /\ SnapshotBehindSilver /\ PinnedSnapshotIsOwn

-----------------------------------------------------------------------------
(* The warehouse *)

\* The record of a run without a dbt build is well-typed.
LEMMA NoJobType == NoJob \in Jobs
  BY BoxAssumption DEF NoJob, Jobs

\* Merging a payload into the rows of a match yields rows.
LEMMA MergeType ==
    ASSUME NEW rows \in Rows, NEW c \in Content \cup {NoContent}
    PROVE  Merge(rows, c) \in Rows
  BY DEF Merge, Rows

\* Loading a payload keeps the warehouse well-typed.
LEMMA LoadSrcType ==
    ASSUME WarehouseTypeOK, NEW m \in Match,
           NEW c \in Content \cup {NoContent}, LoadSrc(m, c)
    PROVE  WarehouseTypeOK'
  BY DEF WarehouseTypeOK, LoadSrc

\* Starting a dbt build keeps the warehouse well-typed.
LEMMA StartBuildType ==
    ASSUME WarehouseTypeOK, NEW b \in Builder, NEW m \in Match,
           NEW models \in SUBSET Model, StartBuild(b, m, models)
    PROVE  WarehouseTypeOK'
  <1>1. Selected(models) \subseteq Node
    BY DEF Selected, Node
  <1>2. [match |-> m, todo |-> Selected(models), failed |-> FALSE, open |-> TRUE]
            \in Jobs
    BY <1>1 DEF Jobs
  <1> QED
    BY <1>2 DEF WarehouseTypeOK, StartBuild

\* Building a model or running a test keeps the warehouse well-typed.
LEMMA RunNodeType ==
    ASSUME WarehouseTypeOK, NEW b \in Builder, RunNode(b)
    PROVE  WarehouseTypeOK'
  <1> PICK n \in job[b].todo : RunModel(b, n) \/ RunTest(b, n)
    BY DEF RunNode
  <1>0. job[b] \in Jobs
    BY DEF WarehouseTypeOK
  <1>1. CASE RunTest(b, n)
    <2>1. Passes(n, Match) \in BOOLEAN
      BY DEF Passes, Reconciles, Pairs
    <2> QED
      BY <1>0, <1>1, <2>1 DEF RunTest, WarehouseTypeOK, Jobs
  <1>2. CASE RunModel(b, n)
    <2>1. job' \in [Builder -> Jobs] /\ exists' \subseteq Model
      BY <1>0, <1>2 DEF RunModel, WarehouseTypeOK, Jobs
    <2>2. CASE BuildStg(job[b].match)
      <3>1. src' = src
        BY <1>2 DEF RunModel
      <3> QED
        BY <2>1, <2>2, <3>1 DEF BuildStg, WarehouseTypeOK
    <2>3. CASE BuildTeam(job[b].match)
      <3>1. \A k \in Match : Merge(team[k], stg[k]) \in Rows
        BY MergeType DEF WarehouseTypeOK
      <3> QED
        BY <1>2, <2>1, <2>3, <3>1 DEF RunModel, BuildTeam, WarehouseTypeOK
    <2>4. CASE BuildIntervals(job[b].match)
      <3>1. \A k \in Match : Merge(ivl[k], stg[k]) \in Rows
        BY MergeType DEF WarehouseTypeOK
      <3> QED
        BY <1>2, <2>1, <2>4, <3>1 DEF RunModel, BuildIntervals, WarehouseTypeOK
    <2> QED
      BY <1>2, <2>2, <2>3, <2>4 DEF RunModel
  <1> QED
    BY <1>1, <1>2

\* Closing a dbt build keeps the warehouse well-typed.
LEMMA CloseBuildType ==
    ASSUME WarehouseTypeOK, NEW b \in Builder, CloseBuild(b)
    PROVE  WarehouseTypeOK'
  BY NoJobType DEF WarehouseTypeOK, CloseBuild

-----------------------------------------------------------------------------
(* The reports *)

\* The record of a run that is not in generate_reports is well-typed.
LEMMA ClosedType == Closed \in Desk
  BY BoxAssumption DEF Closed, Desk, Step, Rows, NoRows

\* Entering, going through and leaving generate_reports keep the state of
\* the reports well-typed.
LEMMA ReportsType ==
    ASSUME ReportsTypeOK, WarehouseTypeOK, NEW b \in Builder, NEW m \in Match,
           StartReports(b, m) \/ ReadRows(b) \/ Draw(b) \/ CloseReports(b)
    PROVE  ReportsTypeOK'
  <1>0. desk[b] \in Desk
    BY DEF ReportsTypeOK
  <1>1. CASE StartReports(b, m)
    <2>1. [Closed EXCEPT !.step = "team", !.match = m] \in Desk
      BY ClosedType DEF Desk, Step
    <2> QED
      BY <1>1, <2>1 DEF StartReports, ReportsTypeOK
  <1>2. CASE ReadRows(b)
    <2>1. /\ team[desk[b].match] \in Rows
          /\ ivl[desk[b].match] \in Rows
          /\ stg[desk[b].match] \in Content \cup {NoContent}
      BY <1>0 DEF Desk, WarehouseTypeOK
    <2> QED
      BY <1>0, <1>2, <2>1 DEF ReadRows, ReportsTypeOK, Desk, Step
  <1>3. CASE Draw(b)
    <2> DEFINE d == desk[b]
    <2>1. d.step \in {"summary", "shots", "xg_timeline", "xt_momentum"}
      BY <1>0, <1>3 DEF Draw, Drawable, Desk, Step
    <2>2. Following[d.step] \in Step
      BY <2>1 DEF Following, Step
    <2>3. desk' \in [Builder -> Desk]
      BY <1>0, <1>3, <2>2 DEF Draw, ReportsTypeOK, Desk
    <2>4. d.match \in Match /\ files[d.match] \in Files
      BY <1>0 DEF Desk, ReportsTypeOK
    <2>5. files' = [files EXCEPT ![d.match] = files'[d.match]]
      BY <1>3, <2>4 DEF Draw, ReportsTypeOK
    <2>6. files'[d.match] \in Files
      BY <1>0, <1>3, <2>1, <2>4 DEF Draw, ReportsTypeOK, Desk, Files
    <2> QED
      BY <2>3, <2>4, <2>5, <2>6 DEF ReportsTypeOK
  <1>4. CASE CloseReports(b)
    BY <1>4, ClosedType DEF CloseReports, ReportsTypeOK
  <1> QED
    BY <1>1, <1>2, <1>3, <1>4

-----------------------------------------------------------------------------
(* The tasks *)

\* The place of each task in the chain.
LEMMA Positions ==
    /\ Position("ingest") = 1
    /\ Position("bronze") = 2
    /\ Position("silver") = 3
    /\ Position("load_silver_events_to_db") = 4
    /\ Position("build_dbt") = 5
    /\ Position("build_gold_facts") = 6
    /\ Position("reports") = 7
  BY DEF Position, Task

\* The names of the tasks.
LEMMA Names ==
    TaskNames = {"ingest", "bronze", "silver", "load_silver_events_to_db",
                 "build_dbt", "build_gold_facts", "reports"}
  BY DEF TaskNames, Task

\* The task after each task.
LEMMA Afters ==
    /\ After("ingest") = "bronze"
    /\ After("bronze") = "silver"
    /\ After("silver") = "load_silver_events_to_db"
    /\ After("load_silver_events_to_db") = "build_dbt"
    /\ After("build_dbt") = "build_gold_facts"
    /\ After("build_gold_facts") = "reports"
  BY Positions DEF After, Task

\* A task that returns leaves its run well-typed.
LEMMA ReturnsType ==
    ASSUME run \in [Run -> Runs], NEW r \in Run, NEW a \in Runs,
           run[r].task # "reports", Returns(r, a)
    PROVE  run' \in [Run -> Runs]
  <1>1. After(run[r].task) \in TaskNames
    BY Afters, Names DEF Runs
  <1> QED
    BY <1>1 DEF Returns, Runs

-----------------------------------------------------------------------------
(* Type correctness *)

\* The initial states are well-typed.
LEMMA TypeInit == Init => TypeOK
  <1> SUFFICES ASSUME Init PROVE TypeOK
    OBVIOUS
  <1>1. WarehouseTypeOK
    BY NoJobType DEF Init, WarehouseInit, WarehouseTypeOK, Rows, NoRows, Model
  <1>2. ReportsTypeOK
    BY ClosedType DEF Init, ReportsInit, ReportsTypeOK, Files, NoFiles, Rows, NoRows
  <1>3. NoRun \in Runs
    BY BoxAssumption, Names DEF NoRun, Runs
  <1> QED
    BY <1>1, <1>2, <1>3, RunAssumption DEF Init, TypeOK

\* A state is well-typed when its parts are; the parts of the lakehouse keep
\* their type when they are left alone.
LEMMA TypeParts ==
    ASSUME TypeOK, WarehouseTypeOK', ReportsTypeOK', run' \in [Run -> Runs],
           clears' \in 0..MaxClears, UNCHANGED lakehouse
    PROVE  TypeOK'
  BY DEF TypeOK, lakehouse

\* Leaving the warehouse or the reports alone keeps their types.
LEMMA StaysTyped ==
    /\ WarehouseTypeOK /\ UNCHANGED warehouse => WarehouseTypeOK'
    /\ ReportsTypeOK /\ UNCHANGED reports => ReportsTypeOK'
  BY DEF WarehouseTypeOK, ReportsTypeOK, warehouse, reports

\* The steps of the running task keep the state well-typed.
LEMMA WorkType ==
    ASSUME PinInv, NEW r \in Run, Work(r)
    PROVE  TypeOK'
  <1> USE DEF PinInv
  <1>0. /\ run[r] \in Runs /\ r \in Builder
        /\ run \in [Run -> Runs] /\ clears' = clears
        /\ WarehouseTypeOK /\ ReportsTypeOK /\ clears \in 0..MaxClears
    BY RunAssumption DEF TypeOK, Work
  <1>1. CASE \E c \in Content : Ingest(r, c)
    <2> PICK c \in Content : Ingest(r, c)
      BY <1>1
    <2>1. run[r].task # "reports" /\ [run[r] EXCEPT !.content = c] \in Runs
      BY <1>0 DEF Ingest, At, Runs
    <2>2. run' \in [Run -> Runs]
      BY <1>0, <2>1, ReturnsType DEF Ingest
    <2>3. ledger' \in [Match -> Seq(Content)]
      <3>1. CASE UNCHANGED ledger
        BY <3>1 DEF TypeOK
      <3>2. CASE Ledger!Register(run[r].match, c)
        <4>1. ledger' = [ledger EXCEPT ![run[r].match] = Append(@, c)]
          BY <3>2 DEF Ledger!Register
        <4>2. run[r].match \in Match
          BY <1>0 DEF Runs
        <4>3. Append(ledger[run[r].match], c) \in Seq(Content)
          BY <4>2 DEF TypeOK
        <4> QED
          BY <4>1, <4>3 DEF TypeOK
      <3> QED
        BY <3>1, <3>2 DEF Ingest
    <2> QED
      BY <1>0, <2>2, <2>3, StaysTyped DEF Ingest, TypeOK
  <1>2. CASE Bronze(r)
    <2>1. run[r].task # "reports"
      BY <1>2 DEF Bronze, At
    <2>2. run' \in [Run -> Runs]
      BY <1>0, <1>2, <2>1, ReturnsType DEF Bronze
    <2>3. <<run[r].match, run[r].content>> \in Match \X Content
      BY <1>0, <1>2, RunAssumption DEF Bronze, Runs
    <2> QED
      BY <1>0, <1>2, <2>2, <2>3, StaysTyped DEF Bronze, TypeOK
  <1>3. CASE Silver(r)
    <2> DEFINE row == Overwritten(run[r].match, run[r].content)
    <2>1. Current \in [Match -> Content \cup {NoContent}]
      BY DEF Current, EmptyTable, TypeOK
    <2>2. row \in [Match -> Content \cup {NoContent}]
      BY <1>0, <2>1 DEF Overwritten, Runs
    <2>3. lake' = Append(lake, row)
      BY <1>3 DEF Silver
    <2> HIDE DEF row
    <2>4. /\ lake' \in Seq([Match -> Content \cup {NoContent}])
          /\ Len(lake') \in Nat
      BY <2>2, <2>3 DEF TypeOK
    <2>5. /\ run[r].task # "reports"
          /\ [run[r] EXCEPT !.snap = Len(lake')] \in Runs
      BY <1>0, <1>3, <2>4 DEF Silver, At, Runs
    <2>6. run' \in [Run -> Runs]
      BY <1>0, <1>3, <2>5, ReturnsType DEF Silver
    <2> QED
      BY <1>0, <1>3, <2>4, <2>6, StaysTyped DEF Silver, TypeOK
  <1>4. CASE Rejects(r)
    <2>1. run' \in [Run -> Runs]
      BY <1>0, <1>4 DEF Rejects, Runs
    <2> QED
      BY <1>0, <1>4, <2>1, StaysTyped, TypeParts DEF Rejects
  <1>5. CASE Load(r)
    <2>1. run[r].task # "reports" /\ run[r].match \in Match
      BY <1>0, <1>5 DEF Load, At, Runs
    <2>2. run' \in [Run -> Runs]
      BY <1>0, <1>5, <2>1, ReturnsType DEF Load
    <2>3. Scan(run[r].snap, run[r].match) = run[r].content
      BY <1>5 DEF Load, At, SnapshotBehindSilver, PinnedSnapshotIsOwn
    <2>4. WarehouseTypeOK'
      BY <1>0, <1>5, <2>1, <2>3, LoadSrcType DEF Load, Runs
    <2> QED
      BY <1>0, <1>5, <2>2, <2>4, StaysTyped, TypeParts DEF Load
  <1>6. CASE StartDbt(r)
    <2>1. /\ DbtSelect("build_dbt") \subseteq Model
          /\ DbtSelect("build_gold_facts") \subseteq Model
      BY DEF DbtSelect, Model
    <2>2. run[r].match \in Match
      BY <1>0 DEF Runs
    <2>3. WarehouseTypeOK'
      BY <1>0, <1>6, <2>1, <2>2, StartBuildType DEF StartDbt
    <2> QED
      BY <1>0, <1>6, <2>3, StaysTyped, TypeParts DEF StartDbt
  <1>7. CASE RunDbt(r)
    BY <1>0, <1>7, RunNodeType, StaysTyped, TypeParts DEF RunDbt
  <1>8. CASE EndDbt(r)
    <2>1. WarehouseTypeOK'
      BY <1>0, <1>8, CloseBuildType DEF EndDbt
    <2>2. run[r].task # "reports"
      BY <1>8 DEF EndDbt, Exited, Busy
    <2>3. run' \in [Run -> Runs]
      <3>1. CASE job[r].failed
        BY <1>0, <1>8, <3>1 DEF EndDbt, Runs
      <3>2. CASE ~job[r].failed
        BY <1>0, <1>8, <2>2, <3>2, ReturnsType DEF EndDbt
      <3> QED
        BY <3>1, <3>2
    <2> QED
      BY <1>0, <1>8, <2>1, <2>3, StaysTyped, TypeParts DEF EndDbt
  <1>9. CASE Report(r)
    <2>1. run[r].match \in Match
      BY <1>0 DEF Runs
    <2>2. ReportsTypeOK'
      BY <1>0, <1>9, <2>1, ReportsType DEF Report
    <2> QED
      BY <1>0, <1>9, <2>2, StaysTyped, TypeParts DEF Report
  <1>10. CASE EndReports(r)
    <2>1. run[r].match \in Match
      BY <1>0 DEF Runs
    <2>2. ReportsTypeOK'
      BY <1>0, <1>10, <2>1, ReportsType DEF EndReports
    <2>3. run' \in [Run -> Runs]
      BY <1>0, <1>10 DEF EndReports, Runs
    <2> QED
      BY <1>0, <1>10, <2>2, <2>3, StaysTyped, TypeParts DEF EndReports
  <1> QED
    BY <1>1, <1>2, <1>3, <1>4, <1>5, <1>6, <1>7, <1>8, <1>9, <1>10 DEF Work

\* The steps of the scheduler, the operator and failing tasks keep the state
\* well-typed.
LEMMA ControlType ==
    ASSUME TypeOK, NEW r \in Run,
           \/ \E m \in Match : Trigger(r, m)
           \/ Begin(r)
           \/ \E t \in TaskNames : Clear(r, t)
           \/ TaskFails(r)
    PROVE  TypeOK'
  <1>0. /\ run[r] \in Runs /\ run \in [Run -> Runs]
        /\ WarehouseTypeOK /\ ReportsTypeOK /\ clears \in 0..MaxClears
    BY DEF TypeOK
  <1>1. ASSUME NEW m \in Match, Trigger(r, m) PROVE TypeOK'
    <2>1. [NoRun EXCEPT !.state = "queued", !.match = m] \in Runs
      BY Names DEF NoRun, Runs
    <2>2. run' \in [Run -> Runs]
      BY <1>0, <1>1, <2>1 DEF Trigger
    <2> QED
      BY <1>0, <1>1, <2>2, StaysTyped, TypeParts DEF Trigger
  <1>2. CASE Begin(r)
    <2>1. run' \in [Run -> Runs]
      BY <1>0, <1>2 DEF Begin, Runs
    <2> QED
      BY <1>0, <1>2, <2>1, StaysTyped, TypeParts DEF Begin
  <1>3. ASSUME NEW t \in TaskNames, Clear(r, t) PROVE TypeOK'
    <2>1. run' \in [Run -> Runs]
      BY <1>0, <1>3 DEF Clear, Runs
    <2>2. clears' \in 0..MaxClears
      <3>1. MaxClears \in Nat
        BY RunAssumption
      <3>2. clears' = clears + 1 /\ clears < MaxClears
        BY <1>3 DEF Clear
      <3> QED
        BY <1>0, <3>1, <3>2
    <2> QED
      BY <1>0, <1>3, <2>1, <2>2, StaysTyped, TypeParts DEF Clear
  <1>4. CASE TaskFails(r)
    <2>1. run' \in [Run -> Runs]
      BY <1>0, <1>4 DEF TaskFails, Runs
    <2>2. WarehouseTypeOK'
      BY <1>0, <1>4, NoJobType DEF TaskFails, WarehouseTypeOK
    <2>3. ReportsTypeOK'
      BY <1>0, <1>4, ClosedType DEF TaskFails, ReportsTypeOK
    <2> QED
      BY <1>0, <1>4, <2>1, <2>2, <2>3, TypeParts DEF TaskFails
  <1> QED
    BY <1>1, <1>2, <1>3, <1>4

-----------------------------------------------------------------------------
(* Who holds a build, a call or a snapshot *)

\* No build and no call is open at first, and no run carries a snapshot.
LEMMA PinInit == Init => PinInv
  <1> SUFFICES ASSUME Init PROVE PinInv
    OBVIOUS
  <1>1. Run \subseteq Builder
    BY RunAssumption
  <1>2. Busy
    BY <1>1 DEF Init, WarehouseInit, ReportsInit, Busy, NoJob, Closed
  <1>3. SnapshotBehindSilver /\ PinnedSnapshotIsOwn
    BY DEF Init, NoRun, SnapshotBehindSilver, PinnedSnapshotIsOwn
  <1> QED
    BY <1>2, <1>3, TypeInit DEF PinInv

\* Builds and calls are opened by running tasks and closed before the task
\* is left.
LEMMA BusyStep ==
    ASSUME PinInv, [Next]_vars
    PROVE  Busy'
  <1> USE DEF PinInv
  <1>0. /\ Run \subseteq Builder /\ run \in [Run -> Runs]
        /\ job \in [Builder -> Jobs] /\ desk \in [Builder -> Desk]
    BY RunAssumption DEF TypeOK, WarehouseTypeOK, ReportsTypeOK
  <1>1. CASE UNCHANGED vars
    BY <1>1 DEF vars, Busy
  <1>2. ASSUME NEW r \in Run, NEW m \in Match, Trigger(r, m) PROVE Busy'
    BY <1>0, <1>2 DEF Trigger, Busy, warehouse, reports, NoRun
  <1>3. ASSUME NEW r \in Run, Begin(r) PROVE Busy'
    BY <1>0, <1>3 DEF Begin, Busy, warehouse, reports, Runs
  <1>4. ASSUME NEW r \in Run, NEW t \in TaskNames, Clear(r, t) PROVE Busy'
    BY <1>0, <1>4 DEF Clear, Busy, warehouse, reports, Runs
  <1>5. ASSUME NEW r \in Run, TaskFails(r) PROVE Busy'
    BY <1>0, <1>5 DEF TaskFails, Busy, NoJob, Closed, Runs
  <1>6. ASSUME NEW r \in Run, Work(r) PROVE Busy'
    <2>1. ASSUME At(r, "ingest") \/ At(r, "bronze") \/ At(r, "silver")
                    \/ At(r, "load_silver_events_to_db"),
                 UNCHANGED <<job, desk>>,
                 \A q \in Run : q # r => run'[q] = run[q]
          PROVE  Busy'
      BY <1>0, <2>1 DEF At, Busy
    <2>2. CASE \E c \in Content : Ingest(r, c)
      BY <1>0, <2>1, <2>2 DEF Ingest, Returns, warehouse, reports
    <2>3. CASE Bronze(r)
      BY <1>0, <2>1, <2>3 DEF Bronze, Returns, warehouse, reports
    <2>4. CASE Silver(r)
      BY <1>0, <2>1, <2>4 DEF Silver, Returns, warehouse, reports
    <2>5. CASE Rejects(r)
      BY <1>0, <2>1, <2>5 DEF Rejects, warehouse, reports
    <2>6. CASE Load(r)
      BY <1>0, <2>1, <2>6 DEF Load, LoadSrc, Returns, reports
    <2>7. CASE StartDbt(r)
      BY <1>0, <2>7 DEF StartDbt, StartBuild, At, Busy, reports
    <2>8. CASE RunDbt(r)
      BY <1>0, <2>8 DEF RunDbt, RunNode, RunModel, RunTest, Ready, Busy, reports, Jobs
    <2>9. CASE EndDbt(r)
      <3>1. /\ job' = [job EXCEPT ![r] = NoJob] /\ desk' = desk
            /\ run[r].task # "reports"
            /\ \A q \in Run : q # r => run'[q] = run[q]
        BY <1>0, <2>9 DEF EndDbt, CloseBuild, Exited, Returns, Busy, reports
      <3> QED
        BY <1>0, <3>1 DEF Busy, NoJob
    <2>10. CASE Report(r)
      <3>1. desk[r].step # "closed" \/ At(r, "reports")
        BY <2>10 DEF Report, ReadRows, Draw, Drawable
      <3>2. /\ job' = job /\ run' = run
            /\ \A q \in Run : q # r => desk'[q] = desk[q]
        BY <1>0, <2>10 DEF Report, StartReports, ReadRows, Draw, warehouse
      <3> QED
        BY <1>0, <3>1, <3>2 DEF Busy, At
    <2>11. CASE EndReports(r)
      <3>1. /\ job' = job /\ desk' = [desk EXCEPT ![r] = Closed]
            /\ run[r].task = "reports" /\ ~job[r].open
            /\ \A q \in Run : q # r => run'[q] = run[q]
        BY <1>0, <2>11 DEF EndReports, CloseReports, Busy, warehouse
      <3> QED
        BY <1>0, <3>1 DEF Busy, Closed
    <2> QED
      BY <1>6, <2>2, <2>3, <2>4, <2>5, <2>6, <2>7, <2>8, <2>9, <2>10, <2>11
         DEF Work
  <1> QED
    BY <1>1, <1>2, <1>3, <1>4, <1>5, <1>6 DEF Next

\* While the table stays, both facts about snapshots stay when each run keeps
\* its snapshot with its match and payload, or goes back before Silver.
LEMMA PinKept ==
    ASSUME SnapshotBehindSilver, PinnedSnapshotIsOwn, lake' = lake,
           \A r \in Run :
               /\ run'[r].snap # 0 <=>
                       run'[r].task \notin {"ingest", "bronze", "silver"}
               /\ run'[r].snap # 0 => /\ run'[r].snap = run[r].snap
                                      /\ run'[r].match = run[r].match
                                      /\ run'[r].content = run[r].content
    PROVE  SnapshotBehindSilver' /\ PinnedSnapshotIsOwn'
  BY DEF SnapshotBehindSilver, PinnedSnapshotIsOwn, Scan

\* The two facts stay when a run leaves one task for another that is on the
\* same side of Silver, or only changes its state.
LEMMA PinAdvance ==
    ASSUME PinInv, lake' = lake, NEW r \in Run,
           NEW a \in Runs, run' = [run EXCEPT ![r] = a],
           a.match = run[r].match, a.snap = run[r].snap,
           a.content = run[r].content \/ a.snap = 0,
           a.task \in {"ingest", "bronze", "silver"} <=>
               run[r].task \in {"ingest", "bronze", "silver"}
    PROVE  SnapshotBehindSilver' /\ PinnedSnapshotIsOwn'
  <1>1. run \in [Run -> Runs]
    BY DEF PinInv, TypeOK
  <1> QED
    BY <1>1, PinKept DEF PinInv, SnapshotBehindSilver

\* The same, for a task other than Silver that returns.
LEMMA PinReturns ==
    ASSUME PinInv, lake' = lake, NEW r \in Run, NEW a \in Runs, Returns(r, a),
           a = run[r] \/ a = [run[r] EXCEPT !.content = a.content],
           a.content = run[r].content \/ run[r].snap = 0,
           run[r].task \notin {"silver", "reports"}
    PROVE  SnapshotBehindSilver' /\ PinnedSnapshotIsOwn'
  <1>1. run[r] \in Runs
    BY DEF PinInv, TypeOK
  <1>2. CASE run' = [run EXCEPT ![r].state = "failed"]
    <2> DEFINE b == [run[r] EXCEPT !.state = "failed"]
    <2>1. /\ b \in Runs /\ run' = [run EXCEPT ![r] = b]
          /\ b.match = run[r].match /\ b.snap = run[r].snap
          /\ b.content = run[r].content /\ b.task = run[r].task
      BY <1>1, <1>2 DEF Runs
    <2> HIDE DEF b
    <2> QED
      BY <2>1, PinAdvance
  <1>3. CASE run' = [run EXCEPT ![r] = [a EXCEPT !.task = After(run[r].task)]]
    <2> DEFINE b == [a EXCEPT !.task = After(run[r].task)]
    <2>1. /\ After(run[r].task) \in TaskNames
          /\ After(run[r].task) \in {"ingest", "bronze", "silver"} <=>
                run[r].task \in {"ingest", "bronze", "silver"}
      BY <1>1, Afters, Names DEF Runs
    <2>2. /\ b \in Runs /\ run' = [run EXCEPT ![r] = b]
          /\ b.match = run[r].match /\ b.snap = run[r].snap
          /\ b.content = run[r].content \/ b.snap = 0
          /\ b.task = After(run[r].task)
      BY <1>1, <1>3, <2>1 DEF Runs
    <2> HIDE DEF b
    <2> QED
      BY <2>1, <2>2, PinAdvance
  <1> QED
    BY <1>2, <1>3 DEF Returns

\* The commit of Silver appends a snapshot whose rows of the match are the
\* payload of the run, and leaves the snapshots of the others alone.
LEMMA PinSilver ==
    ASSUME PinInv, TypeOK', NEW r \in Run, Silver(r)
    PROVE  SnapshotBehindSilver' /\ PinnedSnapshotIsOwn'
  <1> DEFINE m == run[r].match
             c == run[r].content
             row == Overwritten(m, c)
  <1>0. /\ run \in [Run -> Runs] /\ run[r] \in Runs /\ m \in Match
        /\ lake \in Seq([Match -> Content \cup {NoContent}])
        /\ run[r].task = "silver"
    BY DEF PinInv, TypeOK, Runs, Silver, At
  <1>1. row \in [Match -> Content \cup {NoContent}] /\ row[m] = c
    <2>1. Current \in [Match -> Content \cup {NoContent}]
      BY <1>0 DEF Current, EmptyTable
    <2>2. c \in Content \cup {NoContent}
      BY <1>0 DEF Runs
    <2> QED
      BY <1>0, <2>1, <2>2 DEF Overwritten
  <1>2. lake' = Append(lake, row)
    BY DEF Silver
  <1> HIDE DEF row
  <1>3. /\ Len(lake') = Len(lake) + 1 /\ Len(lake) \in Nat
        /\ lake'[Len(lake) + 1] = row
        /\ \A i \in DOMAIN lake : i \in DOMAIN lake' /\ lake'[i] = lake[i]
        /\ Len(lake') \in DOMAIN lake'
    BY <1>0, <1>1, <1>2
  <1>4. ASSUME NEW q \in Run, q # r
        PROVE  /\ run'[q].snap # 0 <=>
                      run'[q].task \notin {"ingest", "bronze", "silver"}
               /\ run'[q].snap # 0 =>
                     /\ run'[q].snap \in DOMAIN lake'
                     /\ lake'[run'[q].snap][run'[q].match] = run'[q].content
    <2>1. run'[q] = run[q]
      BY <1>0, <1>4 DEF Silver, Returns
    <2> QED
      BY <1>3, <2>1 DEF PinInv, SnapshotBehindSilver, PinnedSnapshotIsOwn, Scan
  <1>5. /\ run'[r].snap # 0 <=>
               run'[r].task \notin {"ingest", "bronze", "silver"}
        /\ run'[r].snap # 0 =>
              /\ run'[r].snap \in DOMAIN lake'
              /\ lake'[run'[r].snap][run'[r].match] = run'[r].content
    <2>1. CASE run' = [run EXCEPT ![r].state = "failed"]
      <3>1. /\ run'[r].snap = run[r].snap /\ run'[r].task = "silver"
        BY <1>0, <2>1 DEF Runs
      <3>2. run[r].snap = 0
        BY <1>0 DEF PinInv, SnapshotBehindSilver
      <3> QED
        BY <3>1, <3>2
    <2>2. CASE run' = [run EXCEPT ![r] =
                [[run[r] EXCEPT !.snap = Len(lake')] EXCEPT !.task = After("silver")]]
      <3>1. /\ run'[r].snap = Len(lake')
            /\ run'[r].task = "load_silver_events_to_db"
            /\ run'[r].match = m /\ run'[r].content = c
        BY <1>0, <2>2, Afters DEF Runs
      <3> QED
        BY <1>1, <1>3, <3>1
    <2> QED
      BY <1>0, <2>1, <2>2 DEF Silver, Returns
  <1> QED
    BY <1>4, <1>5 DEF SnapshotBehindSilver, PinnedSnapshotIsOwn, Scan

\* Every step keeps the inductive invariant.
LEMMA PinStep == PinInv /\ [Next]_vars => PinInv'
  <1> SUFFICES ASSUME PinInv, [Next]_vars PROVE PinInv'
    OBVIOUS
  <1>0. /\ run \in [Run -> Runs] /\ TypeOK
        /\ Busy'
    BY BusyStep DEF PinInv, TypeOK
  <1>1. CASE UNCHANGED vars
    <2>1. TypeOK'
      BY <1>0, <1>1 DEF vars, TypeOK, WarehouseTypeOK, ReportsTypeOK
    <2> QED
      BY <1>0, <1>1, <2>1 DEF vars, PinInv, SnapshotBehindSilver,
                              PinnedSnapshotIsOwn, Scan
  <1>2. ASSUME NEW r \in Run, NEW m \in Match, Trigger(r, m) PROVE PinInv'
    <2> DEFINE a == [NoRun EXCEPT !.state = "queued", !.match = m]
    <2>1. a.snap = 0 /\ a.task = "ingest"
      BY DEF NoRun
    <2>2. run' = [run EXCEPT ![r] = a] /\ lake' = lake
      BY <1>2 DEF Trigger, lakehouse
    <2> HIDE DEF a
    <2>3. SnapshotBehindSilver' /\ PinnedSnapshotIsOwn'
      BY <1>0, <2>1, <2>2, PinKept DEF PinInv, SnapshotBehindSilver
    <2> QED
      BY <1>0, <1>2, <2>3, ControlType DEF PinInv
  <1>3. ASSUME NEW r \in Run, NEW s \in {"running", "failed"},
               run' = [run EXCEPT ![r].state = s], lake' = lake
        PROVE  SnapshotBehindSilver' /\ PinnedSnapshotIsOwn'
    BY <1>0, <1>3, PinKept DEF PinInv, SnapshotBehindSilver, Runs
  <1>4. ASSUME NEW r \in Run, Begin(r) PROVE PinInv'
    BY <1>0, <1>3, <1>4, ControlType DEF Begin, lakehouse, PinInv
  <1>5. ASSUME NEW r \in Run, TaskFails(r) PROVE PinInv'
    BY <1>0, <1>3, <1>5, ControlType DEF TaskFails, lakehouse, PinInv
  <1>6. ASSUME NEW r \in Run, NEW t \in TaskNames, Clear(r, t) PROVE PinInv'
    <2>1. run[r] \in Runs /\ lake' = lake
      BY <1>0, <1>6 DEF Clear, lakehouse
    <2>2. /\ run'[r].task = t /\ run'[r].match = run[r].match
          /\ run'[r].content = IF t = "ingest" THEN NoContent ELSE run[r].content
          /\ run'[r].snap = IF Position(t) <= Position("silver") THEN 0
                                                               ELSE run[r].snap
          /\ \A q \in Run : q # r => run'[q] = run[q]
          /\ Position(t) <= Position(run[r].task)
      BY <1>0, <1>6, <2>1 DEF Clear, Runs
    <2>3. Position(t) <= Position("silver") <=> t \in {"ingest", "bronze", "silver"}
      BY Positions, Names
    <2>4. t \notin {"ingest", "bronze", "silver"} =>
             run[r].task \notin {"ingest", "bronze", "silver"}
      BY <2>1, <2>2, Positions, Names DEF Runs
    <2>5. SnapshotBehindSilver' /\ PinnedSnapshotIsOwn'
      BY <2>1, <2>2, <2>3, <2>4, PinKept DEF PinInv, SnapshotBehindSilver
    <2> QED
      BY <1>0, <1>6, <2>5, ControlType DEF PinInv
  <1>7. ASSUME NEW r \in Run, Work(r) PROVE PinInv'
    <2>0. TypeOK' /\ run[r] \in Runs
      BY <1>0, <1>7, WorkType
    <2>1. CASE \E c \in Content : Ingest(r, c)
      <3> PICK c \in Content : Ingest(r, c)
        BY <2>1
      <3> DEFINE a == [run[r] EXCEPT !.content = c]
      <3>1. /\ a \in Runs /\ a.content = c
            /\ run[r].task = "ingest" /\ lake' = lake
            /\ Returns(r, a)
        BY <2>0 DEF Runs, Ingest, At
      <3>2. run[r].snap = 0
        BY <3>1 DEF PinInv, SnapshotBehindSilver
      <3>3. a = [run[r] EXCEPT !.content = a.content]
        BY <3>1
      <3> HIDE DEF a
      <3> QED
        BY <1>0, <2>0, <3>1, <3>2, <3>3, PinReturns DEF PinInv
    <2>2. CASE Bronze(r)
      <3>1. run[r].task = "bronze" /\ lake' = lake /\ Returns(r, run[r])
        BY <2>2 DEF Bronze, At
      <3> QED
        BY <1>0, <2>0, <3>1, PinReturns DEF PinInv
    <2>3. CASE Silver(r)
      BY <1>0, <2>0, <2>3, PinSilver DEF PinInv
    <2>4. CASE Rejects(r)
      BY <1>0, <1>3, <2>0, <2>4 DEF Rejects, lakehouse, PinInv
    <2>5. CASE Load(r)
      <3>1. /\ run[r].task = "load_silver_events_to_db" /\ lake' = lake
            /\ Returns(r, run[r])
        BY <2>5 DEF Load, At, lakehouse
      <3> QED
        BY <1>0, <2>0, <3>1, PinReturns DEF PinInv
    <2>6. CASE StartDbt(r) \/ RunDbt(r) \/ Report(r)
      <3>1. run' = run /\ lake' = lake
        BY <2>6 DEF StartDbt, RunDbt, Report, lakehouse
      <3> QED
        BY <1>0, <2>0, <3>1, PinKept DEF PinInv, SnapshotBehindSilver
    <2>7. CASE EndDbt(r)
      <3>1. /\ run[r].task \in {"build_dbt", "build_gold_facts"} /\ lake' = lake
            /\ run' = [run EXCEPT ![r].state = "failed"] \/ Returns(r, run[r])
        BY <2>7 DEF EndDbt, Exited, lakehouse, PinInv, Busy
      <3> QED
        BY <1>0, <1>3, <2>0, <3>1, PinReturns DEF PinInv
    <2>8. CASE EndReports(r)
      <3>1. /\ lake' = lake
            /\ \E s \in {"success", "failed"} : run' = [run EXCEPT ![r].state = s]
        BY <2>8 DEF EndReports, lakehouse
      <3> QED
        BY <1>0, <2>0, <3>1, PinKept DEF PinInv, SnapshotBehindSilver, Runs
    <2> QED
      BY <1>7, <2>1, <2>2, <2>3, <2>4, <2>5, <2>6, <2>7, <2>8 DEF Work
  <1> QED
    BY <1>1, <1>2, <1>4, <1>5, <1>6, <1>7 DEF Next

-----------------------------------------------------------------------------
(* The theorems *)

\* The inductive invariant holds in every behaviour.
LEMMA PinInvariant == Spec => []PinInv
  <1> QED
    BY PinInit, PinStep, PTL DEF Spec

\* The state of the pipeline is always well-typed: no sequence of tasks,
\* failures and cleared tasks makes a task read an XCom that is not there.
THEOREM TypeCorrect == Spec => []TypeOK
  <1>1. PinInv => TypeOK
    BY DEF PinInv
  <1> QED
    BY <1>1, PinInvariant, PTL

\* Snapshot pinning holds for any number of runs of any matches, failures
\* and cleared tasks: the snapshot a run carries holds the payload it
\* ingested.
THEOREM PinnedSnapshotAlwaysOwn == Spec => []PinnedSnapshotIsOwn
  <1>1. PinInv => PinnedSnapshotIsOwn
    BY DEF PinInv
  <1> QED
    BY <1>1, PinInvariant, PTL

-----------------------------------------------------------------------------
(* Provenance *)

\* What a run ingested is in the manifest, and so is what has a Bronze file.
Registered ==
    /\ \A r \in Run : run[r].content # NoContent =>
           run[r].content \in Ledger!Payloads(run[r].match)
    /\ \A m \in Match, c \in Content :
           <<m, c>> \in bronze => c \in Ledger!Payloads(m)

\* Every snapshot holds accepted, registered payloads with a Bronze file.
Vouched ==
    \A m \in Match : \A c \in Committed(m) :
        c \in Valid /\ <<m, c>> \in bronze /\ c \in Ledger!Payloads(m)

\* The loaded, staged and fact rows are of committed payloads.
ServedRows ==
    \A m \in Match :
        /\ {src[m], stg[m]} \ {NoContent} \subseteq Committed(m)
        /\ \A t \in Team :
              {team[m][t], ivl[m][t]} \ {NoContent} \subseteq
                  {c \in Committed(m) : t \in DOMAIN Box[c]}

\* The same of the files, and of what a report has read.
ServedFiles ==
    /\ \A m \in Match :
          /\ {files[m].shots, files[m].xg_timeline} \ {NoContent} \subseteq Committed(m)
          /\ \A t \in Team :
                {files[m].summary[t], files[m].xt_momentum[t]} \ {NoContent} \subseteq
                    {c \in Committed(m) : t \in DOMAIN Box[c]}
    /\ \A b \in Builder :
          /\ {desk[b].stg} \ {NoContent} \subseteq Committed(desk[b].match)
          /\ \A t \in Team :
                {desk[b].team[t], desk[b].ivl[t]} \ {NoContent} \subseteq
                    {c \in Committed(desk[b].match) : t \in DOMAIN Box[c]}

\* What makes Provenance inductive.
ProvInv == PinInv /\ Registered /\ Vouched /\ ServedRows /\ ServedFiles

\* Nothing is committed, staged, built or drawn at first.
LEMMA ProvInit == Init => ProvInv
  <1> SUFFICES ASSUME Init PROVE ProvInv
    OBVIOUS
  <1>1. Registered /\ Vouched
    BY DEF Init, Registered, Vouched, NoRun, Committed
  <1>2. ServedRows
    BY DEF Init, WarehouseInit, ServedRows, NoRows
  <1>3. ServedFiles
    BY DEF Init, ReportsInit, ServedFiles, NoFiles, Closed, NoRows
  <1> QED
    BY <1>1, <1>2, <1>3, PinInit DEF ProvInv

\* Registering a payload keeps the payloads already registered.
LEMMA PayloadsGrow ==
    ASSUME TypeOK, NEW m \in Match, NEW c \in Content, Ledger!Register(m, c)
    PROVE  /\ c \in Ledger!Payloads(m)'
           /\ \A k \in Match : Ledger!Payloads(k) \subseteq Ledger!Payloads(k)'
  <1>1. /\ ledger \in [Match -> Seq(Content)]
        /\ ledger' = [ledger EXCEPT ![m] = Append(ledger[m], c)]
    BY DEF TypeOK, Ledger!Register
  <1>2. /\ Len(ledger[m]) + 1 \in DOMAIN ledger'[m]
        /\ ledger'[m][Len(ledger[m]) + 1] = c
        /\ \A i \in DOMAIN ledger[m] :
              i \in DOMAIN ledger'[m] /\ ledger'[m][i] = ledger[m][i]
    BY <1>1
  <1>3. \A k \in Match : k # m => ledger'[k] = ledger[k]
    BY <1>1
  <1> QED
    BY <1>2, <1>3 DEF Ledger!Payloads

\* What is served stays accounted for while the table only grows and the
\* tables, the reports and the calls are left alone.
LEMMA ServedKept ==
    ASSUME ServedRows, ServedFiles, UNCHANGED <<src, stg, team, ivl, files, desk>>,
           \A m \in Match : Committed(m) \subseteq Committed(m)',
           desk \in [Builder -> Desk]
    PROVE  ServedRows' /\ ServedFiles'
  <1>1. ServedRows'
    BY DEF ServedRows
  <1>2. \A b \in Builder : desk[b].match \in Match
    BY DEF Desk
  <1>3. ServedFiles'
    BY <1>2 DEF ServedFiles
  <1> QED
    BY <1>1, <1>3

\* Building a model of one match, or of all, keeps the rows accounted for.
LEMMA RunNodeServed ==
    ASSUME TypeOK, ServedRows, NEW b \in Builder, RunNode(b), lake' = lake
    PROVE  ServedRows'
  <1> PICK n \in job[b].todo : RunModel(b, n) \/ RunTest(b, n)
    BY DEF RunNode
  <1>0. /\ \A m \in Match : Committed(m)' = Committed(m)
        /\ stg \in [Match -> Content \cup {NoContent}]
        /\ team \in [Match -> Rows] /\ ivl \in [Match -> Rows]
    BY DEF Committed, TypeOK, WarehouseTypeOK
  <1>1. CASE RunTest(b, n)
    BY <1>0, <1>1 DEF RunTest, ServedRows
  <1>2. CASE RunModel(b, n)
    <2>0. src' = src
      BY <1>2 DEF RunModel
    <2>1. ASSUME NEW rows \in Rows, NEW m \in Match, NEW t \in Team,
                 {rows[t]} \ {NoContent} \subseteq
                     {c \in Committed(m) : t \in DOMAIN Box[c]}
          PROVE  {Merge(rows, stg[m])[t]} \ {NoContent} \subseteq
                     {c \in Committed(m) : t \in DOMAIN Box[c]}
      BY <2>1 DEF Merge, ServedRows
    <2>2. CASE BuildStg(job[b].match)
      BY <1>0, <2>0, <2>2 DEF BuildStg, ServedRows
    <2>3. CASE BuildTeam(job[b].match)
      <3>1. \A m \in Match : team'[m] \in {team[m], Merge(team[m], stg[m])}
        BY <2>3 DEF BuildTeam
      <3>2. /\ \A m \in Match, t \in Team :
                  {team'[m][t]} \ {NoContent} \subseteq
                      {c \in Committed(m) : t \in DOMAIN Box[c]}
            /\ stg' = stg /\ ivl' = ivl
        BY <1>0, <2>1, <2>3, <3>1 DEF BuildTeam, ServedRows
      <3> QED
        BY <1>0, <2>0, <3>2 DEF ServedRows
    <2>4. CASE BuildIntervals(job[b].match)
      <3>1. \A m \in Match : ivl'[m] \in {ivl[m], Merge(ivl[m], stg[m])}
        BY <2>4 DEF BuildIntervals
      <3>2. /\ \A m \in Match, t \in Team :
                  {ivl'[m][t]} \ {NoContent} \subseteq
                      {c \in Committed(m) : t \in DOMAIN Box[c]}
            /\ stg' = stg /\ team' = team
        BY <1>0, <2>1, <2>4, <3>1 DEF BuildIntervals, ServedRows
      <3> QED
        BY <1>0, <2>0, <3>2 DEF ServedRows
    <2> QED
      BY <1>2, <2>2, <2>3, <2>4 DEF RunModel
  <1> QED
    BY <1>1, <1>2

\* Entering, going through and leaving generate_reports keep what was read
\* and drawn accounted for.
LEMMA ReportServed ==
    ASSUME TypeOK, ServedRows, ServedFiles, NEW b \in Builder, NEW k \in Match,
           lake' = lake,
           StartReports(b, k) \/ ReadRows(b) \/ Draw(b) \/ CloseReports(b)
    PROVE  ServedFiles'
  <1>0. /\ \A m \in Match : Committed(m)' = Committed(m)
        /\ desk \in [Builder -> Desk] /\ files \in [Match -> Files]
        /\ desk[b] \in Desk /\ desk[b].match \in Match
    BY DEF Committed, TypeOK, ReportsTypeOK, Desk
  <1>1. ASSUME files' = files, \A q \in Builder : q # b => desk'[q] = desk[q],
               LET n == desk'[b]
                   d == desk[b] IN
               \/ n.stg = NoContent /\ n.team = NoRows /\ n.ivl = NoRows
               \/ /\ n.match = d.match
                  /\ n.stg \in {d.stg, stg[d.match]}
                  /\ n.team \in {d.team, team[d.match]}
                  /\ n.ivl \in {d.ivl, ivl[d.match]}
        PROVE  ServedFiles'
    <2>1. \A q \in Builder : desk[q].match \in Match
      BY <1>0 DEF Desk
    <2>2. {desk'[b].stg} \ {NoContent} \subseteq Committed(desk'[b].match)
      BY <1>0, <1>1 DEF ServedRows, ServedFiles
    <2>3. ASSUME NEW t \in Team
          PROVE  {desk'[b].team[t], desk'[b].ivl[t]} \ {NoContent} \subseteq
                     {c \in Committed(desk'[b].match) : t \in DOMAIN Box[c]}
      <3>1. /\ {desk[b].team[t], desk[b].ivl[t]} \ {NoContent} \subseteq
                   {c \in Committed(desk[b].match) : t \in DOMAIN Box[c]}
            /\ {team[desk[b].match][t], ivl[desk[b].match][t]} \ {NoContent} \subseteq
                   {c \in Committed(desk[b].match) : t \in DOMAIN Box[c]}
        BY <1>0 DEF ServedRows, ServedFiles
      <3>2. NoRows[t] = NoContent
        BY DEF NoRows
      <3> QED
        BY <1>1, <3>1, <3>2
    <2>4. \A m \in Match :
             /\ ({files[m].shots, files[m].xg_timeline} \ {NoContent} \subseteq Committed(m))'
             /\ \A t \in Team :
                   ({files[m].summary[t], files[m].xt_momentum[t]} \ {NoContent} \subseteq
                       {c \in Committed(m) : t \in DOMAIN Box[c]})'
      BY <1>0, <1>1 DEF ServedFiles
    <2>5. Committed(desk[b].match)' = Committed(desk'[b].match)
      BY lake' = lake DEF Committed
    <2>6. ASSUME NEW q \in Builder
          PROVE  /\ ({desk[q].stg} \ {NoContent} \subseteq Committed(desk[q].match))'
                 /\ \A t \in Team :
                       ({desk[q].team[t], desk[q].ivl[t]} \ {NoContent} \subseteq
                           {c \in Committed(desk[q].match) : t \in DOMAIN Box[c]})'
      <3>1. CASE q = b
        BY <2>2, <2>3, <2>5, <3>1
      <3>2. CASE q # b
        <4>1. desk'[q] = desk[q] /\ desk[q].match \in Match
          BY <1>1, <2>1, <3>2
        <4> QED
          BY <1>0, <4>1 DEF ServedFiles
      <3> QED
        BY <3>1, <3>2
    <2> QED
      BY <2>4, <2>6 DEF ServedFiles
  <1>2. CASE StartReports(b, k)
    <2>1. desk'[b].stg = NoContent /\ desk'[b].team = NoRows /\ desk'[b].ivl = NoRows
      BY <1>0, <1>2 DEF StartReports, Closed
    <2> QED
      BY <1>0, <1>1, <1>2, <2>1 DEF StartReports
  <1>3. CASE CloseReports(b)
    <2>1. desk'[b].stg = NoContent /\ desk'[b].team = NoRows /\ desk'[b].ivl = NoRows
      BY <1>0, <1>3 DEF CloseReports, Closed
    <2> QED
      BY <1>0, <1>1, <1>3, <2>1 DEF CloseReports
  <1>4. CASE ReadRows(b)
    <2>1. /\ files' = files /\ \A q \in Builder : q # b => desk'[q] = desk[q]
          /\ desk'[b].match = desk[b].match
          /\ desk'[b].stg \in {desk[b].stg, stg[desk[b].match]}
          /\ desk'[b].team \in {desk[b].team, team[desk[b].match]}
          /\ desk'[b].ivl \in {desk[b].ivl, ivl[desk[b].match]}
      BY <1>0, <1>4 DEF ReadRows, Desk
    <2> QED
      BY <1>1, <2>1
  <1>5. CASE Draw(b)
    <2> DEFINE m == desk[b].match
    <2>1. desk[b].step \in {"summary", "shots", "xg_timeline", "xt_momentum"}
      BY <1>0, <1>5 DEF Draw, Drawable, Desk, Step
    <2>2. /\ \A k2 \in Match : k2 # m => files'[k2] = files[k2]
          /\ files'[m].shots \in {files[m].shots, desk[b].stg}
          /\ files'[m].xg_timeline \in {files[m].xg_timeline, desk[b].stg}
          /\ files'[m].summary \in {files[m].summary, desk[b].team}
          /\ files'[m].xt_momentum \in {files[m].xt_momentum, desk[b].ivl}
      BY <1>0, <1>5, <2>1 DEF Draw, Files
    <2>3. \A q \in Builder : /\ desk'[q].stg = desk[q].stg
                             /\ desk'[q].team = desk[q].team
                             /\ desk'[q].ivl = desk[q].ivl
                             /\ desk'[q].match = desk[q].match
                             /\ desk[q].match \in Match
      BY <1>0, <1>5 DEF Draw, Desk
    <2>4. ASSUME NEW k2 \in Match
          PROVE  /\ ({files[k2].shots, files[k2].xg_timeline} \ {NoContent}
                        \subseteq Committed(k2))'
                 /\ \A t \in Team :
                       ({files[k2].summary[t], files[k2].xt_momentum[t]} \ {NoContent} \subseteq
                           {c \in Committed(k2) : t \in DOMAIN Box[c]})'
      <3>1. CASE k2 # m
        BY <1>0, <2>2, <3>1 DEF ServedFiles
      <3>2. CASE k2 = m
        <4>1. /\ {files[m].shots, files[m].xg_timeline, desk[b].stg} \ {NoContent}
                    \subseteq Committed(m)
              /\ \A t \in Team :
                    {files[m].summary[t], files[m].xt_momentum[t], desk[b].team[t], desk[b].ivl[t]}
                        \ {NoContent} \subseteq {c \in Committed(m) : t \in DOMAIN Box[c]}
          BY <1>0 DEF ServedFiles
        <4> QED
          BY <1>0, <2>2, <3>2, <4>1
      <3> QED
        BY <3>1, <3>2
    <2>5. ASSUME NEW q \in Builder
          PROVE  /\ ({desk[q].stg} \ {NoContent} \subseteq Committed(desk[q].match))'
                 /\ \A t \in Team :
                       ({desk[q].team[t], desk[q].ivl[t]} \ {NoContent} \subseteq
                           {c \in Committed(desk[q].match) : t \in DOMAIN Box[c]})'
      BY <1>0, <2>3 DEF ServedFiles
    <2> QED
      BY <2>4, <2>5 DEF ServedFiles
  <1> QED
    BY <1>2, <1>3, <1>4, <1>5

\* The running task keeps the accounts: what it registers, stores, commits,
\* loads, builds and draws comes from what was there before.
LEMMA ProvWork ==
    ASSUME ProvInv, NEW r \in Run, Work(r), PinInv'
    PROVE  ProvInv'
  <1> DEFINE m == run[r].match
             c == run[r].content
  <1>0. /\ TypeOK /\ TypeOK' /\ run \in [Run -> Runs] /\ run[r] \in Runs
        /\ m \in Match /\ c \in Content \cup {NoContent}
        /\ r \in Builder /\ desk \in [Builder -> Desk]
    BY RunAssumption DEF ProvInv, PinInv, TypeOK, ReportsTypeOK, Runs
  <1>1. ASSUME lake' = lake PROVE \A k \in Match : Committed(k)' = Committed(k)
    BY <1>1 DEF Committed
  <1>2. ASSUME UNCHANGED lakehouse, \A q \in Run : /\ run'[q].match = run[q].match
                                                 /\ run'[q].content = run[q].content
        PROVE  Registered' /\ Vouched'
    <2>1. UNCHANGED <<ledger, bronze, lake>>
      BY <1>2 DEF lakehouse
    <2>2. \A k \in Match : Ledger!Payloads(k)' = Ledger!Payloads(k)
      BY <2>1 DEF Ledger!Payloads
    <2>3. \A q \in Run : run[q].match \in Match
      BY <1>0 DEF Runs
    <2> QED
      BY <1>1, <1>2, <2>1, <2>2, <2>3 DEF ProvInv, Registered, Vouched
  <1>3. ASSUME \/ Returns(r, run[r]) /\ run[r].task # "reports"
               \/ \E s \in {"success", "failed"} : run' = [run EXCEPT ![r].state = s]
               \/ run' = run
        PROVE  \A q \in Run : /\ run'[q].match = run[q].match
                              /\ run'[q].content = run[q].content
    BY <1>0, <1>3 DEF Returns, Runs
  <1>4. ASSUME UNCHANGED <<src, stg, team, ivl, files, desk>>, lake' = lake
        PROVE  ServedRows' /\ ServedFiles'
    BY <1>0, <1>1, <1>4, ServedKept DEF ProvInv
  <1>5. CASE \E d \in Content : Ingest(r, d)
    <2> PICK d \in Content : Ingest(r, d)
      BY <1>5
    <2> PICK k \in Match : k = m
      BY <1>0
    <2>1. /\ d \in Ledger!Payloads(k)'
          /\ \A j \in Match : Ledger!Payloads(j) \subseteq Ledger!Payloads(j)'
      <3>0. \/ d \in Ledger!Payloads(k) /\ ledger' = ledger
            \/ Ledger!Register(k, d)
        BY DEF Ingest
      <3>1. CASE d \in Ledger!Payloads(k) /\ ledger' = ledger
        BY <3>1 DEF Ledger!Payloads
      <3>2. CASE Ledger!Register(k, d)
        BY <1>0, <3>2, PayloadsGrow
      <3> QED
        BY <3>0, <3>1, <3>2
    <2>2. \A q \in Run : /\ run'[q].match = run[q].match
                         /\ run'[q].match \in Match
                         /\ \/ run'[q].content = run[q].content
                            \/ q = r /\ run'[q].content = d
      <3>1. CASE run' = [run EXCEPT ![r].state = "failed"]
        BY <1>0, <3>1 DEF Runs
      <3>2. CASE run' = [run EXCEPT ![r] =
                    [[run[r] EXCEPT !.content = d] EXCEPT !.task = After(run[r].task)]]
        BY <1>0, <3>2 DEF Runs
      <3> QED
        BY <3>1, <3>2 DEF Ingest, Returns
    <2>3. Registered'
      BY <2>1, <2>2 DEF Ingest, ProvInv, Registered
    <2>4. Vouched'
      BY <1>1, <2>1 DEF Ingest, ProvInv, Vouched
    <2> QED
      BY <1>4, <2>3, <2>4 DEF Ingest, ProvInv, warehouse, reports
  <1>6. CASE Bronze(r)
    <2>1. /\ \A k \in Match : Ledger!Payloads(k)' = Ledger!Payloads(k)
          /\ lake' = lake /\ bronze' = bronze \cup {<<m, c>>}
          /\ UNCHANGED <<src, stg, team, ivl, files, desk>>
      BY <1>6 DEF Bronze, Ledger!Payloads, warehouse, reports
    <2>2. \A q \in Run : /\ run'[q].match = run[q].match
                         /\ run'[q].content = run[q].content
                         /\ run[q].match \in Match
      BY <1>0, <1>3, <1>6 DEF Bronze, At, Runs
    <2>3. c \in Content
      BY <1>6, RunAssumption DEF Bronze
    <2>4. c \in Ledger!Payloads(m)
      BY <2>3, BoxAssumption DEF ProvInv, Registered
    <2>5. Registered'
      BY <2>1, <2>2, <2>4 DEF ProvInv, Registered
    <2>6. Vouched'
      BY <1>1, <2>1 DEF ProvInv, Vouched
    <2> QED
      BY <1>4, <2>1, <2>5, <2>6 DEF ProvInv
  <1>7. CASE Silver(r)
    <2> DEFINE row == Overwritten(m, c)
    <2>1. /\ ledger' = ledger /\ bronze' = bronze
          /\ UNCHANGED <<src, stg, team, ivl, files, desk>>
          /\ lake' = Append(lake, row)
          /\ <<m, c>> \in bronze /\ c \in Valid
      BY <1>7 DEF Silver, warehouse, reports
    <2>2. \A k \in Match : row[k] \in {Current[k], c} /\ (k # m => row[k] = Current[k])
      <3>1. Current \in [Match -> Content \cup {NoContent}]
        BY <1>0 DEF Current, EmptyTable, TypeOK
      <3> QED
        BY <3>1 DEF Overwritten
    <2> HIDE DEF row
    <2>3. \A k \in Match : {Current[k]} \ {NoContent} \subseteq Committed(k)
      <3>1. lake # <<>> => Len(lake) \in DOMAIN lake
        BY <1>0 DEF TypeOK
      <3> QED
        BY <3>1 DEF Current, EmptyTable, Committed
    <2>4. /\ \A i \in DOMAIN lake : i \in DOMAIN lake' /\ lake'[i] = lake[i]
          /\ \A i \in DOMAIN lake' : i \in DOMAIN lake \/ lake'[i] = row
      <3>1. lake' \in Seq([Match -> Content \cup {NoContent}])
        BY <1>0 DEF TypeOK
      <3>2. lake \in Seq([Match -> Content \cup {NoContent}])
        BY <1>0 DEF TypeOK
      <3> QED
        BY <2>1, <3>1, <3>2
    <2>5. \A k \in Match : /\ Committed(k) \subseteq Committed(k)'
                           /\ Committed(k)' \subseteq Committed(k) \cup {row[k]}
      BY <2>4 DEF Committed
    <2>6. \A k \in Match : Committed(k)' \subseteq
                Committed(k) \cup (IF k = m THEN {c} ELSE {})
      <3>1. \A k \in Match : NoContent \notin Committed(k)'
        BY DEF Committed
      <3> QED
        BY <2>2, <2>3, <2>5, <3>1
    <2>7. c \in Content /\ \A k \in Match : Ledger!Payloads(k)' = Ledger!Payloads(k)
      BY <2>1, RunAssumption DEF Ledger!Payloads
    <2>8. Vouched'
      BY <1>0, <2>1, <2>6, <2>7 DEF ProvInv, Vouched, Registered
    <2>9. \A q \in Run : /\ run'[q].match = run[q].match
                         /\ run'[q].content = run[q].content
                         /\ run[q].match \in Match
      <3>1. CASE run' = [run EXCEPT ![r].state = "failed"]
        BY <1>0, <3>1 DEF Runs
      <3>2. CASE run' = [run EXCEPT ![r] =
                    [[run[r] EXCEPT !.snap = Len(lake')] EXCEPT !.task = After(run[r].task)]]
        BY <1>0, <3>2 DEF Runs
      <3> QED
        BY <1>7, <3>1, <3>2 DEF Silver, Returns
    <2>10. Registered'
      BY <2>1, <2>7, <2>9 DEF ProvInv, Registered
    <2> QED
      BY <1>0, <2>1, <2>5, <2>8, <2>10, ServedKept DEF ProvInv
  <1>8. CASE Rejects(r)
    <2>1. \A q \in Run : /\ run'[q].match = run[q].match
                         /\ run'[q].content = run[q].content
      BY <1>3, <1>8 DEF Rejects
    <2> QED
      BY <1>2, <1>4, <1>8, <2>1 DEF Rejects, ProvInv, warehouse, reports, lakehouse
  <1>9. CASE Load(r)
    <2>1. /\ UNCHANGED lakehouse /\ UNCHANGED <<stg, team, ivl, files, desk>>
          /\ src' = [src EXCEPT ![m] = Scan(run[r].snap, m)]
          /\ run[r].task = "load_silver_events_to_db"
      BY <1>9 DEF Load, LoadSrc, At, reports
    <2>2. {Scan(run[r].snap, m)} \ {NoContent} \subseteq Committed(m)
      BY <2>1 DEF ProvInv, PinInv, SnapshotBehindSilver, PinnedSnapshotIsOwn,
                  Scan, Committed
    <2>3. \A k \in Match : Committed(k)' = Committed(k)
      BY <1>1, <2>1 DEF lakehouse
    <2>4. ServedRows'
      BY <1>0, <2>1, <2>2, <2>3 DEF ProvInv, ServedRows, TypeOK, WarehouseTypeOK
    <2>5. ServedFiles'
      <3>1. \A b \in Builder : desk[b].match \in Match
        BY <1>0 DEF Desk
      <3> QED
        BY <2>1, <2>3, <3>1 DEF ProvInv, ServedFiles
    <2>6. Registered' /\ Vouched'
      BY <1>2, <1>3, <1>9, <2>1 DEF Load
    <2> QED
      BY <2>4, <2>5, <2>6 DEF ProvInv
  <1>10. CASE StartDbt(r)
    <2>1. UNCHANGED <<src, stg, team, ivl, files, desk, run>> /\ UNCHANGED lakehouse
      BY <1>10 DEF StartDbt, StartBuild, reports
    <2> QED
      BY <1>2, <1>4, <2>1 DEF lakehouse, ProvInv
  <1>11. CASE RunDbt(r)
    <2>1. UNCHANGED <<files, desk, run>> /\ UNCHANGED lakehouse
      BY <1>11 DEF RunDbt, reports
    <2>2. ServedRows'
      BY <1>0, <1>11, <2>1, RunNodeServed DEF RunDbt, ProvInv, lakehouse
    <2>3. ServedFiles'
      <3>1. \A b \in Builder : desk[b].match \in Match
        BY <1>0 DEF Desk
      <3> QED
        BY <1>1, <2>1, <3>1 DEF ProvInv, ServedFiles, lakehouse
    <2> QED
      BY <1>2, <2>1, <2>2, <2>3 DEF ProvInv
  <1>12. CASE EndDbt(r)
    <2>1. UNCHANGED <<src, stg, team, ivl, files, desk>> /\ UNCHANGED lakehouse
      BY <1>12 DEF EndDbt, CloseBuild, reports
    <2>2. run[r].task # "reports"
      BY <1>12 DEF EndDbt, Exited, ProvInv, PinInv, Busy
    <2>3. \A q \in Run : /\ run'[q].match = run[q].match
                         /\ run'[q].content = run[q].content
      BY <1>3, <1>12, <2>2 DEF EndDbt
    <2> QED
      BY <1>2, <1>4, <2>1, <2>3 DEF lakehouse, ProvInv
  <1>13. CASE Report(r)
    <2>1. UNCHANGED <<src, stg, team, ivl, run>> /\ UNCHANGED lakehouse
      BY <1>13 DEF Report, warehouse
    <2>2. ServedRows'
      BY <1>1, <2>1 DEF ProvInv, ServedRows, lakehouse
    <2>3. ServedFiles'
      BY <1>0, <1>13, <2>1, ReportServed DEF Report, ProvInv, lakehouse
    <2> QED
      BY <1>2, <2>1, <2>2, <2>3 DEF ProvInv
  <1>14. CASE EndReports(r)
    <2>1. UNCHANGED <<src, stg, team, ivl>> /\ UNCHANGED lakehouse
      BY <1>14 DEF EndReports, warehouse
    <2>2. ServedRows'
      BY <1>1, <2>1 DEF ProvInv, ServedRows, lakehouse
    <2>3. ServedFiles'
      BY <1>0, <1>14, <2>1, ReportServed DEF EndReports, ProvInv, lakehouse
    <2>4. \A q \in Run : /\ run'[q].match = run[q].match
                         /\ run'[q].content = run[q].content
      BY <1>3, <1>14 DEF EndReports
    <2> QED
      BY <1>2, <2>1, <2>2, <2>3, <2>4 DEF ProvInv
  <1> QED
    BY <1>5, <1>6, <1>7, <1>8, <1>9, <1>10, <1>11, <1>12, <1>13, <1>14 DEF Work

\* Every step keeps the accounts.
LEMMA ProvStep == ProvInv /\ [Next]_vars => ProvInv'
  <1> SUFFICES ASSUME ProvInv, [Next]_vars PROVE ProvInv'
    OBVIOUS
  <1>0. /\ PinInv' /\ run \in [Run -> Runs] /\ desk \in [Builder -> Desk]
        /\ Run \subseteq Builder
    BY PinStep, RunAssumption DEF ProvInv, PinInv, TypeOK, ReportsTypeOK
  <1>1. ASSUME UNCHANGED lakehouse, UNCHANGED <<src, stg, team, ivl, files>>,
               \A q \in Run : /\ run'[q].content = NoContent
                                 \/ /\ run'[q].content = run[q].content
                                    /\ run'[q].match = run[q].match,
               \A b \in Builder : desk'[b] = desk[b] \/ desk'[b] = Closed
        PROVE  ProvInv'
    <2>1. /\ \A k \in Match : /\ Committed(k)' = Committed(k)
                              /\ Ledger!Payloads(k)' = Ledger!Payloads(k)
          /\ bronze' = bronze
      BY <1>1 DEF lakehouse, Committed, Ledger!Payloads
    <2>2. Registered'
      <3>1. \A q \in Run : run[q].match \in Match
        BY <1>0 DEF Runs
      <3> QED
        BY <1>1, <2>1, <3>1 DEF ProvInv, Registered
    <2>3. Vouched' /\ ServedRows'
      BY <1>1, <2>1 DEF ProvInv, Vouched, ServedRows
    <2>4. ServedFiles'
      <3>1. /\ Closed.stg = NoContent
            /\ \A t \in Team : Closed.team[t] = NoContent /\ Closed.ivl[t] = NoContent
        BY DEF Closed, NoRows
      <3>2. \A b \in Builder : desk[b].match \in Match
        BY <1>0 DEF Desk
      <3>3. ASSUME NEW b \in Builder
            PROVE  /\ ({desk[b].stg} \ {NoContent} \subseteq Committed(desk[b].match))'
                   /\ \A t \in Team :
                         ({desk[b].team[t], desk[b].ivl[t]} \ {NoContent} \subseteq
                             {c \in Committed(desk[b].match) : t \in DOMAIN Box[c]})'
        <4>1. CASE desk'[b] = desk[b]
          BY <2>1, <3>2, <4>1 DEF ProvInv, ServedFiles
        <4>2. CASE desk'[b] = Closed
          BY <3>1, <4>2
        <4> QED
          BY <1>1, <4>1, <4>2
      <3> QED
        BY <1>1, <2>1, <3>3 DEF ProvInv, ServedFiles
    <2> QED
      BY <1>0, <2>2, <2>3, <2>4 DEF ProvInv
  <1>2. CASE UNCHANGED vars
    BY <1>1, <1>2 DEF vars, lakehouse
  <1>3. ASSUME NEW r \in Run, NEW m \in Match, Trigger(r, m) PROVE ProvInv'
    <2>1. \A q \in Run : run'[q].content = NoContent \/ run'[q] = run[q]
      BY <1>0, <1>3 DEF Trigger, NoRun
    <2> QED
      BY <1>1, <1>3, <2>1 DEF Trigger, warehouse, reports
  <1>4. ASSUME NEW r \in Run, Begin(r) PROVE ProvInv'
    <2>1. \A q \in Run : /\ run'[q].content = run[q].content
                         /\ run'[q].match = run[q].match
      BY <1>0, <1>4 DEF Begin, Runs
    <2> QED
      BY <1>1, <1>4, <2>1 DEF Begin, warehouse, reports
  <1>5. ASSUME NEW r \in Run, NEW t \in TaskNames, Clear(r, t) PROVE ProvInv'
    <2>1. \A q \in Run : run'[q].content = NoContent
                         \/ /\ run'[q].content = run[q].content
                            /\ run'[q].match = run[q].match
      BY <1>0, <1>5 DEF Clear, Runs
    <2> QED
      BY <1>1, <1>5, <2>1 DEF Clear, warehouse, reports
  <1>6. ASSUME NEW r \in Run, TaskFails(r) PROVE ProvInv'
    <2>1. \A q \in Run : /\ run'[q].content = run[q].content
                         /\ run'[q].match = run[q].match
      BY <1>0, <1>6 DEF TaskFails, Runs
    <2>2. \A b \in Builder : desk'[b] = desk[b] \/ desk'[b] = Closed
      BY <1>0, <1>6 DEF TaskFails
    <2> QED
      BY <1>1, <1>6, <2>1, <2>2 DEF TaskFails
  <1>7. ASSUME NEW r \in Run, Work(r) PROVE ProvInv'
    BY <1>0, <1>7, ProvWork
  <1> QED
    BY <1>2, <1>3, <1>4, <1>5, <1>6, <1>7 DEF Next

\* Whatever runs, fails and is cleared, nothing reaches a fact table, a staged
\* row or a report that was not committed to Silver for its match, with its
\* checks passed, its Bronze file stored and its payload registered.
THEOREM ProvenanceAlways == Spec => []Provenance
  <1>1. Init => ProvInv
    BY ProvInit
  <1>2. ProvInv /\ [Next]_vars => ProvInv'
    BY ProvStep
  <1>3. ProvInv => Provenance
    BY DEF ProvInv, Vouched, ServedRows, ServedFiles, Provenance
  <1> QED
    BY <1>1, <1>2, <1>3, PTL DEF Spec

-----------------------------------------------------------------------------
(* The order of the tasks *)

\* max_active_runs=1 holds.
OneRunning ==
    \A q, r \in Run : run[q].state = "running" /\ run[r].state = "running" => q = r

\* An open build is for the match of its run, and of what its task selects.
BuildOfRun ==
    \A r \in Run :
        /\ job[r].failed => job[r].open
        /\ job[r].open => /\ job[r].match = run[r].match
                          /\ job[r].todo \subseteq Selected(DbtSelect(run[r].task))

\* An execution of a run begins at its entry and goes on from there.
EntryFirst ==
    \A r \in Run : /\ Position(run[r].entry) <= Position(run[r].task)
                   /\ run[r].state = "queued" => run[r].task = run[r].entry

\* A run that carries a snapshot carries a payload.
Carried == \A r \in Run : run[r].snap # 0 => run[r].content \in Content

\* What the order of the tasks amounts to.
OrderInv == PinInv /\ OneRunning /\ BuildOfRun /\ EntryFirst /\ Carried

\* The rows are those of payload c, as far as c has any.
Covers(rows, c) == c # NoContent => \A t \in DOMAIN Box[c] : rows[t] = c

\* A run is past model n of task t.
Past(r, t, n) ==
    \/ Position(run[r].task) > Position(t)
    \/ run[r].task = t /\ job[r].open /\ n \notin job[r].todo

\* What a running run has loaded and built since it began; the fact tables
\* only if it began at the n-th task or before.
BuiltBy(r, n) ==
    run[r].state = "running" =>
        LET m == run[r].match
            entry == Position(run[r].entry) IN
        /\ (entry <= 4 /\ Position(run[r].task) > 4) =>
              src[m] = run[r].content /\ run[r].content \in Content
        /\ (entry <= 4 /\ Past(r, "build_dbt", "stg_silver_events")) =>
              stg[m] = run[r].content
        /\ (entry <= n /\ Past(r, "build_gold_facts", "fact_gold_team")) =>
              Covers(team[m], stg[m])
        /\ (entry <= n /\ Past(r, "build_gold_facts", "fact_gold_intervals")) =>
              Covers(ivl[m], stg[m])

Built == \A r \in Run : BuiltBy(r, 6)

\* What a call of generate_reports for match m has read at each of its steps:
\* the rows that are still there, of as many teams as the drawings need.
ReadBy(b, m) ==
    LET d == desk[b] IN
    d.step # "closed" =>
        /\ d.match = m
        /\ d.step # "team" => d.team = team[m]
        /\ d.step \notin {"team", "ivl"} => d.ivl = ivl[m]
        /\ d.step \notin {"team", "ivl", "stg"} => d.stg = stg[m]
        /\ d.step \in {"shots", "xg_timeline", "xt_momentum", "drawn"} =>
              Cardinality(Teams(d.team)) = 2
        /\ d.step \in {"xg_timeline", "xt_momentum", "drawn"} =>
              d.stg # NoContent /\ Cardinality(Shooters(d.stg)) = 2
        /\ d.step = "drawn" => Cardinality(Teams(d.ivl)) = 2

\* What it has drawn: the files show the rows read.
DrawnBy(b, m) ==
    LET d == desk[b]
        f == files[m] IN
    /\ d.step \in {"shots", "xg_timeline", "xt_momentum", "drawn"} => f.summary = d.team
    /\ d.step \in {"xg_timeline", "xt_momentum", "drawn"} => f.shots = d.stg
    /\ d.step \in {"xt_momentum", "drawn"} => f.xg_timeline = d.stg
    /\ d.step = "drawn" => f.xt_momentum = d.ivl

Drawn == \A r \in Run : ReadBy(r, run[r].match) /\ DrawnBy(r, run[r].match)

\* A payload in these rows is there with all of its teams.
Whole(rows) ==
    /\ IsFiniteSet(Teams(rows))
    /\ \A t \in Teams(rows) : DOMAIN Box[rows[t]] \subseteq Teams(rows)

\* The payloads of a fact table come with all of their teams.
WholeBoxes == \A m \in Match : Whole(team[m]) /\ Whole(ivl[m])

\* Payloads of match m differ in numbers or teams, or are not of two teams.
Irregular(m) ==
    \/ Revised(m)
    \/ \E c \in Ledger!Payloads(m) \cap Valid : Cardinality(DOMAIN Box[c]) # 2

\* Why a build has failed: the reconciliation test that follows stg_silver_events
\* in build_dbt needs a table that is not there yet, or some match is irregular.
FailsFor ==
    \A r \in Run : job[r].failed =>
        \/ run[r].task = "build_dbt" /\ "fact_gold_team" \notin exists
        \/ \E m \in Match : Irregular(m)

-----------------------------------------------------------------------------
(* What a step of run r does to its order, and to what it has built *)

\* The run is triggered, begun or cleared.
Rests(r) ==
    /\ run[r].state # "running"
    /\ UNCHANGED <<src, stg, team, ivl, exists, job, desk, files>>
    /\ run'[r].state = "running" => \A q \in Run : run[q].state # "running"
    /\ run'[r].state \in {"queued", "running"} /\ run'[r].task = run'[r].entry
    /\ run'[r].snap # 0 => /\ run'[r].snap = run[r].snap
                           /\ run'[r].content = run[r].content

\* The run ends, its build and its call with it.
Stops(r) ==
    /\ run[r].state = "running" /\ run'[r].state \in {"failed", "success"}
    /\ run'[r].task = run[r].task /\ run'[r].entry = run[r].entry
    /\ run'[r].snap = run[r].snap /\ run'[r].content = run[r].content
    /\ UNCHANGED <<stg, team, ivl, exists, files>>
    /\ ~job'[r].open /\ job'[r] \in {job[r], NoJob} /\ desk'[r].step = "closed"
    /\ run'[r].state = "success" =>
          run[r].task = "reports" /\ desk[r].step = "drawn" /\ UNCHANGED src

\* The run stays the same but for its task, which is the next one.
Passed(r) ==
    /\ run[r].state = "running" /\ run'[r].state = "running"
    /\ run'[r].match = run[r].match /\ run'[r].entry = run[r].entry
    /\ run'[r].task = After(run[r].task)

\* A task before the dbt builds returns.
Advances(r) ==
    /\ Passed(r)
    /\ run[r].task \in {"ingest", "bronze", "silver", "load_silver_events_to_db"}
    /\ run'[r].snap # 0 => /\ run'[r].content = run[r].content
                           /\ run[r].snap # 0 \/ run[r].content \in Content
    /\ UNCHANGED <<stg, team, ivl, exists, job, desk, files>>
    /\ IF run[r].task = "load_silver_events_to_db"
       THEN src' = [src EXCEPT ![run[r].match] = run[r].content] /\ run[r].snap # 0
       ELSE UNCHANGED src

\* A dbt build begins, has run a node, has succeeded.
Opens(r) ==
    /\ run[r].state = "running" /\ run[r].task \in {"build_dbt", "build_gold_facts"}
    /\ job' = [job EXCEPT ![r] =
                  [match |-> run[r].match, todo |-> Selected(DbtSelect(run[r].task)),
                   failed |-> FALSE, open |-> TRUE]]
    /\ UNCHANGED <<src, stg, team, ivl, exists, run, desk, files>>

Builds(r) == RunNode(r) /\ UNCHANGED <<run, desk, files>>

Closes(r) ==
    /\ Passed(r)
    /\ run[r].task \in {"build_dbt", "build_gold_facts"}
    /\ run'[r].snap = run[r].snap /\ run'[r].content = run[r].content
    /\ Exited(r) /\ job' = [job EXCEPT ![r] = NoJob]
    /\ UNCHANGED <<src, stg, team, ivl, exists, desk, files>>

\* generate_reports begins, reads or draws.
Draws(r) ==
    /\ run[r].state = "running" /\ run[r].task = "reports"
    /\ StartReports(r, run[r].match) \/ ReadRows(r) \/ Draw(r)
    /\ UNCHANGED <<src, stg, team, ivl, exists, job, run>>

\* The other runs, their builds and their calls are left alone, and nothing
\* leaves the manifest.
Apart(r) ==
    /\ \A q \in Run : q # r => run'[q] = run[q] /\ job'[q] = job[q] /\ desk'[q] = desk[q]
    /\ \A m \in Match : Ledger!Payloads(m) \subseteq Ledger!Payloads(m)'

Moves(r) ==
    \/ Rests(r) \/ Stops(r) \/ Advances(r) \/ Opens(r)
    \/ Builds(r) \/ Closes(r) \/ Draws(r)

\* A task that returns, or fails after its effect.
LEMMA ReturnsFacts ==
    ASSUME run \in [Run -> Runs], NEW r \in Run, NEW a \in Runs,
           run[r].state = "running", run[r].task # "reports",
           a.state = run[r].state, a.match = run[r].match, a.entry = run[r].entry,
           Returns(r, a)
    PROVE  /\ \A q \in Run : q # r => run'[q] = run[q]
           /\ \/ Passed(r) /\ run'[r].snap = a.snap /\ run'[r].content = a.content
              \/ /\ run'[r].state = "failed" /\ run'[r].task = run[r].task
                 /\ run'[r].entry = run[r].entry /\ run'[r].match = run[r].match
                 /\ run'[r].snap = run[r].snap /\ run'[r].content = run[r].content
  <1>1. CASE run' = [run EXCEPT ![r].state = "failed"]
    BY <1>1 DEF Runs
  <1>2. CASE run' = [run EXCEPT ![r] = [a EXCEPT !.task = After(run[r].task)]]
    <2> DEFINE b == [a EXCEPT !.task = After(run[r].task)]
    <2>1. /\ b.state = "running" /\ b.match = a.match /\ b.entry = a.entry
          /\ b.task = After(run[r].task) /\ b.snap = a.snap /\ b.content = a.content
      BY ONLY a \in Runs, a.state = run[r].state, run[r].state = "running" DEF Runs
    <2>2. run' = [run EXCEPT ![r] = b]
      BY <1>2
    <2> HIDE DEF b
    <2> QED
      BY <2>1, <2>2 DEF Passed
  <1> QED
    BY <1>1, <1>2 DEF Returns

\* Payloads stay in the manifest when it is left alone.
LEMMA PayloadsStay ==
    ASSUME UNCHANGED ledger
    PROVE  \A m \in Match : Ledger!Payloads(m) \subseteq Ledger!Payloads(m)'
  BY DEF Ledger!Payloads

\* A step of the scheduler, of the operator or of a task that is killed.
LEMMA ControlMoves ==
    ASSUME OrderInv, NEW r \in Run,
           \/ \E m \in Match : Trigger(r, m)
           \/ Begin(r)
           \/ \E t \in TaskNames : Clear(r, t)
           \/ TaskFails(r)
    PROVE  Moves(r) /\ Apart(r)
  <1>0. /\ run \in [Run -> Runs] /\ run[r] \in Runs /\ r \in Builder
        /\ Run \subseteq Builder
        /\ job \in [Builder -> Jobs] /\ desk \in [Builder -> Desk]
    BY RunAssumption DEF OrderInv, PinInv, TypeOK, WarehouseTypeOK, ReportsTypeOK
  <1>1. ASSUME NEW m \in Match, Trigger(r, m) PROVE Rests(r) /\ Apart(r)
    <2> DEFINE x == [NoRun EXCEPT !.state = "queued", !.match = m]
    <2>1. x.state = "queued" /\ x.task = x.entry /\ x.snap = 0
      BY DEF NoRun
    <2>2. run' = [run EXCEPT ![r] = x]
      BY <1>1 DEF Trigger
    <2> HIDE DEF x
    <2>3. /\ run[r].state = "none" /\ UNCHANGED <<src, stg, team, ivl, exists, job, desk,
                                                  files, ledger>>
      BY <1>1 DEF Trigger, warehouse, reports, lakehouse
    <2> QED
      BY <1>0, <2>1, <2>2, <2>3, PayloadsStay DEF Rests, Apart
  <1>2. CASE Begin(r)
    <2>1. /\ run[r].state = "queued" /\ \A q \in Run : run[q].state # "running"
          /\ run' = [run EXCEPT ![r].state = "running"]
          /\ UNCHANGED <<src, stg, team, ivl, exists, job, desk, files, ledger>>
      BY <1>2 DEF Begin, warehouse, reports, lakehouse
    <2>2. /\ run'[r].state = "running" /\ run'[r].task = run[r].task
          /\ run'[r].entry = run[r].entry /\ run'[r].snap = run[r].snap
          /\ run'[r].content = run[r].content
      BY <1>0, <2>1 DEF Runs
    <2>3. run[r].task = run[r].entry
      BY <2>1 DEF OrderInv, EntryFirst
    <2> QED
      BY <1>0, <2>1, <2>2, <2>3, PayloadsStay DEF Rests, Apart, Moves
  <1>3. ASSUME NEW t \in TaskNames, Clear(r, t) PROVE Rests(r) /\ Apart(r)
    <2>1. /\ run[r].state \in {"failed", "success"}
          /\ UNCHANGED <<src, stg, team, ivl, exists, job, desk, files, ledger>>
      BY <1>3 DEF Clear, warehouse, reports, lakehouse
    <2>2. /\ run'[r].state = "queued" /\ run'[r].task = t /\ run'[r].entry = t
          /\ run'[r].content = IF t = "ingest" THEN NoContent ELSE run[r].content
          /\ run'[r].snap = IF Position(t) <= Position("silver") THEN 0
                                                               ELSE run[r].snap
          /\ \A q \in Run : q # r => run'[q] = run[q]
      BY <1>0, <1>3 DEF Clear, Runs
    <2>3. run'[r].snap # 0 => t # "ingest"
      BY <2>2, Positions
    <2> QED
      BY <1>0, <2>1, <2>2, <2>3, PayloadsStay DEF Rests, Apart
  <1>4. CASE TaskFails(r)
    <2>1. /\ run[r].state = "running" /\ run' = [run EXCEPT ![r].state = "failed"]
          /\ job' = [job EXCEPT ![r] = NoJob] /\ desk' = [desk EXCEPT ![r] = Closed]
          /\ UNCHANGED <<src, stg, team, ivl, exists, files, ledger>>
      BY <1>4 DEF TaskFails, lakehouse
    <2>2. /\ run'[r].state = "failed" /\ run'[r].task = run[r].task
          /\ run'[r].entry = run[r].entry /\ run'[r].snap = run[r].snap
          /\ run'[r].content = run[r].content
      BY <1>0, <2>1 DEF Runs
    <2>3. job'[r] = NoJob /\ ~NoJob.open /\ desk'[r] = Closed /\ Closed.step = "closed"
      BY <1>0, <2>1 DEF NoJob, Closed
    <2> QED
      BY <1>0, <2>1, <2>2, <2>3, PayloadsStay DEF Stops, Apart, Moves
  <1> QED
    BY <1>1, <1>2, <1>3, <1>4 DEF Moves

\* A step of the running task.
LEMMA WorkMoves ==
    ASSUME OrderInv, NEW r \in Run, Work(r)
    PROVE  Moves(r) /\ Apart(r)
  <1>0. /\ run \in [Run -> Runs] /\ run[r] \in Runs /\ r \in Builder
        /\ Run \subseteq Builder
        /\ job \in [Builder -> Jobs] /\ desk \in [Builder -> Desk]
        /\ TypeOK /\ Busy /\ SnapshotBehindSilver /\ PinnedSnapshotIsOwn
    BY RunAssumption DEF OrderInv, PinInv, TypeOK, WarehouseTypeOK, ReportsTypeOK
  <1>1. ASSUME run[r].state = "running", run[r].task \notin {"build_dbt", "build_gold_facts"}
        PROVE  ~job[r].open
    BY <1>0, <1>1 DEF Busy
  <1>2. ASSUME run[r].state = "running", run[r].task # "reports"
        PROVE  desk[r].step = "closed"
    BY <1>0, <1>2 DEF Busy
  <1>3. ASSUME NEW a \in Runs, Returns(r, a), run[r].state = "running",
               run[r].task \in {"ingest", "bronze", "silver", "load_silver_events_to_db"},
               a.state = run[r].state, a.match = run[r].match, a.entry = run[r].entry,
               a.content = run[r].content \/ a.snap = 0,
               a.snap # 0 => run[r].snap # 0 \/ run[r].content \in Content,
               UNCHANGED <<stg, team, ivl, exists, job, desk, files>>,
               IF run[r].task = "load_silver_events_to_db"
               THEN src' = [src EXCEPT ![run[r].match] = run[r].content] /\ run[r].snap # 0
               ELSE UNCHANGED src,
               \A m \in Match : Ledger!Payloads(m) \subseteq Ledger!Payloads(m)'
        PROVE  Moves(r) /\ Apart(r)
    <2>1. /\ \A q \in Run : q # r => run'[q] = run[q]
          /\ \/ Passed(r) /\ run'[r].snap = a.snap /\ run'[r].content = a.content
             \/ /\ run'[r].state = "failed" /\ run'[r].task = run[r].task
                /\ run'[r].entry = run[r].entry /\ run'[r].match = run[r].match
                /\ run'[r].snap = run[r].snap /\ run'[r].content = run[r].content
      BY <1>0, <1>3, ReturnsFacts
    <2>2. Apart(r)
      BY <1>3, <2>1 DEF Apart
    <2>3. CASE Passed(r) /\ run'[r].snap = a.snap /\ run'[r].content = a.content
      <3>1. Advances(r)
        BY <1>3, <2>3 DEF Advances
      <3> QED
        BY <2>2, <3>1 DEF Moves
    <2>4. CASE /\ run'[r].state = "failed" /\ run'[r].task = run[r].task
               /\ run'[r].entry = run[r].entry /\ run'[r].match = run[r].match
               /\ run'[r].snap = run[r].snap /\ run'[r].content = run[r].content
      <3>1. Stops(r)
        BY <1>1, <1>2, <1>3, <2>4 DEF Stops
      <3> QED
        BY <2>2, <3>1 DEF Moves
    <2> QED
      BY <2>1, <2>2, <2>3, <2>4
  <1>4. CASE \E c \in Content : Ingest(r, c)
    <2> PICK c \in Content : Ingest(r, c)
      BY <1>4
    <2> DEFINE a == [run[r] EXCEPT !.content = c]
    <2>1. /\ run[r].state = "running" /\ run[r].task = "ingest" /\ Returns(r, a)
          /\ UNCHANGED <<src, stg, team, ivl, exists, job, desk, files>>
      BY DEF Ingest, At, warehouse, reports
    <2>2. /\ a \in Runs /\ a.state = run[r].state /\ a.match = run[r].match
          /\ a.entry = run[r].entry /\ a.snap = run[r].snap
      BY <1>0 DEF Runs
    <2>3. run[r].snap = 0
      BY <1>0, <2>1 DEF SnapshotBehindSilver
    <2>4. \A m \in Match : Ledger!Payloads(m) \subseteq Ledger!Payloads(m)'
      <3> PICK k \in Match : k = run[r].match
        BY <1>0 DEF Runs
      <3>1. UNCHANGED ledger \/ Ledger!Register(k, c)
        BY DEF Ingest
      <3> QED
        BY <1>0, <3>1, PayloadsGrow, PayloadsStay
    <2> HIDE DEF a
    <2> QED
      BY <1>3, <2>1, <2>2, <2>3, <2>4
  <1>5. CASE Bronze(r)
    <2>1. /\ run[r].state = "running" /\ run[r].task = "bronze" /\ Returns(r, run[r])
          /\ UNCHANGED <<src, stg, team, ivl, exists, job, desk, files, ledger>>
      BY <1>5 DEF Bronze, At, warehouse, reports
    <2> QED
      BY <1>0, <1>3, <2>1, PayloadsStay
  <1>6. CASE Silver(r)
    <2> DEFINE a == [run[r] EXCEPT !.snap = Len(lake')]
    <2>1. /\ run[r].state = "running" /\ run[r].task = "silver" /\ Returns(r, a)
          /\ UNCHANGED <<src, stg, team, ivl, exists, job, desk, files, ledger>>
          /\ run[r].content \in Content
      BY <1>6, RunAssumption DEF Silver, At, warehouse, reports
    <2>2. Len(lake') \in Nat
      <3>1. TypeOK'
        BY <1>6, WorkType DEF OrderInv
      <3> QED
        BY <3>1 DEF TypeOK
    <2>3. /\ a \in Runs /\ a.state = run[r].state /\ a.match = run[r].match
          /\ a.entry = run[r].entry /\ a.content = run[r].content
      BY <1>0, <2>2 DEF Runs
    <2> HIDE DEF a
    <2> QED
      BY <1>3, <2>1, <2>3, PayloadsStay
  <1>7. CASE Rejects(r)
    <2>1. /\ run[r].state = "running" /\ run[r].task \in {"bronze", "silver"}
          /\ run' = [run EXCEPT ![r].state = "failed"]
          /\ UNCHANGED <<src, stg, team, ivl, exists, job, desk, files, ledger>>
      BY <1>7 DEF Rejects, At, warehouse, reports, lakehouse
    <2>2. /\ run'[r].state = "failed" /\ run'[r].task = run[r].task
          /\ run'[r].entry = run[r].entry /\ run'[r].snap = run[r].snap
          /\ run'[r].content = run[r].content
          /\ \A q \in Run : q # r => run'[q] = run[q]
      BY <1>0, <2>1 DEF Runs
    <2>3. Stops(r) /\ Apart(r)
      BY <1>1, <1>2, <2>1, <2>2, PayloadsStay DEF Stops, Apart
    <2> QED
      BY <2>3 DEF Moves
  <1>8. CASE Load(r)
    <2>1. /\ run[r].state = "running" /\ run[r].task = "load_silver_events_to_db"
          /\ Returns(r, run[r])
          /\ src' = [src EXCEPT ![run[r].match] = Scan(run[r].snap, run[r].match)]
          /\ UNCHANGED <<stg, team, ivl, exists, job, desk, files, ledger>>
      BY <1>8 DEF Load, LoadSrc, At, reports, lakehouse
    <2>2. run[r].snap # 0 /\ Scan(run[r].snap, run[r].match) = run[r].content
      BY <1>0, <2>1 DEF SnapshotBehindSilver, PinnedSnapshotIsOwn
    <2> QED
      BY <1>0, <1>3, <2>1, <2>2, PayloadsStay
  <1>9. CASE StartDbt(r)
    <2>1. Opens(r)
      BY <1>9 DEF StartDbt, StartBuild, At, Opens, reports
    <2>2. Apart(r)
      BY <1>0, <1>9, PayloadsStay DEF StartDbt, StartBuild, Apart, reports, lakehouse
    <2> QED
      BY <2>1, <2>2 DEF Moves
  <1>10. CASE RunDbt(r)
    <2>1. Builds(r)
      BY <1>10 DEF RunDbt, Builds, reports
    <2>2. \A q \in Run : q # r => job'[q] = job[q]
      BY <1>0, <2>1 DEF Builds, RunNode, RunModel, RunTest
    <2>3. Apart(r)
      BY <1>0, <1>10, <2>2, PayloadsStay DEF RunDbt, Apart, reports, lakehouse
    <2> QED
      BY <2>1, <2>3 DEF Moves
  <1>11. CASE EndDbt(r)
    <2>1. /\ Exited(r) /\ job' = [job EXCEPT ![r] = NoJob]
          /\ UNCHANGED <<src, stg, team, ivl, exists, desk, files, ledger>>
          /\ run[r].state = "running" /\ run[r].task \in {"build_dbt", "build_gold_facts"}
          /\ run' = [run EXCEPT ![r].state = "failed"] \/ Returns(r, run[r])
      BY <1>0, <1>11 DEF EndDbt, CloseBuild, Exited, Busy, reports, lakehouse
    <2>2. Returns(r, run[r])
      BY <2>1 DEF Returns
    <2>3. /\ \A q \in Run : q # r => run'[q] = run[q]
          /\ \/ Passed(r) /\ run'[r].snap = run[r].snap /\ run'[r].content = run[r].content
             \/ /\ run'[r].state = "failed" /\ run'[r].task = run[r].task
                /\ run'[r].entry = run[r].entry /\ run'[r].match = run[r].match
                /\ run'[r].snap = run[r].snap /\ run'[r].content = run[r].content
      BY <1>0, <2>1, <2>2, ReturnsFacts
    <2>4. job'[r] = NoJob /\ ~NoJob.open
      BY <1>0, <2>1 DEF NoJob
    <2>5. Apart(r)
      BY <1>0, <2>1, <2>3, PayloadsStay DEF Apart
    <2>6. Closes(r) \/ Stops(r)
      BY <1>2, <2>1, <2>3, <2>4 DEF Closes, Stops
    <2> QED
      BY <2>5, <2>6 DEF Moves
  <1>12. CASE Report(r)
    <2>1. /\ StartReports(r, run[r].match) \/ ReadRows(r) \/ Draw(r)
          /\ run[r].state = "running" /\ run[r].task = "reports"
      <3>1. CASE At(r, "reports") /\ StartReports(r, run[r].match)
        BY <3>1 DEF At
      <3>2. CASE ReadRows(r) \/ Draw(r)
        BY <1>0, <3>2 DEF ReadRows, Draw, Drawable, Busy
      <3> QED
        BY <1>12, <3>1, <3>2 DEF Report
    <2>2. UNCHANGED <<src, stg, team, ivl, exists, job, run, ledger>>
      BY <1>12 DEF Report, warehouse, lakehouse
    <2>3. \A q \in Run : q # r => desk'[q] = desk[q]
      BY <1>0, <2>1 DEF StartReports, ReadRows, Draw
    <2>4. Draws(r) /\ Apart(r)
      BY <2>1, <2>2, <2>3, PayloadsStay DEF Draws, Apart
    <2> QED
      BY <2>4 DEF Moves
  <1>13. CASE EndReports(r)
    <2>1. /\ desk[r].step # "closed" /\ desk' = [desk EXCEPT ![r] = Closed]
          /\ UNCHANGED <<src, stg, team, ivl, exists, job, files, ledger>>
      BY <1>13 DEF EndReports, CloseReports, warehouse, lakehouse
    <2>2. PICK s \in {"success", "failed"} :
              /\ run' = [run EXCEPT ![r].state = s]
              /\ s = "success" => desk[r].step = "drawn"
      BY <1>13 DEF EndReports
    <2>3. run[r].state = "running" /\ run[r].task = "reports"
      BY <1>0, <2>1 DEF Busy
    <2>4. /\ run'[r].state = s /\ run'[r].task = run[r].task
          /\ run'[r].entry = run[r].entry /\ run'[r].snap = run[r].snap
          /\ run'[r].content = run[r].content
          /\ \A q \in Run : q # r => run'[q] = run[q]
      BY <1>0, <2>2 DEF Runs
    <2>5. desk'[r].step = "closed" /\ \A q \in Run : q # r => desk'[q] = desk[q]
      BY <1>0, <2>1 DEF Closed
    <2>6. Stops(r)
      BY <1>1, <2>1, <2>2, <2>3, <2>4, <2>5 DEF Stops
    <2>7. Apart(r)
      BY <2>1, <2>4, <2>5, PayloadsStay DEF Apart
    <2> QED
      BY <2>6, <2>7 DEF Moves
  <1> QED
    BY <1>4, <1>5, <1>6, <1>7, <1>8, <1>9, <1>10, <1>11, <1>12, <1>13 DEF Work

-----------------------------------------------------------------------------
(* The order of the tasks is kept *)

\* Running a node of a build leaves the build open, for the same match, with
\* no more to do than before, and the loaded rows as they are.
LEMMA NodeFacts ==
    ASSUME job \in [Builder -> Jobs], NEW b \in Builder, RunNode(b)
    PROVE  /\ job[b].open /\ job'[b].open /\ job'[b].match = job[b].match
           /\ job'[b].todo \subseteq job[b].todo
           /\ src' = src /\ exists \subseteq exists'
  <1>1. PICK n \in job[b].todo : RunModel(b, n) \/ RunTest(b, n)
    BY DEF RunNode
  <1>2. job[b] \in Jobs
    OBVIOUS
  <1>3. CASE RunModel(b, n)
    BY <1>2, <1>3 DEF RunModel, Ready, Jobs
  <1>4. CASE RunTest(b, n)
    BY <1>2, <1>4 DEF RunTest, Ready, Jobs
  <1> QED
    BY <1>1, <1>3, <1>4

\* Every task but the last has a place right before the next task.
LEMMA NextPosition ==
    ASSUME NEW t \in TaskNames, t # "reports"
    PROVE  Position(After(t)) = Position(t) + 1
  BY Positions, Afters, Names

\* Every task has a place.
LEMMA PositionNat == \A t \in TaskNames : Position(t) \in Nat
  BY Positions, Names

\* A step is a move of one run, or none.
LEMMA StepMoves ==
    ASSUME OrderInv, [Next]_vars
    PROVE  \/ \E r \in Run : Moves(r) /\ Apart(r)
           \/ UNCHANGED vars
  <1>1. ASSUME Next PROVE \E r \in Run : Moves(r) /\ Apart(r)
    <2>1. PICK r \in Run : \/ \E m \in Match : Trigger(r, m)
                           \/ Begin(r)
                           \/ \E t \in TaskNames : Clear(r, t)
                           \/ Work(r)
                           \/ TaskFails(r)
      BY <1>1 DEF Next
    <2>2. CASE Work(r)
      BY <2>2, WorkMoves
    <2>3. CASE ~Work(r)
      BY <2>1, <2>3, ControlMoves
    <2> QED
      BY <2>2, <2>3
  <1> QED
    BY <1>1

\* A move of one run keeps the order.
LEMMA OrderMove ==
    ASSUME OrderInv, NEW r \in Run, Moves(r), Apart(r), PinInv'
    PROVE  OrderInv'
  <1>0. /\ run \in [Run -> Runs] /\ run' \in [Run -> Runs]
        /\ run[r] \in Runs /\ run'[r] \in Runs /\ r \in Builder
        /\ job \in [Builder -> Jobs] /\ job[r] \in Jobs
        /\ Busy /\ OneRunning /\ BuildOfRun /\ EntryFirst /\ Carried
    BY RunAssumption DEF OrderInv, PinInv, TypeOK, WarehouseTypeOK
  <1>1. ASSUME NEW q \in Run, q # r
        PROVE  run'[q] = run[q] /\ job'[q] = job[q]
    BY <1>1 DEF Apart
  <1>2. CASE Rests(r)
    <2>1. OneRunning'
      BY <1>0, <1>1, <1>2 DEF Rests, OneRunning
    <2>2. ~job[r].open /\ job' = job
      BY <1>0, <1>2 DEF Rests, Busy
    <2>3. BuildOfRun'
      BY <1>0, <1>1, <2>2 DEF BuildOfRun
    <2>4. EntryFirst'
      <3>1. Position(run'[r].task) \in Nat
        BY <1>0, PositionNat DEF Runs
      <3> QED
        BY <1>0, <1>1, <1>2, <3>1 DEF Rests, EntryFirst
    <2>5. Carried'
      BY <1>0, <1>1, <1>2 DEF Rests, Carried
    <2> QED
      BY <2>1, <2>3, <2>4, <2>5 DEF OrderInv
  <1>3. CASE Stops(r)
    <2>1. OneRunning'
      BY <1>0, <1>1, <1>3 DEF Stops, OneRunning
    <2>2. BuildOfRun'
      <3>1. ~job'[r].failed /\ ~job'[r].open
        BY <1>0, <1>3 DEF Stops, BuildOfRun, NoJob
      <3> QED
        BY <1>0, <1>1, <3>1 DEF BuildOfRun
    <2>3. EntryFirst'
      BY <1>0, <1>1, <1>3 DEF Stops, EntryFirst
    <2>4. Carried'
      BY <1>0, <1>1, <1>3 DEF Stops, Carried
    <2> QED
      BY <2>1, <2>2, <2>3, <2>4 DEF OrderInv
  <1>4. CASE Passed(r) /\ run[r].task # "reports"
    <2>1. OneRunning'
      BY <1>0, <1>1, <1>4 DEF Passed, OneRunning
    <2>2. EntryFirst'
      <3>1. Position(run'[r].task) = Position(run[r].task) + 1
        BY <1>0, <1>4, NextPosition DEF Passed, Runs
      <3>2. Position(run[r].task) \in Nat /\ Position(run[r].entry) \in Nat
        BY <1>0, PositionNat DEF Runs
      <3>3. Position(run[r].entry) <= Position(run[r].task)
        BY <1>0 DEF EntryFirst
      <3>4. Position(run'[r].entry) <= Position(run'[r].task)
        BY <1>4, <3>1, <3>2, <3>3 DEF Passed
      <3> QED
        BY <1>0, <1>1, <1>4, <3>4 DEF Passed, EntryFirst
    <2>3. CASE Advances(r)
      <3>1. ~job[r].open /\ job' = job
        BY <1>0, <2>3 DEF Advances, Busy
      <3>2. BuildOfRun'
        BY <1>0, <1>1, <3>1 DEF BuildOfRun
      <3>3. Carried'
        BY <1>0, <1>1, <2>3 DEF Advances, Carried
      <3> QED
        BY <2>1, <2>2, <3>2, <3>3 DEF OrderInv
    <2>4. CASE Closes(r)
      <3>1. ~job'[r].open /\ ~job'[r].failed
        BY <1>0, <2>4 DEF Closes, NoJob
      <3>2. BuildOfRun'
        BY <1>0, <1>1, <3>1 DEF BuildOfRun
      <3>3. Carried'
        BY <1>0, <1>1, <2>4 DEF Closes, Carried
      <3> QED
        BY <2>1, <2>2, <3>2, <3>3 DEF OrderInv
    <2>5. ~(Rests(r) \/ Stops(r))
      BY <1>4 DEF Passed, Rests, Stops
    <2>6. CASE UNCHANGED run
      BY <1>4, <2>6, <1>0, Afters, Names DEF Passed, Runs
    <2> QED
      BY <2>3, <2>4, <2>5, <2>6 DEF Moves, Opens, Builds, Draws
  <1>5. CASE UNCHANGED run /\ BuildOfRun'
    BY <1>0, <1>5 DEF OneRunning, EntryFirst, Carried, OrderInv
  <1>6. CASE Opens(r)
    <2>1. /\ job'[r].open /\ job'[r].match = run[r].match /\ run' = run
          /\ job'[r].todo = Selected(DbtSelect(run[r].task))
      BY <1>0, <1>6 DEF Opens
    <2> QED
      BY <1>0, <1>1, <1>5, <2>1 DEF BuildOfRun
  <1>7. CASE Builds(r)
    <2>1. /\ job[r].open /\ job'[r].open /\ job'[r].match = job[r].match
          /\ job'[r].todo \subseteq job[r].todo /\ run' = run
      BY <1>0, <1>7, NodeFacts DEF Builds
    <2> QED
      BY <1>0, <1>1, <1>5, <2>1 DEF BuildOfRun
  <1>8. CASE Draws(r)
    BY <1>0, <1>5, <1>8 DEF Draws, BuildOfRun
  <1> QED
    BY <1>2, <1>3, <1>4, <1>6, <1>7, <1>8 DEF Moves, Advances, Closes

\* The order of the tasks holds at first.
LEMMA OrderInit == Init => OrderInv
  <1> SUFFICES ASSUME Init PROVE OrderInv
    OBVIOUS
  <1>1. \A r \in Run : run[r] = NoRun /\ job[r] = NoJob
    BY RunAssumption DEF Init, WarehouseInit
  <1>2. /\ NoRun.task = "ingest" /\ NoRun.entry = "ingest"
        /\ NoRun.state = "none" /\ NoRun.snap = 0
        /\ ~NoJob.open /\ ~NoJob.failed
    BY DEF NoRun, NoJob
  <1>3. OneRunning /\ BuildOfRun /\ Carried
    BY <1>1, <1>2 DEF OneRunning, BuildOfRun, Carried
  <1>4. EntryFirst
    BY <1>1, <1>2, Positions DEF EntryFirst
  <1> QED
    BY <1>3, <1>4, PinInit DEF OrderInv

\* Every step keeps it.
LEMMA OrderStep == OrderInv /\ [Next]_vars => OrderInv'
  <1> SUFFICES ASSUME OrderInv, [Next]_vars PROVE OrderInv'
    OBVIOUS
  <1>1. PinInv'
    BY PinStep DEF OrderInv
  <1>2. CASE UNCHANGED vars
    BY <1>1, <1>2 DEF vars, OrderInv, OneRunning, BuildOfRun, EntryFirst, Carried
  <1>3. CASE \E r \in Run : Moves(r) /\ Apart(r)
    BY <1>1, <1>3, OrderMove
  <1> QED
    BY <1>2, <1>3, StepMoves

-----------------------------------------------------------------------------
(* What a run has loaded and built *)

\* The models that each of the two dbt tasks builds.
LEMMA Selections ==
    /\ Selected(DbtSelect("build_dbt")) \cap Model = {"stg_silver_events"}
    /\ Selected(DbtSelect("build_gold_facts")) \cap Model =
          {"fact_gold_team", "fact_gold_intervals"}
  BY DEF Selected, DbtSelect, Model, Test

\* Merging a payload covers the rows with it.
LEMMA MergeCovers ==
    ASSUME NEW rows, NEW c \in Content \cup {NoContent}
    PROVE  Covers(Merge(rows, c), c)
  BY BoxAssumption DEF Covers, Merge

\* What running a node of a build does to the tables.
LEMMA NodeBuilds ==
    ASSUME job \in [Builder -> Jobs], NEW b \in Builder, RunNode(b)
    PROVE  \E n \in job[b].todo :
              /\ job'[b].todo = job[b].todo \ {n} /\ Parents(n) \cap job[b].todo = {}
              /\ \/ n \in Test /\ UNCHANGED <<stg, team, ivl>>
                 \/ n = "stg_silver_events" /\ BuildStg(job[b].match)
                 \/ n = "fact_gold_team" /\ BuildTeam(job[b].match)
                 \/ n = "fact_gold_intervals" /\ BuildIntervals(job[b].match)
  <1>0. job[b] \in Jobs
    OBVIOUS
  <1>1. PICK n \in job[b].todo : RunModel(b, n) \/ RunTest(b, n)
    BY DEF RunNode
  <1>2. Parents(n) \cap job[b].todo = {}
    BY <1>1 DEF RunModel, RunTest, Ready
  <1>3. CASE RunModel(b, n)
    <2>1. job'[b].todo = job[b].todo \ {n}
      BY <1>0, <1>3 DEF RunModel, Jobs
    <2>2. \/ n = "stg_silver_events" /\ BuildStg(job[b].match)
          \/ n = "fact_gold_team" /\ BuildTeam(job[b].match)
          \/ n = "fact_gold_intervals" /\ BuildIntervals(job[b].match)
      BY <1>3 DEF RunModel
    <2> QED
      BY <1>2, <2>1, <2>2
  <1>4. CASE RunTest(b, n)
    <2>1. job'[b].todo = job[b].todo \ {n}
      BY <1>0, <1>4 DEF RunTest, Jobs
    <2>2. n \in Test /\ UNCHANGED <<stg, team, ivl>>
      BY <1>4 DEF RunTest
    <2> QED
      BY <1>2, <2>1, <2>2
  <1> QED
    BY <1>1, <1>3, <1>4

\* While a run is running, a move of another only rests.
LEMMA OthersRest ==
    ASSUME OrderInv, OrderInv', NEW r \in Run, NEW q \in Run, q # r,
           Moves(r), Apart(r), run'[q].state = "running"
    PROVE  Rests(r)
  <1>1. run[q].state = "running"
    BY DEF Apart
  <1>2. run[r].state # "running"
    BY <1>1 DEF OrderInv, OneRunning
  <1>3. ~job[r].open
    BY <1>2 DEF OrderInv, PinInv, Busy
  <1>4. ~Builds(r)
    BY <1>3 DEF Builds, RunNode, RunModel, RunTest, Ready
  <1> QED
    BY <1>2, <1>4 DEF Moves, Stops, Advances, Passed, Opens, Closes, Draws

\* Running a node of a build keeps what the run has built.
LEMMA BuiltNode ==
    ASSUME OrderInv, NEW r \in Run, NEW n \in {4, 6}, BuiltBy(r, n), Builds(r)
    PROVE  LET m == run[r].match
               entry == Position(run[r].entry) IN
           /\ (entry <= 4 /\ Position(run[r].task) > 4) =>
                 src'[m] = run[r].content /\ run[r].content \in Content
           /\ (entry <= 4 /\ Past(r, "build_dbt", "stg_silver_events")') =>
                 stg'[m] = run[r].content
           /\ (entry <= n /\ Past(r, "build_gold_facts", "fact_gold_team")') =>
                 Covers(team'[m], stg'[m])
           /\ (entry <= n /\ Past(r, "build_gold_facts", "fact_gold_intervals")') =>
                 Covers(ivl'[m], stg'[m])
  <1> PICK m \in Match : m = run[r].match
    BY DEF OrderInv, PinInv, TypeOK, Runs
  <1> PICK p \in Nat, e \in Nat : p = Position(run[r].task) /\ e = Position(run[r].entry)
    BY PositionNat DEF OrderInv, PinInv, TypeOK, Runs
  <1>1. /\ stg \in [Match -> Content \cup {NoContent}]
        /\ src \in [Match -> Content \cup {NoContent}]
        /\ job \in [Builder -> Jobs] /\ r \in Builder
    BY RunAssumption DEF OrderInv, PinInv, TypeOK, WarehouseTypeOK
  <1>2. /\ job[r].open /\ src' = src /\ run' = run
        /\ run[r].state = "running" /\ run[r].task \in {"build_dbt", "build_gold_facts"}
    BY <1>1, NodeFacts DEF Builds, OrderInv, PinInv, Busy
  <1>3. PICK k \in job[r].todo :
              /\ k \in Selected(DbtSelect(run[r].task))
              /\ job'[r].todo = job[r].todo \ {k}
              /\ \/ k \in Test /\ UNCHANGED <<stg, team, ivl>>
                 \/ k = "stg_silver_events" /\ BuildStg(m)
                 \/ k = "fact_gold_team" /\ BuildTeam(m)
                 \/ k = "fact_gold_intervals" /\ BuildIntervals(m)
    BY <1>1, <1>2, NodeBuilds DEF Builds, OrderInv, BuildOfRun
  <1>4. /\ (e <= 4 /\ p > 4) =>
              src[m] = run[r].content /\ run[r].content \in Content
        /\ (e <= 4 /\ Past(r, "build_dbt", "stg_silver_events")) =>
              stg[m] = run[r].content
        /\ (e <= n /\ Past(r, "build_gold_facts", "fact_gold_team")) =>
              Covers(team[m], stg[m])
        /\ (e <= n /\ Past(r, "build_gold_facts", "fact_gold_intervals")) =>
              Covers(ivl[m], stg[m])
    BY <1>2 DEF BuiltBy
  <1>5. /\ run[r].task = "build_dbt" => p = 5
        /\ run[r].task = "build_gold_facts" => p = 6
    BY Positions
  <1>6. SUFFICES /\ (e <= 4 /\ Past(r, "build_dbt", "stg_silver_events")') =>
                       stg'[m] = run[r].content
                 /\ (e <= n /\ Past(r, "build_gold_facts", "fact_gold_team")') =>
                       Covers(team'[m], stg'[m])
                 /\ (e <= n /\ Past(r, "build_gold_facts", "fact_gold_intervals")') =>
                       Covers(ivl'[m], stg'[m])
    BY <1>2, <1>4
  <1>7. CASE k \in Test /\ UNCHANGED <<stg, team, ivl>>
    <2>1. k \notin {"stg_silver_events", "fact_gold_team", "fact_gold_intervals"}
      BY <1>7 DEF Test
    <2> QED
      BY <1>2, <1>3, <1>4, <1>7, <2>1 DEF Past
  <1>8. CASE k = "stg_silver_events" /\ BuildStg(m)
    <2>1. run[r].task = "build_dbt"
      BY <1>2, <1>3, <1>8, Selections DEF Model
    <2>2. e <= 4 => stg'[m] = run[r].content
      <3>1. m \in Rebuilt("stg_silver_events", m)
        BY DEF Rebuilt
      <3>2. src[m] # NoContent => stg'[m] = src[m]
        BY <1>8, <3>1 DEF BuildStg
      <3> QED
        BY <1>4, <1>5, <2>1, <3>2, BoxAssumption
    <2> QED
      BY <1>2, <1>5, <2>1, <2>2, Positions DEF Past
  <1>9. CASE k = "fact_gold_team" /\ BuildTeam(m)
    <2>1. run[r].task = "build_gold_facts"
      BY <1>2, <1>3, <1>9, Selections DEF Model
    <2>2. m \in Rebuilt("fact_gold_team", m)
      BY DEF Rebuilt
    <2>3. team'[m] = Merge(team[m], stg[m]) /\ stg' = stg /\ ivl' = ivl
      BY <1>9, <2>2 DEF BuildTeam
    <2>4. Covers(team'[m], stg[m])
      BY <1>1, <2>3, MergeCovers
    <2>5. Past(r, "build_dbt", "stg_silver_events")
      BY <1>5, <2>1, Positions DEF Past
    <2>6. Past(r, "build_gold_facts", "fact_gold_intervals")' =>
             Past(r, "build_gold_facts", "fact_gold_intervals")
      BY <1>2, <1>3, <1>9 DEF Past
    <2> QED
      BY <1>4, <2>3, <2>4, <2>5, <2>6
  <1>10. CASE k = "fact_gold_intervals" /\ BuildIntervals(m)
    <2>1. run[r].task = "build_gold_facts"
      BY <1>2, <1>3, <1>10, Selections DEF Model
    <2>2. m \in Rebuilt("fact_gold_intervals", m)
      BY DEF Rebuilt
    <2>3. ivl'[m] = Merge(ivl[m], stg[m]) /\ stg' = stg /\ team' = team
      BY <1>10, <2>2 DEF BuildIntervals
    <2>4. Covers(ivl'[m], stg[m])
      BY <1>1, <2>3, MergeCovers
    <2>5. Past(r, "build_dbt", "stg_silver_events")
      BY <1>5, <2>1, Positions DEF Past
    <2>6. Past(r, "build_gold_facts", "fact_gold_team")' =>
             Past(r, "build_gold_facts", "fact_gold_team")
      BY <1>2, <1>3, <1>10 DEF Past
    <2> QED
      BY <1>4, <2>3, <2>4, <2>5, <2>6
  <1> QED
    BY <1>3, <1>7, <1>8, <1>9, <1>10

\* A move of a run keeps what the run has loaded and built.
LEMMA BuiltMove ==
    ASSUME OrderInv, OrderInv', NEW r \in Run, NEW n \in {4, 6}, BuiltBy(r, n),
           Moves(r), Apart(r)
    PROVE  BuiltBy(r, n)'
  <1>0. /\ run[r] \in Runs /\ run'[r] \in Runs /\ r \in Builder
        /\ run \in [Run -> Runs] /\ job \in [Builder -> Jobs]
        /\ src \in [Match -> Content \cup {NoContent}]
        /\ Busy /\ Busy' /\ SnapshotBehindSilver'
    BY RunAssumption DEF OrderInv, PinInv, TypeOK, WarehouseTypeOK
  <1> SUFFICES ASSUME run'[r].state = "running"
               PROVE  LET m == run'[r].match
                          entry == Position(run'[r].entry) IN
                      /\ (entry <= 4 /\ Position(run'[r].task) > 4) =>
                            src'[m] = run'[r].content /\ run'[r].content \in Content
                      /\ (entry <= 4 /\ Past(r, "build_dbt", "stg_silver_events")') =>
                            stg'[m] = run'[r].content
                      /\ (entry <= n /\ Past(r, "build_gold_facts", "fact_gold_team")') =>
                            Covers(team'[m], stg'[m])
                      /\ (entry <= n /\ Past(r, "build_gold_facts", "fact_gold_intervals")') =>
                            Covers(ivl'[m], stg'[m])
    BY DEF BuiltBy, Covers
  <1> PICK e \in Nat, p \in Nat : e = Position(run'[r].entry) /\ p = Position(run'[r].task)
    BY <1>0, PositionNat DEF Runs
  <1>2. CASE Rests(r)
    <2>1. p = e /\ ~job'[r].open
      BY <1>0, <1>2 DEF Rests, Busy
    <2>2. /\ Past(r, "build_dbt", "stg_silver_events")' => p > 5
          /\ Past(r, "build_gold_facts", "fact_gold_team")' => p > 6
          /\ Past(r, "build_gold_facts", "fact_gold_intervals")' => p > 6
      BY <2>1, Positions DEF Past
    <2> QED
      BY <2>1, <2>2
  <1>3. CASE Stops(r)
    BY <1>3 DEF Stops
  <1>4. CASE Advances(r)
    <2>1. /\ ~job'[r].open /\ run'[r].match = run[r].match
          /\ run'[r].task = After(run[r].task)
      BY <1>0, <1>4 DEF Advances, Passed, Busy
    <2>2. /\ p <= 5
          /\ p = 5 => run[r].task = "load_silver_events_to_db" /\ run'[r].task = "build_dbt"
      BY <1>4, <2>1, Positions, Afters DEF Advances
    <2>3. /\ ~Past(r, "build_dbt", "stg_silver_events")'
          /\ ~Past(r, "build_gold_facts", "fact_gold_team")'
          /\ ~Past(r, "build_gold_facts", "fact_gold_intervals")'
      BY <2>1, <2>2, Positions DEF Past
    <2>4. ASSUME p > 4
          PROVE  src'[run'[r].match] = run'[r].content /\ run'[r].content \in Content
      <3>1. p = 5
        BY <2>2, <2>4
      <3>2. /\ run'[r].snap # 0 /\ run[r].match \in Match
            /\ src' = [src EXCEPT ![run[r].match] = run[r].content]
        BY <1>0, <1>4, <2>2, <3>1 DEF Advances, SnapshotBehindSilver, Runs
      <3> QED
        BY <1>0, <1>4, <2>1, <3>2 DEF Advances, OrderInv, Carried
    <2> QED
      BY <2>3, <2>4
  <1>5. CASE Opens(r)
    <2>1. /\ UNCHANGED <<src, stg, team, ivl, run>>
          /\ run[r].state = "running" /\ run[r].task \in {"build_dbt", "build_gold_facts"}
          /\ job'[r].open /\ job'[r].todo = Selected(DbtSelect(run[r].task))
      BY <1>0, <1>5 DEF Opens
    <2>2. /\ run[r].task = "build_dbt" => "stg_silver_events" \in job'[r].todo
          /\ run[r].task = "build_gold_facts" =>
                "fact_gold_team" \in job'[r].todo /\ "fact_gold_intervals" \in job'[r].todo
      BY <2>1, Selections
    <2>3. /\ Past(r, "build_dbt", "stg_silver_events")' =>
                Past(r, "build_dbt", "stg_silver_events")
          /\ Past(r, "build_gold_facts", "fact_gold_team")' =>
                Past(r, "build_gold_facts", "fact_gold_team")
          /\ Past(r, "build_gold_facts", "fact_gold_intervals")' =>
                Past(r, "build_gold_facts", "fact_gold_intervals")
      BY <2>1, <2>2 DEF Past
    <2> QED
      BY <2>1, <2>3 DEF BuiltBy
  <1>6. CASE Builds(r)
    <2>1. run' = run /\ src' = src
      BY <1>0, <1>6, NodeFacts DEF Builds
    <2> QED
      BY <1>6, <2>1, BuiltNode
  <1>7. CASE Closes(r)
    <2>1. /\ UNCHANGED <<src, stg, team, ivl>> /\ ~job'[r].open
          /\ run'[r].match = run[r].match /\ run'[r].entry = run[r].entry
          /\ run'[r].content = run[r].content /\ run[r].state = "running"
          /\ job[r].open /\ job[r].todo = {} /\ run'[r].task = After(run[r].task)
          /\ run[r].task \in {"build_dbt", "build_gold_facts"}
      BY <1>0, <1>7 DEF Closes, Passed, Exited, NoJob
    <2>2. /\ Position(run[r].task) > 4
          /\ Past(r, "build_dbt", "stg_silver_events")
      BY <2>1, Positions DEF Past
    <2>3. /\ Past(r, "build_gold_facts", "fact_gold_team")' =>
                Past(r, "build_gold_facts", "fact_gold_team")
          /\ Past(r, "build_gold_facts", "fact_gold_intervals")' =>
                Past(r, "build_gold_facts", "fact_gold_intervals")
      BY <2>1, Positions, Afters DEF Past
    <2> QED
      BY <2>1, <2>2, <2>3 DEF BuiltBy
  <1>8. CASE Draws(r)
    BY <1>8 DEF Draws, BuiltBy, Past
  <1> QED
    BY <1>2, <1>3, <1>4, <1>5, <1>6, <1>7, <1>8 DEF Moves

-----------------------------------------------------------------------------
(* What generate_reports has read and drawn *)

\* Entering generate_reports, reading and drawing keep the accounts of the call.
LEMMA DeskMove ==
    ASSUME desk \in [Builder -> Desk], files \in [Match -> Files],
           NEW b \in Builder, NEW m \in Match, ReadBy(b, m),
           StartReports(b, m) \/ ReadRows(b) \/ Draw(b),
           UNCHANGED <<stg, team, ivl>>
    PROVE  /\ ReadBy(b, m)'
           /\ DrawnBy(b, m) => DrawnBy(b, m)'
  <1> PICK d, y, f, g : d = desk[b] /\ y = desk'[b] /\ f = files[m] /\ g = files'[m]
    OBVIOUS
  <1>0. d \in Desk /\ f \in Files
    OBVIOUS
  <1>1. CASE StartReports(b, m)
    <2> DEFINE x == [Closed EXCEPT !.step = "team", !.match = m]
    <2>1. x.step = "team" /\ x.match = m
      BY DEF Closed
    <2>2. desk' = [desk EXCEPT ![b] = x]
      BY <1>1 DEF StartReports
    <2> HIDE DEF x
    <2>3. desk'[b] = x
      BY <2>2
    <2> QED
      BY <2>1, <2>3 DEF ReadBy, DrawnBy
  <1>2. CASE ReadRows(b)
    <2>1. d.match = m
      BY <1>2 DEF ReadRows, ReadBy
    <2>2. /\ y.match = m
          /\ \/ /\ d.step = "team" /\ y.step = "ivl" /\ y.team = team[m]
             \/ /\ d.step = "ivl" /\ y.step = "stg"
                /\ y.team = d.team /\ y.ivl = ivl[m]
             \/ /\ d.step = "stg" /\ y.step = "summary"
                /\ y.team = d.team /\ y.ivl = d.ivl /\ y.stg = stg[m]
      BY <1>0, <1>2, <2>1 DEF ReadRows, Desk
    <2> QED
      BY <2>2 DEF ReadBy, DrawnBy
  <1>3. CASE Draw(b)
    <2>1. d.step \in {"summary", "shots", "xg_timeline", "xt_momentum"} /\ Drawable(d)
      BY <1>0, <1>3 DEF Draw, Drawable, Desk, Step
    <2>2. /\ d.match = m /\ d.team = team[m] /\ d.ivl = ivl[m] /\ d.stg = stg[m]
          /\ d.step \in {"shots", "xg_timeline", "xt_momentum"} =>
                Cardinality(Teams(d.team)) = 2
          /\ d.step \in {"xg_timeline", "xt_momentum"} =>
                d.stg # NoContent /\ Cardinality(Shooters(d.stg)) = 2
      BY <2>1 DEF ReadBy
    <2>3. /\ y = [d EXCEPT !.step = Following[d.step]]
          /\ g = [f EXCEPT ![d.step] = CASE d.step = "summary"     -> d.team
                                         [] d.step = "xt_momentum" -> d.ivl
                                         [] OTHER                  -> d.stg]
      BY <1>3, <2>2 DEF Draw
    <2>4. /\ y.match = m /\ y.team = d.team /\ y.ivl = d.ivl /\ y.stg = d.stg
          /\ y.step = Following[d.step]
      BY <1>0, <2>2, <2>3 DEF Desk
    <2>5. SUFFICES
            /\ y.step \in {"shots", "xg_timeline", "xt_momentum", "drawn"} =>
                  Cardinality(Teams(d.team)) = 2
            /\ y.step \in {"xg_timeline", "xt_momentum", "drawn"} =>
                  d.stg # NoContent /\ Cardinality(Shooters(d.stg)) = 2
            /\ y.step = "drawn" => Cardinality(Teams(d.ivl)) = 2
            /\ DrawnBy(b, m) =>
                  /\ y.step \in {"shots", "xg_timeline", "xt_momentum", "drawn"} =>
                        g.summary = d.team
                  /\ y.step \in {"xg_timeline", "xt_momentum", "drawn"} => g.shots = d.stg
                  /\ y.step \in {"xt_momentum", "drawn"} => g.xg_timeline = d.stg
                  /\ y.step = "drawn" => g.xt_momentum = d.ivl
      BY <2>2, <2>4 DEF ReadBy, DrawnBy
    <2>6. CASE d.step = "summary"
      <3>1. /\ y.step = "shots" /\ g.summary = d.team
            /\ Cardinality(Teams(d.team)) = 2
        BY <1>0, <2>1, <2>3, <2>4, <2>6 DEF Following, Files, Drawable
      <3> QED
        BY <3>1
    <2>7. CASE d.step = "shots"
      <3>1. /\ y.step = "xg_timeline" /\ g.shots = d.stg /\ g.summary = f.summary
            /\ d.stg # NoContent /\ Cardinality(Shooters(d.stg)) = 2
        BY <1>0, <2>1, <2>3, <2>4, <2>7 DEF Following, Files, Drawable
      <3> QED
        BY <2>2, <2>7, <3>1 DEF DrawnBy
    <2>8. CASE d.step = "xg_timeline"
      <3>1. /\ y.step = "xt_momentum" /\ g.xg_timeline = d.stg
            /\ g.summary = f.summary /\ g.shots = f.shots
        BY <1>0, <2>3, <2>4, <2>8 DEF Following, Files
      <3> QED
        BY <2>2, <2>8, <3>1 DEF DrawnBy
    <2>9. CASE d.step = "xt_momentum"
      <3>1. /\ y.step = "drawn" /\ g.xt_momentum = d.ivl /\ g.xg_timeline = f.xg_timeline
            /\ g.summary = f.summary /\ g.shots = f.shots
            /\ Cardinality(Teams(d.ivl)) = 2
        BY <1>0, <2>1, <2>3, <2>4, <2>9 DEF Following, Files, Drawable
      <3> QED
        BY <2>2, <2>9, <3>1 DEF DrawnBy
    <2> QED
      BY <2>1, <2>6, <2>7, <2>8, <2>9
  <1> QED
    BY <1>1, <1>2, <1>3

\* A move of a run keeps what its call of generate_reports has read and drawn.
LEMMA DrawnMove ==
    ASSUME OrderInv, OrderInv', NEW r \in Run, ReadBy(r, run[r].match),
           Moves(r), Apart(r)
    PROVE  /\ ReadBy(r, run[r].match)'
           /\ DrawnBy(r, run[r].match) => DrawnBy(r, run[r].match)'
  <1>0. /\ run[r] \in Runs /\ r \in Builder /\ job \in [Builder -> Jobs]
        /\ desk \in [Builder -> Desk] /\ files \in [Match -> Files] /\ Busy /\ Busy'
    BY RunAssumption DEF OrderInv, PinInv, TypeOK, WarehouseTypeOK, ReportsTypeOK
  <1>1. CASE desk'[r].step = "closed"
    BY <1>1 DEF ReadBy, DrawnBy
  <1>2. CASE Draws(r)
    <2> PICK m \in Match : m = run[r].match /\ m = run'[r].match
      BY <1>0, <1>2 DEF Draws, Runs
    <2>1. ReadBy(r, m)' /\ (DrawnBy(r, m) => DrawnBy(r, m)')
      BY <1>0, <1>2, DeskMove DEF Draws
    <2> QED
      BY <2>1 DEF ReadBy, DrawnBy
  <1>3. CASE ~Draws(r)
    <2>1. desk'[r].step = "closed"
      BY <1>0, <1>3, NodeFacts
         DEF Moves, Rests, Stops, Advances, Passed, Opens, Closes, Builds, Busy
    <2> QED
      BY <1>1, <2>1
  <1> QED
    BY <1>2, <1>3

\* What every run has built and drawn is kept when one run moves.
LEMMA ServeMove ==
    ASSUME OrderInv, OrderInv', Built, Drawn, NEW r \in Run, Moves(r), Apart(r)
    PROVE  Built' /\ Drawn'
  <1>1. BuiltBy(r, 6)' /\ ReadBy(r, run[r].match)' /\ DrawnBy(r, run[r].match)'
    BY BuiltMove, DrawnMove DEF Built, Drawn
  <1>2. ASSUME NEW q \in Run, q # r
        PROVE  BuiltBy(q, 6)' /\ ReadBy(q, run[q].match)' /\ DrawnBy(q, run[q].match)'
    <2>1. run'[q] = run[q] /\ job'[q] = job[q] /\ desk'[q] = desk[q]
      BY <1>2 DEF Apart
    <2>2. CASE run'[q].state = "running"
      <3>1. UNCHANGED <<src, stg, team, ivl, files>>
        BY <1>2, <2>2, OthersRest DEF Rests
      <3>2. BuiltBy(q, 6)'
        BY <2>1, <3>1 DEF Built, BuiltBy, Past
      <3>3. ReadBy(q, run[q].match)' /\ DrawnBy(q, run[q].match)'
        BY <2>1, <3>1 DEF Drawn, ReadBy, DrawnBy
      <3> QED
        BY <3>2, <3>3
    <2>3. CASE run'[q].state # "running"
      <3>1. desk'[q].step = "closed"
        BY <2>3 DEF OrderInv, PinInv, Busy
      <3> QED
        BY <2>3, <3>1 DEF BuiltBy, ReadBy, DrawnBy
    <2> QED
      BY <2>2, <2>3
  <1> QED
    BY <1>1, <1>2 DEF Built, Drawn

-----------------------------------------------------------------------------
(* A run that succeeds has served one payload *)

\* Merging a payload keeps the payloads of the rows whole.
LEMMA MergeWhole ==
    ASSUME NEW rows \in Rows, Whole(rows), NEW c \in Content \cup {NoContent}
    PROVE  Whole(Merge(rows, c))
  <1>1. CASE c = NoContent
    <2>1. Merge(rows, c) = rows
      BY <1>1 DEF Merge, Rows
    <2> QED
      BY <2>1
  <1>2. CASE c # NoContent
    <2> PICK new : new = Merge(rows, c)
      OBVIOUS
    <2>1. \A t \in Team : new[t] = IF t \in DOMAIN Box[c] THEN c ELSE rows[t]
      BY <1>2 DEF Merge
    <2>2. Teams(new) = Teams(rows) \cup DOMAIN Box[c]
      BY <1>2, <2>1, BoxAssumption DEF Teams
    <2>3. IsFiniteSet(Teams(new))
      BY <1>2, <2>2, FS_Union, BoxAssumption DEF Whole
    <2>4. \A t \in Teams(new) : DOMAIN Box[new[t]] \subseteq Teams(new)
      BY <2>1, <2>2 DEF Whole, Teams
    <2> QED
      BY <2>3, <2>4 DEF Whole
  <1> QED
    BY <1>1, <1>2

\* Running a node takes no payload apart.
LEMMA WholeNode ==
    ASSUME WarehouseTypeOK, WholeBoxes, NEW b \in Builder, RunNode(b)
    PROVE  WholeBoxes'
  <1>0. /\ team \in [Match -> Rows] /\ ivl \in [Match -> Rows]
        /\ stg \in [Match -> Content \cup {NoContent}] /\ job \in [Builder -> Jobs]
    BY DEF WarehouseTypeOK
  <1>1. \A m \in Match : Whole(Merge(team[m], stg[m])) /\ Whole(Merge(ivl[m], stg[m]))
    BY <1>0, MergeWhole DEF WholeBoxes
  <1>2. PICK m \in Match : m = job[b].match
    BY <1>0 DEF Jobs
  <1>3. UNCHANGED <<team, ivl>> \/ BuildTeam(m) \/ BuildIntervals(m)
    BY <1>0, <1>2, NodeBuilds DEF BuildStg
  <1>4. CASE UNCHANGED <<team, ivl>>
    BY <1>4 DEF WholeBoxes
  <1>5. CASE BuildTeam(m)
    BY <1>1, <1>5 DEF BuildTeam, WholeBoxes
  <1>6. CASE BuildIntervals(m)
    BY <1>1, <1>6 DEF BuildIntervals, WholeBoxes
  <1> QED
    BY <1>3, <1>4, <1>5, <1>6

\* No step takes a payload apart.
LEMMA WholeMove ==
    ASSUME OrderInv, WholeBoxes, NEW r \in Run, Moves(r)
    PROVE  WholeBoxes'
  <1>1. CASE Builds(r)
    BY <1>1, WholeNode, RunAssumption DEF Builds, OrderInv, PinInv, TypeOK
  <1>2. CASE UNCHANGED <<team, ivl>>
    BY <1>2 DEF WholeBoxes
  <1> QED
    BY <1>1, <1>2 DEF Moves, Rests, Stops, Advances, Opens, Closes, Draws

\* What makes SuccessServesOneVersion hold.
ServeInv == OrderInv /\ Built /\ Drawn /\ WholeBoxes

\* Nothing is built or drawn at first.
LEMMA ServeInit == Init => ServeInv
  <1> SUFFICES ASSUME Init PROVE ServeInv
    OBVIOUS
  <1>1. \A r \in Run : run[r] = NoRun /\ desk[r] = Closed
    BY RunAssumption DEF Init, ReportsInit
  <1>2. NoRun.state = "none" /\ Closed.step = "closed"
    BY DEF NoRun, Closed
  <1>3. Built /\ Drawn
    BY <1>1, <1>2 DEF Built, BuiltBy, Drawn, ReadBy, DrawnBy
  <1>4. Teams(NoRows) = {}
    BY DEF Teams, NoRows
  <1>5. WholeBoxes
    BY <1>4, FS_EmptySet DEF Init, WarehouseInit, WholeBoxes, Whole
  <1> QED
    BY <1>3, <1>5, OrderInit DEF ServeInv

\* Every step keeps what runs have built and drawn.
LEMMA ServeStep == ServeInv /\ [Next]_vars => ServeInv'
  <1> SUFFICES ASSUME ServeInv, [Next]_vars PROVE ServeInv'
    OBVIOUS
  <1>1. OrderInv'
    BY OrderStep DEF ServeInv
  <1>2. CASE UNCHANGED vars
    BY <1>1, <1>2 DEF vars, ServeInv, Built, BuiltBy, Drawn, ReadBy, DrawnBy, WholeBoxes, Past
  <1>3. CASE \E r \in Run : Moves(r) /\ Apart(r)
    BY <1>1, <1>3, ServeMove, WholeMove DEF ServeInv
  <1> QED
    BY <1>2, <1>3, StepMoves DEF ServeInv

\* Rows of two teams that cover a payload with shots by two teams are exactly
\* the rows of this payload.
LEMMA CoveredByTwo ==
    ASSUME NEW rows \in Rows, NEW c \in Content, Covers(rows, c), Whole(rows),
           Cardinality(Teams(rows)) = 2, Cardinality(Shooters(c)) = 2
    PROVE  rows = ExactRows(c)
  <1>1. Shooters(c) \subseteq DOMAIN Box[c] /\ DOMAIN Box[c] \subseteq Teams(rows)
    BY BoxAssumption DEF Shooters, Covers, Teams
  <1>2. IsFiniteSet(Teams(rows))
    BY DEF Whole
  <1>3. Shooters(c) = Teams(rows)
    BY <1>1, <1>2, FS_Subset
  <1>4. DOMAIN Box[c] = Teams(rows)
    BY <1>1, <1>3
  <1>5. \A t \in Team : rows[t] = IF t \in DOMAIN Box[c] THEN c ELSE NoContent
    BY <1>4, BoxAssumption DEF Covers, Teams
  <1> QED
    BY <1>5 DEF ExactRows, Rows

\* A call of generate_reports that has drawn everything, from fact tables that
\* cover the staged payload, leaves one version of the match.
LEMMA DrawnVersion ==
    ASSUME WarehouseTypeOK, ReportsTypeOK, WholeBoxes, NEW b \in Builder,
           NEW m \in Match, ReadBy(b, m), desk[b].step = "drawn",
           Covers(team[m], stg[m]), Covers(ivl[m], stg[m])
    PROVE  /\ team[m] = ExactRows(stg[m]) /\ ivl[m] = ExactRows(stg[m])
           /\ DrawnBy(b, m) => OneVersion(m, stg[m])
  <1>0. /\ team[m] \in Rows /\ ivl[m] \in Rows /\ stg[m] \in Content \cup {NoContent}
        /\ files[m] \in Files
    BY DEF WarehouseTypeOK, ReportsTypeOK
  <1>1. /\ Cardinality(Teams(team[m])) = 2 /\ Cardinality(Teams(ivl[m])) = 2
        /\ stg[m] # NoContent /\ Cardinality(Shooters(stg[m])) = 2
        /\ desk[b].team = team[m] /\ desk[b].ivl = ivl[m] /\ desk[b].stg = stg[m]
    BY DEF ReadBy
  <1>2. team[m] = ExactRows(stg[m]) /\ ivl[m] = ExactRows(stg[m])
    BY <1>0, <1>1, CoveredByTwo DEF WholeBoxes
  <1>3. ASSUME DrawnBy(b, m) PROVE OneVersion(m, stg[m])
    <2>1. /\ files[m].summary = team[m] /\ files[m].shots = stg[m]
          /\ files[m].xg_timeline = stg[m] /\ files[m].xt_momentum = ivl[m]
      BY <1>1, <1>3 DEF DrawnBy
    <2>2. files[m] = [summary |-> ExactRows(stg[m]), shots |-> stg[m],
                      xg_timeline |-> stg[m], xt_momentum |-> ExactRows(stg[m])]
      BY <1>0, <1>2, <2>1 DEF Files
    <2> QED
      BY <1>2, <2>2 DEF OneVersion
  <1> QED
    BY <1>2, <1>3

\* A run that succeeds is through with everything, so that the fact tables
\* cover what it has staged, and it has staged what it loaded.
LEMMA BuiltAtSuccess ==
    ASSUME OrderInv, NEW r \in Run, NEW n \in {4, 6}, BuiltBy(r, n),
           Stops(r), run'[r].state = "success"
    PROVE  LET m == run[r].match IN
           /\ run[r].task = "reports" /\ desk[r].step = "drawn"
           /\ Position(run[r].entry) <= n =>
                 Covers(team[m], stg[m]) /\ Covers(ivl[m], stg[m])
           /\ Position(run[r].entry) <= 4 =>
                 src[m] = run[r].content /\ stg[m] = run[r].content
  <1>1. run[r].state = "running" /\ run[r].task = "reports" /\ desk[r].step = "drawn"
    BY DEF Stops
  <1>2. Position(run[r].task) = 7
    BY <1>1, Positions
  <1>3. /\ Past(r, "build_dbt", "stg_silver_events")
        /\ Past(r, "build_gold_facts", "fact_gold_team")
        /\ Past(r, "build_gold_facts", "fact_gold_intervals")
    BY <1>2, Positions DEF Past
  <1> QED
    BY <1>1, <1>2, <1>3 DEF BuiltBy

\* A run that succeeds serves one version.
LEMMA ServedAtSuccess ==
    ASSUME OrderInv, WholeBoxes, NEW r \in Run, BuiltBy(r, 6),
           ReadBy(r, run[r].match), DrawnBy(r, run[r].match),
           Stops(r), run'[r].state = "success", run[r].entry # "reports"
    PROVE  OneVersion(run[r].match, stg[run[r].match])
  <1> PICK m \in Match : m = run[r].match
    BY DEF OrderInv, PinInv, TypeOK, Runs
  <1>1. Position(run[r].entry) <= 6
    <2>1. run[r].entry \in TaskNames
      BY DEF OrderInv, PinInv, TypeOK, Runs
    <2> QED
      BY <2>1, Positions, Names
  <1>2. desk[r].step = "drawn" /\ Covers(team[m], stg[m]) /\ Covers(ivl[m], stg[m])
    BY <1>1, BuiltAtSuccess
  <1>3. r \in Builder /\ WarehouseTypeOK /\ ReportsTypeOK
    BY RunAssumption DEF OrderInv, PinInv, TypeOK
  <1> QED
    BY <1>2, <1>3, DrawnVersion

\* The reports of a call that has drawn everything show the rows it read, which
\* are still there.
LEMMA DrawnShowsTables ==
    ASSUME ReportsTypeOK, NEW b \in Builder, NEW m \in Match,
           ReadBy(b, m), DrawnBy(b, m), desk[b].step = "drawn"
    PROVE  ReportsShowTables(m)
  <1>1. files[m] \in Files
    BY DEF ReportsTypeOK
  <1>2. /\ files[m].summary = team[m] /\ files[m].shots = stg[m]
        /\ files[m].xg_timeline = stg[m] /\ files[m].xt_momentum = ivl[m]
    BY DEF ReadBy, DrawnBy
  <1> QED
    BY <1>1, <1>2 DEF Files, ReportsShowTables

\* Whatever failed, was cleared or was revised before: the runs the DAG marks
\* a success have drawn their reports from the tables that are there; those
\* that built the facts serve their match from one payload, the one they loaded.
THEOREM SuccessAlwaysServesOneVersion == Spec => SuccessServesOneVersion
  <1>1. ASSUME ServeInv, [Next]_vars
        PROVE  [\A r \in Run :
                  (run[r].state = "running" /\ run'[r].state = "success") =>
                    /\ ReportsShowTables(run[r].match)
                    /\ run[r].entry # "reports" => OneVersion(run[r].match, stg[run[r].match])
                    /\ Position(run[r].entry) <= Position("load_silver_events_to_db") =>
                         /\ src[run[r].match] = run[r].content
                         /\ stg[run[r].match] = run[r].content]_vars
    <2> SUFFICES ASSUME NEW r \in Run, run[r].state = "running", run'[r].state = "success"
                 PROVE /\ ReportsShowTables(run[r].match)
                       /\ run[r].entry # "reports" => OneVersion(run[r].match, stg[run[r].match])
                       /\ Position(run[r].entry) <= Position("load_silver_events_to_db") =>
                            /\ src[run[r].match] = run[r].content
                            /\ stg[run[r].match] = run[r].content
      OBVIOUS
    <2>1. ~UNCHANGED vars
      BY DEF vars
    <2>2. PICK q \in Run : Moves(q) /\ Apart(q)
      BY <1>1, <2>1, StepMoves DEF ServeInv
    <2>3. q = r
      BY <2>2 DEF Apart
    <2>4. Stops(r)
      BY <2>2, <2>3 DEF Moves, Rests, Advances, Passed, Opens, Builds, Closes, Draws
    <2>5. BuiltBy(r, 6) /\ ReadBy(r, run[r].match) /\ DrawnBy(r, run[r].match)
      BY <1>1 DEF ServeInv, Built, Drawn
    <2>6. Position("load_silver_events_to_db") = 4
      BY Positions
    <2>7. ReportsShowTables(run[r].match)
      <3>1. /\ ReportsTypeOK /\ r \in Builder /\ run[r].match \in Match
            /\ desk[r].step = "drawn"
        BY <1>1, <2>4, RunAssumption DEF ServeInv, OrderInv, PinInv, TypeOK, Runs, Stops
      <3> QED
        BY <2>5, <3>1, DrawnShowsTables
    <2> QED
      BY <1>1, <2>4, <2>5, <2>6, <2>7, BuiltAtSuccess, ServedAtSuccess DEF ServeInv
  <1> QED
    BY <1>1, ServeInit, ServeStep, PTL DEF Spec, SuccessServesOneVersion

-----------------------------------------------------------------------------
(* Why a dbt test fails *)

\* A fact table is not there without the staged table, and the models that an
\* open build is through with are there.
Created ==
    /\ exists \cap {"fact_gold_team", "fact_gold_intervals"} # {} =>
          "stg_silver_events" \in exists
    /\ \A r \in Run : job[r].open =>
          Selected(DbtSelect(run[r].task)) \cap Model \subseteq job[r].todo \cup exists

\* What makes DbtFailsOnlyOnRevision inductive.
FailInv == OrderInv /\ ProvInv /\ WholeBoxes /\ Created /\ FailsFor

\* The rows of a team are of a registered, valid payload with that team.
LEMMA RowsVouched ==
    ASSUME ProvInv, NEW m \in Match, NEW rows \in {team[m], ivl[m]},
           NEW t \in Teams(rows)
    PROVE  /\ rows[t] \in Ledger!Payloads(m) \cap Valid
           /\ t \in DOMAIN Box[rows[t]]
  <1>1. t \in Team /\ rows[t] # NoContent
    BY DEF Teams
  <1>2. rows[t] \in Committed(m) /\ t \in DOMAIN Box[rows[t]]
    BY <1>1 DEF ProvInv, ServedRows
  <1> QED
    BY <1>2 DEF ProvInv, Vouched

\* A regular match has the rows of two teams, or none.
LEMMA RegularRows ==
    ASSUME ProvInv, NEW m \in Match, NEW rows \in {team[m], ivl[m]},
           Whole(rows), ~Irregular(m)
    PROVE  Cardinality(Teams(rows)) \in {0, 2}
  <1>1. CASE Teams(rows) = {}
    BY <1>1, FS_EmptySet
  <1>2. CASE Teams(rows) # {}
    <2> PICK t \in Teams(rows) : TRUE
      BY <1>2
    <2> PICK c : c = rows[t]
      OBVIOUS
    <2>1. /\ c \in Ledger!Payloads(m) \cap Valid
          /\ \A u \in Teams(rows) : /\ rows[u] \in Ledger!Payloads(m) \cap Valid
                                    /\ u \in DOMAIN Box[rows[u]]
      BY RowsVouched
    <2>2. \A u \in Teams(rows) : Box[rows[u]] = Box[c]
      BY <2>1 DEF Irregular, Revised
    <2>3. Teams(rows) \subseteq DOMAIN Box[c]
      BY <2>1, <2>2
    <2>4. DOMAIN Box[c] \subseteq Teams(rows)
      BY DEF Whole
    <2>5. Cardinality(DOMAIN Box[c]) = 2
      BY <2>1 DEF Irregular
    <2>6. DOMAIN Box[c] = Teams(rows)
      BY <2>3, <2>4
    <2> QED
      BY <2>5, <2>6
  <1> QED
    BY <1>1, <1>2

\* The staged and the gold numbers of a regular match agree.
LEMMA RegularReconciles ==
    ASSUME ProvInv, \A m \in Match : ~Irregular(m)
    PROVE  Reconciles(Match)
  <1> SUFFICES ASSUME NEW m \in Match, stg[m] # NoContent,
                      NEW t \in Teams(team[m]) \cap DOMAIN Box[stg[m]]
               PROVE  Box[team[m][t]][t] = Box[stg[m]][t]
    BY DEF Reconciles
  <1>1. team[m][t] \in Ledger!Payloads(m) \cap Valid
    BY RowsVouched
  <1>2. stg[m] \in Ledger!Payloads(m) \cap Valid
    BY DEF ProvInv, ServedRows, Vouched
  <1>3. Box[team[m][t]] = Box[stg[m]]
    BY <1>1, <1>2 DEF Irregular, Revised
  <1> QED
    BY <1>3

\* A test that fails has a reason.
LEMMA TestFailsFor ==
    ASSUME FailInv, NEW r \in Run, NEW n \in Test, Ready(r, n), ~Passes(n, Match)
    PROVE  \/ run[r].task = "build_dbt" /\ "fact_gold_team" \notin exists
           \/ \E m \in Match : Irregular(m)
  <1> SUFFICES ASSUME \A m \in Match : ~Irregular(m)
               PROVE  run[r].task = "build_dbt" /\ "fact_gold_team" \notin exists
    OBVIOUS
  <1>1. Reconciles(Match)
    BY RegularReconciles DEF FailInv
  <1>2. Pairs(team, Match) /\ Pairs(ivl, Match)
    BY RegularRows DEF FailInv, WholeBoxes, Pairs
  <1>3. ~(Parents(n) \subseteq exists)
    BY <1>1, <1>2 DEF Passes
  <1>4. /\ run[r].task \in {"build_dbt", "build_gold_facts"}
        /\ n \in Selected(DbtSelect(run[r].task))
        /\ Parents(n) \cap job[r].todo = {}
        /\ Selected(DbtSelect(run[r].task)) \cap Model \subseteq job[r].todo \cup exists
    BY DEF Ready, FailInv, OrderInv, PinInv, Busy, BuildOfRun, Created
  <1>5. /\ Parents("reconciles") = {"stg_silver_events", "fact_gold_team"}
        /\ Parents("two_teams") = {"fact_gold_team"}
        /\ Parents("row_count") = {"fact_gold_intervals"}
    BY DEF Parents
  <1>6. CASE run[r].task = "build_dbt"
    <2>1. n = "reconciles"
      BY <1>4, <1>5, <1>6 DEF Selected, DbtSelect, Test
    <2>2. "stg_silver_events" \in exists
      BY <1>4, <1>5, <1>6, <2>1, Selections
    <2> QED
      BY <1>3, <1>5, <1>6, <2>1, <2>2
  <1>7. CASE run[r].task = "build_gold_facts"
    <2>1. {"fact_gold_team", "fact_gold_intervals"} \subseteq job[r].todo \cup exists
      BY <1>4, <1>7, Selections
    <2>2. Parents(n) \subseteq exists
      BY <1>4, <1>5, <2>1 DEF Test, FailInv, Created
    <2> QED
      BY <1>3, <2>2
  <1> QED
    BY <1>4, <1>6, <1>7

\* What running a node does to the tables that exist and to the outcome.
LEMMA NodeCreates ==
    ASSUME job \in [Builder -> Jobs], NEW b \in Builder, RunNode(b)
    PROVE  \E n \in job[b].todo :
              /\ job'[b].todo = job[b].todo \ {n}
              /\ \/ /\ n \in Model /\ Parents(n) \subseteq exists
                    /\ exists' = exists \cup {n} /\ job'[b].failed = job[b].failed
                 \/ /\ n \in Test /\ Ready(b, n) /\ exists' = exists
                    /\ job'[b].failed <=> job[b].failed \/ ~Passes(n, Match)
  <1>1. PICK n \in job[b].todo : RunModel(b, n) \/ RunTest(b, n)
    BY DEF RunNode
  <1>2. job[b] \in Jobs
    OBVIOUS
  <1>3. CASE RunModel(b, n)
    BY <1>2, <1>3 DEF RunModel, Jobs
  <1>4. CASE RunTest(b, n)
    BY <1>2, <1>4 DEF RunTest, Jobs
  <1> QED
    BY <1>1, <1>3, <1>4

\* An irregular match stays irregular: nothing leaves the manifest.
LEMMA IrregularStays ==
    ASSUME NEW r \in Run, Apart(r), NEW m \in Match, Irregular(m)
    PROVE  Irregular(m)'
  BY DEF Apart, Irregular, Revised

\* A move of a run keeps the tables that builds have created.
LEMMA CreatedMove ==
    ASSUME OrderInv, OrderInv', Created, NEW r \in Run, Moves(r), Apart(r)
    PROVE  Created'
  <1>0. /\ job \in [Builder -> Jobs] /\ r \in Builder /\ Busy /\ Busy' /\ BuildOfRun
    BY RunAssumption DEF OrderInv, PinInv, TypeOK, WarehouseTypeOK
  <1>1. ASSUME exists' = exists, NEW q \in Run, q # r, job'[q].open
        PROVE  Selected(DbtSelect(run'[q].task)) \cap Model \subseteq job'[q].todo \cup exists'
    BY <1>1 DEF Apart, Created
  <1>2. CASE Opens(r)
    <2>1. /\ exists' = exists /\ run' = run
          /\ job'[r].todo = Selected(DbtSelect(run[r].task))
      BY <1>0, <1>2 DEF Opens
    <2> QED
      BY <1>1, <2>1 DEF Created
  <1>3. CASE Builds(r)
    <2>1. PICK n \in job[r].todo :
              /\ job'[r].todo = job[r].todo \ {n}
              /\ \/ n \in Model /\ Parents(n) \subseteq exists /\ exists' = exists \cup {n}
                 \/ n \in Test /\ exists' = exists
      BY <1>0, <1>3, NodeCreates DEF Builds
    <2>2. job[r].open /\ run' = run
      BY <1>0, <1>3, NodeFacts DEF Builds
    <2>3. \A q \in Run : job'[q].open => q = r
      BY <1>0, <2>2 DEF Apart, Busy, OrderInv, OneRunning
    <2>4. Selected(DbtSelect(run[r].task)) \cap Model \subseteq job'[r].todo \cup exists'
      <3>1. Test \cap Model = {}
        BY DEF Test, Model
      <3> QED
        BY <2>1, <2>2, <3>1 DEF Created
    <2>5. exists' \cap {"fact_gold_team", "fact_gold_intervals"} # {} =>
             "stg_silver_events" \in exists'
      <3>1. \A k \in {"fact_gold_team", "fact_gold_intervals"} :
                Parents(k) = {"stg_silver_events"}
        BY DEF Parents
      <3> QED
        BY <2>1, <3>1 DEF Created
    <2> QED
      BY <2>2, <2>3, <2>4, <2>5 DEF Created
  <1>4. CASE ~job'[r].open /\ exists' = exists
    BY <1>1, <1>4 DEF Created
  <1>5. CASE Rests(r) \/ Stops(r) \/ Advances(r) \/ Closes(r) \/ Draws(r)
    <2>1. exists' = exists
      BY <1>5 DEF Rests, Stops, Advances, Closes, Draws
    <2>2. ~job'[r].open
      BY <1>0, <1>5 DEF Rests, Stops, Advances, Passed, Closes, Draws, Busy, NoJob
    <2> QED
      BY <1>4, <2>1, <2>2
  <1> QED
    BY <1>2, <1>3, <1>5 DEF Moves

\* A move of a run keeps the reason for which a build has failed.
LEMMA FailsMove ==
    ASSUME FailInv, OrderInv', NEW r \in Run, Moves(r), Apart(r)
    PROVE  FailsFor'
  <1>0. /\ job \in [Builder -> Jobs] /\ r \in Builder /\ Busy /\ BuildOfRun /\ BuildOfRun'
        /\ OrderInv /\ FailsFor
    BY RunAssumption DEF FailInv, OrderInv, PinInv, TypeOK, WarehouseTypeOK
  <1> SUFFICES ASSUME NEW q \in Run, job'[q].failed
               PROVE  \/ run'[q].task = "build_dbt" /\ "fact_gold_team" \notin exists'
                      \/ \E m \in Match : Irregular(m)'
    BY DEF FailsFor
  <1>1. CASE \E m \in Match : Irregular(m)
    BY <1>1, IrregularStays
  <1>2. CASE q # r
    <2>1. run'[q].state = "running"
      BY <1>0 DEF OrderInv, PinInv, Busy, BuildOfRun
    <2>2. exists' = exists
      BY <1>0, <1>2, <2>1, OthersRest DEF Rests
    <2>3. run'[q] = run[q] /\ job'[q] = job[q]
      BY <1>2 DEF Apart
    <2> QED
      BY <1>0, <1>1, <2>2, <2>3 DEF FailsFor
  <1>3. CASE q = r /\ Builds(r)
    <2>1. PICK n \in job[r].todo :
              \/ n \in Model /\ exists' = exists \cup {n} /\ job'[r].failed = job[r].failed
              \/ /\ n \in Test /\ Ready(r, n) /\ exists' = exists
                 /\ job'[r].failed => job[r].failed \/ ~Passes(n, Match)
      BY <1>0, <1>3, NodeCreates DEF Builds
    <2>2. run' = run /\ job[r].open /\ n \in Selected(DbtSelect(run[r].task))
      BY <1>0, <1>3, NodeFacts DEF Builds, BuildOfRun
    <2>3. \/ run[r].task = "build_dbt" /\ "fact_gold_team" \notin exists
          \/ \E m \in Match : Irregular(m)
      BY <1>0, <1>3, <2>1, TestFailsFor DEF FailsFor
    <2>4. "fact_gold_team" \in exists' /\ run[r].task = "build_dbt" =>
             "fact_gold_team" \in exists
      BY <2>1, <2>2, Selections
    <2> QED
      BY <1>1, <1>3, <2>2, <2>3, <2>4
  <1>4. CASE q = r /\ ~Builds(r)
    <2>1. job'[r].open
      BY <1>0, <1>4 DEF BuildOfRun
    <2>2. Opens(r)
      BY <1>0, <1>4, <2>1
         DEF Moves, Rests, Stops, Advances, Closes, Draws, Busy, NoJob
    <2>3. ~job'[r].failed
      BY <1>0, <2>2 DEF Opens
    <2> QED
      BY <1>4, <2>3
  <1> QED
    BY <1>2, <1>3, <1>4

\* No build has failed at first, and the tables are all there or none is.
LEMMA FailInit == Init => FailInv
  <1> SUFFICES ASSUME Init PROVE FailInv
    OBVIOUS
  <1>1. \A r \in Run : ~job[r].open /\ ~job[r].failed
    <2>1. ~NoJob.open /\ ~NoJob.failed
      BY DEF NoJob
    <2> QED
      BY <2>1, RunAssumption DEF Init, WarehouseInit
  <1>2. FailsFor /\ Created
    BY <1>1 DEF FailsFor, Created, Init, WarehouseInit, Model
  <1>3. WholeBoxes
    BY ServeInit DEF ServeInv
  <1> QED
    BY <1>2, <1>3, OrderInit, ProvInit DEF FailInv

\* Every step keeps the reasons.
LEMMA FailStep == FailInv /\ [Next]_vars => FailInv'
  <1> SUFFICES ASSUME FailInv, [Next]_vars PROVE FailInv'
    OBVIOUS
  <1>1. OrderInv' /\ ProvInv'
    BY OrderStep, ProvStep DEF FailInv
  <1>2. CASE UNCHANGED vars
    <2>1. WholeBoxes' /\ Created'
      BY <1>2 DEF vars, FailInv, WholeBoxes, Created
    <2>2. FailsFor'
      BY <1>2 DEF vars, FailInv, FailsFor, Irregular, Revised, Ledger!Payloads
    <2> QED
      BY <1>1, <2>1, <2>2 DEF FailInv
  <1>3. ASSUME NEW r \in Run, Moves(r), Apart(r) PROVE FailInv'
    <2>1. WholeBoxes' /\ Created'
      BY <1>1, <1>3, WholeMove, CreatedMove DEF FailInv
    <2>2. FailsFor'
      BY <1>1, <1>3, FailsMove
    <2> QED
      BY <1>1, <2>1, <2>2 DEF FailInv
  <1> QED
    BY <1>2, <1>3, StepMoves DEF FailInv

\* A dbt build fails by a test only when fact_gold_team is not there yet, or
\* when some match has been revised or has a payload without two teams.
THEOREM DbtAlwaysFailsForReason == Spec => []DbtFailsOnlyOnRevision
  <1>1. Init => FailInv
    BY FailInit
  <1>2. FailInv /\ [Next]_vars => FailInv'
    BY FailStep
  <1>3. FailInv => DbtFailsOnlyOnRevision
    BY DEF FailInv, FailsFor, Irregular, DbtFailsOnlyOnRevision
  <1> QED
    BY <1>1, <1>2, <1>3, PTL DEF Spec
=============================================================================
