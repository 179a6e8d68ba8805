------------------------- MODULE GoldRebuild_proofs -------------------------
(***************************************************************************)
(* Proofs about GoldRebuild, for any matches, teams, payloads, worker and  *)
(* rebuild runs: what holds of the worker runs of MatchPipeline holds      *)
(* beside rebuilds too, fact_team_match keeps to pairs of teams when the   *)
(* dbt pool has one slot, rebuilds repair what failed runs left, and they  *)
(* spoil no table of a worker's success.                                   *)
(***************************************************************************)
EXTENDS GoldRebuild, MatchPipeline_proofs, FiniteSetTheorems

\* What holds of the worker runs, and of the state of rebuilds.
RebuildInv == ProvInv /\ RebuildTypeOK

\* One dbt build is open at a time.
OneBuild == \A c, d \in Builder : job[c].open /\ job[d].open => c = d

\* A rebuild with marts to build has its dbt build open, with fact_gold_team
\* before its test, and is past the test only when fact_gold_team passed it.
Gated ==
    \A b \in Rebuild : rebuild[b].todo # {} =>
        /\ job[b].open
        /\ "fact_gold_team" \in job[b].todo => "two_teams" \in job[b].todo
        /\ "two_teams" \notin job[b].todo => Pairs(team, Match)

\* What makes TeamMatchInPairs inductive, in a pool of one slot.
PairsInv == RebuildInv /\ OneBuild /\ Gated /\ TeamMatchInPairs

-----------------------------------------------------------------------------
(* Worker runs *)

\* A step of a worker run is a step of MatchPipeline.
LEMMA WorkerNext ==
    ASSUME NEW r \in Run, WorkerStep(r)
    PROVE  Next /\ UNCHANGED <<rebuild, marts, copied, dim>> /\ Watch({r})
  BY DEF WorkerStep, Next, marting

\* The steps of the other runs do not touch what is held about run r, and the
\* steps of run r keep to its own build and call.
LEMMA WorkerTables ==
    ASSUME TypeOK, NEW r \in Run, WorkerStep(r)
    PROVE  /\ \A d \in Builder : d # r => job'[d] = job[d] /\ desk'[d] = desk[d]
           /\ UNCHANGED team \/ RunNode(r)
           /\ \/ UNCHANGED job \/ RunNode(r) \/ ~job'[r].open
              \/ Cardinality({d \in Builder : job[d].open}) < DbtSlots
           /\ UNCHANGED lake \/ \E x : lake' = Append(lake, x)
  <1>0. /\ r \in Builder /\ job \in [Builder -> Jobs] /\ desk \in [Builder -> Desk]
    BY RunAssumption DEF TypeOK, WarehouseTypeOK, ReportsTypeOK
  <1>1. CASE \/ \E m \in Match : Trigger(r, m)
             \/ Begin(r)
             \/ \E t \in TaskNames : Clear(r, t)
    BY <1>1 DEF Trigger, Begin, Clear, warehouse, reports, lakehouse
  <1>2. CASE TaskFails(r)
    BY <1>0, <1>2 DEF TaskFails, lakehouse, NoJob
  <1>3. CASE Work(r)
    <2>1. CASE (\E c \in Content : Ingest(r, c)) \/ Bronze(r) \/ Rejects(r)
      BY <2>1 DEF Ingest, Bronze, Rejects, warehouse, reports, lakehouse
    <2>2. CASE Silver(r)
      BY <2>2 DEF Silver, warehouse, reports
    <2>3. CASE Load(r)
      BY <2>3 DEF Load, LoadSrc, reports, lakehouse
    <2>4. CASE StartDbt(r)
      BY <1>0, <2>4 DEF StartDbt, StartBuild, reports, lakehouse
    <2>5. CASE RunDbt(r)
      <3>1. \A d \in Builder : d # r => job'[d] = job[d]
        BY <1>0, <2>5 DEF RunDbt, RunNode, RunModel, RunTest
      <3> QED
        BY <2>5, <3>1 DEF RunDbt, reports, lakehouse
    <2>6. CASE EndDbt(r)
      BY <1>0, <2>6 DEF EndDbt, CloseBuild, reports, lakehouse, NoJob
    <2>7. CASE Report(r)
      <3>1. \A d \in Builder : d # r => desk'[d] = desk[d]
        BY <1>0, <2>7 DEF Report, StartReports, ReadRows, Draw
      <3> QED
        BY <2>7, <3>1 DEF Report, warehouse, lakehouse
    <2>8. CASE EndReports(r)
      BY <1>0, <2>8 DEF EndReports, CloseReports, warehouse, lakehouse
    <2> QED
      BY <1>3, <2>1, <2>2, <2>3, <2>4, <2>5, <2>6, <2>7, <2>8 DEF Work
  <1> QED
    BY <1>1, <1>2, <1>3 DEF WorkerStep

-----------------------------------------------------------------------------
(* Rebuild runs *)

\* A rebuild that has not begun is well-typed.
LEMMA NoRebuildType ==
    ASSUME NEW m \in Match
    PROVE  /\ NoRebuild \in Rebuilds
           /\ [NoRebuild EXCEPT !.state = "queued", !.match = m] \in Rebuilds
  BY BoxAssumption DEF NoRebuild, Rebuilds

\* Whether a run is alone is a truth value.
LEMMA AloneType ==
    ASSUME NEW S, Watch(S)
    PROVE  alone' \in [Run \cup Rebuild -> BOOLEAN]
  BY DEF Watch

\* A rebuild takes no part in what holds of the worker runs, as long as the
\* tables and files it writes stay typed and accounted for.
LEMMA WorkersKept ==
    ASSUME ProvInv, NEW b \in Rebuild,
           UNCHANGED <<run, clears, ledger, bronze, lake>>,
           \A d \in Builder : d # b => job'[d] = job[d] /\ desk'[d] = desk[d],
           WarehouseTypeOK', ReportsTypeOK', ServedRows', ServedFiles'
    PROVE  ProvInv'
  <1>0. /\ TypeOK /\ Busy /\ SnapshotBehindSilver /\ PinnedSnapshotIsOwn
        /\ Registered /\ Vouched
    BY DEF ProvInv, PinInv
  <1>1. TypeOK'
    BY <1>0, TypeParts DEF TypeOK, lakehouse
  <1>2. Busy'
    <2>1. \A r \in Run : r \in Builder /\ r # b
      BY RunAssumption, RebuildAssumption
    <2> QED
      BY <1>0, <2>1 DEF Busy
  <1>3. SnapshotBehindSilver' /\ PinnedSnapshotIsOwn'
    BY <1>0 DEF SnapshotBehindSilver, PinnedSnapshotIsOwn, Scan
  <1>4. \A m \in Match : /\ Ledger!Payloads(m)' = Ledger!Payloads(m)
                         /\ Committed(m)' = Committed(m)
    BY DEF Ledger!Payloads, Committed
  <1>5. Registered'
    <2>1. \A r \in Run : run[r].match \in Match
      BY <1>0 DEF TypeOK, Runs
    <2> QED
      BY <1>0, <1>4, <2>1 DEF Registered
  <1>6. Vouched'
    BY <1>0, <1>4 DEF Vouched
  <1> QED
    BY <1>1, <1>2, <1>3, <1>5, <1>6 DEF ProvInv, PinInv

\* The rows and files stay accounted for when none of them changes.
LEMMA ServedStays ==
    ASSUME ProvInv, UNCHANGED <<src, stg, team, ivl, files, lake>>,
           \A d \in Builder : desk'[d] = desk[d] \/ desk'[d] = Closed
    PROVE  ServedRows' /\ ServedFiles'
  <1>1. \A m \in Match : Committed(m)' = Committed(m)
    BY DEF Committed
  <1>2. ServedRows'
    BY <1>1 DEF ProvInv, ServedRows
  <1>3. ServedFiles'
    <2>1. \A d \in Builder : desk[d].match \in Match
      BY DEF ProvInv, PinInv, TypeOK, ReportsTypeOK, Desk
    <2>2. /\ Closed.stg = NoContent
          /\ \A t \in Team : Closed.team[t] = NoContent /\ Closed.ivl[t] = NoContent
      BY DEF Closed, NoRows
    <2>3. ASSUME NEW d \in Builder
          PROVE  /\ ({desk[d].stg} \ {NoContent} \subseteq Committed(desk[d].match))'
                 /\ \A t \in Team :
                       ({desk[d].team[t], desk[d].ivl[t]} \ {NoContent} \subseteq
                           {c \in Committed(desk[d].match) : t \in DOMAIN Box[c]})'
      <3>1. CASE desk'[d] = desk[d]
        BY <1>1, <2>1, <3>1 DEF ProvInv, ServedFiles
      <3>2. CASE desk'[d] = Closed
        BY <2>2, <3>2
      <3> QED
        BY <3>1, <3>2
    <2> QED
      BY <1>1, <2>3 DEF ProvInv, ServedFiles
  <1> QED
    BY <1>2, <1>3

\* The state after a step of rebuild b is well-typed when the parts are.
LEMMA RebuildParts ==
    ASSUME RebuildInv, ProvInv', NEW b \in Rebuild,
           NEW x \in Rebuilds, rebuild' = [rebuild EXCEPT ![b] = x],
           \A d \in Builder : d # b => job'[d] = job[d] /\ desk'[d] = desk[d],
           marts' \subseteq Mart, copied' \in [Match -> Rows], dim' \in BOOLEAN,
           Watch({b}),
           job'[b].open => x.state = "running" /\ x.task = "build_silver_events_dbt",
           desk'[b].step # "closed" => x.state = "running" /\ x.task = "reports"
    PROVE  RebuildInv'
  <1>1. TypeOK' /\ alone' \in [Run \cup Rebuild -> BOOLEAN]
    BY AloneType DEF ProvInv, PinInv
  <1>2. rebuild' \in [Rebuild -> Rebuilds] /\ rebuild'[b] = x
    BY DEF RebuildInv, RebuildTypeOK
  <1>3. \A d \in Rebuild : d # b => rebuild'[d] = rebuild[d]
    BY DEF RebuildInv, RebuildTypeOK
  <1>4. \A d \in Rebuild :
           /\ job'[d].open => On(d, "build_silver_events_dbt")'
           /\ desk'[d].step # "closed" => On(d, "reports")'
    <2> TAKE d \in Rebuild
    <2>1. CASE d = b
      BY <1>2, <2>1 DEF On
    <2>2. CASE d # b
      BY <1>3, <2>2, RebuildAssumption DEF RebuildInv, RebuildTypeOK, On
    <2> QED
      BY <2>1, <2>2
  <1> QED
    BY <1>1, <1>2, <1>4 DEF RebuildInv, RebuildTypeOK

\* The fields of a rebuild after one of them has changed.
LEMMA RebuildType ==
    ASSUME NEW x \in Rebuilds,
           NEW s \in {"running", "failed", "success"}, NEW T \in SUBSET Mart
    PROVE  /\ [x EXCEPT !.state = s] \in Rebuilds
           /\ [x EXCEPT !.state = s, !.todo = T] \in Rebuilds
           /\ [x EXCEPT !.task = "reports"] \in Rebuilds
           /\ [x EXCEPT !.todo = T] \in Rebuilds
  BY DEF Rebuilds

\* A step of a rebuild that leaves the tables, the files, the build and the
\* call of every run alone.
LEMMA RebuildControl ==
    ASSUME RebuildInv, NEW b \in Rebuild, NEW x \in Rebuilds,
           rebuild' = [rebuild EXCEPT ![b] = x],
           UNCHANGED <<vars, marting>>, Watch({b}),
           job[b].open => x.state = "running" /\ x.task = "build_silver_events_dbt",
           desk[b].step # "closed" => x.state = "running" /\ x.task = "reports"
    PROVE  RebuildInv'
  <1>1. /\ UNCHANGED <<src, stg, team, ivl, exists, job, desk, files, ledger,
                       bronze, lake, run, clears, marts, copied, dim>>
    BY DEF vars, marting
  <1>2. WarehouseTypeOK' /\ ReportsTypeOK'
    BY <1>1, StaysTyped DEF RebuildInv, RebuildTypeOK, TypeOK, warehouse, reports
  <1>3. ServedRows' /\ ServedFiles'
    BY <1>1, ServedStays DEF RebuildInv
  <1>4. ProvInv'
    BY <1>1, <1>2, <1>3, WorkersKept DEF RebuildInv
  <1> QED
    BY <1>1, <1>4, RebuildParts DEF RebuildInv, RebuildTypeOK

\* The rows copied to fact_team_match are rows.
LEMMA CopiedType ==
    ASSUME team \in [Match -> Rows], copied \in [Match -> Rows], NEW m \in Match
    PROVE  Copied(m) \in Rows
  BY DEF Copied, Rows

\* Every step of a rebuild keeps the state typed and accounted for.
LEMMA RebuildKeeps ==
    ASSUME RebuildInv, NEW b \in Rebuild, RebuildStep(b)
    PROVE  RebuildInv'
  <1>0. /\ b \in Builder /\ TypeOK /\ WarehouseTypeOK /\ ReportsTypeOK
        /\ ServedRows /\ ServedFiles /\ ProvInv
        /\ rebuild \in [Rebuild -> Rebuilds] /\ rebuild[b] \in Rebuilds
        /\ rebuild[b].match \in Match
        /\ job \in [Builder -> Jobs] /\ desk \in [Builder -> Desk]
        /\ marts \subseteq Mart /\ copied \in [Match -> Rows] /\ dim \in BOOLEAN
        /\ job[b].open => On(b, "build_silver_events_dbt")
        /\ desk[b].step # "closed" => On(b, "reports")
        /\ Watch({b})
    BY RebuildAssumption DEF RebuildInv, RebuildTypeOK, ProvInv, TypeOK,
                             WarehouseTypeOK, ReportsTypeOK, RebuildStep, Rebuilds
  <1>1. ASSUME UNCHANGED <<run, clears, ledger, bronze, lake, desk, files>>,
               WarehouseTypeOK', ServedRows',
               \A d \in Builder : d # b => job'[d] = job[d]
        PROVE  ProvInv'
    <2>1. ReportsTypeOK' /\ ServedFiles'
      <3>1. \A d \in Builder : desk[d].match \in Match
        BY <1>0 DEF Desk
      <3>2. \A m \in Match : Committed(m)' = Committed(m)
        BY <1>1 DEF Committed
      <3>3. ServedFiles'
        <4>1. ASSUME NEW d \in Builder
              PROVE  /\ ({desk[d].stg} \ {NoContent} \subseteq Committed(desk[d].match))'
                     /\ \A t \in Team :
                           ({desk[d].team[t], desk[d].ivl[t]} \ {NoContent} \subseteq
                               {c \in Committed(desk[d].match) : t \in DOMAIN Box[c]})'
          BY <1>0, <1>1, <3>1, <3>2 DEF ServedFiles
        <4>2. ASSUME NEW m \in Match
              PROVE  /\ ({files[m].shots, files[m].xg_timeline} \ {NoContent}
                            \subseteq Committed(m))'
                     /\ \A t \in Team :
                           ({files[m].summary[t], files[m].xt_momentum[t]} \ {NoContent}
                               \subseteq {c \in Committed(m) : t \in DOMAIN Box[c]})'
          BY <1>0, <1>1, <3>2 DEF ServedFiles
        <4> QED
          BY <4>1, <4>2 DEF ServedFiles
      <3> QED
        BY <1>0, <1>1, <3>3, StaysTyped DEF reports
    <2> QED
      BY <1>0, <1>1, <2>1, WorkersKept
  <1>2. ASSUME UNCHANGED <<run, clears, ledger, bronze, lake, src, stg, team, ivl,
                           exists, job>>,
               \A d \in Builder : d # b => desk'[d] = desk[d],
               ReportsTypeOK', ServedFiles'
        PROVE  ProvInv'
    <2>1. WarehouseTypeOK' /\ ServedRows'
      <3>1. \A m \in Match : Committed(m)' = Committed(m)
        BY <1>2 DEF Committed
      <3> QED
        BY <1>0, <1>2, <3>1, StaysTyped DEF warehouse, ServedRows
    <2> QED
      BY <1>0, <1>2, <2>1, WorkersKept
  <1>3. ASSUME NEW m \in Match, TriggerRebuild(b, m) PROVE RebuildInv'
    BY <1>0, <1>3, NoRebuildType, RebuildControl DEF TriggerRebuild, On
  <1>4. CASE BeginRebuild(b)
    <2>1. [rebuild[b] EXCEPT !.state = "running"] \in Rebuilds
      BY <1>0, RebuildType
    <2> QED
      BY <1>0, <1>4, <2>1, RebuildControl DEF BeginRebuild, On
  <1>5. CASE RebuildFails(b)
    <2> DEFINE x == [rebuild[b] EXCEPT !.state = "failed", !.todo = {}]
    <2>1. x \in Rebuilds /\ rebuild' = [rebuild EXCEPT ![b] = x]
      BY <1>0, <1>5, RebuildType DEF RebuildFails
    <2>2. /\ UNCHANGED <<src, stg, team, ivl, exists, files, ledger, bronze, lake,
                         run, clears, marts, copied, dim>>
          /\ job' = [job EXCEPT ![b] = NoJob] /\ desk' = [desk EXCEPT ![b] = Closed]
      BY <1>5 DEF RebuildFails, lakehouse, marting
    <2> HIDE DEF x
    <2>3. WarehouseTypeOK' /\ ReportsTypeOK'
      BY <1>0, <2>2, NoJobType, ClosedType DEF WarehouseTypeOK, ReportsTypeOK
    <2>4. ServedRows' /\ ServedFiles'
      BY <1>0, <2>2, ServedStays
    <2>5. /\ \A d \in Builder : d # b => job'[d] = job[d] /\ desk'[d] = desk[d]
          /\ ~job'[b].open /\ desk'[b].step = "closed"
      BY <1>0, <2>2 DEF NoJob, Closed
    <2>6. ProvInv'
      BY <1>0, <2>2, <2>3, <2>4, <2>5, WorkersKept
    <2> QED
      BY <1>0, <2>1, <2>2, <2>5, <2>6, RebuildParts
  <1>6. CASE StartRebuild(b)
    <2> DEFINE x == [rebuild[b] EXCEPT !.todo = Mart]
    <2>1. x \in Rebuilds /\ x.state = rebuild[b].state /\ x.task = rebuild[b].task
      BY <1>0, RebuildType DEF Rebuilds
    <2>2. rebuild' = [rebuild EXCEPT ![b] = x]
      BY <1>6 DEF StartRebuild
    <2>3. /\ UNCHANGED <<src, stg, team, ivl, desk, files, ledger, bronze, lake,
                         run, clears, marts, copied, dim>>
          /\ StartBuild(b, rebuild[b].match, RebuildSelect)
          /\ On(b, "build_silver_events_dbt")
      BY <1>6 DEF StartRebuild, StartBuild, reports, lakehouse, marting
    <2> HIDE DEF x
    <2>4. WarehouseTypeOK'
      BY <1>0, <2>3, StartBuildType DEF RebuildSelect
    <2>5. \A d \in Builder : d # b => job'[d] = job[d] /\ desk'[d] = desk[d]
      BY <1>0, <2>3 DEF StartBuild
    <2>6. ProvInv'
      BY <1>0, <1>1, <2>3, <2>4, <2>5, ServedStays
    <2> QED
      BY <1>0, <2>1, <2>2, <2>3, <2>5, <2>6, RebuildParts DEF On
  <1>7. CASE RunGated(b)
    <2>1. PICK T \in SUBSET Mart : rebuild' = [rebuild EXCEPT ![b].todo = T]
      BY <1>0, <1>7 DEF RunGated, Rebuilds
    <2> DEFINE x == [rebuild[b] EXCEPT !.todo = T]
    <2>2. x \in Rebuilds /\ x.state = rebuild[b].state /\ x.task = rebuild[b].task
      BY <1>0, RebuildType DEF Rebuilds
    <2>3. rebuild' = [rebuild EXCEPT ![b] = x]
      BY <2>1
    <2>4. /\ UNCHANGED <<desk, files, ledger, bronze, lake, run, clears, marts,
                         copied, dim>>
          /\ RunNode(b)
      BY <1>7 DEF RunGated, reports, lakehouse, marting
    <2> HIDE DEF x
    <2>5. WarehouseTypeOK' /\ ServedRows'
      BY <1>0, <2>4, RunNodeType, RunNodeServed
    <2>6. /\ \A d \in Builder : d # b => job'[d] = job[d] /\ desk'[d] = desk[d]
          /\ job[b].open
      BY <1>0, <2>4 DEF RunNode, RunModel, RunTest, Ready
    <2>7. ProvInv'
      BY <1>1, <2>4, <2>5, <2>6
    <2> QED
      BY <1>0, <2>2, <2>3, <2>4, <2>6, <2>7, RebuildParts DEF On
  <1>8. CASE RunMart(b)
    <2>1. PICK n \in rebuild[b].todo :
              /\ \/ n = "fact_team_match" /\ BuildTeamMatch(b)
                 \/ n = "team_match_enriched" /\ BuildEnriched(b)
              /\ rebuild' = [rebuild EXCEPT ![b].todo = @ \ {n}]
      BY <1>8 DEF RunMart
    <2> DEFINE x == [rebuild[b] EXCEPT !.todo = rebuild[b].todo \ {n}]
    <2>2. x \in Rebuilds /\ x.state = rebuild[b].state /\ x.task = rebuild[b].task
      <3>1. rebuild[b].todo \ {n} \in SUBSET Mart
        BY <1>0 DEF Rebuilds
      <3> QED
        BY <1>0, <3>1, RebuildType DEF Rebuilds
    <2>3. rebuild' = [rebuild EXCEPT ![b] = x]
      BY <2>1
    <2>4. /\ UNCHANGED <<src, stg, team, ivl, exists, desk, files, ledger, bronze,
                         lake, run, clears, dim>>
          /\ job[b].open
      BY <1>8 DEF RunMart, reports, lakehouse
    <2> HIDE DEF x
    <2>5. /\ marts' \subseteq Mart /\ copied' \in [Match -> Rows]
          /\ job' \in {job, [job EXCEPT ![b].failed = TRUE]}
      <3>1. CASE BuildTeamMatch(b)
        <4>1. \A m \in Match : Copied(m) \in Rows
          BY <1>0, CopiedType DEF WarehouseTypeOK
        <4> QED
          BY <1>0, <3>1, <4>1 DEF BuildTeamMatch, Mart
      <3>2. CASE BuildEnriched(b)
        BY <1>0, <3>2 DEF BuildEnriched, Mart
      <3> QED
        BY <2>1, <3>1, <3>2
    <2>6. /\ job' \in [Builder -> Jobs]
          /\ \A d \in Builder : d # b => job'[d] = job[d] /\ desk'[d] = desk[d]
      BY <1>0, <2>4, <2>5 DEF Jobs
    <2>7. WarehouseTypeOK'
      BY <1>0, <2>4, <2>6 DEF WarehouseTypeOK
    <2>8. ProvInv'
      BY <1>0, <1>1, <2>4, <2>6, <2>7, ServedStays
    <2> QED
      BY <1>0, <2>2, <2>3, <2>4, <2>5, <2>6, <2>8, RebuildParts DEF On
  <1>9. CASE EndRebuild(b)
    <2>1. PICK x \in Rebuilds : rebuild' = [rebuild EXCEPT ![b] = x]
      <3>1. /\ [rebuild[b] EXCEPT !.state = "failed"] \in Rebuilds
            /\ [rebuild[b] EXCEPT !.task = "reports"] \in Rebuilds
        BY <1>0, RebuildType
      <3> QED
        BY <1>9, <3>1 DEF EndRebuild
    <2>2. /\ UNCHANGED <<src, stg, team, ivl, exists, desk, files, ledger, bronze,
                         lake, run, clears, marts, copied, dim>>
          /\ job[b].open /\ job' = [job EXCEPT ![b] = NoJob]
          /\ CloseBuild(b)
      BY <1>9 DEF EndRebuild, CloseBuild, reports, lakehouse, marting
    <2>3. /\ \A d \in Builder : d # b => job'[d] = job[d] /\ desk'[d] = desk[d]
          /\ ~job'[b].open /\ desk'[b].step = "closed"
      BY <1>0, <2>2 DEF NoJob, On
    <2>4. ProvInv'
      BY <1>0, <1>1, <2>2, <2>3, CloseBuildType, ServedStays
    <2> QED
      BY <1>0, <2>1, <2>2, <2>3, <2>4, RebuildParts
  <1>10. CASE RebuildReports(b)
    <2>1. /\ UNCHANGED <<src, stg, team, ivl, exists, job, ledger, bronze, lake,
                         run, clears, rebuild, marts, copied, dim>>
          /\ \/ StartReports(b, rebuild[b].match) \/ ReadRows(b) \/ Draw(b)
      BY <1>10 DEF RebuildReports, warehouse, lakehouse, marting
    <2>2. On(b, "reports")
      <3>1. CASE ReadRows(b) \/ Draw(b)
        BY <1>0, <3>1 DEF ReadRows, Draw, Drawable
      <3> QED
        BY <1>10, <3>1 DEF RebuildReports
    <2>3. ReportsTypeOK' /\ ServedFiles'
      BY <1>0, <2>1, ReportsType, ReportServed
    <2>4. /\ \A d \in Builder : d # b => job'[d] = job[d] /\ desk'[d] = desk[d]
          /\ ~job'[b].open
      BY <1>0, <2>1, <2>2 DEF StartReports, ReadRows, Draw, On
    <2>5. ProvInv'
      BY <1>2, <2>1, <2>3, <2>4
    <2>6. rebuild' = [rebuild EXCEPT ![b] = rebuild[b]]
      BY <1>0, <2>1
    <2> QED
      BY <1>0, <2>1, <2>2, <2>4, <2>5, <2>6, RebuildParts DEF On
  <1>11. CASE EndRebuildReports(b)
    <2>1. PICK x \in Rebuilds : rebuild' = [rebuild EXCEPT ![b] = x]
      <3>1. /\ [rebuild[b] EXCEPT !.state = "failed"] \in Rebuilds
            /\ [rebuild[b] EXCEPT !.state = "success"] \in Rebuilds
        BY <1>0, RebuildType
      <3> QED
        BY <1>11, <3>1 DEF EndRebuildReports
    <2>2. /\ UNCHANGED <<src, stg, team, ivl, exists, job, files, ledger, bronze,
                         lake, run, clears, marts, copied, dim>>
          /\ desk[b].step # "closed" /\ desk' = [desk EXCEPT ![b] = Closed]
          /\ CloseReports(b)
      BY <1>11 DEF EndRebuildReports, CloseReports, warehouse, lakehouse, marting
    <2>3. /\ \A d \in Builder : d # b => job'[d] = job[d] /\ desk'[d] = desk[d]
          /\ ~job'[b].open /\ desk'[b].step = "closed"
      BY <1>0, <2>2 DEF Closed, On
    <2>4. ReportsTypeOK' /\ ServedFiles'
      BY <1>0, <2>2, ReportsType, ReportServed
    <2>5. ProvInv'
      BY <1>2, <2>2, <2>3, <2>4
    <2> QED
      BY <1>0, <2>1, <2>2, <2>3, <2>5, RebuildParts
  <1> QED
    BY <1>3, <1>4, <1>5, <1>6, <1>7, <1>8, <1>9, <1>10, <1>11
       DEF RebuildStep, RebuildWork

\* No run of either kind has begun.
LEMMA RebuildInvInit == RebuildInit => RebuildInv
  <1> SUFFICES ASSUME RebuildInit PROVE RebuildInv
    OBVIOUS
  <1>1. ProvInv
    BY ProvInit DEF RebuildInit
  <1>2. NoRebuild \in Rebuilds
    BY NoRebuildType, BoxAssumption
  <1>3. \A b \in Rebuild : ~job[b].open /\ desk[b].step = "closed"
    BY RebuildAssumption DEF RebuildInit, Init, WarehouseInit, ReportsInit, NoJob, Closed
  <1>4. copied \in [Match -> Rows]
    BY DEF RebuildInit, Rows, NoRows
  <1> QED
    BY <1>1, <1>2, <1>3, <1>4
       DEF RebuildInit, RebuildInv, RebuildTypeOK, ProvInv, PinInv

\* Steps of worker runs, of rebuilds and of the discovery DAG keep it.
LEMMA RebuildInvStep == RebuildInv /\ [RebuildNext]_rebuildVars => RebuildInv'
  <1> SUFFICES ASSUME RebuildInv, [RebuildNext]_rebuildVars PROVE RebuildInv'
    OBVIOUS
  <1>0. /\ ProvInv /\ TypeOK /\ RebuildTypeOK
    BY DEF RebuildInv, RebuildTypeOK
  <1>1. CASE UNCHANGED rebuildVars
    <2>1. UNCHANGED vars /\ UNCHANGED <<job, desk, rebuild, marts, copied, dim, alone>>
      BY <1>1 DEF rebuildVars, vars, marting
    <2>2. ProvInv'
      BY <1>0, <2>1, ProvStep
    <2> QED
      BY <1>0, <2>1, <2>2 DEF RebuildInv, RebuildTypeOK, On, ProvInv, PinInv
  <1>2. ASSUME NEW r \in Run, WorkerStep(r) PROVE RebuildInv'
    <2>1. ProvInv' /\ alone' \in [Run \cup Rebuild -> BOOLEAN]
      BY <1>0, <1>2, WorkerNext, ProvStep, AloneType
    <2>2. UNCHANGED <<rebuild, marts, copied, dim>>
      BY <1>2, WorkerNext
    <2>3. \A b \in Rebuild : job'[b] = job[b] /\ desk'[b] = desk[b]
      BY <1>0, <1>2, WorkerTables, RebuildAssumption
    <2> QED
      BY <1>0, <2>1, <2>2, <2>3 DEF RebuildInv, RebuildTypeOK, On, ProvInv, PinInv
  <1>3. ASSUME NEW b \in Rebuild, RebuildStep(b) PROVE RebuildInv'
    BY <1>3, RebuildKeeps
  <1>4. CASE BuildDim /\ Watch({})
    <2>1. UNCHANGED vars /\ UNCHANGED <<job, desk, rebuild, marts, copied>> /\ dim' = TRUE
      BY <1>4 DEF BuildDim, vars
    <2>2. ProvInv' /\ alone' \in [Run \cup Rebuild -> BOOLEAN]
      BY <1>0, <1>4, <2>1, ProvStep, AloneType
    <2> QED
      BY <1>0, <2>1, <2>2 DEF RebuildInv, RebuildTypeOK, On, ProvInv, PinInv
  <1> QED
    BY <1>1, <1>2, <1>3, <1>4 DEF RebuildNext

\* The state of workers and rebuilds is well-typed, and a rebuild that holds a
\* slot of the pool or a call of generate_reports is in the task it is held for.
THEOREM RebuildTypeCorrect == RebuildSpec => []RebuildTypeOK
  <1>1. RebuildInv => RebuildTypeOK
    BY DEF RebuildInv
  <1> QED
    BY RebuildInvInit, RebuildInvStep, <1>1, PTL DEF RebuildSpec

\* Rebuilds change nothing a worker run pinned: also beside them the snapshot a
\* run carries holds the payload it ingested, after a cleared task as well.
THEOREM PinnedBesideRebuilds == RebuildSpec => []PinnedSnapshotIsOwn
  <1>1. RebuildInv => PinnedSnapshotIsOwn
    BY DEF RebuildInv, ProvInv, PinInv
  <1> QED
    BY RebuildInvInit, RebuildInvStep, <1>1, PTL DEF RebuildSpec

\* Rebuilds put nothing into the tables and the reports either that was not
\* accepted, committed to Silver and registered for its match, though they
\* neither load nor pin a snapshot and overlap with the worker runs.
THEOREM ProvenanceBesideRebuilds == RebuildSpec => []Provenance
  <1>1. RebuildInv => Provenance
    BY DEF RebuildInv, ProvInv, Vouched, ServedRows, ServedFiles, Provenance
  <1> QED
    BY RebuildInvInit, RebuildInvStep, <1>1, PTL DEF RebuildSpec

-----------------------------------------------------------------------------
(* fact_team_match *)

\* A build keeps the rows of every team in fact_gold_team.
LEMMA TeamsGrow ==
    ASSUME TypeOK, NEW b \in Builder, RunNode(b),
           NEW m \in Match, NEW t \in Team, team[m][t] # NoContent
    PROVE  team'[m][t] # NoContent
  <1> PICK n \in job[b].todo : RunModel(b, n) \/ RunTest(b, n)
    BY DEF RunNode
  <1>1. CASE UNCHANGED team
    BY <1>1
  <1>2. CASE BuildTeam(job[b].match)
    BY <1>2 DEF BuildTeam, Merge
  <1> QED
    BY <1>1, <1>2 DEF RunModel, RunTest, BuildStg, BuildIntervals

\* Only a node of an open build changes fact_gold_team: the node of that name,
\* before which no test of it runs.
LEMMA TeamChanges ==
    ASSUME TypeOK, NEW b \in Builder, RunNode(b)
    PROVE  /\ job[b].open /\ job'[b].open
           /\ \A d \in Builder : d # b => job'[d] = job[d]
           /\ \E n \in job[b].todo :
                 /\ job'[b].todo = job[b].todo \ {n}
                 /\ n # "fact_gold_team" => UNCHANGED team
                 /\ n = "two_teams" => "fact_gold_team" \notin job[b].todo
                 /\ n \in Model \/ n \in Test
  <1> PICK n \in job[b].todo : RunModel(b, n) \/ RunTest(b, n)
    BY DEF RunNode
  <1>0. job \in [Builder -> Jobs] /\ job[b] \in Jobs
    BY DEF TypeOK, WarehouseTypeOK
  <1>1. /\ job[b].open
        /\ \A d \in Builder : d # b => job'[d] = job[d]
        /\ job'[b].open = job[b].open /\ job'[b].todo = job[b].todo \ {n}
    BY <1>0 DEF RunModel, RunTest, Ready, Jobs
  <1>2. n # "fact_gold_team" => UNCHANGED team
    BY DEF RunModel, RunTest, BuildStg, BuildIntervals
  <1>3. n = "two_teams" => "fact_gold_team" \notin job[b].todo
    BY DEF RunModel, RunTest, Ready, Parents
  <1> QED
    BY <1>1, <1>2, <1>3 DEF RunModel, RunTest

\* In a pool of one slot a build opens when no other is open.
LEMMA SlotIsFree ==
    ASSUME DbtSlots = 1, OneBuild,
           Cardinality({d \in Builder : job[d].open}) < DbtSlots
    PROVE  \A d \in Builder : ~job[d].open
  <1> SUFFICES ASSUME NEW d \in Builder, job[d].open PROVE FALSE
    OBVIOUS
  <1>1. {c \in Builder : job[c].open} = {d}
    BY DEF OneBuild
  <1>2. Cardinality({d}) = 1
    BY FS_Singleton
  <1> QED
    BY <1>1, <1>2

\* A copied row stays accounted for while Silver only grows and no row of
\* fact_gold_team goes away.
LEMMA CopiedKept ==
    ASSUME TeamMatchInPairs, UNCHANGED copied,
           \A m \in Match : Committed(m) \subseteq Committed(m)',
           \A m \in Match, t \in Team : team[m][t] # NoContent => team'[m][t] # NoContent
    PROVE  TeamMatchInPairs'
  <1>1. \A m \in Match : Teams(copied[m])' = Teams(copied[m])
    BY DEF Teams
  <1>2. \A m \in Match : Teams(copied[m]) \subseteq Team
    BY DEF Teams
  <1> QED
    BY <1>1, <1>2 DEF TeamMatchInPairs

\* One build, and rebuilds behind their gates, while a rebuild or no run at
\* all changes neither fact_gold_team nor what another run has open.
LEMMA GatesKept ==
    ASSUME RebuildInv, OneBuild, Gated, NEW b \in Rebuild,
           \A d \in Rebuild : d # b => rebuild'[d] = rebuild[d],
           \A d \in Builder : d # b => job'[d] = job[d],
           job'[b].open => job[b].open,
           UNCHANGED team,
           \/ rebuild'[b].todo = {}
           \/ /\ rebuild'[b].todo \subseteq rebuild[b].todo
              /\ job'[b].todo = job[b].todo /\ job'[b].open = job[b].open
    PROVE  OneBuild' /\ Gated'
  <1>1. OneBuild'
    BY DEF OneBuild
  <1>2. Pairs(team, Match) => Pairs(team, Match)'
    BY DEF Pairs, Teams
  <1>3. ASSUME NEW d \in Rebuild, rebuild'[d].todo # {}
        PROVE  /\ rebuild[d].todo # {} /\ job'[d].open = job[d].open
               /\ job'[d].todo = job[d].todo
    BY <1>3, RebuildAssumption
  <1>4. Gated'
    BY <1>2, <1>3 DEF Gated
  <1> QED
    BY <1>1, <1>4

\* fact_team_match copies rows of pairs that are committed, and keeps those
\* it has.
LEMMA CopiedInPairs ==
    ASSUME RebuildInv, TeamMatchInPairs, Pairs(team, Match), NEW b \in Rebuild,
           BuildTeamMatch(b), UNCHANGED <<team, lake>>
    PROVE  TeamMatchInPairs'
  <1>0. /\ copied \in [Match -> Rows] /\ ServedRows
        /\ \A m \in Match : Committed(m)' = Committed(m)
    BY DEF RebuildInv, RebuildTypeOK, ProvInv, Committed
  <1> SUFFICES ASSUME NEW m \in Match
               PROVE  /\ Cardinality(Teams(copied'[m])) \in {0, 2}
                      /\ \A t \in Teams(copied'[m]) : /\ copied'[m][t] \in Committed(m)
                                                      /\ team[m][t] # NoContent
    BY <1>0 DEF TeamMatchInPairs, Teams
  <1>1. /\ Cardinality(Teams(copied[m])) \in {0, 2}
        /\ \A t \in Teams(copied[m]) : /\ copied[m][t] \in Committed(m)
                                       /\ team[m][t] # NoContent
    BY DEF TeamMatchInPairs
  <1>2. CASE copied'[m] = copied[m]
    BY <1>1, <1>2
  <1>3. CASE copied'[m] = Copied(m)
    <2>1. \A t \in Team : copied'[m][t] = IF team[m][t] # NoContent THEN team[m][t]
                                                                 ELSE copied[m][t]
      BY <1>3 DEF Copied
    <2>2. Teams(copied'[m]) = Teams(team[m])
      BY <1>1, <2>1 DEF Teams
    <2>3. Cardinality(Teams(team[m])) \in {0, 2}
      BY DEF Pairs
    <2>4. \A t \in Teams(team[m]) : /\ copied'[m][t] = team[m][t]
                                    /\ team[m][t] \in Committed(m)
                                    /\ team[m][t] # NoContent
      BY <1>0, <2>1 DEF Teams, ServedRows
    <2> QED
      BY <2>2, <2>3, <2>4
  <1> QED
    BY <1>0, <1>2, <1>3 DEF BuildTeamMatch

\* Steps of rebuilds keep the pairs.
LEMMA RebuildPairs ==
    ASSUME DbtSlots = 1, PairsInv, NEW b \in Rebuild, RebuildStep(b)
    PROVE  OneBuild' /\ Gated' /\ TeamMatchInPairs'
  <1>0. /\ RebuildInv /\ OneBuild /\ Gated /\ TeamMatchInPairs /\ TypeOK
        /\ b \in Builder /\ rebuild \in [Rebuild -> Rebuilds]
        /\ rebuild[b] \in Rebuilds
        /\ job \in [Builder -> Jobs] /\ job[b] \in Jobs
    BY RebuildAssumption DEF PairsInv, RebuildInv, RebuildTypeOK, TypeOK, WarehouseTypeOK
  <1>1. lake' = lake => \A m \in Match : Committed(m) \subseteq Committed(m)'
    BY DEF Committed
  <1>2. ASSUME UNCHANGED <<lake, team, copied>> PROVE TeamMatchInPairs'
    BY <1>0, <1>1, <1>2, CopiedKept
  <1>3. ASSUME NEW m \in Match, TriggerRebuild(b, m)
        PROVE  OneBuild' /\ Gated' /\ TeamMatchInPairs'
    <2>1. /\ UNCHANGED <<lake, team, copied, job>>
          /\ \A d \in Rebuild : d # b => rebuild'[d] = rebuild[d]
          /\ rebuild'[b].todo = {}
      BY <1>0, <1>3 DEF TriggerRebuild, vars, marting, NoRebuild
    <2> QED
      BY <1>0, <1>2, <2>1, GatesKept
  <1>4. CASE \/ BeginRebuild(b) \/ RebuildFails(b) \/ EndRebuild(b)
             \/ RebuildReports(b) \/ EndRebuildReports(b)
    <2>1. /\ UNCHANGED <<lake, team, copied>>
          /\ \A d \in Rebuild : d # b => rebuild'[d] = rebuild[d]
          /\ \/ job' = job
             \/ /\ job' = [job EXCEPT ![b] = NoJob]
                /\ rebuild'[b].todo = {}
          /\ rebuild'[b].todo \in {rebuild[b].todo, {}}
      <3>1. CASE BeginRebuild(b)
        BY <1>0, <3>1 DEF BeginRebuild, vars, marting
      <3>2. CASE RebuildFails(b)
        BY <1>0, <3>2 DEF RebuildFails, lakehouse, marting
      <3>3. CASE EndRebuild(b)
        <4>1. PICK x : /\ rebuild' = [rebuild EXCEPT ![b] = x]
                       /\ x.todo = rebuild[b].todo
          BY <1>0, <3>3 DEF EndRebuild, Rebuilds
        <4>2. /\ UNCHANGED <<lake, team, copied>> /\ rebuild[b].todo = {}
              /\ job' = [job EXCEPT ![b] = NoJob]
          BY <3>3 DEF EndRebuild, CloseBuild, lakehouse, marting
        <4> QED
          BY <1>0, <4>1, <4>2
      <3>4. CASE RebuildReports(b)
        BY <1>0, <3>4 DEF RebuildReports, warehouse, lakehouse, marting
      <3>5. CASE EndRebuildReports(b)
        <4>1. PICK x : /\ rebuild' = [rebuild EXCEPT ![b] = x]
                       /\ x.todo = rebuild[b].todo
          BY <1>0, <3>5 DEF EndRebuildReports, Rebuilds
        <4>2. UNCHANGED <<lake, team, copied, job>>
          BY <3>5 DEF EndRebuildReports, warehouse, lakehouse, marting
        <4> QED
          BY <1>0, <4>1, <4>2
      <3> QED
        BY <1>4, <3>1, <3>2, <3>3, <3>4, <3>5
    <2>2. /\ \A d \in Builder : d # b => job'[d] = job[d]
          /\ job'[b].open => job[b].open
      BY <1>0, <2>1 DEF NoJob
    <2> QED
      BY <1>0, <1>2, <2>1, <2>2, GatesKept
  <1>5. CASE StartRebuild(b)
    <2>1. /\ UNCHANGED <<lake, team, copied>>
          /\ StartBuild(b, rebuild[b].match, RebuildSelect)
          /\ \A d \in Rebuild : d # b => rebuild'[d] = rebuild[d]
      BY <1>0, <1>5 DEF StartRebuild, StartBuild, lakehouse, marting
    <2>2. \A d \in Builder : ~job[d].open
      BY <1>0, <2>1, SlotIsFree DEF StartBuild
    <2>3. /\ \A d \in Builder : d # b => job'[d] = job[d]
          /\ job'[b].open /\ job'[b].todo = Selected(Model)
      BY <1>0, <2>1 DEF StartBuild, RebuildSelect
    <2>4. "two_teams" \in Selected(Model)
      BY DEF Selected, Model, Test, Parents
    <2>5. OneBuild'
      BY <2>2, <2>3 DEF OneBuild
    <2>6. \A d \in Rebuild : d # b => rebuild'[d].todo = {}
      BY <1>0, <2>1, <2>2, RebuildAssumption DEF Gated
    <2>7. Gated'
      BY <2>3, <2>4, <2>6 DEF Gated
    <2> QED
      BY <1>2, <2>1, <2>5, <2>7
  <1>6. CASE RunGated(b)
    <2>1. /\ UNCHANGED <<lake, copied>> /\ RunNode(b)
          /\ \A d \in Rebuild : d # b => rebuild'[d] = rebuild[d]
          /\ rebuild'[b].todo =
                IF \E n \in Gates \cap Test : /\ n \in job[b].todo \ job'[b].todo
                                              /\ ~Passes(n, Match)
                THEN {} ELSE rebuild[b].todo
      BY <1>0, <1>6 DEF RunGated, lakehouse, marting
    <2>2. PICK n \in job[b].todo :
              /\ job[b].open /\ job'[b].open
              /\ \A d \in Builder : d # b => job'[d] = job[d]
              /\ job'[b].todo = job[b].todo \ {n}
              /\ n # "fact_gold_team" => UNCHANGED team
              /\ n = "two_teams" => "fact_gold_team" \notin job[b].todo
      BY <1>0, <2>1, TeamChanges
    <2>3. OneBuild'
      BY <1>0, <2>2 DEF OneBuild
    <2>4. \A d \in Rebuild : d # b => rebuild'[d].todo = {}
      BY <1>0, <2>1, <2>2, RebuildAssumption DEF Gated, OneBuild
    <2>5. ASSUME rebuild'[b].todo # {}
          PROVE  /\ "fact_gold_team" \in job'[b].todo => "two_teams" \in job'[b].todo
                 /\ "two_teams" \notin job'[b].todo => Pairs(team, Match)'
      <3>1. /\ rebuild[b].todo # {}
            /\ "fact_gold_team" \in job[b].todo => "two_teams" \in job[b].todo
            /\ "two_teams" \notin job[b].todo => Pairs(team, Match)
        BY <1>0, <2>1, <2>5 DEF Gated
      <3>2. CASE n = "two_teams"
        <4>1. n \in Gates \cap Test /\ n \in job[b].todo \ job'[b].todo
          BY <2>2, <3>2 DEF Gates, Test
        <4>2. Passes("two_teams", Match)
          BY <2>1, <2>5, <3>2, <4>1
        <4>3. Pairs(team, Match) /\ UNCHANGED team
          BY <2>2, <3>2, <4>2 DEF Passes
        <4> QED
          BY <2>2, <3>2, <4>3 DEF Pairs, Teams
      <3>3. CASE n # "two_teams" /\ n # "fact_gold_team"
        BY <2>2, <3>1, <3>3 DEF Pairs, Teams
      <3>4. CASE n = "fact_gold_team"
        BY <2>2, <3>1, <3>4
      <3> QED
        BY <3>2, <3>3, <3>4
    <2>6. Gated'
      BY <2>2, <2>4, <2>5 DEF Gated
    <2>7. TeamMatchInPairs'
      BY <1>0, <1>1, <2>1, CopiedKept, TeamsGrow
    <2> QED
      BY <2>3, <2>6, <2>7
  <1>7. CASE RunMart(b)
    <2>1. PICK n \in rebuild[b].todo :
              /\ \/ n = "fact_team_match" /\ BuildTeamMatch(b)
                 \/ n = "team_match_enriched" /\ BuildEnriched(b)
              /\ rebuild' = [rebuild EXCEPT ![b].todo = @ \ {n}]
      BY <1>7 DEF RunMart
    <2>2. UNCHANGED <<team, lake>> /\ "two_teams" \notin job[b].todo
      BY <1>7 DEF RunMart, lakehouse, Gates
    <2>3. job' \in {job, [job EXCEPT ![b].failed = TRUE]}
      BY <2>1 DEF BuildTeamMatch, BuildEnriched
    <2>4. /\ \A d \in Builder : d # b => job'[d] = job[d]
          /\ job'[b].open = job[b].open /\ job'[b].todo = job[b].todo
      BY <1>0, <2>3 DEF Jobs
    <2>5. /\ \A d \in Rebuild : d # b => rebuild'[d] = rebuild[d]
          /\ rebuild'[b].todo \subseteq rebuild[b].todo
      BY <1>0, <2>1 DEF Rebuilds
    <2>6. OneBuild' /\ Gated'
      BY <1>0, <2>2, <2>4, <2>5, GatesKept
    <2>7. Pairs(team, Match)
      BY <1>0, <2>1, <2>2 DEF Gated
    <2>8. TeamMatchInPairs'
      <3>1. CASE BuildTeamMatch(b)
        BY <1>0, <2>2, <2>7, <3>1, CopiedInPairs
      <3>2. CASE BuildEnriched(b)
        BY <1>2, <2>2, <3>2 DEF BuildEnriched
      <3> QED
        BY <2>1, <3>1, <3>2
    <2> QED
      BY <2>6, <2>8
  <1> QED
    BY <1>3, <1>4, <1>5, <1>6, <1>7 DEF RebuildStep, RebuildWork

\* Steps of worker runs keep the pairs: they change fact_gold_team only while
\* no rebuild has a build open.
LEMMA WorkerPairs ==
    ASSUME DbtSlots = 1, PairsInv, NEW r \in Run, WorkerStep(r)
    PROVE  OneBuild' /\ Gated' /\ TeamMatchInPairs'
  <1>0. /\ RebuildInv /\ OneBuild /\ Gated /\ TeamMatchInPairs /\ TypeOK
        /\ r \in Builder /\ r \notin Rebuild
    BY RunAssumption, RebuildAssumption DEF PairsInv, RebuildInv, RebuildTypeOK
  <1>1. /\ \A d \in Builder : d # r => job'[d] = job[d]
        /\ UNCHANGED team \/ RunNode(r)
        /\ \/ UNCHANGED job \/ RunNode(r) \/ ~job'[r].open
           \/ Cardinality({d \in Builder : job[d].open}) < DbtSlots
        /\ UNCHANGED lake \/ \E x : lake' = Append(lake, x)
    BY <1>0, WorkerTables
  <1>2. UNCHANGED <<rebuild, copied>>
    BY WorkerNext
  <1>3. RunNode(r) => job[r].open
    BY <1>0, TeamChanges
  <1>4. OneBuild'
    <2>1. CASE job'[r].open => job[r].open
      BY <1>0, <1>1, <2>1 DEF OneBuild
    <2>2. CASE \A d \in Builder : ~job[d].open
      BY <1>0, <1>1, <2>2 DEF OneBuild
    <2> QED
      BY <1>0, <1>1, <1>3, <2>1, <2>2, SlotIsFree
  <1>5. Gated'
    <2> SUFFICES ASSUME NEW b \in Rebuild, rebuild[b].todo # {}
                 PROVE  /\ job'[b] = job[b]
                        /\ UNCHANGED team
      BY <1>0, <1>2 DEF Gated, Pairs, Teams
    <2>1. b \in Builder /\ b # r /\ job[b].open
      BY <1>0, RebuildAssumption DEF Gated
    <2> QED
      BY <1>0, <1>1, <1>3, <2>1 DEF OneBuild
  <1>6. TeamMatchInPairs'
    <2>1. \A m \in Match : Committed(m) \subseteq Committed(m)'
      <3>1. CASE UNCHANGED lake
        BY <3>1 DEF Committed
      <3>2. ASSUME NEW x, lake' = Append(lake, x)
            PROVE  \A m \in Match : Committed(m) \subseteq Committed(m)'
        <4>1. lake \in Seq([Match -> Content \cup {NoContent}])
          BY <1>0 DEF TypeOK
        <4>2. \A i \in DOMAIN lake : i \in DOMAIN lake' /\ lake'[i] = lake[i]
          BY <3>2, <4>1
        <4> QED
          BY <4>2 DEF Committed
      <3> QED
        BY <1>1, <3>1, <3>2
    <2>2. \A m \in Match, t \in Team : team[m][t] # NoContent => team'[m][t] # NoContent
      BY <1>0, <1>1, TeamsGrow
    <2> QED
      BY <1>0, <1>2, <2>1, <2>2, CopiedKept
  <1> QED
    BY <1>4, <1>5, <1>6

\* However rebuilds and worker runs of all matches interleave and fail, the
\* rows of fact_team_match are of no or two teams per match and committed to
\* Silver, as long as the dbt_writes pool has one slot.
THEOREM TeamMatchAlwaysInPairs ==
    ASSUME DbtSlots = 1
    PROVE  RebuildSpec => []TeamMatchInPairs
  <1>1. RebuildInit => PairsInv
    <2> SUFFICES ASSUME RebuildInit PROVE PairsInv
      OBVIOUS
    <2>1. /\ \A d \in Builder : ~job[d].open
          /\ \A b \in Rebuild : rebuild[b].todo = {}
      BY DEF RebuildInit, Init, WarehouseInit, NoJob, NoRebuild
    <2>2. \A m \in Match : Teams(copied[m]) = {}
      BY DEF RebuildInit, Teams, NoRows
    <2>3. TeamMatchInPairs
      BY <2>2, FS_EmptySet DEF TeamMatchInPairs
    <2> QED
      BY <2>1, <2>3, RebuildInvInit DEF PairsInv, OneBuild, Gated
  <1>2. PairsInv /\ [RebuildNext]_rebuildVars => PairsInv'
    <2> SUFFICES ASSUME PairsInv, [RebuildNext]_rebuildVars PROVE PairsInv'
      OBVIOUS
    <2>1. RebuildInv'
      BY RebuildInvStep DEF PairsInv
    <2>2. CASE UNCHANGED rebuildVars \/ (BuildDim /\ Watch({}))
      <3>1. UNCHANGED <<team, lake, job, rebuild, copied>>
        BY <2>2 DEF BuildDim, rebuildVars, vars, marting
      <3> QED
        BY <2>1, <3>1 DEF PairsInv, OneBuild, Gated, TeamMatchInPairs, Pairs, Teams,
                          Committed
    <2>3. CASE \/ \E r \in Run : WorkerStep(r)
               \/ \E b \in Rebuild : RebuildStep(b)
      BY <2>1, <2>3, RebuildPairs, WorkerPairs DEF PairsInv
    <2> QED
      BY <2>2, <2>3 DEF RebuildNext
  <1>3. PairsInv => TeamMatchInPairs
    BY DEF PairsInv
  <1> QED
    BY <1>1, <1>2, <1>3, PTL DEF RebuildSpec

-----------------------------------------------------------------------------
(* What runs serve beside one another *)

\* A match that has staged rows has loaded rows.
LoadedFirst == \A m \in Match : stg[m] # NoContent => src[m] # NoContent

\* fact_team_match has a row only for a team with one in fact_gold_team.
CopiedBehind ==
    \A m \in Match : \A t \in Team : copied[m][t] # NoContent => team[m][t] # NoContent

Facts == {"fact_gold_team", "fact_gold_intervals"}

\* The build of a rebuild is for its match, stages the rows before it builds
\* the fact tables, and copies them to fact_team_match after that.
BuildOfRebuild ==
    \A b \in Rebuild :
        /\ job[b].open =>
              /\ job[b].match = rebuild[b].match
              /\ "stg_silver_events" \in job[b].todo => Facts \subseteq job[b].todo
              /\ Gates \cap job[b].todo # {} /\ ~job[b].failed =>
                    "fact_team_match" \in rebuild[b].todo
        /\ rebuild[b].state \in {"none", "queued"} =>
              rebuild[b].task = "build_silver_events_dbt"
        /\ On(b, "reports") => rebuild[b].todo = {}

\* The build of rebuild b has succeeded, or is through with model n.
Through(b, n) == On(b, "reports") \/ (job[b].open /\ n \notin job[b].todo)

\* fact_team_match has been built, and no test before it has failed.
CopyMade(b) ==
    \/ On(b, "reports")
    \/ job[b].open /\ ~job[b].failed /\ "fact_team_match" \notin rebuild[b].todo

\* What rebuild b has built since it began.
RebuiltBy(b) ==
    LET m == rebuild[b].match IN
    /\ Through(b, "stg_silver_events") => stg[m] = src[m]
    /\ Through(b, "fact_gold_team") => Covers(team[m], stg[m])
    /\ Through(b, "fact_gold_intervals") => Covers(ivl[m], stg[m])
    /\ CopyMade(b) => copied[m] = team[m]

\* A worker run that loaded its match keeps what it has built, and the rows its
\* reports read stay those of the tables; alone, it keeps its files as well.
WorkersServe ==
    \A r \in Run :
        /\ BuiltBy(r, 4)
        /\ Position(run[r].entry) <= 4 => ReadBy(r, run[r].match)
        /\ alone[r] => /\ BuiltBy(r, 6)
                       /\ ReadBy(r, run[r].match) /\ DrawnBy(r, run[r].match)

\* A rebuild that is alone keeps what it has built, read and drawn.
RebuildsServe ==
    \A b \in Rebuild : alone[b] =>
        RebuiltBy(b) /\ ReadBy(b, rebuild[b].match) /\ DrawnBy(b, rebuild[b].match)

\* What makes the action properties of GoldRebuild hold.
RepairInv ==
    /\ RebuildInv /\ OrderInv /\ WholeBoxes
    /\ LoadedFirst /\ CopiedBehind /\ BuildOfRebuild
    /\ WorkersServe /\ RebuildsServe

-----------------------------------------------------------------------------
(* The steps of a rebuild *)

\* The rebuild is triggered or begun, or it ends.
Pauses(b) ==
    /\ UNCHANGED <<stg, team, ivl, files, copied>>
    /\ ~job'[b].open /\ desk'[b].step = "closed" /\ ~On(b, "reports")'
    /\ rebuild'[b].state \in {"none", "queued"} =>
          rebuild'[b].task = "build_silver_events_dbt"
    /\ rebuild'[b].state = "success" => On(b, "reports") /\ desk[b].step = "drawn"

\* Its dbt build begins.
Prepares(b) ==
    /\ On(b, "build_silver_events_dbt")
    /\ UNCHANGED <<stg, team, ivl, files, copied, desk>>
    /\ job'[b] = [match |-> rebuild[b].match, todo |-> Selected(Model),
                  failed |-> FALSE, open |-> TRUE]
    /\ rebuild'[b].match = rebuild[b].match /\ rebuild'[b].todo = Mart
    /\ On(b, "build_silver_events_dbt")'

\* A model or a test of Warehouse.
Reworks(b) ==
    /\ On(b, "build_silver_events_dbt") /\ On(b, "build_silver_events_dbt")'
    /\ UNCHANGED <<files, copied, desk>>
    /\ rebuild'[b].match = rebuild[b].match
    /\ rebuild'[b].todo =
          IF \E n \in Gates \cap Test : /\ n \in job[b].todo \ job'[b].todo
                                        /\ ~Passes(n, Match)
          THEN {} ELSE rebuild[b].todo
    /\ RunNode(b)

\* A mart.
Copies(b) ==
    /\ On(b, "build_silver_events_dbt") /\ On(b, "build_silver_events_dbt")'
    /\ UNCHANGED <<stg, team, ivl, files, desk>>
    /\ job[b].open /\ job'[b].open /\ Gates \cap job[b].todo = {}
    /\ job'[b].todo = job[b].todo /\ job'[b].match = job[b].match
    /\ rebuild'[b].match = rebuild[b].match
    /\ \/ BuildTeamMatch(b)
       \/ /\ job[b].failed => job'[b].failed
          /\ "fact_team_match" \in rebuild[b].todo => "fact_team_match" \in rebuild'[b].todo
          /\ UNCHANGED copied

\* The build succeeds.
Succeeds(b) ==
    /\ On(b, "build_silver_events_dbt")
    /\ On(b, "reports")' /\ rebuild'[b].match = rebuild[b].match
    /\ Exited(b) /\ ~job[b].failed /\ ~job'[b].open
    /\ rebuild[b].todo = {} /\ rebuild'[b].todo = {}
    /\ UNCHANGED <<stg, team, ivl, files, copied, desk>>

\* generate_reports begins, reads or draws.
Redraws(b) ==
    /\ On(b, "reports")
    /\ StartReports(b, rebuild[b].match) \/ ReadRows(b) \/ Draw(b)
    /\ UNCHANGED <<stg, team, ivl, job, rebuild, copied>>

RebuildMoves(b) ==
    \/ Pauses(b) \/ Prepares(b) \/ Reworks(b) \/ Copies(b)
    \/ Succeeds(b) \/ Redraws(b)

\* The worker runs and the other rebuilds are left alone.
Beside(b) ==
    /\ UNCHANGED <<src, run>>
    /\ \A d \in Builder : d # b => job'[d] = job[d] /\ desk'[d] = desk[d]
    /\ \A d \in Rebuild : d # b => rebuild'[d] = rebuild[d]
    /\ UNCHANGED copied \/ BuildTeamMatch(b)
    /\ UNCHANGED <<stg, team, ivl>> \/ RunNode(b)

\* Every step of a rebuild is one of these moves.
LEMMA RebuildMovesOnly ==
    ASSUME RebuildInv, BuildOfRebuild, NEW b \in Rebuild, RebuildStep(b)
    PROVE  RebuildMoves(b) /\ Beside(b)
  <1>0. /\ b \in Builder /\ rebuild \in [Rebuild -> Rebuilds] /\ rebuild[b] \in Rebuilds
        /\ job \in [Builder -> Jobs] /\ job[b] \in Jobs /\ desk \in [Builder -> Desk]
        /\ job[b].open => On(b, "build_silver_events_dbt")
        /\ desk[b].step # "closed" => On(b, "reports")
        /\ rebuild[b].state \in {"none", "queued"} =>
              rebuild[b].task = "build_silver_events_dbt"
        /\ On(b, "reports") => rebuild[b].todo = {}
    BY RebuildAssumption DEF RebuildInv, RebuildTypeOK, TypeOK, WarehouseTypeOK,
                             ReportsTypeOK, BuildOfRebuild
  <1>1. ASSUME NEW m \in Match, TriggerRebuild(b, m) PROVE RebuildMoves(b) /\ Beside(b)
    <2> DEFINE x == [NoRebuild EXCEPT !.state = "queued", !.match = m]
    <2>1. x.state = "queued" /\ x.task = "build_silver_events_dbt"
      BY DEF NoRebuild
    <2>2. rebuild' = [rebuild EXCEPT ![b] = x] /\ rebuild[b].state = "none"
      BY <1>1 DEF TriggerRebuild
    <2> HIDE DEF x
    <2>3. UNCHANGED <<src, stg, team, ivl, job, desk, files, run, copied>>
      BY <1>1 DEF TriggerRebuild, vars, marting
    <2>4. rebuild'[b] = x /\ \A d \in Rebuild : d # b => rebuild'[d] = rebuild[d]
      BY <1>0, <2>2
    <2>5. Pauses(b)
      BY <1>0, <2>1, <2>2, <2>3, <2>4 DEF Pauses, On
    <2> QED
      BY <2>3, <2>4, <2>5 DEF RebuildMoves, Beside
  <1>2. CASE BeginRebuild(b)
    <2>1. /\ UNCHANGED <<src, stg, team, ivl, job, desk, files, run, copied>>
          /\ rebuild[b].state = "queued"
          /\ rebuild' = [rebuild EXCEPT ![b].state = "running"]
      BY <1>2 DEF BeginRebuild, vars, marting
    <2>2. /\ rebuild'[b].state = "running" /\ rebuild'[b].task = rebuild[b].task
          /\ \A d \in Rebuild : d # b => rebuild'[d] = rebuild[d]
      BY <1>0, <2>1 DEF Rebuilds
    <2>3. Pauses(b)
      BY <1>0, <2>1, <2>2 DEF Pauses, On
    <2> QED
      BY <2>1, <2>2, <2>3 DEF RebuildMoves, Beside
  <1>3. CASE RebuildFails(b)
    <2>1. /\ UNCHANGED <<src, stg, team, ivl, files, run, copied>>
          /\ job' = [job EXCEPT ![b] = NoJob] /\ desk' = [desk EXCEPT ![b] = Closed]
          /\ rebuild' = [rebuild EXCEPT ![b].state = "failed", ![b].todo = {}]
      BY <1>3 DEF RebuildFails, marting
    <2>2. /\ rebuild'[b].state = "failed"
          /\ \A d \in Rebuild : d # b => rebuild'[d] = rebuild[d]
          /\ \A d \in Builder : d # b => job'[d] = job[d] /\ desk'[d] = desk[d]
          /\ ~job'[b].open /\ desk'[b].step = "closed"
      BY <1>0, <2>1 DEF Rebuilds, NoJob, Closed
    <2>3. Pauses(b)
      BY <2>1, <2>2 DEF Pauses, On
    <2> QED
      BY <2>1, <2>2, <2>3 DEF RebuildMoves, Beside
  <1>4. CASE StartRebuild(b)
    <2>1. /\ UNCHANGED <<src, stg, team, ivl, desk, files, run, copied>>
          /\ On(b, "build_silver_events_dbt")
          /\ job' = [job EXCEPT ![b] = [match |-> rebuild[b].match, todo |-> Selected(Model),
                                        failed |-> FALSE, open |-> TRUE]]
          /\ rebuild' = [rebuild EXCEPT ![b].todo = Mart]
      BY <1>4 DEF StartRebuild, StartBuild, RebuildSelect, reports, marting
    <2>2. /\ rebuild'[b].state = rebuild[b].state /\ rebuild'[b].task = rebuild[b].task
          /\ rebuild'[b].match = rebuild[b].match /\ rebuild'[b].todo = Mart
          /\ \A d \in Rebuild : d # b => rebuild'[d] = rebuild[d]
          /\ \A d \in Builder : d # b => job'[d] = job[d]
      BY <1>0, <2>1 DEF Rebuilds
    <2>3. Prepares(b)
      BY <1>0, <2>1, <2>2 DEF Prepares, On
    <2> QED
      BY <2>1, <2>2, <2>3 DEF RebuildMoves, Beside
  <1>5. CASE RunGated(b)
    <2> PICK T : T = IF \E n \in Gates \cap Test : /\ n \in job[b].todo \ job'[b].todo
                                                  /\ ~Passes(n, Match)
                     THEN {} ELSE rebuild[b].todo
      OBVIOUS
    <2>1. /\ RunNode(b) /\ UNCHANGED <<desk, files, run, copied>>
          /\ rebuild' = [rebuild EXCEPT ![b].todo = T]
      BY <1>5 DEF RunGated, reports, marting
    <2>2. /\ job[b].open /\ src' = src
          /\ \A d \in Builder : d # b => job'[d] = job[d]
      BY <1>0, <2>1, NodeFacts DEF RunNode, RunModel, RunTest
    <2>3. /\ rebuild'[b].state = rebuild[b].state /\ rebuild'[b].task = rebuild[b].task
          /\ rebuild'[b].match = rebuild[b].match /\ rebuild'[b].todo = T
          /\ \A d \in Rebuild : d # b => rebuild'[d] = rebuild[d]
      BY <1>0, <2>1 DEF Rebuilds
    <2>4. Reworks(b)
      BY <1>0, <2>1, <2>2, <2>3 DEF Reworks, On
    <2> QED
      BY <2>1, <2>2, <2>3, <2>4 DEF RebuildMoves, Beside
  <1>6. CASE RunMart(b)
    <2>1. PICK n \in rebuild[b].todo :
              /\ \/ n = "fact_team_match" /\ BuildTeamMatch(b)
                 \/ n = "team_match_enriched" /\ BuildEnriched(b)
              /\ rebuild' = [rebuild EXCEPT ![b].todo = rebuild[b].todo \ {n}]
      BY <1>6 DEF RunMart
    <2>2. /\ UNCHANGED <<src, stg, team, ivl, desk, files, run>>
          /\ job[b].open /\ Gates \cap job[b].todo = {}
      BY <1>6 DEF RunMart, reports
    <2>3. /\ rebuild'[b].state = rebuild[b].state /\ rebuild'[b].task = rebuild[b].task
          /\ rebuild'[b].match = rebuild[b].match
          /\ rebuild'[b].todo = rebuild[b].todo \ {n}
          /\ \A d \in Rebuild : d # b => rebuild'[d] = rebuild[d]
      BY <1>0, <2>1 DEF Rebuilds
    <2>4. job' \in {job, [job EXCEPT ![b].failed = TRUE]}
      BY <2>1 DEF BuildTeamMatch, BuildEnriched
    <2>5. /\ \A d \in Builder : d # b => job'[d] = job[d]
          /\ job'[b].open = job[b].open /\ job'[b].todo = job[b].todo
          /\ job'[b].match = job[b].match
          /\ job[b].failed => job'[b].failed
      BY <1>0, <2>4 DEF Jobs
    <2>6. \/ BuildTeamMatch(b)
          \/ n # "fact_team_match" /\ UNCHANGED copied
      BY <2>1 DEF BuildEnriched
    <2>7. Copies(b)
      <3>1. On(b, "build_silver_events_dbt") /\ On(b, "build_silver_events_dbt")'
        BY <1>0, <2>2, <2>3 DEF On
      <3>2. \/ BuildTeamMatch(b)
            \/ /\ job[b].failed => job'[b].failed
               /\ "fact_team_match" \in rebuild[b].todo => "fact_team_match" \in rebuild'[b].todo
               /\ UNCHANGED copied
        BY <2>3, <2>5, <2>6
      <3> QED
        BY <2>2, <2>3, <2>5, <3>1, <3>2 DEF Copies
    <2> QED
      BY <2>2, <2>3, <2>5, <2>6, <2>7 DEF RebuildMoves, Beside
  <1>7. CASE EndRebuild(b)
    <2>1. /\ UNCHANGED <<src, stg, team, ivl, desk, files, run, copied>>
          /\ Exited(b) /\ rebuild[b].todo = {} /\ job' = [job EXCEPT ![b] = NoJob]
          /\ \/ rebuild' = [rebuild EXCEPT ![b].state = "failed"]
             \/ ~job[b].failed /\ rebuild' = [rebuild EXCEPT ![b].task = "reports"]
      BY <1>7 DEF EndRebuild, CloseBuild, reports, marting
    <2>2. /\ \A d \in Builder : d # b => job'[d] = job[d] /\ desk'[d] = desk[d]
          /\ ~job'[b].open /\ desk'[b].step = "closed" /\ job[b].open
          /\ On(b, "build_silver_events_dbt")
      BY <1>0, <2>1 DEF NoJob, Exited, On
    <2>3. CASE rebuild' = [rebuild EXCEPT ![b].state = "failed"]
      <3>1. /\ rebuild'[b].state = "failed"
            /\ \A d \in Rebuild : d # b => rebuild'[d] = rebuild[d]
        BY <1>0, <2>3 DEF Rebuilds
      <3>2. Pauses(b)
        BY <2>1, <2>2, <3>1 DEF Pauses, On
      <3> QED
        BY <2>1, <2>2, <3>1, <3>2 DEF RebuildMoves, Beside
    <2>4. CASE ~job[b].failed /\ rebuild' = [rebuild EXCEPT ![b].task = "reports"]
      <3>1. /\ rebuild'[b].state = rebuild[b].state /\ rebuild'[b].task = "reports"
            /\ rebuild'[b].match = rebuild[b].match /\ rebuild'[b].todo = rebuild[b].todo
            /\ \A d \in Rebuild : d # b => rebuild'[d] = rebuild[d]
        BY <1>0, <2>4 DEF Rebuilds
      <3>2. Succeeds(b)
        BY <2>1, <2>2, <2>4, <3>1 DEF Succeeds, On
      <3> QED
        BY <2>1, <2>2, <3>1, <3>2 DEF RebuildMoves, Beside
    <2> QED
      BY <2>1, <2>3, <2>4
  <1>8. CASE RebuildReports(b)
    <2>1. /\ StartReports(b, rebuild[b].match) \/ ReadRows(b) \/ Draw(b)
          /\ UNCHANGED <<src, stg, team, ivl, job, run, rebuild, copied>>
      BY <1>8 DEF RebuildReports, warehouse, marting
    <2>2. On(b, "reports")
      <3>1. CASE ReadRows(b) \/ Draw(b)
        BY <1>0, <3>1 DEF ReadRows, Draw, Drawable
      <3> QED
        BY <1>8, <3>1 DEF RebuildReports
    <2>3. \A d \in Builder : d # b => desk'[d] = desk[d]
      BY <1>0, <2>1 DEF StartReports, ReadRows, Draw
    <2>4. Redraws(b)
      BY <2>1, <2>2 DEF Redraws
    <2> QED
      BY <2>1, <2>3, <2>4 DEF RebuildMoves, Beside
  <1>9. CASE EndRebuildReports(b)
    <2>1. /\ UNCHANGED <<src, stg, team, ivl, job, files, run, copied>>
          /\ desk[b].step # "closed" /\ desk' = [desk EXCEPT ![b] = Closed]
      BY <1>9 DEF EndRebuildReports, CloseReports, warehouse, marting
    <2>2. PICK s \in {"success", "failed"} :
              /\ rebuild' = [rebuild EXCEPT ![b].state = s]
              /\ s = "success" => desk[b].step = "drawn"
      BY <1>9 DEF EndRebuildReports
    <2>3. /\ rebuild'[b].state = s
          /\ \A d \in Rebuild : d # b => rebuild'[d] = rebuild[d]
          /\ \A d \in Builder : d # b => desk'[d] = desk[d]
          /\ ~job'[b].open /\ desk'[b].step = "closed" /\ On(b, "reports")
      BY <1>0, <2>1, <2>2 DEF Rebuilds, Closed, On
    <2>4. Pauses(b)
      BY <2>1, <2>2, <2>3 DEF Pauses, On
    <2> QED
      BY <2>1, <2>3, <2>4 DEF RebuildMoves, Beside
  <1> QED
    BY <1>1, <1>2, <1>3, <1>4, <1>5, <1>6, <1>7, <1>8, <1>9
       DEF RebuildStep, RebuildWork

-----------------------------------------------------------------------------
(* What the runs do to the match of another *)

\* What a node of a build does to the rows of a match, whatever its own is.
LEMMA NodeOnMatch ==
    ASSUME WarehouseTypeOK, NEW b \in Builder, RunNode(b), NEW m \in Match
    PROVE  /\ src' = src
           /\ stg'[m] # stg[m] => src[m] # NoContent /\ stg'[m] = src[m]
           /\ team'[m] \in {team[m], Merge(team[m], stg[m])}
           /\ ivl'[m] \in {ivl[m], Merge(ivl[m], stg[m])}
  <1>0. job \in [Builder -> Jobs]
    BY DEF WarehouseTypeOK
  <1> PICK k : k = job[b].match
    OBVIOUS
  <1>1. PICK n \in job[b].todo :
           \/ n \in Test /\ UNCHANGED <<stg, team, ivl>>
           \/ n = "stg_silver_events" /\ BuildStg(k)
           \/ n = "fact_gold_team" /\ BuildTeam(k)
           \/ n = "fact_gold_intervals" /\ BuildIntervals(k)
    BY <1>0, NodeBuilds
  <1>2. src' = src
    BY <1>0, NodeFacts
  <1>3. CASE UNCHANGED <<stg, team, ivl>>
    BY <1>2, <1>3
  <1>4. CASE BuildStg(k)
    BY <1>2, <1>4 DEF BuildStg
  <1>5. CASE BuildTeam(k)
    BY <1>2, <1>5 DEF BuildTeam
  <1>6. CASE BuildIntervals(k)
    BY <1>2, <1>6 DEF BuildIntervals
  <1> QED
    BY <1>1, <1>3, <1>4, <1>5, <1>6

\* Merging a payload into rows that are its own changes nothing.
LEMMA MergeIdle ==
    ASSUME NEW rows \in Rows, NEW c \in Content \cup {NoContent}, Covers(rows, c)
    PROVE  Merge(rows, c) = rows
  BY DEF Rows, Covers, Merge

\* A build beside a worker run that has loaded its match stages and merges
\* nothing but what the worker has loaded, so that it keeps what the worker has
\* built, and leaves its rows alone once they are complete.
LEMMA NodeBeside ==
    ASSUME TypeOK, NEW r \in Run, BuiltBy(r, 4), NEW b \in Builder, RunNode(b),
           run' = run, job'[r] = job[r]
    PROVE  /\ BuiltBy(r, 4)'
           /\ (/\ run[r].state = "running" /\ run[r].task = "reports"
               /\ Position(run[r].entry) <= 4) =>
                 /\ stg'[run[r].match] = stg[run[r].match]
                 /\ team'[run[r].match] = team[run[r].match]
                 /\ ivl'[run[r].match] = ivl[run[r].match]
  <1>0. WarehouseTypeOK /\ run[r] \in Runs
    BY DEF TypeOK
  <1> PICK m \in Match : m = run[r].match
    BY <1>0 DEF Runs
  <1> PICK c : c = run[r].content
    OBVIOUS
  <1> PICK p \in Nat, e \in Nat :
          p = Position(run[r].task) /\ e = Position(run[r].entry)
    BY <1>0, PositionNat DEF Runs
  <1>1. /\ src' = src
        /\ stg'[m] # stg[m] => stg'[m] = src[m]
        /\ team'[m] \in {team[m], Merge(team[m], stg[m])}
        /\ ivl'[m] \in {ivl[m], Merge(ivl[m], stg[m])}
    BY <1>0, NodeOnMatch
  <1>2. team[m] \in Rows /\ ivl[m] \in Rows /\ stg[m] \in Content \cup {NoContent}
    BY <1>0 DEF WarehouseTypeOK
  <1> SUFFICES ASSUME run[r].state = "running", e <= 4
               PROVE  /\ BuiltBy(r, 4)'
                      /\ run[r].task = "reports" =>
                            stg'[m] = stg[m] /\ team'[m] = team[m] /\ ivl'[m] = ivl[m]
    BY DEF BuiltBy
  <1>3. /\ p > 4 => src[m] = c /\ c \in Content
        /\ Past(r, "build_dbt", "stg_silver_events") => stg[m] = c
        /\ Past(r, "build_gold_facts", "fact_gold_team") => Covers(team[m], stg[m])
        /\ Past(r, "build_gold_facts", "fact_gold_intervals") => Covers(ivl[m], stg[m])
    BY DEF BuiltBy
  <1>4. /\ Past(r, "build_dbt", "stg_silver_events") => p > 4
        /\ Past(r, "build_gold_facts", "fact_gold_team") =>
              Past(r, "build_dbt", "stg_silver_events")
        /\ Past(r, "build_gold_facts", "fact_gold_intervals") =>
              Past(r, "build_dbt", "stg_silver_events")
        /\ run[r].task = "reports" =>
              /\ Past(r, "build_gold_facts", "fact_gold_team")
              /\ Past(r, "build_gold_facts", "fact_gold_intervals")
    BY Positions DEF Past
  <1>5. Past(r, "build_dbt", "stg_silver_events") => stg'[m] = stg[m] /\ stg[m] = c
    BY <1>1, <1>3, <1>4
  <1>6. Past(r, "build_gold_facts", "fact_gold_team") => team'[m] = team[m]
    BY <1>1, <1>2, <1>3, MergeIdle
  <1>7. Past(r, "build_gold_facts", "fact_gold_intervals") => ivl'[m] = ivl[m]
    BY <1>1, <1>2, <1>3, MergeIdle
  <1>8. \A t, n : Past(r, t, n)' <=> Past(r, t, n)
    BY DEF Past
  <1>9. BuiltBy(r, 4)'
    <2>1. /\ run'[r].match = m /\ run'[r].content = c
          /\ Position(run'[r].task) = p /\ Position(run'[r].entry) = e
      OBVIOUS
    <2> QED
      BY <1>1, <1>3, <1>4, <1>5, <1>6, <1>7, <1>8, <2>1 DEF BuiltBy
  <1> QED
    BY <1>4, <1>5, <1>6, <1>7, <1>9

\* A worker run that stays alone was so before, and what is held about its
\* match has not changed in another run's step.
LEMMA WatchedRun ==
    ASSUME NEW S, Watch(S), NEW r \in Run, alone'[r], run'[r].state = "running"
    PROVE  /\ alone[r]
           /\ r \notin S /\ run'[r] = run[r] =>
                 LET m == run[r].match IN
                 /\ src'[m] = src[m] /\ stg'[m] = stg[m] /\ team'[m] = team[m]
                 /\ ivl'[m] = ivl[m] /\ files'[m] = files[m]
  <1>1. alone[r] /\ (r \in S \/ Holds(MatchOf(r))' = Holds(MatchOf(r)))
    BY DEF Watch, Begun
  <1>2. MatchOf(r) = run[r].match /\ MatchOf(r)' = run'[r].match
    BY DEF MatchOf
  <1> QED
    BY <1>1, <1>2 DEF Holds

\* The same for a rebuild.
LEMMA WatchedRebuild ==
    ASSUME NEW S, Watch(S), NEW b \in Rebuild, alone'[b], rebuild'[b].state = "running"
    PROVE  /\ alone[b]
           /\ b \notin S /\ rebuild'[b] = rebuild[b] =>
                 LET m == rebuild[b].match IN
                 /\ src'[m] = src[m] /\ stg'[m] = stg[m] /\ team'[m] = team[m]
                 /\ ivl'[m] = ivl[m] /\ files'[m] = files[m]
  <1>0. b \notin Run
    BY RebuildAssumption
  <1>1. alone[b] /\ (b \in S \/ Holds(MatchOf(b))' = Holds(MatchOf(b)))
    BY <1>0 DEF Watch, Begun
  <1>2. MatchOf(b) = rebuild[b].match /\ MatchOf(b)' = rebuild'[b].match
    BY <1>0 DEF MatchOf
  <1> QED
    BY <1>1, <1>2 DEF Holds

-----------------------------------------------------------------------------
(* Steps of rebuilds *)

\* The worker runs keep their order, and the fact tables their whole payloads.
LEMMA RebuildOrder ==
    ASSUME RepairInv, RebuildInv', NEW b \in Rebuild, Beside(b)
    PROVE  OrderInv' /\ WholeBoxes'
  <1>0. /\ OrderInv /\ WholeBoxes /\ WarehouseTypeOK /\ b \in Builder
        /\ \A r \in Run : r \in Builder /\ r # b
    BY RunAssumption, RebuildAssumption
       DEF RepairInv, RebuildInv, RebuildTypeOK, TypeOK
  <1>1. run' = run /\ \A r \in Run : job'[r] = job[r]
    BY <1>0 DEF Beside
  <1>2. PinInv'
    BY DEF RebuildInv, ProvInv
  <1>3. OneRunning' /\ BuildOfRun' /\ EntryFirst' /\ Carried'
    BY <1>0, <1>1 DEF OrderInv, OneRunning, BuildOfRun, EntryFirst, Carried
  <1>4. WholeBoxes'
    <2>1. CASE RunNode(b)
      BY <1>0, <2>1, WholeNode
    <2>2. CASE UNCHANGED <<stg, team, ivl>>
      BY <1>0, <2>2 DEF WholeBoxes, Whole, Teams
    <2> QED
      BY <2>1, <2>2 DEF Beside
  <1> QED
    BY <1>2, <1>3, <1>4 DEF OrderInv

\* What is staged is loaded, and what is copied is in fact_gold_team.
LEMMA RebuildBehind ==
    ASSUME RepairInv, NEW b \in Rebuild, Beside(b)
    PROVE  LoadedFirst' /\ CopiedBehind'
  <1>0. /\ LoadedFirst /\ CopiedBehind /\ TypeOK /\ WarehouseTypeOK /\ b \in Builder
        /\ copied \in [Match -> Rows] /\ src' = src
    BY RebuildAssumption DEF RepairInv, RebuildInv, RebuildTypeOK, TypeOK, Beside
  <1>1. LoadedFirst'
    <2>1. CASE RunNode(b)
      BY <1>0, <2>1, NodeOnMatch DEF LoadedFirst
    <2> QED
      BY <1>0, <2>1 DEF LoadedFirst, Beside
  <1>2. \A m \in Match, t \in Team : team[m][t] # NoContent => team'[m][t] # NoContent
    BY <1>0, TeamsGrow DEF Beside
  <1>3. \A m \in Match, t \in Team : copied'[m][t] # NoContent =>
           copied[m][t] # NoContent \/ team[m][t] # NoContent
    BY <1>0 DEF Beside, BuildTeamMatch, Copied
  <1> QED
    BY <1>0, <1>1, <1>2, <1>3 DEF CopiedBehind

\* What the build of a rebuild is for and does in which order.
LEMMA RebuildBuild ==
    ASSUME RepairInv, NEW b \in Rebuild, RebuildMoves(b), Beside(b)
    PROVE  BuildOfRebuild'
  <1>0. /\ BuildOfRebuild /\ b \in Builder /\ job \in [Builder -> Jobs]
        /\ Rebuild \subseteq Builder
    BY RebuildAssumption DEF RepairInv, RebuildInv, RebuildTypeOK, TypeOK, WarehouseTypeOK
  <1>1. ASSUME NEW d \in Rebuild, d # b
        PROVE  rebuild'[d] = rebuild[d] /\ job'[d] = job[d]
    BY <1>0, <1>1 DEF Beside
  <1>2. /\ job'[b].open =>
              /\ job'[b].match = rebuild'[b].match
              /\ "stg_silver_events" \in job'[b].todo => Facts \subseteq job'[b].todo
              /\ Gates \cap job'[b].todo # {} /\ ~job'[b].failed =>
                    "fact_team_match" \in rebuild'[b].todo
        /\ rebuild'[b].state \in {"none", "queued"} =>
              rebuild'[b].task = "build_silver_events_dbt"
        /\ On(b, "reports")' => rebuild'[b].todo = {}
    <2>0. /\ job[b].open =>
                /\ job[b].match = rebuild[b].match
                /\ "stg_silver_events" \in job[b].todo => Facts \subseteq job[b].todo
                /\ Gates \cap job[b].todo # {} /\ ~job[b].failed =>
                      "fact_team_match" \in rebuild[b].todo
          /\ rebuild[b].state \in {"none", "queued"} =>
                rebuild[b].task = "build_silver_events_dbt"
          /\ On(b, "reports") => rebuild[b].todo = {}
      BY <1>0 DEF BuildOfRebuild
    <2>1. CASE Pauses(b)
      BY <2>1 DEF Pauses
    <2>2. CASE Prepares(b)
      <3>1. /\ job'[b].match = rebuild'[b].match /\ job'[b].todo = Selected(Model)
            /\ rebuild'[b].todo = Mart /\ On(b, "build_silver_events_dbt")'
        BY <2>2 DEF Prepares
      <3>2. Facts \subseteq Selected(Model) /\ "fact_team_match" \in Mart
        BY DEF Facts, Selected, Model, Mart
      <3> QED
        BY <3>1, <3>2 DEF On
    <2>3. CASE Reworks(b)
      <3>1. PICK n \in job[b].todo :
               /\ job'[b].todo = job[b].todo \ {n}
               /\ \/ n \in Model /\ (job'[b].failed = job[b].failed)
                  \/ n \in Test /\ (job'[b].failed <=> job[b].failed \/ ~Passes(n, Match))
        BY <1>0, <2>3, NodeCreates DEF Reworks
      <3>2. /\ job[b].open /\ job'[b].match = job[b].match
            /\ rebuild'[b].match = rebuild[b].match
            /\ On(b, "build_silver_events_dbt")'
        BY <1>0, <2>3, NodeFacts DEF Reworks
      <3>3. ASSUME "stg_silver_events" \in job'[b].todo PROVE n \notin Facts
        <4>1. PICK k \in job[b].todo : /\ job'[b].todo = job[b].todo \ {k}
                                       /\ Parents(k) \cap job[b].todo = {}
          BY <1>0, <2>3, NodeBuilds DEF Reworks
        <4>2. k = n
          BY <3>1, <4>1
        <4>3. \A x \in Facts : "stg_silver_events" \in Parents(x)
          BY DEF Facts, Parents
        <4> QED
          BY <3>1, <3>3, <4>1, <4>2, <4>3
      <3>4. (job'[b].failed \/ job[b].failed \/ rebuild'[b].todo = rebuild[b].todo)
        <4>1. CASE \E k \in Gates \cap Test : /\ k \in job[b].todo \ job'[b].todo
                                              /\ ~Passes(k, Match)
          <5>1. n \in Test /\ ~Passes(n, Match)
            BY <3>1, <4>1
          <5>2. n \notin Model
            BY <5>1 DEF Model, Test
          <5> QED
            BY <3>1, <5>1, <5>2
        <4>2. CASE ~\E k \in Gates \cap Test : /\ k \in job[b].todo \ job'[b].todo
                                               /\ ~Passes(k, Match)
          BY <2>3, <4>2 DEF Reworks
        <4> QED
          BY <4>1, <4>2
      <3>5. job[b].failed => job'[b].failed
        BY <3>1
      <3> QED
        BY <2>0, <3>1, <3>2, <3>3, <3>4, <3>5 DEF On
    <2>4. CASE Copies(b)
      <3>1. /\ Gates \cap job'[b].todo = {} /\ job[b].open
            /\ job'[b].todo = job[b].todo /\ job'[b].match = job[b].match
            /\ rebuild'[b].match = rebuild[b].match
            /\ On(b, "build_silver_events_dbt")'
        BY <2>4 DEF Copies
      <3> QED
        BY <2>0, <3>1 DEF On
    <2>5. CASE Succeeds(b)
      BY <2>5 DEF Succeeds, On
    <2>6. CASE Redraws(b)
      BY <2>0, <2>6 DEF Redraws, On
    <2> QED
      BY <2>1, <2>2, <2>3, <2>4, <2>5, <2>6 DEF RebuildMoves
  <1>3. ASSUME NEW d \in Rebuild
        PROVE  /\ job'[d].open =>
                    /\ job'[d].match = rebuild'[d].match
                    /\ "stg_silver_events" \in job'[d].todo => Facts \subseteq job'[d].todo
                    /\ Gates \cap job'[d].todo # {} /\ ~job'[d].failed =>
                          "fact_team_match" \in rebuild'[d].todo
               /\ rebuild'[d].state \in {"none", "queued"} =>
                    rebuild'[d].task = "build_silver_events_dbt"
               /\ On(d, "reports")' => rebuild'[d].todo = {}
    <2>1. CASE d = b
      BY <1>2, <2>1
    <2>2. CASE d # b
      BY <1>0, <1>1, <2>2 DEF BuildOfRebuild, On
    <2> QED
      BY <2>1, <2>2
  <1> QED
    BY <1>3 DEF BuildOfRebuild

\* What the worker runs have built, read and drawn.
LEMMA RebuildServesWorkers ==
    ASSUME RepairInv, RebuildInv', NEW b \in Rebuild, Beside(b), Watch({b})
    PROVE  WorkersServe'
  <1> SUFFICES ASSUME NEW r \in Run
               PROVE  /\ BuiltBy(r, 4)'
                      /\ Position(run'[r].entry) <= 4 => ReadBy(r, run[r].match)'
                      /\ alone'[r] => /\ BuiltBy(r, 6)'
                                      /\ ReadBy(r, run[r].match)'
                                      /\ DrawnBy(r, run[r].match)'
    BY DEF WorkersServe
  <1>0. /\ TypeOK /\ Busy' /\ b \in Builder /\ r \in Builder /\ r # b
        /\ BuiltBy(r, 4)
        /\ Position(run[r].entry) <= 4 => ReadBy(r, run[r].match)
        /\ alone[r] => BuiltBy(r, 6) /\ ReadBy(r, run[r].match) /\ DrawnBy(r, run[r].match)
    BY RunAssumption, RebuildAssumption
       DEF RepairInv, RebuildInv, RebuildTypeOK, ProvInv, PinInv, WorkersServe
  <1>1. run' = run /\ src' = src /\ job'[r] = job[r] /\ desk'[r] = desk[r]
    BY <1>0 DEF Beside
  <1>2. CASE run[r].state # "running"
    <2>1. desk'[r].step = "closed"
      BY <1>0, <1>1, <1>2 DEF Busy
    <2> QED
      BY <1>1, <1>2, <2>1 DEF BuiltBy, ReadBy, DrawnBy
  <1>3. CASE run[r].state = "running"
    <2>1. /\ BuiltBy(r, 4)'
          /\ (run[r].task = "reports" /\ Position(run[r].entry) <= 4) =>
                /\ stg'[run[r].match] = stg[run[r].match]
                /\ team'[run[r].match] = team[run[r].match]
                /\ ivl'[run[r].match] = ivl[run[r].match]
      <3>1. CASE RunNode(b)
        BY <1>0, <1>1, <1>3, <3>1, NodeBeside
      <3>2. CASE UNCHANGED <<stg, team, ivl>>
        BY <1>0, <1>1, <3>2 DEF BuiltBy, Past
      <3> QED
        BY <3>1, <3>2 DEF Beside
    <2>2. ASSUME Position(run[r].entry) <= 4 PROVE ReadBy(r, run[r].match)'
      <3>1. CASE desk'[r].step = "closed"
        BY <3>1 DEF ReadBy
      <3>2. CASE desk'[r].step # "closed"
        <4>1. run[r].task = "reports"
          BY <1>0, <1>1, <3>2 DEF Busy
        <4> QED
          BY <1>0, <1>1, <2>1, <2>2, <4>1 DEF ReadBy
      <3> QED
        BY <3>1, <3>2
    <2>3. ASSUME alone'[r]
          PROVE  BuiltBy(r, 6)' /\ ReadBy(r, run[r].match)' /\ DrawnBy(r, run[r].match)'
      <3>1. /\ alone[r]
            /\ LET m == run[r].match IN
               /\ src'[m] = src[m] /\ stg'[m] = stg[m] /\ team'[m] = team[m]
               /\ ivl'[m] = ivl[m] /\ files'[m] = files[m]
        BY <1>0, <1>1, <1>3, <2>3, WatchedRun
      <3>2. BuiltBy(r, 6)'
        BY <1>0, <1>1, <3>1 DEF BuiltBy, Past
      <3>3. ReadBy(r, run[r].match)' /\ DrawnBy(r, run[r].match)'
        BY <1>0, <1>1, <3>1 DEF ReadBy, DrawnBy
      <3> QED
        BY <3>2, <3>3
    <2> QED
      BY <1>1, <2>1, <2>2, <2>3
  <1> QED
    BY <1>2, <1>3

\* What rebuild b has built, and read and drawn of it.
Served(b) ==
    RebuiltBy(b) /\ ReadBy(b, rebuild[b].match) /\ DrawnBy(b, rebuild[b].match)

\* A rebuild that is not running, nor the one whose turn it is, has nothing to
\* account for.
LEMMA NothingServed ==
    ASSUME NEW b \in Rebuild, ~job[b].open, desk[b].step = "closed", ~On(b, "reports")
    PROVE  Served(b)
  BY DEF Served, RebuiltBy, Through, CopyMade, ReadBy, DrawnBy

\* A node keeps what its rebuild has built, when only the rebuild changes the
\* match.
LEMMA RebuiltNode ==
    ASSUME RepairInv, NEW b \in Rebuild, Reworks(b), RebuiltBy(b)
    PROVE  RebuiltBy(b)'
  <1>0. /\ b \in Builder /\ job \in [Builder -> Jobs] /\ WarehouseTypeOK
        /\ rebuild[b].match \in Match
        /\ LoadedFirst
    BY RebuildAssumption DEF RepairInv, RebuildInv, RebuildTypeOK, TypeOK, WarehouseTypeOK,
                             Rebuilds
  <1> PICK m \in Match : m = rebuild[b].match
    BY <1>0
  <1>1. /\ job[b].open /\ job'[b].open /\ job[b].match = m /\ src' = src
        /\ rebuild'[b].match = m /\ copied' = copied
        /\ ~On(b, "reports") /\ ~On(b, "reports")'
    BY <1>0, NodeFacts DEF RepairInv, BuildOfRebuild, Reworks, On
  <1>2. PICK n \in job[b].todo :
           /\ job'[b].todo = job[b].todo \ {n}
           /\ \/ n \in Model /\ (job'[b].failed = job[b].failed)
              \/ n \in Test /\ (job'[b].failed <=> job[b].failed \/ ~Passes(n, Match))
    BY <1>0, NodeCreates DEF Reworks
  <1>3. PICK k \in job[b].todo :
           /\ job'[b].todo = job[b].todo \ {k}
           /\ \/ k \in Test /\ UNCHANGED <<stg, team, ivl>>
              \/ k = "stg_silver_events" /\ BuildStg(m)
              \/ k = "fact_gold_team" /\ BuildTeam(m)
              \/ k = "fact_gold_intervals" /\ BuildIntervals(m)
    BY <1>0, <1>1, NodeBuilds DEF Reworks
  <1>4. k = n
    BY <1>2, <1>3
  <1>5. /\ "stg_silver_events" \in job[b].todo => Facts \subseteq job[b].todo
        /\ Gates \cap job[b].todo # {} /\ ~job[b].failed =>
              "fact_team_match" \in rebuild[b].todo
    BY <1>1 DEF RepairInv, BuildOfRebuild
  <1>6. /\ "stg_silver_events" \notin job[b].todo => stg[m] = src[m]
        /\ "fact_gold_team" \notin job[b].todo => Covers(team[m], stg[m])
        /\ "fact_gold_intervals" \notin job[b].todo => Covers(ivl[m], stg[m])
        /\ ~job[b].failed /\ "fact_team_match" \notin rebuild[b].todo =>
              copied[m] = team[m]
    BY <1>1 DEF RebuiltBy, Through, CopyMade
  <1>7. ASSUME ~job'[b].failed, "fact_team_match" \notin rebuild'[b].todo
        PROVE  /\ ~job[b].failed /\ "fact_team_match" \notin rebuild[b].todo
               /\ Gates \cap job[b].todo = {}
    <2>1. ~job[b].failed
      BY <1>2, <1>7
    <2>2. ~\E x \in Gates \cap Test : x \in job[b].todo \ job'[b].todo /\ ~Passes(x, Match)
      <3> SUFFICES ASSUME NEW x \in Gates \cap Test, x \in job[b].todo \ job'[b].todo,
                          ~Passes(x, Match)
                   PROVE  FALSE
        OBVIOUS
      <3>1. x = n
        BY <1>2
      <3>2. n \notin Model
        BY <3>1 DEF Model, Test
      <3> QED
        BY <1>2, <1>7, <3>1, <3>2
    <2>3. rebuild'[b].todo = rebuild[b].todo
      BY <2>2 DEF Reworks
    <2> QED
      BY <1>5, <1>7, <2>1, <2>3
  <1>8. SUFFICES
          /\ "stg_silver_events" \notin job'[b].todo => stg'[m] = src[m]
          /\ "fact_gold_team" \notin job'[b].todo => Covers(team'[m], stg'[m])
          /\ "fact_gold_intervals" \notin job'[b].todo => Covers(ivl'[m], stg'[m])
          /\ ~job'[b].failed /\ "fact_team_match" \notin rebuild'[b].todo =>
                copied[m] = team'[m]
    BY <1>1 DEF RebuiltBy, Through, CopyMade
  <1>9. /\ src[m] \in Content \cup {NoContent} /\ stg[m] \in Content \cup {NoContent}
        /\ stg[m] # NoContent => src[m] # NoContent
    BY <1>0 DEF WarehouseTypeOK, LoadedFirst
  <1>10. CASE n \in Test
    <2>1. UNCHANGED <<stg, team, ivl>> /\ n \notin Model
      BY <1>3, <1>4, <1>10 DEF Test, Model
    <2>2. \A x \in Model : x \notin job'[b].todo => x \notin job[b].todo
      BY <1>2, <2>1
    <2> QED
      BY <1>6, <1>7, <2>1, <2>2 DEF Model
  <1>11. CASE n = "stg_silver_events"
    <2>1. BuildStg(m)
      BY <1>3, <1>4, <1>11 DEF Test
    <2>2. stg'[m] = src[m]
      BY <1>9, <2>1 DEF BuildStg, Rebuilt
    <2>3. Facts \subseteq job'[b].todo /\ Gates \cap job[b].todo # {}
      BY <1>2, <1>5, <1>11 DEF Facts, Gates
    <2> QED
      BY <1>7, <2>2, <2>3 DEF Facts
  <1>12. CASE n = "fact_gold_team"
    <2>1. BuildTeam(m)
      BY <1>3, <1>4, <1>12 DEF Test
    <2>2. team'[m] = Merge(team[m], stg[m]) /\ stg' = stg /\ ivl' = ivl
      BY <2>1 DEF BuildTeam, Rebuilt
    <2>3. Covers(team'[m], stg'[m])
      BY <1>9, <2>2, MergeCovers
    <2>4. Gates \cap job[b].todo # {}
      BY <1>12 DEF Gates
    <2> QED
      BY <1>2, <1>6, <1>7, <1>12, <2>2, <2>3, <2>4
  <1>13. CASE n = "fact_gold_intervals"
    <2>1. BuildIntervals(m)
      BY <1>3, <1>4, <1>13 DEF Test
    <2>2. ivl'[m] = Merge(ivl[m], stg[m]) /\ stg' = stg /\ team' = team
      BY <2>1 DEF BuildIntervals, Rebuilt
    <2>3. Covers(ivl'[m], stg'[m])
      BY <1>9, <2>2, MergeCovers
    <2> QED
      BY <1>2, <1>6, <1>7, <1>13, <2>2, <2>3
  <1> QED
    BY <1>2, <1>10, <1>11, <1>12, <1>13 DEF Model

\* Copying the rows of a match that has no others makes the copy equal.
LEMMA CopiesAll ==
    ASSUME team \in [Match -> Rows], copied \in [Match -> Rows], NEW m \in Match,
           \A t \in Team : copied[m][t] # NoContent => team[m][t] # NoContent
    PROVE  Copied(m) = team[m]
  BY DEF Copied, Rows

\* A rebuild that is alone keeps its accounts in its own steps.
LEMMA RebuildServesItself ==
    ASSUME RepairInv, RebuildInv', NEW b \in Rebuild, RebuildMoves(b), Beside(b),
           Watch({b}), alone'[b]
    PROVE  Served(b)'
  <1>0. /\ b \in Builder /\ job \in [Builder -> Jobs] /\ desk \in [Builder -> Desk]
        /\ files \in [Match -> Files] /\ rebuild[b].match \in Match
        /\ team \in [Match -> Rows] /\ copied \in [Match -> Rows]
        /\ desk[b].step # "closed" => On(b, "reports")
    BY RebuildAssumption DEF RepairInv, RebuildInv, RebuildTypeOK, TypeOK, WarehouseTypeOK,
                             ReportsTypeOK, Rebuilds
  <1>1. CASE Pauses(b)
    BY <1>1 DEF Pauses, Served, RebuiltBy, Through, CopyMade, ReadBy, DrawnBy
  <1>2. CASE Prepares(b)
    <2>1. /\ desk'[b].step = "closed" /\ ~On(b, "reports")'
          /\ job'[b].todo = Selected(Model) /\ rebuild'[b].todo = Mart
      BY <1>0, <1>2 DEF Prepares, On
    <2>2. Model \subseteq Selected(Model) /\ "fact_team_match" \in Mart
      BY DEF Selected, Mart
    <2> QED
      BY <2>1, <2>2 DEF Served, RebuiltBy, Through, CopyMade, ReadBy, DrawnBy, Model
  <1>3. ASSUME ~Pauses(b), ~Prepares(b)
        PROVE  /\ rebuild'[b].state = "running"
               /\ rebuild'[b].match = rebuild[b].match
               /\ RebuiltBy(b) /\ ReadBy(b, rebuild[b].match) /\ DrawnBy(b, rebuild[b].match)
    <2>1. rebuild'[b].state = "running" /\ rebuild'[b].match = rebuild[b].match
      BY <1>3 DEF RebuildMoves, Reworks, Copies, Succeeds, Redraws, On
    <2>2. alone[b]
      BY <2>1, WatchedRebuild
    <2> QED
      BY <2>1, <2>2 DEF RepairInv, RebuildsServe
  <1>4. ASSUME ~Pauses(b), ~Prepares(b), desk' = desk, ~On(b, "reports")
        PROVE  ReadBy(b, rebuild[b].match)' /\ DrawnBy(b, rebuild[b].match)'
    BY <1>0, <1>4 DEF ReadBy, DrawnBy
  <1>5. CASE Reworks(b) /\ ~Pauses(b) /\ ~Prepares(b)
    <2>1. RebuiltBy(b)'
      BY <1>3, <1>5, RebuiltNode
    <2> QED
      BY <1>4, <1>5, <2>1 DEF Served, Reworks, On
  <1>6. CASE Copies(b) /\ ~Pauses(b) /\ ~Prepares(b)
    <2>1. /\ job[b].open /\ job'[b].todo = job[b].todo /\ UNCHANGED <<src, stg, team, ivl, desk>>
          /\ ~On(b, "reports") /\ ~On(b, "reports")'
      BY <1>6 DEF Copies, On, Beside
    <2>2. \A n : Through(b, n)' => Through(b, n)
      BY <2>1 DEF Through
    <2>3. CopyMade(b)' => copied'[rebuild[b].match] = team[rebuild[b].match]
      <3>1. CASE BuildTeamMatch(b)
        <4>1. copied'[rebuild[b].match] = Copied(rebuild[b].match)
          BY <1>0, <3>1 DEF BuildTeamMatch
        <4>2. Copied(rebuild[b].match) = team[rebuild[b].match]
          BY <1>0, CopiesAll DEF RepairInv, CopiedBehind
        <4> QED
          BY <4>1, <4>2
      <3>2. CASE ~BuildTeamMatch(b)
        <4>1. /\ UNCHANGED copied
              /\ job[b].failed => job'[b].failed
              /\ "fact_team_match" \in rebuild[b].todo => "fact_team_match" \in rebuild'[b].todo
          BY <1>6, <3>2 DEF Copies
        <4>2. CopyMade(b)' => CopyMade(b)
          BY <2>1, <4>1 DEF CopyMade
        <4> QED
          BY <1>3, <1>6, <4>1, <4>2 DEF RebuiltBy
      <3> QED
        BY <3>1, <3>2
    <2>4. RebuiltBy(b)'
      BY <1>3, <1>6, <2>1, <2>2, <2>3 DEF RebuiltBy
    <2> QED
      BY <1>4, <1>6, <2>1, <2>4 DEF Served
  <1>7. CASE Succeeds(b) /\ ~Pauses(b) /\ ~Prepares(b)
    <2>1. /\ UNCHANGED <<src, stg, team, ivl, desk, copied>> /\ ~On(b, "reports")
          /\ job[b].open /\ job[b].todo = {} /\ ~job[b].failed /\ rebuild[b].todo = {}
      BY <1>7 DEF Succeeds, On, Beside, Exited
    <2>2. CopyMade(b) /\ \A n : Through(b, n)
      BY <2>1 DEF CopyMade, Through
    <2>3. RebuiltBy(b)'
      BY <1>3, <1>7, <2>1, <2>2 DEF RebuiltBy
    <2> QED
      BY <1>4, <1>7, <2>1, <2>3 DEF Served
  <1>8. CASE Redraws(b) /\ ~Pauses(b) /\ ~Prepares(b)
    <2> PICK m \in Match : m = rebuild[b].match /\ m = rebuild'[b].match
      BY <1>0, <1>3, <1>8
    <2>1. /\ StartReports(b, m) \/ ReadRows(b) \/ Draw(b)
          /\ UNCHANGED <<src, stg, team, ivl, job, rebuild, copied>>
      BY <1>8 DEF Redraws, Beside
    <2>2. RebuiltBy(b)'
      BY <1>3, <1>8, <2>1 DEF RebuiltBy, Through, CopyMade, On
    <2>3. ReadBy(b, m)' /\ DrawnBy(b, m)'
      BY <1>0, <1>3, <1>8, <2>1, DeskMove
    <2>4. ReadBy(b, rebuild[b].match)' /\ DrawnBy(b, rebuild[b].match)'
      BY <2>3 DEF ReadBy, DrawnBy
    <2> QED
      BY <2>2, <2>4 DEF Served
  <1> QED
    BY <1>1, <1>2, <1>5, <1>6, <1>7, <1>8 DEF RebuildMoves

\* A rebuild that is alone keeps its accounts in the steps of other runs.
LEMMA RebuildServesBeside ==
    ASSUME RepairInv, RebuildInv', NEW b \in Rebuild, NEW S, Watch(S), b \notin S,
           alone'[b], rebuild'[b] = rebuild[b], job'[b] = job[b], desk'[b] = desk[b],
           UNCHANGED copied \/ \E d \in Rebuild : BuildTeamMatch(d)
    PROVE  Served(b)'
  <1>0. /\ rebuild[b].match \in Match
        /\ ~On(b, "reports")' => desk'[b].step = "closed"
        /\ job'[b].open => On(b, "build_silver_events_dbt")'
        /\ team \in [Match -> Rows]
    BY DEF RepairInv, RebuildInv, RebuildTypeOK, TypeOK, WarehouseTypeOK, Rebuilds
  <1>1. CASE rebuild'[b].state # "running"
    BY <1>0, <1>1 DEF On, Served, RebuiltBy, Through, CopyMade, ReadBy, DrawnBy
  <1>2. CASE rebuild'[b].state = "running"
    <2> PICK m \in Match : m = rebuild[b].match
      BY <1>0
    <2>1. /\ alone[b] /\ src'[m] = src[m] /\ stg'[m] = stg[m] /\ team'[m] = team[m]
          /\ ivl'[m] = ivl[m] /\ files'[m] = files[m]
      BY <1>2, WatchedRebuild
    <2>2. RebuiltBy(b) /\ ReadBy(b, m) /\ DrawnBy(b, m)
      BY <2>1 DEF RepairInv, RebuildsServe
    <2>3. copied[m] = team[m] => copied'[m] = team[m]
      <3>1. ASSUME copied[m] = team[m] PROVE Copied(m) = team[m]
        BY <1>0, <3>1 DEF Copied, Rows
      <3> QED
        BY <3>1 DEF BuildTeamMatch
    <2>4. /\ CopyMade(b)' <=> CopyMade(b)
          /\ \A n : Through(b, n)' <=> Through(b, n)
      BY DEF CopyMade, Through, On
    <2>5. RebuiltBy(b)'
      BY <2>1, <2>2, <2>3, <2>4 DEF RebuiltBy
    <2>6. ReadBy(b, rebuild[b].match)' /\ DrawnBy(b, rebuild[b].match)'
      BY <2>1, <2>2 DEF ReadBy, DrawnBy
    <2> QED
      BY <2>5, <2>6 DEF Served
  <1> QED
    BY <1>1, <1>2

\* Steps of rebuilds keep everything.
LEMMA RebuildRepair ==
    ASSUME RepairInv, NEW b \in Rebuild, RebuildStep(b)
    PROVE  RepairInv'
  <1>0. RebuildInv /\ BuildOfRebuild /\ Watch({b}) /\ Rebuild \subseteq Builder
    BY RebuildAssumption DEF RepairInv, RebuildStep
  <1>1. RebuildInv' /\ RebuildMoves(b) /\ Beside(b)
    BY <1>0, RebuildKeeps, RebuildMovesOnly
  <1>2. OrderInv' /\ WholeBoxes' /\ LoadedFirst' /\ CopiedBehind'
    BY <1>1, RebuildOrder, RebuildBehind
  <1>3. BuildOfRebuild' /\ WorkersServe'
    BY <1>0, <1>1, RebuildBuild, RebuildServesWorkers
  <1>4. RebuildsServe'
    <2>1. \A d \in Rebuild : alone'[d] => Served(d)'
      <3> SUFFICES ASSUME NEW d \in Rebuild, alone'[d] PROVE Served(d)'
        OBVIOUS
      <3>1. CASE d = b
        BY <1>0, <1>1, <3>1, RebuildServesItself
      <3>2. CASE d # b
        BY <1>0, <1>1, <3>2, RebuildServesBeside DEF Beside
      <3> QED
        BY <3>1, <3>2
    <2> QED
      BY <2>1 DEF RebuildsServe, Served
  <1> QED
    BY <1>1, <1>2, <1>3, <1>4 DEF RepairInv

-----------------------------------------------------------------------------
(* Steps of worker runs *)

\* Loading replaces what is loaded for a match, and never by nothing.
LEMMA LoadedStays ==
    ASSUME OrderInv, NEW r \in Run, WorkerStep(r), NEW m \in Match, src[m] # NoContent
    PROVE  src'[m] # NoContent
  <1>0. /\ run[r] \in Runs /\ src \in [Match -> Content \cup {NoContent}]
        /\ r \in Builder /\ job \in [Builder -> Jobs]
    BY RunAssumption DEF OrderInv, PinInv, TypeOK, WarehouseTypeOK
  <1>1. CASE src' = src
    BY <1>1
  <1>2. CASE Load(r)
    <2>1. /\ src' = [src EXCEPT ![run[r].match] = Scan(run[r].snap, run[r].match)]
          /\ run[r].task = "load_silver_events_to_db"
      BY <1>2 DEF Load, LoadSrc, At
    <2>2. run[r].snap # 0
      BY <2>1 DEF OrderInv, PinInv, SnapshotBehindSilver
    <2>3. Scan(run[r].snap, run[r].match) \in Content
      BY <2>2 DEF OrderInv, PinInv, PinnedSnapshotIsOwn, Carried
    <2> QED
      BY <1>0, <2>1, <2>3, BoxAssumption
  <1>3. \/ \E k \in Match : Trigger(r, k)
        \/ Begin(r)
        \/ \E t \in TaskNames : Clear(r, t)
        \/ TaskFails(r)
        \/ (\E c \in Content : Ingest(r, c)) \/ Bronze(r) \/ Silver(r) \/ Rejects(r)
        \/ StartDbt(r) \/ RunDbt(r) \/ EndDbt(r) \/ Report(r) \/ EndReports(r)
        \/ Load(r)
    BY DEF WorkerStep, Work
  <1>4. ASSUME \/ (\E c \in Content : Ingest(r, c)) \/ Bronze(r) \/ Silver(r) \/ Rejects(r)
               \/ Report(r) \/ EndReports(r)
        PROVE  src' = src
    BY <1>4 DEF Ingest, Bronze, Silver, Rejects, Report, EndReports, warehouse
  <1>5. ASSUME StartDbt(r) \/ RunDbt(r) \/ EndDbt(r)
        PROVE  src' = src
    BY <1>0, <1>5, NodeFacts DEF StartDbt, StartBuild, RunDbt, EndDbt, CloseBuild
  <1>6. ASSUME \/ \E k \in Match : Trigger(r, k)
               \/ Begin(r)
               \/ \E t \in TaskNames : Clear(r, t)
               \/ TaskFails(r)
        PROVE  src' = src
    BY <1>6 DEF Trigger, Begin, Clear, TaskFails, warehouse
  <1> QED
    BY <1>1, <1>2, <1>3, <1>4, <1>5, <1>6

\* A worker step is a move of its run and of no other.
LEMMA WorkerMoves ==
    ASSUME RepairInv, NEW r \in Run, WorkerStep(r)
    PROVE  Moves(r) /\ Apart(r)
  BY ControlMoves, WorkMoves DEF WorkerStep, RepairInv

\* What is staged is loaded, and what is copied is in fact_gold_team.
LEMMA WorkerBehind ==
    ASSUME RepairInv, NEW r \in Run, WorkerStep(r), Moves(r)
    PROVE  LoadedFirst' /\ CopiedBehind'
  <1>0. /\ LoadedFirst /\ CopiedBehind /\ OrderInv /\ TypeOK /\ WarehouseTypeOK
        /\ r \in Builder /\ copied' = copied
    BY RunAssumption, WorkerNext DEF RepairInv, RebuildInv, RebuildTypeOK, TypeOK
  <1>1. \A m \in Match : src[m] # NoContent => src'[m] # NoContent
    BY <1>0, LoadedStays
  <1>2. \A m \in Match : stg'[m] # stg[m] => src'[m] # NoContent
    <2>1. CASE RunNode(r)
      BY <1>0, <2>1, NodeOnMatch
    <2>2. CASE UNCHANGED stg
      BY <2>2
    <2> QED
      BY <2>1, <2>2 DEF Moves, Rests, Stops, Advances, Opens, Builds, Closes, Draws
  <1>3. \A m \in Match, t \in Team : team[m][t] # NoContent => team'[m][t] # NoContent
    BY <1>0, WorkerTables, TeamsGrow
  <1> QED
    BY <1>0, <1>1, <1>2, <1>3 DEF LoadedFirst, CopiedBehind

\* What the worker runs have built, read and drawn.
LEMMA WorkerServesWorkers ==
    ASSUME RepairInv, OrderInv', NEW r \in Run, Moves(r), Apart(r), Watch({r})
    PROVE  WorkersServe'
  <1>0. /\ OrderInv /\ Busy' /\ r \in Builder /\ desk \in [Builder -> Desk]
        /\ job \in [Builder -> Jobs]
    BY RunAssumption
       DEF RepairInv, OrderInv, PinInv, TypeOK, ReportsTypeOK, WarehouseTypeOK
  <1> SUFFICES ASSUME NEW q \in Run
               PROVE  /\ BuiltBy(q, 4)'
                      /\ Position(run'[q].entry) <= 4 => ReadBy(q, run[q].match)'
                      /\ alone'[q] => /\ BuiltBy(q, 6)'
                                      /\ ReadBy(q, run[q].match)'
                                      /\ DrawnBy(q, run[q].match)'
    BY DEF WorkersServe
  <1>1. /\ BuiltBy(q, 4)
        /\ Position(run[q].entry) <= 4 => ReadBy(q, run[q].match)
        /\ alone[q] => BuiltBy(q, 6) /\ ReadBy(q, run[q].match) /\ DrawnBy(q, run[q].match)
    BY DEF RepairInv, WorkersServe
  <1>2. CASE run'[q].state # "running"
    <2>1. desk'[q].step = "closed"
      BY <1>0, <1>2 DEF Busy
    <2> QED
      BY <1>2, <2>1 DEF BuiltBy, ReadBy, DrawnBy
  <1>3. CASE run'[q].state = "running"
    <2>1. alone'[q] => alone[q]
      BY <1>3, WatchedRun
    <2>2. CASE q # r
      <3>1. UNCHANGED <<src, stg, team, ivl, files>>
        BY <1>0, <1>3, <2>2, OthersRest DEF Rests
      <3>2. run'[q] = run[q] /\ job'[q] = job[q] /\ desk'[q] = desk[q]
        BY <2>2 DEF Apart
      <3>3. /\ BuiltBy(q, 4) => BuiltBy(q, 4)'
            /\ BuiltBy(q, 6) => BuiltBy(q, 6)'
        BY <3>1, <3>2 DEF BuiltBy, Past
      <3>4. /\ ReadBy(q, run[q].match) => ReadBy(q, run[q].match)'
            /\ DrawnBy(q, run[q].match) => DrawnBy(q, run[q].match)'
        BY <3>1, <3>2 DEF ReadBy, DrawnBy
      <3> QED
        BY <1>1, <2>1, <3>2, <3>3, <3>4
    <2>3. CASE q = r
      <3>1. BuiltBy(r, 4)' /\ (BuiltBy(r, 6) => BuiltBy(r, 6)')
        BY <1>0, <1>1, <2>3, BuiltMove
      <3>2. ReadBy(r, run[r].match) =>
               /\ ReadBy(r, run[r].match)'
               /\ DrawnBy(r, run[r].match) => DrawnBy(r, run[r].match)'
        BY <1>0, DrawnMove
      <3>3. ASSUME desk'[r].step # "closed" PROVE run'[r] = run[r]
        <4>1. ~Rests(r)
          <5>1. Rests(r) => desk[r].step = "closed" /\ desk'[r] = desk[r]
            BY DEF Rests, RepairInv, OrderInv, PinInv, Busy
          <5> QED
            BY <3>3, <5>1
        <4>2. ~(Advances(r) \/ Closes(r))
          <5>1. Advances(r) \/ Closes(r) => run[r].task # "reports" /\ desk'[r] = desk[r]
            BY DEF Advances, Closes
          <5>2. run[r].task # "reports" => desk[r].step = "closed"
            BY DEF RepairInv, OrderInv, PinInv, Busy
          <5> QED
            BY <3>3, <5>1, <5>2
        <4> QED
          BY <3>3, <4>1, <4>2 DEF Moves, Stops, Opens, Builds, Draws
      <3>4. Position(run'[r].entry) <= 4 => ReadBy(r, run[r].match)'
        <4>1. CASE desk'[r].step = "closed"
          BY <4>1 DEF ReadBy
        <4>2. CASE desk'[r].step # "closed"
          BY <1>1, <2>3, <3>2, <3>3, <4>2
        <4> QED
          BY <4>1, <4>2
      <3> QED
        BY <1>1, <2>1, <2>3, <3>1, <3>2, <3>4
    <2> QED
      BY <2>2, <2>3
  <1> QED
    BY <1>2, <1>3

\* Steps of worker runs keep everything.
LEMMA WorkerRepair ==
    ASSUME RepairInv, NEW r \in Run, WorkerStep(r), RebuildInv'
    PROVE  RepairInv'
  <1>0. /\ OrderInv /\ WholeBoxes /\ BuildOfRebuild /\ TypeOK /\ Watch({r})
        /\ UNCHANGED <<rebuild, copied>>
        /\ \A b \in Rebuild : b \in Builder /\ b # r
    BY WorkerNext, RunAssumption, RebuildAssumption
       DEF RepairInv, RebuildInv, RebuildTypeOK
  <1>1. Moves(r) /\ Apart(r)
    BY WorkerMoves
  <1>2. OrderInv' /\ WholeBoxes'
    BY <1>0, <1>1, OrderMove, WholeMove DEF RebuildInv, ProvInv
  <1>3. LoadedFirst' /\ CopiedBehind' /\ WorkersServe'
    BY <1>0, <1>1, <1>2, WorkerBehind, WorkerServesWorkers
  <1>4. \A b \in Rebuild : job'[b] = job[b] /\ desk'[b] = desk[b] /\ rebuild'[b] = rebuild[b]
    BY <1>0, WorkerTables
  <1>5. BuildOfRebuild'
    BY <1>0, <1>4 DEF BuildOfRebuild, On
  <1>6. RebuildsServe'
    <2>1. \A b \in Rebuild : alone'[b] => Served(b)'
      BY <1>0, <1>4, RebuildServesBeside
    <2> QED
      BY <2>1 DEF RebuildsServe, Served
  <1> QED
    BY <1>2, <1>3, <1>5, <1>6 DEF RepairInv

-----------------------------------------------------------------------------
(* All steps *)

\* Nothing is built, read, drawn or copied at first.
LEMMA RepairInit == RebuildInit => RepairInv
  <1> SUFFICES ASSUME RebuildInit PROVE RepairInv
    OBVIOUS
  <1>1. RebuildInv /\ ServeInv
    BY RebuildInvInit, ServeInit DEF RebuildInit
  <1>2. LoadedFirst /\ CopiedBehind
    BY DEF RebuildInit, Init, WarehouseInit, NoRows, LoadedFirst, CopiedBehind
  <1>3. \A b \in Rebuild : /\ ~job[b].open /\ desk[b].step = "closed"
                           /\ rebuild[b].state = "none"
                           /\ rebuild[b].task = "build_silver_events_dbt"
    BY RebuildAssumption DEF RebuildInit, Init, WarehouseInit, ReportsInit, NoJob, Closed,
                             NoRebuild
  <1>4. \A r \in Run : run[r].state = "none" /\ desk[r].step = "closed"
    BY RunAssumption DEF RebuildInit, Init, ReportsInit, Closed, NoRun
  <1>5. WorkersServe
    BY <1>4 DEF WorkersServe, BuiltBy, ReadBy, DrawnBy
  <1>6. RebuildsServe
    BY <1>3, NothingServed DEF RebuildsServe, Served, On
  <1> QED
    BY <1>1, <1>2, <1>3, <1>5, <1>6 DEF RepairInv, ServeInv, BuildOfRebuild, On

\* Steps of workers, of rebuilds and of the discovery DAG keep it.
LEMMA RepairStep == RepairInv /\ [RebuildNext]_rebuildVars => RepairInv'
  <1> SUFFICES ASSUME RepairInv, [RebuildNext]_rebuildVars PROVE RepairInv'
    OBVIOUS
  <1>0. RebuildInv /\ RebuildInv'
    BY RebuildInvStep DEF RepairInv
  <1>1. ASSUME UNCHANGED <<vars, rebuild, copied>>,
               \A r \in Run \cup Rebuild :
                   alone'[r] => alone[r] \/ ~Begun(r)'
        PROVE  RepairInv'
    <2>1. /\ UNCHANGED <<src, stg, team, ivl, exists, job, desk, files, run, rebuild,
                         copied, lake, ledger, bronze>>
      BY <1>1 DEF vars
    <2>2. OrderInv'
      BY <1>0, <2>1 DEF RepairInv, OrderInv, OneRunning, BuildOfRun, EntryFirst, Carried,
                        RebuildInv, ProvInv
    <2>3. WholeBoxes' /\ LoadedFirst' /\ CopiedBehind' /\ BuildOfRebuild'
      BY <2>1 DEF RepairInv, WholeBoxes, Whole, Teams, LoadedFirst, CopiedBehind,
                  BuildOfRebuild, On
    <2>4. WorkersServe'
      <3> SUFFICES ASSUME NEW r \in Run
                   PROVE  /\ BuiltBy(r, 4)'
                          /\ Position(run'[r].entry) <= 4 => ReadBy(r, run[r].match)'
                          /\ alone'[r] => /\ BuiltBy(r, 6)'
                                          /\ ReadBy(r, run[r].match)'
                                          /\ DrawnBy(r, run[r].match)'
        BY DEF WorkersServe
      <3>1. /\ BuiltBy(r, 4) => BuiltBy(r, 4)'
            /\ BuiltBy(r, 6) => BuiltBy(r, 6)'
            /\ ReadBy(r, run[r].match) => ReadBy(r, run[r].match)'
            /\ DrawnBy(r, run[r].match) => DrawnBy(r, run[r].match)'
        BY <2>1 DEF BuiltBy, Past, ReadBy, DrawnBy
      <3>2. /\ BuiltBy(r, 4)
            /\ Position(run[r].entry) <= 4 => ReadBy(r, run[r].match)
            /\ alone[r] => /\ BuiltBy(r, 6) /\ ReadBy(r, run[r].match)
                           /\ DrawnBy(r, run[r].match)
        BY DEF RepairInv, WorkersServe
      <3>3. ASSUME ~Begun(r)'
            PROVE  BuiltBy(r, 6)' /\ ReadBy(r, run[r].match)' /\ DrawnBy(r, run[r].match)'
        <4>1. run'[r].state # "running"
          BY <3>3 DEF Begun
        <4>2. desk'[r].step = "closed"
          BY <2>2, <4>1 DEF OrderInv, PinInv, Busy
        <4> QED
          BY <4>1, <4>2 DEF BuiltBy, ReadBy, DrawnBy
      <3> QED
        BY <1>1, <2>1, <3>1, <3>2, <3>3
    <2>5. RebuildsServe'
      <3>1. ASSUME NEW b \in Rebuild, alone'[b] PROVE Served(b)'
        <4>1. CASE alone[b]
          <5>1. Served(b)
            BY <4>1 DEF RepairInv, RebuildsServe, Served
          <5> QED
            BY <2>1, <5>1 DEF Served, RebuiltBy, Through, CopyMade, On, Covers,
                              ReadBy, DrawnBy
        <4>2. CASE ~Begun(b)'
          <5>1. rebuild'[b].state # "running"
            BY <4>2, RebuildAssumption DEF Begun
          <5>2. ~job'[b].open /\ desk'[b].step = "closed" /\ ~On(b, "reports")'
            BY <1>0, <5>1 DEF RebuildInv, RebuildTypeOK, On
          <5> QED
            BY <5>2 DEF Served, RebuiltBy, Through, CopyMade, ReadBy, DrawnBy
        <4> QED
          BY <1>1, <3>1, <4>1, <4>2
      <3> QED
        BY <3>1 DEF RebuildsServe, Served
    <2> QED
      BY <1>0, <2>2, <2>3, <2>4, <2>5 DEF RepairInv
  <1>2. CASE UNCHANGED rebuildVars
    BY <1>1, <1>2 DEF rebuildVars, marting
  <1>3. CASE BuildDim /\ Watch({})
    <2>1. UNCHANGED <<vars, rebuild, copied>>
      BY <1>3 DEF BuildDim
    <2>2. \A r \in Run \cup Rebuild : alone'[r] => alone[r] \/ ~Begun(r)'
      BY <1>3 DEF Watch
    <2> QED
      BY <1>1, <2>1, <2>2
  <1>4. ASSUME NEW r \in Run, WorkerStep(r) PROVE RepairInv'
    BY <1>0, <1>4, WorkerRepair
  <1>5. ASSUME NEW b \in Rebuild, RebuildStep(b) PROVE RepairInv'
    BY <1>5, RebuildRepair
  <1> QED
    BY <1>2, <1>3, <1>4, <1>5 DEF RebuildNext

-----------------------------------------------------------------------------
(* Runs that succeed *)

\* A worker run that succeeds is the one whose step it is, and it stops.
LEMMA WorkerSucceeds ==
    ASSUME RepairInv, RebuildNext, NEW r \in Run,
           run[r].state = "running", run'[r].state = "success"
    PROVE  Stops(r)
  <1>1. ASSUME NEW q \in Run, WorkerStep(q) PROVE Stops(r)
    <2>1. Moves(q) /\ Apart(q)
      BY <1>1, WorkerMoves
    <2>2. q = r
      BY <2>1 DEF Apart
    <2> QED
      BY <2>1, <2>2 DEF Moves, Rests, Advances, Passed, Opens, Builds, Closes, Draws
  <1>2. ASSUME NEW b \in Rebuild, RebuildStep(b) PROVE FALSE
    BY <1>2, RebuildMovesOnly DEF RepairInv, Beside
  <1>3. ASSUME BuildDim PROVE FALSE
    BY <1>3 DEF BuildDim, vars
  <1> QED
    BY <1>1, <1>2, <1>3 DEF RebuildNext

\* A step that changes a rebuild or its build is a step of this rebuild.
LEMMA RebuildOwn ==
    ASSUME RepairInv, RebuildNext, NEW b \in Rebuild,
           rebuild'[b] # rebuild[b] \/ job'[b] # job[b]
    PROVE  RebuildMoves(b) /\ Beside(b)
  <1>1. ASSUME NEW r \in Run, WorkerStep(r) PROVE FALSE
    <2>1. TypeOK /\ b \in Builder /\ b # r
      BY RunAssumption, RebuildAssumption DEF RepairInv, RebuildInv, RebuildTypeOK
    <2> QED
      BY <1>1, <2>1, WorkerNext, WorkerTables
  <1>2. ASSUME NEW d \in Rebuild, RebuildStep(d) PROVE RebuildMoves(b) /\ Beside(b)
    <2>1. RebuildMoves(d) /\ Beside(d)
      BY <1>2, RebuildMovesOnly DEF RepairInv
    <2>2. d = b
      BY <2>1, RebuildAssumption DEF Beside
    <2> QED
      BY <2>1, <2>2
  <1>3. ASSUME BuildDim PROVE FALSE
    BY <1>3 DEF BuildDim, vars
  <1> QED
    BY <1>1, <1>2, <1>3 DEF RebuildNext

\* A rebuild that succeeds and was alone has brought tables, fact_team_match
\* and reports to the payload it found loaded, whatever was there before.
THEOREM RebuildAlwaysRepairs == RebuildSpec => RebuildRepairs
  <1>1. ASSUME RepairInv, [RebuildNext]_rebuildVars
        PROVE  [\A b \in Rebuild :
                  (/\ rebuild[b].state = "running" /\ rebuild'[b].state = "success"
                   /\ alone[b]) =>
                      LET m == rebuild[b].match IN
                      /\ OneVersion(m, src[m])
                      /\ copied[m] = ExactRows(src[m])]_rebuildVars
    <2> SUFFICES ASSUME NEW b \in Rebuild, rebuild[b].state = "running",
                        rebuild'[b].state = "success", alone[b]
                 PROVE  LET m == rebuild[b].match IN
                        /\ OneVersion(m, src[m])
                        /\ copied[m] = ExactRows(src[m])
      OBVIOUS
    <2>1. RebuildNext
      BY <1>1 DEF rebuildVars
    <2>2. RebuildMoves(b)
      BY <1>1, <2>1, RebuildOwn
    <2>3. On(b, "reports") /\ desk[b].step = "drawn"
      BY <2>2 DEF RebuildMoves, Pauses, Prepares, Reworks, Copies, Succeeds, Redraws, On
    <2> PICK m \in Match : m = rebuild[b].match
      BY <1>1 DEF RepairInv, RebuildInv, RebuildTypeOK, Rebuilds
    <2>4. RebuiltBy(b) /\ ReadBy(b, m) /\ DrawnBy(b, m)
      BY <1>1 DEF RepairInv, RebuildsServe
    <2>5. /\ stg[m] = src[m] /\ copied[m] = team[m]
          /\ Covers(team[m], stg[m]) /\ Covers(ivl[m], stg[m])
      BY <2>3, <2>4 DEF RebuiltBy, Through, CopyMade
    <2>6. WarehouseTypeOK /\ ReportsTypeOK /\ WholeBoxes /\ b \in Builder
      BY <1>1, RebuildAssumption DEF RepairInv, RebuildInv, RebuildTypeOK, TypeOK
    <2>7. team[m] = ExactRows(stg[m]) /\ OneVersion(m, stg[m])
      BY <2>3, <2>4, <2>5, <2>6, DrawnVersion
    <2> QED
      BY <2>5, <2>7
  <1> QED
    BY <1>1, RepairInit, RepairStep, PTL DEF RebuildSpec, RebuildRepairs

\* A worker run that loaded its match and succeeds leaves the tables at the
\* payload it loaded, whatever rebuilds of the match did in between.
THEOREM TablesAlwaysSurvive == RebuildSpec => TablesSurviveRebuilds
  <1>1. ASSUME RepairInv, [RebuildNext]_rebuildVars
        PROVE  [\A r \in Run :
                  (/\ run[r].state = "running" /\ run'[r].state = "success"
                   /\ Position(run[r].entry) <= Position("load_silver_events_to_db")) =>
                      LET m == run[r].match IN
                      /\ src[m] = run[r].content
                      /\ stg[m] = run[r].content
                      /\ team[m] = ExactRows(stg[m])
                      /\ ivl[m] = ExactRows(stg[m])]_rebuildVars
    <2> SUFFICES ASSUME NEW r \in Run, run[r].state = "running", run'[r].state = "success",
                        Position(run[r].entry) <= Position("load_silver_events_to_db")
                 PROVE  LET m == run[r].match IN
                        /\ src[m] = run[r].content
                        /\ stg[m] = run[r].content
                        /\ team[m] = ExactRows(stg[m])
                        /\ ivl[m] = ExactRows(stg[m])
      OBVIOUS
    <2>1. RebuildNext
      BY <1>1 DEF rebuildVars, vars
    <2>2. Stops(r)
      BY <1>1, <2>1, WorkerSucceeds
    <2>3. Position(run[r].entry) <= 4
      BY Positions
    <2> PICK m \in Match : m = run[r].match
      BY <1>1 DEF RepairInv, RebuildInv, RebuildTypeOK, TypeOK, Runs
    <2>4. OrderInv /\ WholeBoxes /\ BuiltBy(r, 4) /\ ReadBy(r, m)
      BY <1>1, <2>3 DEF RepairInv, WorkersServe
    <2>5. /\ desk[r].step = "drawn" /\ Covers(team[m], stg[m]) /\ Covers(ivl[m], stg[m])
          /\ src[m] = run[r].content /\ stg[m] = run[r].content
      BY <2>2, <2>3, <2>4, BuiltAtSuccess
    <2>6. WarehouseTypeOK /\ ReportsTypeOK /\ r \in Builder
      BY <1>1, RunAssumption DEF RepairInv, RebuildInv, RebuildTypeOK, TypeOK
    <2> QED
      BY <2>4, <2>5, <2>6, DrawnVersion
  <1> QED
    BY <1>1, RepairInit, RepairStep, PTL DEF RebuildSpec, TablesSurviveRebuilds

\* Its reports show the tables, and one payload if it built the facts, when no
\* other run changed what is held about the match.
THEOREM AloneAlwaysServesOneVersion == RebuildSpec => AloneServesOneVersion
  <1>1. ASSUME RepairInv, [RebuildNext]_rebuildVars
        PROVE  [\A r \in Run :
                  (run[r].state = "running" /\ run'[r].state = "success" /\ alone[r]) =>
                      /\ ReportsShowTables(run[r].match)
                      /\ run[r].entry # "reports" =>
                            OneVersion(run[r].match, stg[run[r].match])]_rebuildVars
    <2> SUFFICES ASSUME NEW r \in Run, run[r].state = "running", run'[r].state = "success",
                        alone[r]
                 PROVE  /\ ReportsShowTables(run[r].match)
                        /\ run[r].entry # "reports" =>
                              OneVersion(run[r].match, stg[run[r].match])
      OBVIOUS
    <2>1. RebuildNext
      BY <1>1 DEF rebuildVars, vars
    <2>2. Stops(r)
      BY <1>1, <2>1, WorkerSucceeds
    <2>3. /\ OrderInv /\ WholeBoxes
          /\ BuiltBy(r, 6) /\ ReadBy(r, run[r].match) /\ DrawnBy(r, run[r].match)
      BY <1>1 DEF RepairInv, WorkersServe
    <2>4. /\ ReportsTypeOK /\ r \in Builder /\ run[r].match \in Match
          /\ desk[r].step = "drawn"
      BY <2>2, <2>3, RunAssumption DEF OrderInv, PinInv, TypeOK, Runs, Stops
    <2> QED
      BY <2>2, <2>3, <2>4, ServedAtSuccess, DrawnShowsTables
  <1> QED
    BY <1>1, RepairInit, RepairStep, PTL DEF RebuildSpec, AloneServesOneVersion

\* The reconciliation test of a rebuild that is alone passes on its own match:
\* the rows it compares have just been computed from the staged ones.
THEOREM RebuildAlwaysReconciles == RebuildSpec => RebuildReconciles
  <1>1. ASSUME RepairInv, [RebuildNext]_rebuildVars
        PROVE  [\A b \in Rebuild :
                  (/\ "reconciles" \in job[b].todo \ job'[b].todo
                   /\ job'[b].open /\ alone[b])
                      => Reconciles({rebuild[b].match})]_rebuildVars
    <2> SUFFICES ASSUME NEW b \in Rebuild, "reconciles" \in job[b].todo \ job'[b].todo,
                        job'[b].open, alone[b]
                 PROVE  Reconciles({rebuild[b].match})
      OBVIOUS
    <2>1. RebuildNext
      BY <1>1 DEF rebuildVars, vars
    <2>2. RebuildMoves(b)
      BY <1>1, <2>1, RebuildOwn
    <2>3. Reworks(b)
      <3>1. "reconciles" \in Selected(Model)
        BY DEF Selected, Model, Test, Parents
      <3> QED
        BY <2>2, <3>1 DEF RebuildMoves, Pauses, Prepares, Copies, Succeeds, Redraws
    <2>4. /\ b \in Builder /\ job \in [Builder -> Jobs]
          /\ rebuild[b].match \in Match /\ team \in [Match -> Rows]
      BY <1>1, RebuildAssumption DEF RepairInv, RebuildInv, RebuildTypeOK, TypeOK,
                                     WarehouseTypeOK, Rebuilds
    <2>5. PICK n \in job[b].todo : /\ job'[b].todo = job[b].todo \ {n}
                                   /\ Parents(n) \cap job[b].todo = {}
      BY <2>3, <2>4, NodeBuilds DEF Reworks
    <2>6. n = "reconciles" /\ "fact_gold_team" \in Parents("reconciles")
      BY <2>5 DEF Parents
    <2>7. "fact_gold_team" \notin job[b].todo /\ job[b].open
      BY <2>3, <2>4, <2>5, <2>6, NodeFacts DEF Reworks
    <2>8. Covers(team[rebuild[b].match], stg[rebuild[b].match])
      BY <1>1, <2>7 DEF RepairInv, RebuildsServe, RebuiltBy, Through
    <2> QED
      BY <2>8 DEF Covers, Reconciles
  <1> QED
    BY <1>1, RepairInit, RepairStep, PTL DEF RebuildSpec, RebuildReconciles
=============================================================================
