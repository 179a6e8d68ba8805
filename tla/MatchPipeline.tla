--------------------------- MODULE MatchPipeline ---------------------------
(***************************************************************************)
(* The worker DAG (dags/football_match_pipeline.py): one run processes one *)
(* match through ingest, bronze, silver, load, two dbt builds and reports, *)
(* one task after the other.  max_active_runs=1: one run at a time.        *)
(*                                                                         *)
(* Ingestion is the atomic step of VersionLedger, which IngestManifest     *)
(* implements.  What a task returns travels to the later tasks of the run  *)
(* as an XCom (content, snap); a task that fails after its effect returns  *)
(* nothing.  A run stops at its first failed task.  An operator may clear  *)
(* any task that was reached: that task and all after it run again, with   *)
(* the XComs of the tasks before it.                                       *)
(***************************************************************************)
EXTENDS Reports, Sequences

CONSTANTS
    Run,        \* runs of football_match_pipeline, numbered as triggered
    Parses,     \* payloads json.loads accepts
    Valid,      \* those that pass the Silver data-quality checks
    Serves,     \* Serves[m]: the payloads the provider may serve for m
    MaxClears   \* bound: tasks the operator clears

ASSUME RunAssumption ==
    /\ Run \subseteq Builder \cap Nat
    /\ Valid \subseteq Parses
    /\ Parses \subseteq Content
    /\ Serves \in [Match -> SUBSET Content]
    /\ MaxClears \in Nat
    /\ \A c \in Content : c \notin Valid => DOMAIN Box[c] = {}

VARIABLES
    ledger,     \* ledger[m]: payloads in the ingestion manifest, by version
    bronze,     \* <<m, c>>: bronze/match_id=m/events_c.parquet exists
    lake,       \* football.silver_events: the sequence of its snapshots
    run,        \* run[r]: the DAG run
    clears      \* tasks cleared so far

lakehouse == <<ledger, bronze, lake>>

vars == <<src, stg, team, ivl, exists, job, desk, files,
          ledger, bronze, lake, run, clears>>

Task == <<"ingest", "bronze", "silver", "load_silver_events_to_db",
          "build_dbt", "build_gold_facts", "reports">>

TaskNames == {Task[i] : i \in DOMAIN Task}

Position(t) == CHOOSE i \in DOMAIN Task : Task[i] = t

After(t) == Task[Position(t) + 1]

NoRun == [state |-> "none", task |-> "ingest", entry |-> "ingest",
          match |-> CHOOSE m \in Match : TRUE, content |-> NoContent,
          snap |-> 0]

Runs == [state   : {"none", "queued", "running", "failed", "success"},
         task    : TaskNames,   \* the task that runs or was reached last
         entry   : TaskNames,   \* where this execution of the run began
         match   : Match,
         content : Content \cup {NoContent},   \* the artifact's file_hash
         snap    : Nat]                        \* the artifact's snapshot_id

Ledger == INSTANCE VersionLedger WITH known <- ledger, disputed <- {}

-----------------------------------------------------------------------------
(* The Iceberg table *)

EmptyTable == [m \in Match |-> NoContent]

Current == IF lake = <<>> THEN EmptyTable ELSE lake[Len(lake)]

\* Slip: a match that has rows already is not loaded again.
OverwrittenOnce(m, c) ==
    IF Current[m] = NoContent THEN [Current EXCEPT ![m] = c] ELSE Current

\* table.overwrite: the rows of one match are replaced, in one commit.
Overwritten(m, c) == [Current EXCEPT ![m] = c]

\* Slip: the scan is not pinned to the snapshot.
ScanCurrent(snap, m) == Current[m]

\* table.scan(snapshot_id, match_id = m)
Scan(snap, m) == lake[snap][m]

-----------------------------------------------------------------------------
(* The DAG run *)

Init ==
    /\ WarehouseInit
    /\ ReportsInit
    /\ ledger = [m \in Match |-> <<>>]
    /\ bronze = {}
    /\ lake = <<>>
    /\ run = [r \in Run |-> NoRun]
    /\ clears = 0

\* A controller or an operator triggers a run for a match.
Trigger(r, m) ==
    /\ run[r].state = "none"
    /\ \A q \in Run : q < r => run[q].state # "none"
    /\ run' = [run EXCEPT ![r] = [NoRun EXCEPT !.state = "queued", !.match = m]]
    /\ UNCHANGED <<warehouse, reports, lakehouse, clears>>

\* The scheduler starts a queued run when no other is active.
Begin(r) ==
    /\ run[r].state = "queued"
    /\ \A q \in Run : run[q].state # "running"
    /\ run' = [run EXCEPT ![r].state = "running"]
    /\ UNCHANGED <<warehouse, reports, lakehouse, clears>>

\* The operator clears task t and what follows it, XComs included.
Clear(r, t) ==
    /\ run[r].state \in {"failed", "success"}
    /\ Position(t) <= Position(run[r].task)
    /\ clears < MaxClears
    /\ clears' = clears + 1
    /\ run' = [run EXCEPT
                 ![r].state = "queued", ![r].task = t, ![r].entry = t,
                 ![r].content = IF t = "ingest" THEN NoContent ELSE @,
                 ![r].snap = IF Position(t) <= Position("silver") THEN 0 ELSE @]
    /\ UNCHANGED <<warehouse, reports, lakehouse>>

At(r, t) == run[r].state = "running" /\ run[r].task = t

\* The task returns, with artifact a; or something after its effect raises
\* (row count, lineage, the stage record) or the process is killed.
Returns(r, a) ==
    \/ run' = [run EXCEPT ![r] = [a EXCEPT !.task = After(run[r].task)]]
    \/ run' = [run EXCEPT ![r].state = "failed"]

\* The task raises or is killed before its effect; dbt and generate_reports
\* also between two of theirs.
TaskFails(r) ==
    /\ run[r].state = "running"
    /\ run' = [run EXCEPT ![r].state = "failed"]
    /\ job' = [job EXCEPT ![r] = NoJob]
    /\ desk' = [desk EXCEPT ![r] = Closed]
    /\ UNCHANGED <<src, stg, team, ivl, exists, files, lakehouse, clears>>

-----------------------------------------------------------------------------
(* The tasks *)

\* ingest_match: the payload is registered, or known already.
Ingest(r, c) ==
    LET m == run[r].match IN
    /\ At(r, "ingest")
    /\ c \in Serves[m]
    /\ IF c \in Ledger!Payloads(m) THEN UNCHANGED ledger ELSE Ledger!Register(m, c)
    /\ Returns(r, [run[r] EXCEPT !.content = c])
    /\ UNCHANGED <<warehouse, reports, bronze, lake>>

\* build_bronze: json.loads raises on a payload that is not JSON.
Bronze(r) ==
    /\ At(r, "bronze")
    /\ run[r].content \in Parses
    /\ bronze' = bronze \cup {<<run[r].match, run[r].content>>}
    /\ Returns(r, run[r])
    /\ UNCHANGED <<warehouse, reports, ledger, lake>>

\* Slip: the commit does not wait for the data-quality checks.
SilverUnchecked(r) ==
    /\ At(r, "silver")
    /\ <<run[r].match, run[r].content>> \in bronze
    /\ lake' = Append(lake, Overwritten(run[r].match, run[r].content))
    /\ Returns(r, [run[r] EXCEPT !.snap = Len(lake')])
    /\ UNCHANGED <<warehouse, reports, ledger, bronze>>

\* build_silver: the data-quality checks pass, and the commit's snapshot is
\* the artifact's.
Silver(r) ==
    /\ At(r, "silver")
    /\ <<run[r].match, run[r].content>> \in bronze
    /\ run[r].content \in Valid
    /\ lake' = Append(lake, Overwritten(run[r].match, run[r].content))
    /\ Returns(r, [run[r] EXCEPT !.snap = Len(lake')])
    /\ UNCHANGED <<warehouse, reports, ledger, bronze>>

\* The payload is not JSON, or fails a check: the task cannot succeed.
Rejects(r) ==
    /\ \/ At(r, "bronze") /\ run[r].content \notin Parses
       \/ At(r, "silver") /\ run[r].content \notin Valid
    /\ run' = [run EXCEPT ![r].state = "failed"]
    /\ UNCHANGED <<warehouse, reports, lakehouse>>

\* load_silver_to_postgres
Load(r) ==
    /\ At(r, "load_silver_events_to_db")
    /\ LoadSrc(run[r].match, Scan(run[r].snap, run[r].match))
    /\ Returns(r, run[r])
    /\ UNCHANGED <<reports, lakehouse>>

\* The --select of the two dbt tasks.
DbtSelect(t) ==
    IF t = "build_dbt" THEN {"stg_silver_events"}
                       ELSE {"fact_gold_team", "fact_gold_intervals"}

StartDbt(r) ==
    /\ \E t \in {"build_dbt", "build_gold_facts"} :
          At(r, t) /\ StartBuild(r, run[r].match, DbtSelect(t))
    /\ UNCHANGED <<run, reports, lakehouse>>

RunDbt(r) ==
    /\ RunNode(r)
    /\ UNCHANGED <<run, reports, lakehouse>>

\* Slip: a failed dbt build keeps its pool slot.
EndDbtKeepsSlot(r) ==
    /\ Exited(r)
    /\ IF job[r].failed THEN /\ run' = [run EXCEPT ![r].state = "failed"]
                             /\ UNCHANGED warehouse
                        ELSE Returns(r, run[r]) /\ CloseBuild(r)
    /\ UNCHANGED <<reports, lakehouse>>

\* The bash task fails when dbt exits with 1.
EndDbt(r) ==
    /\ Exited(r)
    /\ CloseBuild(r)
    /\ IF job[r].failed THEN run' = [run EXCEPT ![r].state = "failed"]
                        ELSE Returns(r, run[r])
    /\ UNCHANGED <<reports, lakehouse>>

Report(r) ==
    /\ \/ At(r, "reports") /\ StartReports(r, run[r].match)
       \/ ReadRows(r)
       \/ Draw(r)
    /\ UNCHANGED <<run, warehouse, lakehouse>>

\* The last task ends, and the run with it.
EndReports(r) ==
    /\ CloseReports(r)
    /\ \/ CannotDraw(r) /\ run' = [run EXCEPT ![r].state = "failed"]
       \/ /\ desk[r].step = "drawn"
          /\ \E s \in {"success", "failed"} : run' = [run EXCEPT ![r].state = s]
    /\ UNCHANGED <<warehouse, lakehouse>>

\* The running task goes on.
Work(r) ==
    /\ \/ \E c \in Content : Ingest(r, c)
       \/ Bronze(r) \/ Silver(r) \/ Rejects(r) \/ Load(r)
       \/ StartDbt(r) \/ RunDbt(r) \/ EndDbt(r)
       \/ Report(r) \/ EndReports(r)
    /\ UNCHANGED clears

Next ==
    \E r \in Run :
        \/ \E m \in Match : Trigger(r, m)
        \/ Begin(r)
        \/ \E t \in TaskNames : Clear(r, t)
        \/ Work(r)
        \/ TaskFails(r)

\* A running task goes on, and a queued run is not passed over for ever: the
\* scheduler takes queued runs in the order they came.
Fairness == \A r \in Run : WF_vars(Work(r)) /\ SF_vars(Begin(r))

Spec == Init /\ [][Next]_vars /\ Fairness

-----------------------------------------------------------------------------
(* Properties *)

\* The state of lakehouse, warehouse, reports and runs is well-typed: no task
\* reads a snapshot, a payload or rows that are not there.
TypeOK ==
    /\ WarehouseTypeOK
    /\ ReportsTypeOK
    /\ ledger \in [Match -> Seq(Content)]
    /\ bronze \subseteq Match \X Content
    /\ lake \in Seq([Match -> Content \cup {NoContent}])
    /\ run \in [Run -> Runs]
    /\ clears \in 0..MaxClears

\* Snapshot pinning: the snapshot a run carries holds, for its match, the
\* payload this run ingested - however many commits of other runs, failures
\* after a commit and cleared tasks came before or after.
PinnedSnapshotIsOwn ==
    \A r \in Run : run[r].snap # 0 =>
        /\ run[r].snap \in DOMAIN lake
        /\ Scan(run[r].snap, run[r].match) = run[r].content

\* What some snapshot of the table held for match m.
Committed(m) == {lake[i][m] : i \in DOMAIN lake} \ {NoContent}

\* Nothing is served that did not come the whole way: a payload in a fact
\* row, in a staged or loaded row or in one of the four reports was committed
\* to Silver for that match, and has the team it is shown for; one in Silver passed its checks, has its Bronze file and is
\* registered in the manifest.
Provenance ==
    \A m \in Match :
        /\ {src[m], stg[m]} \ {NoContent} \subseteq Committed(m)
        /\ \A t \in Team :
              {team[m][t], ivl[m][t], files[m].summary[t], files[m].xt_momentum[t]}
                  \ {NoContent} \subseteq {c \in Committed(m) : t \in DOMAIN Box[c]}
        /\ {files[m].shots, files[m].xg_timeline} \ {NoContent} \subseteq Committed(m)
        /\ \A c \in Committed(m) : /\ c \in Valid
                                   /\ <<m, c>> \in bronze
                                   /\ c \in Ledger!Payloads(m)

\* The rows a fact table holds when it was computed from payload c alone.
ExactRows(c) == [t \in Team |-> IF t \in DOMAIN Box[c] THEN c ELSE NoContent]

OneVersion(m, c) ==
    /\ stg[m] = c
    /\ team[m] = ExactRows(c)
    /\ ivl[m] = ExactRows(c)
    /\ files[m] = [summary |-> ExactRows(c), shots |-> c,
                   xg_timeline |-> c, xt_momentum |-> ExactRows(c)]

\* The four reports of match m show its tables as they are.
ReportsShowTables(m) ==
    files[m] = [summary |-> team[m], shots |-> stg[m],
                xg_timeline |-> stg[m], xt_momentum |-> ivl[m]]

\* A run that succeeds leaves all four reports of its match drawn from the
\* tables that are there, also after a clear of the reports task alone; one
\* that built the facts itself leaves both fact tables and the reports
\* computed from one payload, with no row of an earlier one left - the
\* payload it ingested when it (or its last cleared part) loaded Silver.
SuccessServesOneVersion ==
    [][\A r \in Run :
         (run[r].state = "running" /\ run'[r].state = "success") =>
             /\ ReportsShowTables(run[r].match)
             /\ run[r].entry # "reports" => OneVersion(run[r].match, stg[run[r].match])
             /\ Position(run[r].entry) <= Position("load_silver_events_to_db") =>
                   /\ src[run[r].match] = run[r].content
                   /\ stg[run[r].match] = run[r].content]_vars

\* Two accepted payloads of a match that differ in what the tests compare.
Revised(m) ==
    \E c, d \in Ledger!Payloads(m) \cap Valid : Box[c] # Box[d]

\* A dbt test fails only after a source revision that changed the compared
\* numbers or the teams of some match, on a payload without two teams, or
\* before fact_gold_team exists.
DbtFailsOnlyOnRevision ==
    (\E r \in Run : job[r].failed) =>
        \/ "fact_gold_team" \notin exists
        \/ \E m \in Match :
              \/ Revised(m)
              \/ \E c \in Ledger!Payloads(m) \cap Valid :
                     Cardinality(DOMAIN Box[c]) # 2

\* Every queued run ends: whatever fails, the one active-run slot is freed.
RunsEnd ==
    \A r \in Run :
        run[r].state \in {"queued", "running"} ~>
            run[r].state \in {"success", "failed"}

\* "A failure while processing one match should not invalidate" another: a
\* test that fails in a match's build fails on the rows of that match.
FailuresStayIsolated ==
    [][\A r \in Run, n \in Test :
         (/\ job[r].open /\ n \in job[r].todo /\ n \notin job'[r].todo
          /\ ~job[r].failed /\ job'[r].failed)
             => ~Passes(n, {job[r].match})]_vars
=============================================================================
