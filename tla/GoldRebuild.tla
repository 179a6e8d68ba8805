---------------------------- MODULE GoldRebuild ----------------------------
(***************************************************************************)
(* The rebuild and backfill DAGs (dags/football_gold_rebuild.py,           *)
(* dags/football_gold_backfill.py) beside the worker runs of MatchPipeline.*)
(*                                                                         *)
(* A rebuild run builds stg_silver_events and everything after it for one  *)
(* match from the rows PostgreSQL holds, then generates the match's        *)
(* reports.  It shares the dbt pool with the workers and nothing else:     *)
(* neither DAG waits for the other, and both write the same tables and the *)
(* same report directory.  fact_team_match and team_match_enriched are     *)
(* selected by rebuild runs only; dbt build skips them when a test of      *)
(* their ancestors fails.                                                  *)
(***************************************************************************)
EXTENDS MatchPipeline

CONSTANTS
    Rebuild,    \* runs of football_gold_rebuild
    MaxRebuilds \* its max_active_runs

ASSUME RebuildAssumption ==
    /\ Rebuild \subseteq Builder \ Run
    /\ MaxRebuilds \in Nat \ {0}

VARIABLES
    rebuild,    \* rebuild[b]: the DAG run
    marts,      \* the relations of Mart that exist
    copied,     \* fact_team_match: copied[m][t] is the payload of that row
    dim,        \* the view stg_dim_match exists
    alone       \* alone[r]: since run r began, no other run has changed what
                \* tables and files hold for its match (a history variable:
                \* no action reads it)

marting == <<marts, copied, dim>>

rebuildVars == <<vars, rebuild, marts, copied, dim, alone>>

Mart == {"fact_team_match", "team_match_enriched"}

\* What dbt build finishes before it begins a mart: the ref() and the tests
\* all of whose parents are ancestors of the mart.
Gates == {"fact_gold_team", "two_teams", "reconciles"}

NoRebuild == [state |-> "none", task |-> "build_silver_events_dbt",
              match |-> CHOOSE m \in Match : TRUE, todo |-> {}]

Rebuilds == [state : {"none", "queued", "running", "failed", "success"},
             task  : {"build_silver_events_dbt", "reports"},
             match : Match,
             todo  : SUBSET Mart]       \* marts the dbt build has not done

On(b, t) == rebuild[b].state = "running" /\ rebuild[b].task = t

-----------------------------------------------------------------------------
(* The DAG run *)

\* One TriggerDagRunOperator of a backfill, or an operator by hand.  A match
\* may be triggered while a rebuild of it is queued or running.
TriggerRebuild(b, m) ==
    /\ rebuild[b].state = "none"
    /\ rebuild' = [rebuild EXCEPT ![b] =
                      [NoRebuild EXCEPT !.state = "queued", !.match = m]]
    /\ UNCHANGED <<vars, marting>>

BeginRebuild(b) ==
    /\ rebuild[b].state = "queued"
    /\ Cardinality({d \in Rebuild : rebuild[d].state = "running"}) < MaxRebuilds
    /\ rebuild' = [rebuild EXCEPT ![b].state = "running"]
    /\ UNCHANGED <<vars, marting>>

\* Slip: a killed build keeps its slot.
RebuildFailsOpen(b) ==
    /\ rebuild[b].state = "running"
    /\ rebuild' = [rebuild EXCEPT ![b].state = "failed", ![b].todo = {}]
    /\ desk' = [desk EXCEPT ![b] = Closed]
    /\ UNCHANGED <<warehouse, files, lakehouse, run, clears, marting>>

\* A task raises or is killed, dbt and generate_reports between two of theirs.
RebuildFails(b) ==
    /\ rebuild[b].state = "running"
    /\ rebuild' = [rebuild EXCEPT ![b].state = "failed", ![b].todo = {}]
    /\ job' = [job EXCEPT ![b] = NoJob]
    /\ desk' = [desk EXCEPT ![b] = Closed]
    /\ UNCHANGED <<src, stg, team, ivl, exists, files, lakehouse, run, clears, marting>>

\* Slip: --select stg_silver_events, without the +.
SelectStaged == {"stg_silver_events"}

\* Slip: the fact tables are built from the staged rows there are.
SelectFacts == {"fact_gold_team", "fact_gold_intervals"}

\* --select stg_silver_events+, without the marts.
RebuildSelect == Model

\* dbt build
StartRebuild(b) ==
    /\ On(b, "build_silver_events_dbt")
    /\ StartBuild(b, rebuild[b].match, RebuildSelect)
    /\ rebuild' = [rebuild EXCEPT ![b].todo = Mart]
    /\ UNCHANGED <<reports, lakehouse, run, clears, marting>>

\* Slip: the marts are built whatever the tests of their ancestors say.
RunNodeUngated(b) ==
    /\ RunNode(b)
    /\ UNCHANGED <<reports, lakehouse, run, clears, rebuild, marting>>

\* A model or a test of Warehouse; a gate that fails takes the marts with it.
RunGated(b) ==
    /\ RunNode(b)
    /\ rebuild' = [rebuild EXCEPT ![b].todo =
                      IF \E n \in Gates \cap Test : /\ n \in job[b].todo \ job'[b].todo
                                                    /\ ~Passes(n, Match)
                      THEN {} ELSE @]
    /\ UNCHANGED <<reports, lakehouse, run, clears, marting>>

\* The rows of fact_gold_team, inserted or replaced by (match_id, team_id).
Copied(m) ==
    [t \in Team |-> IF team[m][t] # NoContent THEN team[m][t] ELSE copied[m][t]]

\* fact_team_match: of one match, or of all when the table is created.
BuildTeamMatch(b) ==
    /\ copied' = [m \in Match |->
                    IF "fact_team_match" \notin marts \/ m = rebuild[b].match
                    THEN Copied(m) ELSE copied[m]]
    /\ marts' = marts \cup {"fact_team_match"}
    /\ UNCHANGED job

\* team_match_enriched: a view, an error when stg_dim_match is missing.
BuildEnriched(b) ==
    /\ IF dim
       THEN marts' = marts \cup {"team_match_enriched"} /\ UNCHANGED job
       ELSE job' = [job EXCEPT ![b].failed = TRUE] /\ UNCHANGED marts
    /\ UNCHANGED copied

RunMart(b) ==
    /\ job[b].open
    /\ Gates \cap job[b].todo = {}
    /\ \E n \in rebuild[b].todo :
          /\ \/ n = "fact_team_match" /\ BuildTeamMatch(b)
             \/ n = "team_match_enriched" /\ BuildEnriched(b)
          /\ rebuild' = [rebuild EXCEPT ![b].todo = @ \ {n}]
    /\ UNCHANGED <<src, stg, team, ivl, exists, reports, lakehouse, run, clears, dim>>

EndRebuild(b) ==
    /\ Exited(b) /\ rebuild[b].todo = {}
    /\ CloseBuild(b)
    /\ \/ rebuild' = [rebuild EXCEPT ![b].state = "failed"]
       \/ ~job[b].failed /\ rebuild' = [rebuild EXCEPT ![b].task = "reports"]
    /\ UNCHANGED <<reports, lakehouse, run, clears, marting>>

RebuildReports(b) ==
    /\ \/ On(b, "reports") /\ StartReports(b, rebuild[b].match)
       \/ ReadRows(b)
       \/ Draw(b)
    /\ UNCHANGED <<warehouse, lakehouse, run, clears, rebuild, marting>>

EndRebuildReports(b) ==
    /\ CloseReports(b)
    /\ \/ CannotDraw(b) /\ rebuild' = [rebuild EXCEPT ![b].state = "failed"]
       \/ /\ desk[b].step = "drawn"
          /\ \E s \in {"success", "failed"} : rebuild' = [rebuild EXCEPT ![b].state = s]
    /\ UNCHANGED <<warehouse, lakehouse, run, clears, marting>>

RebuildWork(b) ==
    \/ StartRebuild(b) \/ RunGated(b) \/ RunMart(b) \/ EndRebuild(b)
    \/ RebuildReports(b) \/ EndRebuildReports(b)

\* run_dbt_stg_dim_match of the discovery DAG creates the view, in the pool.
BuildDim ==
    /\ ~dim
    /\ Cardinality({d \in Builder : job[d].open}) < DbtSlots
    /\ dim' = TRUE
    /\ UNCHANGED <<vars, rebuild, marts, copied>>

-----------------------------------------------------------------------------
(* All DAGs *)

Begun(r) == IF r \in Run THEN run[r].state = "running"
                         ELSE r \in Rebuild /\ rebuild[r].state = "running"

MatchOf(r) == IF r \in Run THEN run[r].match ELSE rebuild[r].match

\* What consumers of match m read.
Holds(m) == <<src[m], stg[m], team[m], ivl[m], files[m]>>

\* A step of the runs of S: is each run still alone?
Watch(S) ==
    alone' = [r \in Run \cup Rebuild |->
                \/ ~Begun(r)'
                \/ alone[r] /\ (r \in S \/ Holds(MatchOf(r))' = Holds(MatchOf(r)))]

RebuildInit ==
    /\ Init
    /\ rebuild = [b \in Rebuild |-> NoRebuild]
    /\ marts = {}
    /\ copied = [m \in Match |-> NoRows]
    /\ dim = FALSE
    /\ alone = [r \in Run \cup Rebuild |-> TRUE]

\* A step of worker run r.
WorkerStep(r) ==
    /\ \/ \E m \in Match : Trigger(r, m)
       \/ Begin(r)
       \/ \E t \in TaskNames : Clear(r, t)
       \/ Work(r)
       \/ TaskFails(r)
    /\ UNCHANGED <<rebuild, marting>>
    /\ Watch({r})

RebuildStep(b) ==
    /\ \/ \E m \in Match : TriggerRebuild(b, m)
       \/ BeginRebuild(b)
       \/ RebuildWork(b)
       \/ RebuildFails(b)
    /\ Watch({b})

RebuildNext ==
    \/ \E r \in Run : WorkerStep(r)
    \/ \E b \in Rebuild : RebuildStep(b)
    \/ BuildDim /\ Watch({})

RebuildSpec == RebuildInit /\ [][RebuildNext]_rebuildVars

-----------------------------------------------------------------------------
(* Properties *)

\* The state of workers and rebuilds is well-typed, and a rebuild holds a
\* slot of the pool or a call of generate_reports only in the task it is in.
RebuildTypeOK ==
    /\ TypeOK
    /\ rebuild \in [Rebuild -> Rebuilds]
    /\ marts \subseteq Mart
    /\ copied \in [Match -> Rows]
    /\ dim \in BOOLEAN
    /\ alone \in [Run \cup Rebuild -> BOOLEAN]
    /\ \A b \in Rebuild :
          /\ job[b].open => On(b, "build_silver_events_dbt")
          /\ desk[b].step # "closed" => On(b, "reports")

\* fact_team_match never holds what the tests of fact_gold_team reject: its
\* rows of a match are of no or two teams, and each was committed to Silver.
\* (It takes the gates, and a pool of one slot: with more, a worker changes
\* fact_gold_team between a rebuild's test and its copy.)
TeamMatchInPairs ==
    \A m \in Match :
        /\ Cardinality(Teams(copied[m])) \in {0, 2}
        /\ \A t \in Teams(copied[m]) :
              /\ copied[m][t] \in Committed(m)
              /\ team[m][t] # NoContent

\* A rebuild that succeeds undisturbed has brought all of the match -
\* tables, fact_team_match and reports - to the version PostgreSQL was
\* loaded with, whatever mixture failed runs had left before.
RebuildRepairs ==
    [][\A b \in Rebuild :
         (/\ rebuild[b].state = "running" /\ rebuild'[b].state = "success"
          /\ alone[b]) =>
             LET m == rebuild[b].match IN
             /\ OneVersion(m, src[m])
             /\ copied[m] = ExactRows(src[m])]_rebuildVars

\* The tables are safe from rebuilds: a worker run that succeeds leaves the
\* staged rows and both fact tables of its match at the payload it loaded,
\* whatever rebuilds of the match did meanwhile and from whichever version.
TablesSurviveRebuilds ==
    [][\A r \in Run :
         (/\ run[r].state = "running" /\ run'[r].state = "success"
          /\ Position(run[r].entry) <= Position("load_silver_events_to_db")) =>
             LET m == run[r].match IN
             /\ src[m] = run[r].content
             /\ stg[m] = run[r].content
             /\ team[m] = ExactRows(stg[m])
             /\ ivl[m] = ExactRows(stg[m])]_rebuildVars

\* Its reports are, when no other run touched the match: they show the tables
\* as they are, and one payload if the run built the facts itself.
AloneServesOneVersion ==
    [][\A r \in Run :
         (run[r].state = "running" /\ run'[r].state = "success" /\ alone[r]) =>
             /\ ReportsShowTables(run[r].match)
             /\ run[r].entry # "reports" =>
                   OneVersion(run[r].match, stg[run[r].match])]_rebuildVars

\* The reconciliation test, which stops a worker after every revision of the
\* numbers, never fails in a rebuild on its own match unless another run
\* changed the match under it: a rebuild is the way out.
RebuildReconciles ==
    [][\A b \in Rebuild :
         (/\ "reconciles" \in job[b].todo \ job'[b].todo
          /\ job'[b].open /\ alone[b])
             => Reconciles({rebuild[b].match})]_rebuildVars
=============================================================================
