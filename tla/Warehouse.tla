----------------------------- MODULE Warehouse -----------------------------
(***************************************************************************)
(* The PostgreSQL serving schema and the dbt project that fills it         *)
(* (dbt/football_analytics, src/serving/load_silver_events.py).            *)
(*                                                                         *)
(* The rows a table holds for a match are represented by the payload they  *)
(* were computed from.  stg_silver_events is replaced per match, the two   *)
(* fact tables per match AND team (their unique_key), so the rows of a     *)
(* team that a new payload no longer has stay behind.  The tests read      *)
(* whole tables, every match in them, whatever match a build is for.       *)
(***************************************************************************)
EXTENDS Naturals, FiniteSets

CONSTANTS
    Match,      \* match ids
    Content,    \* payloads of the provider
    Team,       \* team ids
    Box,        \* Box[c]: the teams of payload c, each with the number that
                \* stands for its shots, xG and completed passes
    Builder,    \* DAG runs that execute dbt build
    DbtSlots,   \* slots of the dbt_writes pool
    NoContent

ASSUME BoxAssumption ==
    /\ Match # {}
    /\ NoContent \notin Content
    /\ DOMAIN Box = Content
    /\ \A c \in Content : /\ DOMAIN Box[c] \subseteq Team
                          /\ IsFiniteSet(DOMAIN Box[c])
                          /\ \A t \in DOMAIN Box[c] : Box[c][t] \in Nat

ASSUME SlotAssumption == DbtSlots \in Nat \ {0}

VARIABLES
    src,        \* src_silver_events: src[m] is the payload of m's rows
    stg,        \* stg_silver_events
    team,       \* fact_gold_team: team[m][t] is the payload of that row
    ivl,        \* fact_gold_intervals: the 20 rows of that team, likewise
    exists,     \* the dbt tables created so far
    job         \* job[b]: the dbt build that run b is executing

warehouse == <<src, stg, team, ivl, exists, job>>

Model == {"stg_silver_events", "fact_gold_team", "fact_gold_intervals"}

\* reconciles: assert_gold_team_reconciles_to_silver.
\* two_teams: assert_gold_team_two_team_per_match.
\* row_count: assert_gold_intervals_number_of_rows_per_match.
Test == {"reconciles", "two_teams", "row_count"}

Node == Model \cup Test

\* The ref() edges.
Parents(n) ==
    CASE n = "stg_silver_events" -> {}
      [] n \in {"fact_gold_team", "fact_gold_intervals"} -> {"stg_silver_events"}
      [] n = "reconciles" -> {"stg_silver_events", "fact_gold_team"}
      [] n = "two_teams"  -> {"fact_gold_team"}
      [] n = "row_count"  -> {"fact_gold_intervals"}

\* dbt build --select: the models, and every test with a selected parent, its
\* other parents selected or not (dbt's default, indirect selection "eager").
Selected(models) == models \cup {n \in Test : Parents(n) \cap models # {}}

NoJob == [match |-> CHOOSE m \in Match : TRUE, todo |-> {}, failed |-> FALSE,
          open |-> FALSE]

Jobs == [match : Match, todo : SUBSET Node, failed : BOOLEAN, open : BOOLEAN]

-----------------------------------------------------------------------------
(* Rows *)

Rows == [Team -> Content \cup {NoContent}]

NoRows == [t \in Team |-> NoContent]

\* The teams that have rows.
Teams(rows) == {t \in Team : rows[t] # NoContent}

\* Slip: a row that is there already is not replaced.
MergeMissing(rows, c) ==
    [t \in Team |-> IF c # NoContent /\ t \in DOMAIN Box[c] /\ rows[t] = NoContent
                    THEN c ELSE rows[t]]

\* Delete and insert by (match_id, team_id): the teams of the payload get new
\* rows, every other row stays.
Merge(rows, c) ==
    [t \in Team |-> IF c # NoContent /\ t \in DOMAIN Box[c] THEN c ELSE rows[t]]

-----------------------------------------------------------------------------
(* Tests: TRUE when the query returns no row, over the matches of S *)

Reconciles(S) ==
    \A m \in S : stg[m] # NoContent =>
        \A t \in Teams(team[m]) \cap DOMAIN Box[stg[m]] :
            Box[team[m][t]][t] = Box[stg[m]][t]

\* Slip: matches without rows are counted too.
PairsStrict(rows, S) == \A m \in S : Cardinality(Teams(rows[m])) = 2

Pairs(rows, S) == \A m \in S : Cardinality(Teams(rows[m])) \in {0, 2}

Passes(n, S) ==
    /\ Parents(n) \subseteq exists
    /\ n = "reconciles" => Reconciles(S)
    /\ n = "two_teams"  => Pairs(team, S)
    /\ n = "row_count"  => Pairs(ivl, S)

-----------------------------------------------------------------------------
(* Models: the incremental build of one match, or the full build that        *)
(* creates the table.                                                        *)

Rebuilt(n, m) == IF n \in exists THEN {m} ELSE Match

BuildStg(m) ==
    /\ stg' = [k \in Match |->
                 IF k \in Rebuilt("stg_silver_events", m) /\ src[k] # NoContent
                 THEN src[k] ELSE stg[k]]
    /\ UNCHANGED <<team, ivl>>

BuildTeam(m) ==
    /\ team' = [k \in Match |->
                  IF k \in Rebuilt("fact_gold_team", m)
                  THEN Merge(team[k], stg[k]) ELSE team[k]]
    /\ UNCHANGED <<stg, ivl>>

BuildIntervals(m) ==
    /\ ivl' = [k \in Match |->
                 IF k \in Rebuilt("fact_gold_intervals", m)
                 THEN Merge(ivl[k], stg[k]) ELSE ivl[k]]
    /\ UNCHANGED <<stg, team>>

-----------------------------------------------------------------------------
(* dbt build *)

WarehouseInit ==
    /\ src = [m \in Match |-> NoContent]
    /\ stg = [m \in Match |-> NoContent]
    /\ team = [m \in Match |-> NoRows]
    /\ ivl = [m \in Match |-> NoRows]
    /\ exists \in {{}, Model}      \* before and after a first full dbt build
    /\ job = [b \in Builder |-> NoJob]

\* load_silver_to_postgres: DELETE and COPY of one match in one transaction.
LoadSrc(m, c) ==
    /\ src' = [src EXCEPT ![m] = c]
    /\ UNCHANGED <<stg, team, ivl, exists, job>>

\* The task gets a slot of the pool and starts dbt.
StartBuild(b, m, models) ==
    /\ ~job[b].open
    /\ Cardinality({d \in Builder : job[d].open}) < DbtSlots
    /\ job' = [job EXCEPT ![b] = [match |-> m, todo |-> Selected(models),
                                  failed |-> FALSE, open |-> TRUE]]
    /\ UNCHANGED <<src, stg, team, ivl, exists>>

\* A node runs once its selected parents are done.
Ready(b, n) == job[b].open /\ n \in job[b].todo /\ Parents(n) \cap job[b].todo = {}

\* The parent of a fact model exists: it is in the same build, or a build of it
\* alone has succeeded before.  (Were it missing, the build would be stuck.)
RunModel(b, n) ==
    /\ Ready(b, n) /\ n \in Model
    /\ Parents(n) \subseteq exists
    /\ \/ n = "stg_silver_events"   /\ BuildStg(job[b].match)
       \/ n = "fact_gold_team"      /\ BuildTeam(job[b].match)
       \/ n = "fact_gold_intervals" /\ BuildIntervals(job[b].match)
    /\ exists' = exists \cup {n}
    /\ job' = [job EXCEPT ![b].todo = @ \ {n}]
    /\ UNCHANGED src

RunTest(b, n) ==
    /\ Ready(b, n) /\ n \in Test
    /\ job' = [job EXCEPT ![b].todo = @ \ {n},
                          ![b].failed = @ \/ ~Passes(n, Match)]
    /\ UNCHANGED <<src, stg, team, ivl, exists>>

RunNode(b) == \E n \in job[b].todo : RunModel(b, n) \/ RunTest(b, n)

\* dbt has exited, with 0 or 1, or was killed: the slot is free.
CloseBuild(b) ==
    /\ job[b].open
    /\ job' = [job EXCEPT ![b] = NoJob]
    /\ UNCHANGED <<src, stg, team, ivl, exists>>

Exited(b) == job[b].open /\ job[b].todo = {}

WarehouseTypeOK ==
    /\ src \in [Match -> Content \cup {NoContent}]
    /\ stg \in [Match -> Content \cup {NoContent}]
    /\ team \in [Match -> Rows]
    /\ ivl \in [Match -> Rows]
    /\ exists \subseteq Model
    /\ job \in [Builder -> Jobs]
=============================================================================
