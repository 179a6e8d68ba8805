----------------------------- MODULE Discovery -----------------------------
(***************************************************************************)
(* The two controllers that dispatch worker runs                           *)
(* (dags/football_match_discovery.py, dags/football_bulk_ingestion.py) and *)
(* the runs of the worker DAG as Airflow keeps them, by run id.            *)
(*                                                                         *)
(* A controller lists the provider's matches, reads which of them the      *)
(* ingestion manifest knows, and triggers a worker run for the others      *)
(* under a run id made from the match id.  Between its tasks worker runs   *)
(* and other controllers go on.  Discovery takes the first Batch missing   *)
(* matches and its trigger fails on a run id that exists; bulk ingestion   *)
(* takes all of them and skips such an id.                                 *)
(***************************************************************************)
EXTENDS Naturals, Sequences, FiniteSets

CONSTANTS
    Listing,        \* match ids, in the order the provider lists them
    Discoverer,     \* runs of football_match_discovery that may be active
    Bulk,           \* football_bulk_ingestion (max_active_runs=1)
    Season,         \* matches of the one season discovery asks for
    BulkScopes,     \* what bulk may be started for: a season, or a team's part
    Batch,          \* new_match_ids[:5]
    MaxFailures     \* bound: controller runs that fail half-way

Match == {Listing[i] : i \in DOMAIN Listing}

Controller == Discoverer \cup {Bulk}

ASSUME ControllerAssumption ==
    /\ \A i, j \in DOMAIN Listing : Listing[i] = Listing[j] => i = j
    /\ Bulk \notin Discoverer
    /\ Season \subseteq Match
    /\ \A S \in BulkScopes : S \subseteq Match
    /\ Batch \in Nat \ {0}
    /\ MaxFailures \in Nat

\* Worker run ids: match_{id} and bulk_match_{id}.
RunId == {"match", "bulk_match"} \X Match

RunIdOf(c, m) == <<IF c = Bulk THEN "bulk_match" ELSE "match", m>>

MatchOf(id) == id[2]

VARIABLES
    listed,     \* matches the provider lists by now
    described,  \* matches with a row in serving.dim_match
    ingested,   \* matches with a line in the ingestion manifest
    dagrun,     \* dagrun[id]: the worker run of this run id
    ctl,        \* ctl[c]: the controller run
    failures    \* controller runs that failed half-way

vars == <<listed, described, ingested, dagrun, ctl, failures>>

\* "processing": the ingest task has succeeded.
RunState == {"none", "queued", "running", "processing", "failed", "success"}

Resting == [phase |-> "rest", scope |-> {}, configs |-> {}]

Controllers == [phase   : {"rest", "find", "trigger"},
                scope   : SUBSET Match,     \* what it listed
                configs : SUBSET Match]     \* still to be triggered

-----------------------------------------------------------------------------
Init ==
    /\ listed = {}
    /\ described = {}
    /\ ingested = {}
    /\ dagrun = [id \in RunId |-> "none"]
    /\ ctl = [c \in Controller |-> Resting]
    /\ failures = 0

\* The provider publishes a match.
Publish(m) ==
    /\ m \notin listed
    /\ listed' = listed \cup {m}
    /\ UNCHANGED <<described, ingested, dagrun, ctl, failures>>

\* Slip: matches that are in the manifest already get no row.
UpsertNew(S) == described' = described \cup (S \ ingested)

\* upsert_dim_match: one transaction; rows are added or replaced, never deleted.
Upsert(S) == described' = described \cup S

\* build_dim_match and its upsert, or get_matches: an empty list raises.
ListMatches(c) ==
    /\ ctl[c].phase = "rest"
    /\ \E S \in IF c = Bulk THEN BulkScopes ELSE {Season} :
        /\ listed \cap S # {}
        /\ IF c = Bulk THEN UNCHANGED described ELSE Upsert(listed \cap S)
        /\ ctl' = [ctl EXCEPT ![c].phase = "find", ![c].scope = listed \cap S]
    /\ UNCHANGED <<listed, ingested, dagrun, failures>>

\* The first n elements of S in listing order.
FirstOf(S, n) ==
    {m \in S : \E i \in DOMAIN Listing :
        /\ Listing[i] = m
        /\ Cardinality({j \in 1..i : Listing[j] \in S}) <= n}

\* Slip: bulk ingestion is cut to a batch too.
SelectionCapped(c, missing) == FirstOf(missing, Batch)

\* The matches a controller makes trigger configs of.
Selection(c, missing) ==
    IF c = Bulk THEN missing ELSE FirstOf(missing, Batch)

\* Slip: the manifest is not consulted.
FindAll(c) ==
    /\ ctl[c].phase = "find"
    /\ ctl' = [ctl EXCEPT ![c].phase = "trigger",
                          ![c].configs = Selection(c, ctl[c].scope)]
    /\ UNCHANGED <<listed, described, ingested, dagrun, failures>>

\* find_new_matches, or the second half of resolve_scope.
Find(c) ==
    /\ ctl[c].phase = "find"
    /\ ctl' = [ctl EXCEPT ![c].phase = "trigger",
                          ![c].configs = Selection(c, ctl[c].scope \ ingested)]
    /\ UNCHANGED <<listed, described, ingested, dagrun, failures>>

\* Slip: the skipped state goes to the existing run.
TriggerRunSkips(c, m) ==
    /\ ctl[c].phase = "trigger"
    /\ m \in ctl[c].configs
    /\ dagrun' = [dagrun EXCEPT ![RunIdOf(c, m)] = IF @ = "none" THEN "queued"
                                                   ELSE "skipped"]
    /\ ctl' = [ctl EXCEPT ![c].configs = @ \ {m}]
    /\ UNCHANGED <<listed, described, ingested, failures>>

\* One mapped TriggerDagRunOperator: a run is created, or the id exists and
\* the instance fails (discovery) or is skipped (bulk); the others go on.
TriggerRun(c, m) ==
    /\ ctl[c].phase = "trigger"
    /\ m \in ctl[c].configs
    /\ dagrun' = IF dagrun[RunIdOf(c, m)] = "none"
                 THEN [dagrun EXCEPT ![RunIdOf(c, m)] = "queued"] ELSE dagrun
    /\ ctl' = [ctl EXCEPT ![c].configs = @ \ {m}]
    /\ UNCHANGED <<listed, described, ingested, failures>>

Finish(c) ==
    /\ ctl[c].phase = "trigger"
    /\ ctl[c].configs = {}
    /\ ctl' = [ctl EXCEPT ![c] = Resting]
    /\ UNCHANGED <<listed, described, ingested, dagrun, failures>>

\* The provider, the database or the manifest cannot be read, or the
\* scheduler loses the tasks: the rest of the controller run is gone.
ControllerFails(c) ==
    /\ ctl[c].phase # "rest"
    /\ failures < MaxFailures
    /\ failures' = failures + 1
    /\ ctl' = [ctl EXCEPT ![c] = Resting]
    /\ UNCHANGED <<listed, described, ingested, dagrun>>

-----------------------------------------------------------------------------
(* Worker runs *)

Active(id) == dagrun[id] \in {"running", "processing"}

\* max_active_runs=1
BeginRun(id) ==
    /\ dagrun[id] = "queued"
    /\ \A other \in RunId : ~Active(other)
    /\ dagrun' = [dagrun EXCEPT ![id] = "running"]
    /\ UNCHANGED <<listed, described, ingested, ctl, failures>>

\* The ingest task has appended the match to the manifest, or found it there.
IngestDone(id) ==
    /\ dagrun[id] = "running"
    /\ ingested' = ingested \cup {MatchOf(id)}
    /\ dagrun' = [dagrun EXCEPT ![id] = "processing"]
    /\ UNCHANGED <<listed, described, ctl, failures>>

EndRun(id) ==
    /\ \/ Active(id) /\ dagrun' = [dagrun EXCEPT ![id] = "failed"]
       \/ dagrun[id] = "processing" /\ dagrun' = [dagrun EXCEPT ![id] = "success"]
    /\ UNCHANGED <<listed, described, ingested, ctl, failures>>

Control(c) ==
    \/ Find(c) \/ Finish(c)
    \/ \E m \in Match : TriggerRun(c, m)

Next ==
    \/ \E m \in Match : Publish(m)
    \/ \E c \in Controller : ListMatches(c) \/ Control(c) \/ ControllerFails(c)
    \/ \E id \in RunId : BeginRun(id) \/ IngestDone(id) \/ EndRun(id)

\* A started controller goes on, the one active worker run ends, queued runs
\* are taken up, and discovery is started again and again: it has no
\* schedule, so this is what the operator must do.
Fairness ==
    /\ \A c \in Controller : WF_vars(Control(c))
    /\ \A d \in Discoverer : WF_vars(ListMatches(d))
    /\ \A id \in RunId : /\ SF_vars(BeginRun(id))
                         /\ WF_vars(IngestDone(id) \/ EndRun(id))

Spec == Init /\ [][Next]_vars /\ Fairness

-----------------------------------------------------------------------------
(* Properties *)

\* The state of the controllers and of the run registry is well-typed.
TypeOK ==
    /\ listed \subseteq Match
    /\ described \subseteq Match
    /\ ingested \subseteq Match
    /\ dagrun \in [RunId -> RunState]
    /\ ctl \in [Controller -> Controllers]
    /\ failures \in 0..MaxFailures

Dispatched(m) == \E id \in RunId : MatchOf(id) = m /\ dagrun[id] # "none"

\* A bulk run that comes to its end leaves no match of its scope behind: each
\* one it listed is in the manifest or has its bulk run - although worker
\* runs, discovery and failed bulk runs came between its steps.
BulkLeavesNoneBehind ==
    [][\A m \in Match :
         (/\ ctl[Bulk].phase = "trigger" /\ ctl'[Bulk].phase = "rest"
          /\ failures' = failures
          /\ m \in ctl[Bulk].scope)
             => m \in ingested \/ dagrun[RunIdOf(Bulk, m)] # "none"]_vars

\* Matches listed before m that are still missing from the manifest although
\* discovery has dispatched them: each occupies a place of the batch.
Stuck(m) ==
    {Listing[j] : j \in {j \in DOMAIN Listing :
        /\ \E i \in DOMAIN Listing : Listing[i] = m /\ j < i
        /\ Listing[j] \in (listed \cap Season) \ ingested
        /\ dagrun[<<"match", Listing[j]>>] # "none"}}

\* Discovery reaches a listed match of its season unless as many earlier ones as a batch
\* holds are dispatched and never ingested.
DispatchedUnlessStuck ==
    \A m \in Season :
        m \in listed ~> \/ Dispatched(m) \/ m \in ingested
                        \/ Cardinality(Stuck(m)) >= Batch

\* "dispatching one worker execution for each required match": a match that
\* is listed and not ingested gets a worker run in the end.
DispatchesEachRequiredMatch ==
    \A m \in Match : m \in listed ~> Dispatched(m) \/ m \in ingested

\* team_match_enriched joins the facts with dim_match and drops a match that has
\* no row there.  Bulk ingestion dispatches matches without giving them one; a
\* match of discovery's season gets its row in the end although it was ingested
\* before discovery ever listed it.
IngestedIsDescribed ==
    \A m \in Season : m \in ingested ~> m \in described
=============================================================================
