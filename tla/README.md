# Football analytics pipeline: TLA+ models, checks and proofs

This directory models the program of the repository: Airflow DAGs that take one
football match at a time from the StatsBomb open data into a raw store, Bronze
files, an Iceberg Silver table, a PostgreSQL serving schema, dbt tables and
report files, and the controllers that dispatch one such run per match.

All paths below are relative to the root of the repository.

- [Inventory](#inventory): the parts, their state and what is hard about them
- [Modules](#modules): which module models which part, and how
- [Runs](#runs): what is checked, within which bounds
- [Fairness](#fairness-and-deadlock)
- [Proofs](#proofs)
- [Findings](#findings)
- [What is left out](#what-is-left-out)
- [Plan](#plan)

## Inventory

| Part | Code | State it keeps | Operations |
|---|---|---|---|
| Ingestion and manifest | `src/ingest_match.py`, `src/metadata/manifest.py`, `src/storage/storage_store.py` | `ingestion_manifest.jsonl`, raw objects | download, look up the hash, store, append a line; retry policy of the task |
| Worker DAG | `dags/football_match_pipeline.py` | run states, XComs | seven tasks in a row; fail, clear, one run at a time |
| Bronze build | `src/build_bronze.py`, `src/transforms/bronze.py` | one Parquet file per payload | parse, flatten, write |
| Silver build | `src/build_silver.py`, `src/transforms/silver.py`, `src/contracts/silver.py`, `src/storage/iceberg.py` | Iceberg table `football.silver_events` and its snapshots | transform, check quality, overwrite a match, read the snapshot id |
| Serving load | `src/serving/load_silver_events.py`, `src/storage/database.py` | `src_silver_events` | DELETE and COPY of a match from a pinned snapshot |
| dbt project | `dbt/football_analytics` | `stg_silver_events`, `fact_gold_team`, `fact_gold_intervals`, `fact_team_match` | incremental builds per match, tests over whole tables |
| Reports | `src/generate_reports.py`, `src/reports/*.py` | four files per match | three reads, four drawings |
| Controllers | `dags/football_match_discovery.py`, `dags/football_bulk_ingestion.py`, `src/build_dim_match.py`, `src/discover_matches.py`, `src/serving/load_dim_match.py` | worker runs by run id, `dim_match` | list, compare with the manifest, trigger |
| Gold rebuild, backfill | `dags/football_gold_rebuild.py`, `dags/football_gold_backfill.py` | the dbt tables and reports again | `stg_silver_events+` and reports for a match; trigger one per match |
| Stage records, health views | `src/observability/*` | stage-attempt records | record an attempt; conclude health from the records |
| Match metrics | `src/metrics/expected_threat.py`, `src/quality/reconcilation.py`, the marts' SQL | none | pure computations |
| Run ledger | `src/metadata/run_tracker.py`, `src/pipeline.py` | run records | start, finish, fail; superseded by the DAGs |
| Serving reference check | `src/quality/serving.py` | none | compare two sets of ids |
| Settings, logging, queries, inspection | `src/config`, `src/analytics`, `src/inspect_*.py`, ... | none | configuration and formatting |

### How the parts interact

```
 discovery, bulk --trigger--> worker run (one at a time)
                               ingest -> bronze -> silver -> load -> build_dbt -> build_gold_facts -> reports
        manifest <-- ingest       |        |         |        |          |               |              |
        raw objects               Parquet  Iceberg   src_     stg_       fact_gold_*     fact_*, stg_ -> files
 command line ----> the same manifest and raw objects
 gold rebuild ----> the same stg_/fact_ tables and files
```

Two tasks of a run talk in two ways: through XComs (the artifact: match, hash,
Bronze path, snapshot id), and through the tables and files, which are shared
by all runs. The manifest is shared by the worker, the command line and the
controllers and nothing locks it. `max_active_runs=1` and the `dbt_writes` pool
keep runs apart where they do.

### What is hard here, and what makes each part correct

- **Ingestion.** Read, decide, store and append are four steps without a lock;
  an attempt may stop between any two, be retried, or run beside a command
  line; a torn line spoils the whole file. Correct: no manifest line without
  its raw object; a payload of a match is registered once and its version is
  its rank, as long as executions of that match do not overlap; overlaps and
  torn lines of *other* matches never matter for that; the artifact handed on
  is of the match and payload asked for.
- **Worker DAG, Silver, load.** A commit may happen in a task that then fails;
  the operator may clear an old run after a newer one has committed; the pinned
  snapshot id must be that of the run's own payload all the same.
- **dbt and reports.** Models commit one by one, rows are keyed by match *and
  team*, tests read whole tables, reports read three tables in three
  transactions and replace four files one by one. Correct: a run that ends in
  success leaves one version everywhere; nothing is ever served that did not
  pass every gate; tests fail for a reason in the data; one match's failure
  stays its own.
- **Controllers.** The manifest they compare with is stale by the time they
  trigger, run ids are reused, and the worker may fail before it ingests.
  Correct: nothing that was listed is left behind, and a match that was ingested
  gets its row of `dim_match`.
- **Serving load.** DELETE and COPY are two statements; the load may fail
  between them, and a load the scheduler has given up may still run beside the
  next. Correct: readers see one complete copy of a match, the newest; a failure
  changes nothing; whatever went wrong, a load that has the match for itself
  puts it right.
- **Gold rebuild.** Runs beside the worker, on the same tables and files; only
  the dbt pool keeps their builds apart. Correct: a rebuild repairs what failed
  worker runs left and gets past the test that stops them; it spoils no table of
  a worker's success; the marts never hold what the tests of their source reject.
- **Stage records.** A killed task leaves no record, a failed append turns a
  success into a failure or tears the file, lines of overlapping runs are out
  of order. Correct: a record never contradicts Airflow; a failure can be found
  somewhere; health is that of the latest execution.
- **Metrics.** Bucketing of minutes, integer division, cells at the edge of the
  pitch, labels written twice, checks that judge whole columns. Correct: Silver
  rejects a match for a cause in its events and for no other; what it accepts
  passes the tests and can be drawn; sums over intervals are the sums over the
  halves; report and table show the same figure.

`PROJECT.json` lists every such hazard with the line where it bites and the
properties that cover it, or why none does yet.

## Modules

Each module follows one rule: an action is the whole handler up to the next
point where another process can come between or the code can stop. Names follow
the code. `PROJECT.json` maps each definition to its lines.

A module also holds a few operators commented **Slip**. Nothing uses them: each
is the definition below it as a plausible bug would have it, and putting it in
that definition's place must break a property (the pairs are listed under
`mutants`). They show that the properties depend on the code.

### VersionLedger

The promise of the manifest, with no file or process in it: per match the
sequence of distinct payloads, oldest first. `source_version` is the position. A
match two executions worked on at once is `disputed`, and the ledger
promises only that it grows. `IngestManifest` implements it (`LedgerSpec`);
`MatchPipeline` uses it as its ingest step, with no match disputed.

### IngestManifest

| Model | Code |
|---|---|
| `manifest`, `torn` | the lines of the file; whether it ends in an incomplete one |
| `raw` | objects `match_id=.../events_<12 digits>.json`; `KeyOf` is `file_hash[:12]` |
| `proc[p]` | one call of `ingest_match`; `pc` is the next statement with an effect or a read |
| `Fetch`, `FetchFails` | `requests.get`, `raise_for_status` |
| `AlreadyIngested`, `NotFound`, `ManifestUnreadable` | `read_manifest` and `find_existing_version` |
| `PutRaw`, `AppendRecord`, `TearRecord` | `put_bytes`, `write_manifest_entry` and its partial failure |
| `StepFails`, `Crash`, `Retry`, `RetryPolicy` | exceptions, kills, Airflow's attempts and `IngestRetryPolicy.evaluate` |

A payload is its own hash (two payloads with one SHA-256 are not modelled, and
`PrefixAssumption` says the 12-digit prefixes differ too). The list a process
read is kept as its length, because the file only grows. `overlapped` is a
history variable: it records that a second execution entered the window between
read and append of a match.

### Warehouse, Reports

`Warehouse` is the PostgreSQL side. A table's rows for a match are represented
by the payload they were computed from: one per match for `src_silver_events`
and `stg_silver_events`, one per match and team for the fact tables, which is
their `unique_key`. `Box[c]` is what the reconciliation compares: for each team
of payload `c` a number that stands for shots, xG and completed passes.
`Selected` is dbt's `--select` with its default ("eager") choice of tests: a test
is in when *any* of its parents is. A build runs its nodes in `ref()` order and
each commits on its own (`RunModel`, `RunTest`). The generic tests of
`schema.yml` (not null, unique, ranges) concern single rows and hold by the
construction of a row from an accepted payload; only the three singular tests
that compare rows are modelled.

`Reports` is `generate_reports`: three reads (`ReadRows`), then four files in
order (`Draw`), each with what its drawing requires. How often
`fact_gold_intervals` has 20 rows for a team is not looked into: they come or go
together.

### MatchPipeline

The worker DAG over the two modules above. `ledger` is the manifest as seen
through `VersionLedger`, `bronze` the Parquet files, `lake` the sequence of
Iceberg snapshots, `run[r]` a DAG run with the XComs of its tasks (`content`:
the hash; `snap`: the snapshot id). `resolve_match_id` is part of `Trigger`.

A task either returns, or fails after its effect (`Returns`), or fails
before it or between two effects (`TaskFails`), or must fail because of its data
(`Rejects`, a failed dbt test, a report that cannot be drawn). The run then
stops. `Clear` is the operator's: a task and all after it run again with the
XComs of the tasks before. `entry` records where the present execution of a run
began, which the property about success depends on.

`Parses` and `Valid` stand for `json.loads` and the Silver quality checks. Both
fact tables exist before the first run or neither does, the two ways a
deployment starts.

### Discovery

Both controllers and the worker runs as the run registry of Airflow. `ctl[c]` is
a controller run between its tasks: what it listed (`scope`) and what it still
has to trigger (`configs`). A trigger on an existing run id fails one mapped
instance (discovery) or skips it (bulk); either way no run is created and the
other instances go on. The order in which the provider lists matches matters to
`new_match_ids[:5]`, hence `Listing`. Worker runs are reduced to what
controllers depend on: when the manifest line appears, and that they end.
`described` are the rows of `dim_match`: discovery upserts those of all matches it
lists (`Upsert`), bulk ingestion none.

### GoldRebuild

The rebuild and backfill DAGs over all of `MatchPipeline`: both kinds of run take
their steps in one state, on the same tables, files and pool.

| Model | Code |
|---|---|
| `rebuild[b]` | a run of `football_gold_rebuild`; `todo` the marts its dbt build has not come to |
| `TriggerRebuild` | one mapped `TriggerDagRunOperator` of a backfill, or an operator |
| `StartRebuild`, `RunGated`, `RunMart`, `EndRebuild` | `dbt build --select stg_silver_events+` |
| `copied`, `marts` | rows of `fact_team_match`; which of it and `team_match_enriched` exist |
| `dim`, `BuildDim` | the view `stg_dim_match`, made by discovery's dbt task |
| `RebuildReports`, `EndRebuildReports`, `RebuildFails` | the second task; any failure |

The nodes of `Warehouse` run as in a worker's build. The two marts come after
`fact_gold_team` and after the tests all of whose parents are their ancestors
(`Gates`); when one of these fails, dbt skips them. `alone[r]` is a history
variable: no other run has changed what the tables and files hold for r's
match since r began.

### ServedTable, ServingLoad

`ServedTable` is the promise of ADR-005: a load replaces a match as a whole and at
once, one that fails changes nothing, and about a match on which two loads were
under way together nothing is said until the next that is not. `ServingLoad` is
the code: `BeginDelete` and `Delete` are the start and the end of the first
statement, `Copy` is `copy.write_row`, `Commit` and `Fail` the two ends of
the connection's context. PostgreSQL is modelled by what READ COMMITTED does with
them (`Visible`, the wait and the skip in `Delete`). `TakenForDead` is the
scheduler's: it starts the next load although this one runs. `clean` is a history
variable for `LoadHeals` and the refinement.

The other modules take a load as one step (`LoadSrc`); `TableSpec` is what
justifies it, for loads that do not overlap.

### StageRecords

`exec[e]` is one execution of an observed task between its start and the callback of
its DAG, `stageRuns` and `events` the two JSONL files with their possible torn
end. The operators after `Next` are the views, in the order `duckdb_views.py`
creates them. `clock` numbers the values of `completed_at`; the order of lines
is that of the appends.

### SilverEvents, GoldMetrics

Pure functions. `SilverEvents` takes an event to its Silver row and decides
whether the rows of a match are accepted; each operator is one function of the
code. Coordinates are whole yards and lengths exact multiples of 1/8 and 1/20 of
a metre, so that all comparisons are those of integers; a distance is its
square. `GoldMetrics` computes both fact tables from the rows and what two
reports derive from events and intervals. Its only state is the payload, to which
the provider adds an event at a time.

## Runs

`tlc -config X.cfg MC....tla` in this directory repeats each.

| Run | Config | Distinct states | Shows |
|---|---|---|---|
| `ingest` | `IngestManifest.cfg` | 198,024 | the manifest under retries, crashes, torn lines and a command line |
| `pipeline` | `MatchPipeline.cfg` | 1,201,201 | pinning, provenance, one version after success |
| `pipeline_ends` | `MatchPipelineEnds.cfg` | 33,932 | why a dbt test can fail; every run ends |
| `pipeline_isolation` | `MatchPipelineIsolation.cfg` | stops at the violation | a match's revision fails another match's run |
| `discovery` | `Discovery.cfg` | 90,662 | what bulk and discovery reach |
| `discovery_stuck` | `DiscoveryStuck.cfg` | stops at the violation | a batch that never ingests blocks the rest |
| `rebuild` | `GoldRebuild.cfg` | 1,517,681 | a rebuild beside two worker runs |
| `serving_load` | `ServingLoad.cfg` | 221,229 | DELETE and COPY of overlapping loads |
| `stage_records` | `StageRecords.cfg` | 2,507,420 | records, events and health views |
| `stage_records_volume` | `StageRecordsVolume.cfg` | stops at the violation | Silver builds are not monitored |
| `gold_metrics` | `GoldMetrics.cfg` | 36,325 | rows, checks, facts and reports of a payload |
| `gold_metrics_percentage` | `GoldMetricsPercentage.cfg` | stops at the violation | a percentage that is 0 or 100 |

**ingest**: two matches, two payloads for the first, the provider may go back to
an old payload at any download; the worker with one retry and one command line.
`RawBehindManifest`, `VersionsDense`, `VersionsNeverAhead` and
`ReturnedIsRegistered` are invariants; `LedgerSpec` is the refinement;
`IngestEnds` says that no execution is retried for ever. The manifest needs no
bound: overlaps are the only way to a second line of a payload, and there are
two executions. One retry stands for the code's three: an attempt's state does
not depend on how many came before, only whether one is left. Two executions
are enough for every interleaving of a read with another's append.

**pipeline**: two runs, two matches, `m1` may be served `a` or `c` (which
replaces a team), `m2` `a` or `x` (rejected by Silver); one task is cleared. Two
runs and a clear give three executions of tasks over the shared tables, the
least in which an old run works after a newer one of the same match.
`SuccessServesOneVersion` is an action property about the step in which a run
becomes successful: its reports then show the tables as they are, which is all
that can be asked of a clear of the reports task alone, and tables and reports
are of one payload if the run built the facts.

**pipeline_ends**: `m1` may be served three versions, `m2` also a reply that is
not JSON. `DbtFailsOnlyOnRevision` lists all reasons for which a dbt test may
fail: the first build of a new database (the reconciliation test is selected
before `fact_gold_team` exists), a revision that changes what is compared or the
teams, or a payload without two teams. `RunsEnd` is the liveness of the DAG:
whatever fails, the single active-run slot is freed. It does without clears,
which would only queue a run again.

**pipeline_isolation**, **discovery_stuck**, **stage_records_volume**,
**gold_metrics_percentage**: see [Findings](#findings).

**discovery**: two matches listed one after the other in any order, a batch of
one for the code's five (blocking needs a full batch, and with two matches a
batch of one can be full with one to spare), one discovery run and one bulk run
at a time, one controller run lost half-way. `BulkLeavesNoneBehind` is about a
bulk run that gets to its end; `DispatchedUnlessStuck` is the exact
liveness of discovery: a listed match is dispatched or ingested, or as many
earlier ones as a batch holds were dispatched and are still not ingested.
`IngestedIsDescribed` is the liveness of `dim_match`: a match of discovery's season
gets its row although bulk may have ingested it first, because the upsert comes
before the comparison with the manifest. A match of another season never does
(the module has it, the instance is of one season).

**rebuild**: one match whose payload `a` may be corrected (`b`) and may lose a
team to another (`c`), two worker runs and a rebuild that may start at any
moment between their steps. Two worker runs are what it takes to leave a mixture
behind (a success, then a failure half-way), the rebuild is the third. A second
rebuild at a time takes more than ten million states and adds nothing the
rebuild beside a worker does not already do to tables and files; `MaxRebuilds`
and the pool are in the model. `RebuildRepairs` and `AloneServesOneVersion` ask
that no other run wrote to the match meanwhile (`alone`), which is necessary:
reports drawn while another run renews the tables, or later over newer ones,
show a mixture. `TablesSurviveRebuilds` needs no such condition, because each build
takes its rows from the table before. `TeamMatchInPairs` does need the pool of
one slot. With a second slot a worker could write between a rebuild's test and
its copy.

**serving_load**: three loads, each of either match and of a payload with one or
two rows: the least in which a load given up overlaps the next (so that two copies
can stay) and a third finds them. A load fails or is given up at any step.

**stage_records**: one worker run and two rebuild runs (the limit of their DAG, and
interchangeable, hence the symmetry), three executions of their tasks among which
a cleared one is a second try, and two faults. Two is the number at which
`NoFailureUnseen` begins to depend on where the faults hit. `Unusual` is what
the monitor makes of a count and its baseline; no Silver row reaches the monitor,
so its value does not matter here (`stage_records_volume`).

**gold_metrics**: every payload of up to three events, drawn from eighteen that sit
on the boundaries: minutes 44 and 45, 89, 90 and 95, cells on a line and beyond
the pitch, a pass that fails and one without an end, shots without xG, above 1
and in the shootout, a carry and a shot that start in the middle of the goal,
events without team, type or second coordinate; one of the ids may be missing or repeated. Three are enough for a payload that is accepted
(it takes a move and a shot) by two teams, with a third event to disturb it.
`RejectedForCause` says, from the provider's events alone and in both directions,
when the checks pass: each event is sound, no id comes twice, and no optional
column is empty. It would notice a check that rejects a match because one event
lacks what it may lack. `AcceptedPassesTests` is about the singular tests that
read the facts of one match. The grid has a different value in every cell. `EventAssumption` states the one thing
taken from the provider: the second half begins at minute 45.

### Bounds

| Bound | Where | Value | Meaning |
|---|---|---|---|
| `MaxClears` | MatchPipeline | 1, 0 | tasks the operator clears |
| `MaxFailures` | Discovery | 1 | controller runs lost half-way |
| `Retries` | IngestManifest | 1 | `retries=3` of the ingest task |
| `Batch` | Discovery | 1 | `new_match_ids[:5]` |
| `DbtSlots` | Warehouse | 1 | slots of the pool `dbt_writes`; no file of the repository creates the pool |
| `Run`, `Match`, `Cli`, `Discoverer` | all | 2 or 3, 2 (1 in `rebuild`), 1, 1 | instances |
| `Rebuild`, `MaxRebuilds` | GoldRebuild | 1, 2 | rebuild runs, `max_active_runs=2` |
| `Load`, `Size` | ServingLoad | 3, 1 or 2 | loads, rows of a payload |
| `MaxExec`, `MaxFaults` | StageRecords | 3, 2 | executions, kills and failed appends |
| `MaxEvents`, `MaxBadIds` | GoldMetrics | 3, 1 | events, events with a bad id |

The theorems hold for all values of these constants that the modules' named
assumptions allow (no assumption has an upper bound), with one exception: that
`TeamMatchInPairs` holds is proved for `DbtSlots = 1`, and is not true of more.

## Fairness and deadlock

- **IngestManifest**: a started execution takes its next step, and the
  scheduler starts a due retry (weak fairness of `Proceed`). Failing is never
  required.
- **MatchPipeline**: weak fairness of the running task, strong fairness of
  `Begin`: another run may take the free slot, but Airflow takes queued runs in
  the order they came, so none is passed over for ever. Triggers, clears and
  failures are never required.
- **Discovery**: weak fairness of a started controller and of the active worker
  run, strong fairness of `BeginRun` as above, and weak fairness of listing by
  discovery. Its DAG has `schedule=None`, so the last is an assumption about
  the operator, who must start it again and again; without it nothing would be
  dispatched. Bulk runs are never required.

- **ServingLoad**: weak fairness of a load's next step: a process that runs goes
  on, and PostgreSQL grants a lock that is free. A transaction that is left open
  would block others for ever; `LoadsEnd` shows that the code leaves none.
- **GoldRebuild** is checked for safety only: the graph with its two kinds of
  runs is too large for a liveness check in reasonable time. That the pool slot
  is freed is `RebuildTypeOK`, that a worker run ends is `RunsEnd`.

`CHECK_DEADLOCK FALSE` is set where all runs, loads or executions of the instance
may have ended (pipeline, rebuild, serving load, stage records) or the payload
is complete (metrics): nothing remains to do. The others cannot come to rest that
way and are checked for deadlock.

## Proofs

`tlapm X_proofs.tla` checks them; no step is left without a proof. Every
invariant, action property and refinement that a passing run checks is a theorem
here, for all values of the constants; the liveness properties are not (see the
end). Each argument is the usual one: an inductive invariant that implies the
property, `Init`, one lemma per action, and a last temporal step. What follows
says which invariant and why the property alone is not enough.

**IngestManifest_proofs** (any matches, payloads, command lines, retries; the
assumptions are `PrefixAssumption`, `ValueAssumption` and `RecordAssumption`; no
set has to be finite):

- `TypeCorrect`, `RawAlwaysBehindManifest`. `RawBehindManifest` is not inductive:
  the append relies on the object stored a step before. `RawInv` adds `LocalOK`:
  an execution in `append` has its payload stored under its key, its `seen`
  is a length the file has had. `PrefixAssumption` keeps a later `PutRaw` from
  replacing an object another line names.
- `VersionsAlwaysDense`. `DenseInv` adds `WindowsApart` (on a match that is not
  `overlapped` at most one execution is between read and append) and
  `ReadStillCurrent` (for such an execution no line of its match was appended
  since it read). Lines of other matches may have been: the proof's main step,
  `DenseAppend`, is that counting the lines of *one* match in a stale prefix
  still gives the right version (`AppendVersions`).
- `VersionsAreNeverAhead` and `ReturnedIsAlwaysRegistered` follow from `RawInv`
  and from lines never being changed: a stale prefix can only count too few
  lines, and a record once in the file stays there.
- `ManifestImplementsLedger`, the refinement of `VersionLedger`. `LedgerInv` adds
  `RanksTaken`: up to the number of a match's lines, each position is the rank of
  one of them, so that the abstract sequence (`NthLine` picks the line of a rank)
  is well defined. An append then extends the sequence of its match and leaves
  those of the others as they are; everything else is a stutter.

**MatchPipeline_proofs** (any runs, matches, teams, payloads, slots and number of
clears; `BoxAssumption`, `SlotAssumption`, `RunAssumption`):

- `TypeCorrect` is less obvious than usual: `Scan(run[r].snap, ...)` is in the
  type only because a run that loads has a snapshot. It is therefore a
  consequence of `PinInv`, not an invariant on its own.
- `PinnedSnapshotAlwaysOwn`. `PinInv` adds `Busy` (a dbt build or a report is
  open only for the running run, at its task and for its match) and `SnapshotBehindSilver` (a
  run past Silver carries a snapshot, one before it carries none). It holds
  because snapshots are never changed, and because clearing a task at or before
  Silver takes its XCom away.
- `ProvenanceAlways`. `ProvInv` adds that the payload a run carries is
  registered (`Registered`), that every snapshot's payloads are valid, have a
  Bronze file and are registered (`Vouched`), and that what the tables, the
  open desks and the files show was committed (`ServedRows`, `ServedFiles`).
- `SuccessAlwaysServesOneVersion`, from `ServeInv`. Success is the last of some
  twenty steps, and each has to keep what the ones before it left: `Built` says what
  the tables hold at each point of a run, given the task where its execution
  began (`entry`), `Drawn` what its reports have read and drawn. `OrderInv` says
  that tasks go on from `entry` and that only one run is running, which is why no
  other run comes between. `WholeBoxes` is about the rows a payload leaves: a fact
  table never has some of a payload's teams without the others, hence rows of one
  payload are all of its rows.
- `DbtAlwaysFailsForReason`, from `FailInv`: a build that has failed failed for one of the
  reasons listed (`FailsFor`). `Created` says which fact tables are there, and
  `ProvInv` that every row a test can see is of a registered payload. The main step
  is that the tests pass when no match was revised and each has two teams.
  `BoxAssumption` says that a payload has finitely many teams, because the test counts them.

**ServingLoad_proofs** (any matches, payloads, loads and rows; `LoadAssumption`:
loads are numbered as they start, there is a match, a payload has a row or more):

- `AlwaysOneCopy` and `LoadAlwaysHeals`, from `LoadInv`. Readers see the rows of
  committed loads that no committed load deleted, so the invariant is about who
  deletes whom. `StartedInOrder`: only a load taken for dead still runs when the
  next starts. `TargetsCommitted`, `DeletersLater`: a DELETE takes the rows of
  committed loads of its match, earlier ones unless its own load was given up.
  `DeletesAll`: a load beside which no other load of its match can commit
  deletes every copy there is, and `OlderDeleted` that all but the newest are gone.
- `LoadImplementsTable`: `Commit` of the code is `Commit` of `ServedTable`, or a
  stutter where nothing is promised, and `Delete`, `Copy` and failures are invisible.

**Discovery_proofs** (any listing, season, scopes, batch, discoverers and failures;
`ControllerAssumption`):

- `BulkNeverLeavesOne`. `BulkAccounts`: while bulk triggers, each match it listed is
  still to be triggered, or was in the manifest when it looked, or has its bulk run.

**StageRecords_proofs** (any runs, rebuilds, faults and number of executions, any
verdict `Unusual` of the volume monitor; `ExecAssumption` asks for a run at least):

- `RecordsAlwaysAgree`, from `RecordInv`: executions end at different times
  (`TimesDiffer`), a line says how its execution ended (`LinesFollow`), there is at
  most one (`OneLine`), and one that no fault explains the lack of is there
  (`LinesThere`).
- `FailuresAlwaysSeen`. `FaultsCover` counts: each piece of evidence an execution
  lacks was lost to a fault of its own. Two faults that tear no file leave a
  piece; that is the bound of `NoFailureUnseen`.
- `HealthAlwaysLatest`. The views take the maximum of `completed_at`; `LatestThere`
  says that it exists. Which attempts and lines are latest follows from `TimesDiffer`, not
  from the order of lines, which overlapping runs break.

**GoldRebuild_proofs** (as MatchPipeline, and any rebuilds and `MaxRebuilds`;
`RebuildAssumption`):

- `RebuildTypeCorrect`, `PinnedBesideRebuilds`, `ProvenanceBesideRebuilds`. A worker's step is a step of
  MatchPipeline, so its invariants are reused; new are the steps of rebuilds, for which
  the lemmas on builds and reports are stated for any builder.
- `TeamMatchAlwaysInPairs`, when the pool has one slot (its hypothesis `DbtSlots = 1`).
  That hypothesis is needed, as the bounds say: with two slots a worker writes
  between a rebuild's test and its copy. `PairsInv` adds that one build is open at
  a time (`OneBuild`) and that a rebuild past the test found pairs (`Gated`).
- `RebuildAlwaysRepairs`, `TablesAlwaysSurvive`, `AloneAlwaysServesOneVersion`,
  `RebuildAlwaysReconciles`, for any number of slots and rebuilds. `RepairInv`
  adds to the invariants above what a build of a rebuild has done so far
  (`BuildOfRebuild`, `RebuildsServe`), that tables are filled in order
  (`LoadedFirst`, `CopiedBehind`) and, in `WorkersServe`, what is left of `Built` and
  `Drawn` beside rebuilds. Of the tables it is everything: a rebuild that
  comes between computes the same rows from the same staged ones. Of the
  files it is so only for a run that is `alone`.

**SumLaws, GoldMetrics_proofs** (payloads of any length and events of any
numbers, any teams and xT grid; `EventAssumption`, `GridAssumption`, `NullAssumption`). `PayloadInv` says that events are numbered
as they come and that the second half begins at minute 45; the rest are facts about
functions of the payload.

- `RejectedAlwaysForCause`, both directions. The checks read rows and columns, the
  property events: a row has its xT if its event is a move with two ends
  (`RatedMoves`), a progress if it has two ends and does not start in the middle of
  the goal (`ProgressOfRow`, `OnlyGoalIsGoal`), and a column has a number if a row has
  one. `NullAssumption` keeps NULL apart from the values beside it.
- `XtAlwaysOfContainingCell`: `ContinuousToCell` clamps into the grid, and the cell it
  finds is the only one that contains the point (`ColumnOfX`, `RowOfY`).
- `IntervalsAlwaysPartition`: each event in play is in one slot and the slot is in
  the spine (`SlotOfMinute`, `SlotAt`), so the sums over slots are the sums over halves.
- `MomentumAlwaysKnowsLabels`, `TimelineAlwaysEndsAtXg`, `AcceptedAlwaysPassesTests`:
  what report and table derive separately from the same rows agrees.

The sums are `MapThenSumSet`, a recursive function over subsets. `SumLaws` proves
that it exists, does not depend on the order of summation, and splits over disjoint sets and
over groups. The library's induction theorems take an operator as a parameter, which
the provers cannot instantiate; its theorems on well-founded relations speak of
sets, and the lemmas use them: the least counterexample of a set of naturals
(`LeastOf`), a minimal one among subsets.

**Checked by TLC only**: liveness (`IngestEnds`, `RunsEnd`, `DispatchedUnlessStuck`,
`IngestedIsDescribed`, `LoadsEnd`), because reasoning with `ENABLED` and fairness is
out of the prover's reach. The properties of the runs that expect a violation
are false, so there is nothing to prove.

## Findings

1. **A revision of one match fails the runs of others** (`pipeline_isolation`,
   `FailuresStayIsolated`). The singular dbt tests read whole tables and are
   selected by every match's build. A source revision that replaces a team
   leaves the old team's rows (the key is match and team), so the match has
   three teams and `assert_gold_team_two_team_per_match` fails from then on for
   every match. A revision that changes the compared numbers stops its own run in
   `build_dbt`, at the reconciliation test, after the staged rows are renewed and
   before the facts are; the test joins the whole tables, and so fails in every
   match's run until a rebuild renews the facts. `docs/adr/001-match-processing-grain.md:64`
   says "A failure while processing one match should not invalidate or require
   restarting an entire season."; `docs/architecture.md:235` says failures
   "remain isolated".
2. **Five matches that never ingest block discovery** (`discovery_stuck`,
   `DispatchesEachRequiredMatch`). `find_new_matches` takes the first five missing
   matches; their run ids exist, so triggering them fails, and the sixth match
   is never reached. `docs/architecture.md:191` makes "dispatching one worker
   execution for each required match" the controller's task. Bulk ingestion
   reaches them: it does not cut the list.

3. **The volume monitor never sees a Silver build** (`stage_records_volume`,
   `SilverIsMonitored`). The silver task opens `observe_stage(...) as metrics` and never
   sets `metrics["rows_out"]` (`dags/football_match_pipeline.py:229`), as the bronze
   task does; `stage_volume_history` drops rows without it, so
   `silver_volume_monitor` is empty for ever. `docs/adr/006-observability-lineage-metadata.md:150`
   says the views "calculate rolling historical baselines and classify significant
   changes".
4. **`pass_completion_pct` is 0 or 100** (`gold_metrics_percentage`,
   `CompletionIsPercentage`). `completed_passes / attempted_passes * 100` divides
   integers (`fact_gold_team.sql:55`). `models/marts/schema.yml:105` describes the
   column as "Percentage of passes completed by the team."

Two observations without a document that says otherwise, and so without a run:
the `xg` of `fact_gold_intervals` sums `xt_added` over shots, which no shot has,
so it is always 0; and the `relationships` test of `models/staging/schema.yml`
belongs to `stg_gold_team`, a model that does not exist, so nothing notices a
match that `dim_match` lacks (bulk ingestion of another season) and
`team_match_enriched` drops.

## What is left out

- **Rounding**: floats are exact numbers here. For coordinates in tenths of a
  yard the cell of the xT grid was compared with floating-point arithmetic and
  is the same; sums and thresholds of floats are not looked into, and the
  tolerances of the tests (`1e-6`, `1e-10`) are exact equality.
- **Drawing and layout** of the reports, names of teams and players, possession,
  seconds, timestamps. A team is its id: that the xG timeline groups by name and
  the fact table by id cannot make a difference here.
- **The columns of `dim_match` and `team_match_enriched`**: nothing of the pipeline
  reads them. Which matches have a row is in Discovery; that the view `stg_dim_match`
  exists, which a build needs, is in GoldRebuild.
- **The generic tests of `schema.yml`** on single rows (not null, unique, range):
  they hold by the construction of a row from an accepted payload.
- **`TASK_RETRY` events and `retry_summary`, averages and durations** of the views,
  and the median and thresholds of the volume monitor, which no row reaches.
- **Two discovery runs at once**: the module allows any number of discoverers,
  the instance has one, because two of them multiply the states without
  reaching an outcome that discovery beside bulk does not.
- **Run ledger** (`src/pipeline.py`, `src/metadata/run_tracker.py`): the module
  imports `src.build_gold` and `src.build_gold_intervals`, which are gone, and so
  cannot be started; nothing else uses the tracker.
- **The serving reference check**: a comparison of two sets that nothing calls.
- **Settings, logging, queries, inspection scripts**: no state of their own.

## Plan

Done, in this order, the behaviour most depends on first: `VersionLedger`,
`IngestManifest`, `Warehouse`, `Reports`, `MatchPipeline`, `Discovery`;
`GoldRebuild`, `ServedTable`, `ServingLoad`, `StageRecords`, `SilverEvents`,
`GoldMetrics`.

Proved: every invariant, action property and refinement of the passing runs.

Next proofs, in order:

1. What a task of MatchPipeline relies on in the modules below it: that its
   ingest task is a step of `VersionLedger` and its `LoadSrc` one of `ServedTable`,
   which the code of both is proved to implement.
2. `DbtFailsOnlyOnRevision` beside rebuilds, as `PinnedSnapshotIsOwn` and
   `Provenance` are proved to hold beside them.
3. That what `GoldMetrics` computes meets `BoxAssumption` and `Valid`, the two places
   where the pipeline takes the metrics on trust.

Next model: `TASK_RETRY` in StageRecords.
