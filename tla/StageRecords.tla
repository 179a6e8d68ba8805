---------------------------- MODULE StageRecords ----------------------------
(***************************************************************************)
(* What the DAGs write down about themselves, and what the health views    *)
(* make of it: observe_stage (src/observability/stage_observer.py), the    *)
(* failure callbacks (airflow_callbacks.py) and the DuckDB views           *)
(* (duckdb_views.py).                                                      *)
(*                                                                         *)
(* An execution of an observed task takes completed_at when its body ends  *)
(* and then appends one line to the file of stage runs; a task that raises *)
(* also reports through a callback of its own and one of its DAG, which    *)
(* append to a second file.  Executions of the worker and of rebuild runs  *)
(* overlap, so lines need not be in the order of completed_at.  A process  *)
(* may be killed anywhere and an append may fail, leaving half a line: the *)
(* views read neither file any more from then on.                          *)
(***************************************************************************)
EXTENDS Naturals, Sequences, FiniteSets

CONSTANTS
    Worker,     \* runs of football_match_pipeline
    Rebuild,    \* runs of football_gold_rebuild
    MaxRebuilds,\* max_active_runs of the latter
    MaxExec,    \* bound: executions of observed tasks
    MaxFaults,  \* bound: kills and failed appends
    Unusual(_)  \* whether the newest of these stage runs has under half or over
                \* one and a half times the rows of the ten before it

ASSUME ExecAssumption ==
    /\ Worker \cap Rebuild = {} /\ Worker \cup Rebuild # {}
    /\ MaxRebuilds \in Nat \ {0}
    /\ MaxExec \in Nat
    /\ MaxFaults \in Nat

VARIABLES
    exec,       \* exec[e]: the executions, numbered as started
    stageRuns,  \* airflow_pipeline_stage_runs.jsonl
    events,     \* the file of events
    clock,      \* the last completed_at taken
    faults      \* kills and failed appends so far

vars == <<exec, stageRuns, events, clock, faults>>

Exec == 1..MaxExec

Stage == <<"BRONZE", "SILVER", "REPORTS">>

Stages == {Stage[i] : i \in DOMAIN Stage}

Run == Worker \cup Rebuild

State == {"none", "running",
          "done",       \* the body has returned, completed_at is taken
          "error",      \* it has raised (or the append has), likewise
          "returned",   \* the task returns
          "raised", "killed",
          "reported",   \* on_failure_callback of the task has run
          "success",    \* as Airflow sees it
          "failed"}     \* and on_failure_callback of the DAG has run

Execs == [state : State, run : Run, stage : Stages, try : Nat, at : Nat,
          lost : BOOLEAN]   \* it was killed, or one of its appends failed

\* A file of lines, of which the order matters in the first one only.
File(Lines) == [lines : Lines, torn : BOOLEAN]

StageRun == [exec : Exec, status : {"SUCCEEDED", "FAILED"}, at : Nat,
             counted : BOOLEAN]     \* rows_out is not null

Event == [exec : Exec, type : {"TASK_FAILED", "DAG_FAILED"}]

-----------------------------------------------------------------------------
Init ==
    /\ exec = [e \in Exec |-> [state |-> "none", run |-> CHOOSE r \in Run : TRUE,
                               stage |-> "BRONZE", try |-> 0, at |-> 0, lost |-> FALSE]]
    /\ stageRuns = [lines |-> <<>>, torn |-> FALSE]
    /\ events = [lines |-> {}, torn |-> FALSE]
    /\ clock = 0
    /\ faults = 0

-----------------------------------------------------------------------------
(* Files *)

\* append_jsonl.  A line behind half a line is part of it.
Appended(file, line) ==
    IF file.torn THEN file ELSE [file EXCEPT !.lines = Append(@, line)]

\* append_event
WithEvent(file, event) ==
    IF file.torn THEN file ELSE [file EXCEPT !.lines = @ \cup {event}]

\* The append raises before or while it writes.
Spoiled(file) == {file, [file EXCEPT !.torn = TRUE]}

Fault ==
    /\ faults < MaxFaults
    /\ faults' = faults + 1

-----------------------------------------------------------------------------
(* Executions *)

Active(e) == exec[e].state \notin {"none", "success", "failed"}

ActiveRuns(S) == {exec[e].run : e \in {k \in Exec : Active(k)}} \cap S

Succeeded(r, s) ==
    \E e \in Exec : exec[e].run = r /\ exec[e].stage = s /\ exec[e].state = "success"

\* The stages of a worker run follow each other; a rebuild run observes its
\* reports only.  A task of a run that is executed again was cleared.
MayRun(r, s) ==
    IF r \in Worker
    THEN /\ ActiveRuns(Worker) = {}
         /\ \A i \in DOMAIN Stage : Stage[i] = s /\ i > 1 => Succeeded(r, Stage[i - 1])
    ELSE /\ s = "REPORTS"
         /\ r \notin ActiveRuns(Rebuild)
         /\ Cardinality(ActiveRuns(Rebuild)) < MaxRebuilds

Tries(r, s) ==
    Cardinality({e \in Exec : /\ exec[e].state # "none"
                              /\ exec[e].run = r /\ exec[e].stage = s})

Start(e, r, s) ==
    /\ exec[e].state = "none"
    /\ \A k \in Exec : k < e => exec[k].state # "none"
    /\ MayRun(r, s)
    /\ exec' = [exec EXCEPT ![e].state = "running", ![e].run = r, ![e].stage = s,
                            ![e].try = Tries(r, s) + 1]
    /\ UNCHANGED <<stageRuns, events, clock, faults>>

\* The body returns or raises; completed_at = utc_now().
BodyEnds(e) ==
    /\ exec[e].state = "running"
    /\ clock' = clock + 1
    /\ \E s \in {"done", "error"} :
          exec' = [exec EXCEPT ![e].state = s, ![e].at = clock']
    /\ UNCHANGED <<stageRuns, events, faults>>

\* Only the bronze task sets metrics["rows_out"]; no view reads the rows_out
\* of a FAILED line.
Line(e, status) == [exec |-> e, status |-> status, at |-> exec[e].at,
                    counted |-> status = "SUCCEEDED" /\ exec[e].stage = "BRONZE"]

\* Slip: the status is not the one the views look for.
AppendSuccess(e) ==
    /\ exec[e].state = "done"
    /\ stageRuns' = Appended(stageRuns, Line(e, "SUCCESS"))
    /\ exec' = [exec EXCEPT ![e].state = "returned"]
    /\ UNCHANGED <<events, clock, faults>>

AppendSucceeded(e) ==
    /\ exec[e].state = "done"
    /\ stageRuns' = Appended(stageRuns, Line(e, "SUCCEEDED"))
    /\ exec' = [exec EXCEPT ![e].state = "returned"]
    /\ UNCHANGED <<events, clock, faults>>

\* The append raises inside the try block: the stage is FAILED now.
SucceededFails(e) ==
    /\ exec[e].state = "done"
    /\ Fault
    /\ stageRuns' \in Spoiled(stageRuns)
    /\ clock' = clock + 1
    /\ exec' = [exec EXCEPT ![e].state = "error", ![e].at = clock', ![e].lost = TRUE]
    /\ UNCHANGED events

\* Slip: a stage that fails is not recorded.
AppendNothing(e) ==
    /\ exec[e].state = "error"
    /\ exec' = [exec EXCEPT ![e].state = "raised"]
    /\ UNCHANGED <<stageRuns, events, clock, faults>>

\* Slip: the exception is not raised again.
AppendSwallowed(e) ==
    /\ exec[e].state = "error"
    /\ stageRuns' = Appended(stageRuns, Line(e, "FAILED"))
    /\ exec' = [exec EXCEPT ![e].state = "returned"]
    /\ UNCHANGED <<events, clock, faults>>

\* The FAILED line, and the exception goes on.
AppendFailed(e) ==
    /\ exec[e].state = "error"
    /\ stageRuns' = Appended(stageRuns, Line(e, "FAILED"))
    /\ exec' = [exec EXCEPT ![e].state = "raised"]
    /\ UNCHANGED <<events, clock, faults>>

FailedFails(e) ==
    /\ exec[e].state = "error"
    /\ Fault
    /\ stageRuns' \in Spoiled(stageRuns)
    /\ exec' = [exec EXCEPT ![e].state = "raised", ![e].lost = TRUE]
    /\ UNCHANGED <<events, clock>>

\* No except clause sees the end of a killed process.
Kill(e) ==
    /\ exec[e].state \in {"running", "done", "error", "returned"}
    /\ Fault
    /\ exec' = [exec EXCEPT ![e].state = "killed", ![e].lost = TRUE]
    /\ UNCHANGED <<stageRuns, events, clock>>

Succeed(e) ==
    /\ exec[e].state = "returned"
    /\ exec' = [exec EXCEPT ![e].state = "success"]
    /\ UNCHANGED <<stageRuns, events, clock, faults>>

Callback(e) ==
    CASE exec[e].state \in {"raised", "killed"} -> [type |-> "TASK_FAILED", next |-> "reported"]
      [] exec[e].state = "reported"             -> [type |-> "DAG_FAILED", next |-> "failed"]

\* task_failure_callback, then dag_failure_callback: an append that raises is
\* logged by Airflow and changes nothing.
Report(e) ==
    /\ exec[e].state \in {"raised", "killed", "reported"}
    /\ exec' = [exec EXCEPT ![e].state = Callback(e).next]
    /\ \/ /\ events' = WithEvent(events, [exec |-> e, type |-> Callback(e).type])
          /\ UNCHANGED faults
       \/ Fault /\ events' \in Spoiled(events)
    /\ UNCHANGED <<stageRuns, clock>>

Next ==
    \E e \in Exec :
        \/ \E r \in Run, s \in Stages : Start(e, r, s)
        \/ BodyEnds(e)
        \/ AppendSucceeded(e) \/ SucceededFails(e)
        \/ AppendFailed(e) \/ FailedFails(e)
        \/ Kill(e)
        \/ Succeed(e)
        \/ Report(e)

Spec == Init /\ [][Next]_vars

-----------------------------------------------------------------------------
(* The views *)

Lines == {stageRuns.lines[i] : i \in DOMAIN stageRuns.lines}

\* create_observability_views: read_json_auto raises on a file that does not
\* exist, so there is no view before the first failure event; nor after a
\* torn line.
Viewable ==
    /\ stageRuns.lines # <<>> /\ ~stageRuns.torn
    /\ events.lines # {} /\ ~events.torn

StageLines(s) == {l \in Lines : exec[l.exec].stage = s}

\* Slip: the newest line is taken for the newest run.
LastLine(s) ==
    LET is == {i \in DOMAIN stageRuns.lines : stageRuns.lines[i] \in StageLines(s)}
    IN  stageRuns.lines[CHOOSE i \in is : \A j \in is : j <= i]

\* rank = 1 of PARTITION BY stage ORDER BY completed_at DESC
Ranked(s) == CHOOSE l \in StageLines(s) : \A k \in StageLines(s) : k.at <= l.at

\* recent_stage_health.health_status
RecentHealth(s) ==
    CASE Ranked(s).status = "FAILED"     -> "CRITICAL"
      [] Ranked(s).status = "SUCCEEDED" /\ exec[Ranked(s).exec].try > 1 -> "WARNING"
      [] OTHER                           -> "HEALTHY"

\* The rows of stage_volume_history, and of silver_volume_monitor.
VolumeHistory == {l \in Lines : l.status = "SUCCEEDED" /\ l.counted}

SilverVolumes == VolumeHistory \cap StageLines("SILVER")

\* silver_volume_health of the latest row, if there is one: with fewer than
\* ten rows before it, INSUFFICIENT_HISTORY, which is INFO.
VolumeHealth ==
    {CASE Cardinality(SilverVolumes) <= 10 -> "INFO"
       [] Cardinality(SilverVolumes) > 10 /\ Unusual(SilverVolumes) -> "WARNING"
       [] OTHER -> "HEALTHY" : l \in SilverVolumes}

\* current_health.signals
Signals == {RecentHealth(s) : s \in {t \in Stages : StageLines(t) # {}}}
              \cup VolumeHealth

\* current_health.overall_health
CurrentHealth ==
    CASE "CRITICAL" \in Signals -> "CRITICAL"
      [] "CRITICAL" \notin Signals /\ "WARNING" \in Signals -> "WARNING"
      [] Signals \cap {"CRITICAL", "WARNING"} = {} /\ "INFO" \in Signals -> "INFO"
      [] OTHER -> "HEALTHY"

-----------------------------------------------------------------------------
(* Properties *)

\* Executions and both files are well-typed.
TypeOK ==
    /\ exec \in [Exec -> Execs]
    /\ stageRuns \in File(Seq(StageRun))
    /\ events \in File(SUBSET Event)
    /\ clock \in Nat
    /\ faults \in 0..MaxFaults

Of(e) == {l \in Lines : l.exec = e}

\* The records agree with Airflow: an execution has one record at most, one
\* that Airflow calls a success has SUCCEEDED in it, and one that Airflow
\* does not, or not yet, has not - unless it was killed after the append.
RecordsAgree ==
    \A e \in Exec :
        /\ Cardinality(Of(e)) <= 1
        /\ exec[e].state = "success" /\ ~stageRuns.torn => Of(e) # {}
        /\ \A l \in Of(e) :
              /\ l.status = "FAILED" => exec[e].state \notin {"returned", "success"}
              /\ l.status = "SUCCEEDED" => \/ exec[e].state \in {"returned", "success"}
                                           \/ exec[e].lost

\* No failure goes unseen: of an execution that failed there is a FAILED
\* line or an event in a file that can still be read, though the process
\* was killed or an append failed, tearing its file or not - once, or twice
\* as long as no file is torn.
NoFailureUnseen ==
    \A e \in Exec :
        (/\ exec[e].state = "failed"
         /\ faults <= 1 \/ (faults = 2 /\ ~stageRuns.torn /\ ~events.torn)) =>
            \/ ~stageRuns.torn /\ \E l \in Of(e) : l.status = "FAILED"
            \/ ~events.torn /\ \E v \in events.lines : v.exec = e

\* The latest execution of stage s that no fault hit.
LatestSound(s) ==
    LET sound == {e \in Exec : exec[e].state \in {"success", "failed"}
                               /\ exec[e].stage = s /\ ~exec[e].lost}
    IN  {e \in sound : \A k \in sound : exec[k].at <= exec[e].at}

\* When nothing runs, the views tell the truth: a stage whose latest
\* execution failed makes current_health CRITICAL, one that succeeded when
\* it was cleared shows as a WARNING, and CRITICAL is never shown without
\* a stage whose latest recorded execution failed - in whatever order the
\* lines were appended.
HealthIsLatest ==
    (Viewable /\ \A e \in Exec : ~Active(e)) =>
        /\ \A s \in Stages : \A e \in LatestSound(s) :
              (\A l \in StageLines(s) : ~exec[l.exec].lost) =>
                 RecentHealth(s) = IF exec[e].state = "failed" THEN "CRITICAL"
                                   ELSE IF exec[e].try > 1 THEN "WARNING" ELSE "HEALTHY"
        /\ CurrentHealth = "CRITICAL" <=>
              \E s \in Stages : \E l \in StageLines(s) :
                  /\ exec[l.exec].state = "failed" /\ l.status = "FAILED"
                  /\ \A k \in StageLines(s) : k.at <= l.at

\* "DuckDB observability views calculate rolling historical baselines": each
\* Silver build that succeeded is a row of silver_volume_monitor.
SilverIsMonitored ==
    \A l \in StageLines("SILVER") : l.status = "SUCCEEDED" => l \in SilverVolumes
=============================================================================
