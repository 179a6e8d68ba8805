------------------------ MODULE StageRecords_proofs ------------------------
(***************************************************************************)
(* Proofs about StageRecords, for any runs, active rebuilds, number of     *)
(* executions and faults, and any verdict of the volume monitor.           *)
(***************************************************************************)
EXTENDS StageRecords, FiniteSetTheorems, TLAPS

\* No two executions ended at the same time.
TimesDiffer ==
    \A e \in Exec :
        /\ exec[e].at <= clock
        /\ exec[e].state \in {"done", "error"} => exec[e].at # 0
        /\ \A k \in Exec : (exec[k].at = exec[e].at /\ exec[e].at # 0) => k = e

\* A line tells when the body of its execution ended and how, and only a
\* fault takes a success away that it records.
LinesFollow ==
    \A i \in DOMAIN stageRuns.lines :
        LET l == stageRuns.lines[i]
            x == exec[l.exec] IN
        /\ l.at = x.at /\ l.at # 0
        /\ l.status = "FAILED" => x.state \in {"raised", "reported", "failed"}
        /\ l.status = "SUCCEEDED" =>
              \/ x.state \in {"returned", "success"}
              \/ x.lost /\ x.state \in {"killed", "reported", "failed"}

\* No execution has two lines.
OneLine ==
    \A i, j \in DOMAIN stageRuns.lines :
        stageRuns.lines[i].exec = stageRuns.lines[j].exec => i = j

HasLine(e, status) ==
    \E i \in DOMAIN stageRuns.lines :
        stageRuns.lines[i].exec = e /\ stageRuns.lines[i].status = status

\* A kill is a fault, and as long as the file is whole, what no fault hit has
\* its line.
LinesThere ==
    \A e \in Exec :
        /\ exec[e].state = "killed" => exec[e].lost
        /\ (exec[e].state \in {"returned", "success"} /\ ~stageRuns.torn) =>
              HasLine(e, "SUCCEEDED")
        /\ (/\ exec[e].state \in {"raised", "reported", "failed"}
            /\ ~exec[e].lost /\ ~stageRuns.torn) => HasLine(e, "FAILED")

\* What makes RecordsAgree inductive.
RecordInv == TypeOK /\ TimesDiffer /\ LinesFollow /\ OneLine /\ LinesThere

\* A stage with lines has a latest one.
LatestThere ==
    \A s \in Stages : StageLines(s) # {} =>
        \E l \in StageLines(s) : \A k \in StageLines(s) : k.at <= l.at

\* What makes HealthIsLatest inductive.
HealthInv == RecordInv /\ LatestThere

HasEvent(e) == \E v \in events.lines : v.exec = e

\* Faults of the file of stage runs and of processes that execution e gives
\* evidence of, and faults of the file of events.
StageFaults(e) ==
    IF \/ stageRuns.torn
       \/ /\ exec[e].state \in {"raised", "killed", "reported", "failed"}
          /\ ~HasLine(e, "FAILED")
    THEN 1 ELSE 0

EventFaults(e) ==
    CASE events.torn                                            -> 1
      [] ~events.torn /\ ~HasEvent(e) /\ exec[e].state = "reported" -> 1
      [] ~events.torn /\ ~HasEvent(e) /\ exec[e].state = "failed"   -> 2
      [] OTHER                                                  -> 0

\* What is missing was lost to a fault of its own.
FaultsCover == \A e \in Exec : StageFaults(e) + EventFaults(e) <= faults

\* What makes NoFailureUnseen inductive.
SeenInv == RecordInv /\ FaultsCover

-----------------------------------------------------------------------------
(* Types *)

\* The initial state is well-typed.
LEMMA TypeInit == Init => TypeOK
  <1> SUFFICES ASSUME Init PROVE TypeOK
    OBVIOUS
  <1>1. (CHOOSE r \in Run : TRUE) \in Run
    BY ExecAssumption DEF Run
  <1>2. "BRONZE" \in Stages
    <2>1. 1 \in DOMAIN Stage /\ Stage[1] = "BRONZE"
      BY DEF Stage
    <2> QED
      BY <2>1 DEF Stages
  <1>3. exec \in [Exec -> Execs]
    BY <1>1, <1>2 DEF Init, Execs, State
  <1>4. stageRuns \in File(Seq(StageRun)) /\ events \in File(SUBSET Event)
    BY DEF Init, File
  <1> QED
    BY <1>3, <1>4, ExecAssumption DEF Init, TypeOK

\* The fields of an entry after a step of its execution.
LEMMA ExecType ==
    ASSUME NEW x \in Execs, NEW s \in State, NEW n \in Nat, NEW b \in BOOLEAN
    PROVE  /\ [x EXCEPT !.state = s] \in Execs
           /\ [x EXCEPT !.state = s, !.at = n] \in Execs
           /\ [x EXCEPT !.state = s, !.lost = b] \in Execs
           /\ [x EXCEPT !.state = s, !.at = n, !.lost = b] \in Execs
  BY DEF Execs

\* What an append, or one that fails, does to a file.
LEMMA FileType ==
    ASSUME NEW S, NEW f \in File(Seq(S)), NEW l \in S
    PROVE  /\ Appended(f, l) \in File(Seq(S))
           /\ Appended(f, l).torn = f.torn
           /\ f.torn => Appended(f, l).lines = f.lines
           /\ ~f.torn => Appended(f, l).lines = Append(f.lines, l)
           /\ Spoiled(f) \subseteq File(Seq(S))
           /\ \A g \in Spoiled(f) : g.lines = f.lines /\ (f.torn => g.torn)
  <1>1. /\ f.lines \in Seq(S) /\ f.torn \in BOOLEAN
    BY DEF File
  <1>2. Append(f.lines, l) \in Seq(S)
    BY <1>1
  <1>3. ASSUME NEW new \in Seq(S)
        PROVE  LET g == [f EXCEPT !.lines = new] IN
               g \in File(Seq(S)) /\ g.lines = new /\ g.torn = f.torn
    BY <1>1 DEF File
  <1>4. LET g == [f EXCEPT !.torn = TRUE] IN
        g \in File(Seq(S)) /\ g.lines = f.lines /\ g.torn
    BY <1>1 DEF File
  <1> QED
    BY <1>1, <1>2, <1>3, <1>4 DEF Appended, Spoiled

\* The same of the file of events.
LEMMA EventType ==
    ASSUME NEW f \in File(SUBSET Event), NEW v \in Event
    PROVE  /\ WithEvent(f, v) \in File(SUBSET Event)
           /\ WithEvent(f, v).torn = f.torn
           /\ f.torn => WithEvent(f, v).lines = f.lines
           /\ ~f.torn => WithEvent(f, v).lines = f.lines \cup {v}
           /\ Spoiled(f) \subseteq File(SUBSET Event)
           /\ \A g \in Spoiled(f) : g.lines = f.lines /\ (f.torn => g.torn)
  <1>1. /\ f.lines \in SUBSET Event /\ f.torn \in BOOLEAN
    BY DEF File
  <1>2. f.lines \cup {v} \in SUBSET Event
    BY <1>1
  <1>3. ASSUME NEW new \in SUBSET Event
        PROVE  LET g == [f EXCEPT !.lines = new] IN
               g \in File(SUBSET Event) /\ g.lines = new /\ g.torn = f.torn
    BY <1>1 DEF File
  <1>4. LET g == [f EXCEPT !.torn = TRUE] IN
        g \in File(SUBSET Event) /\ g.lines = f.lines /\ g.torn
    BY <1>1 DEF File
  <1> QED
    BY <1>1, <1>2, <1>3, <1>4 DEF WithEvent, Spoiled

\* The line an execution leaves.
LEMMA LineType ==
    ASSUME TypeOK, NEW e \in Exec, NEW t \in {"SUCCEEDED", "FAILED"}
    PROVE  /\ Line(e, t) \in StageRun
           /\ Line(e, t).exec = e /\ Line(e, t).status = t
           /\ Line(e, t).at = exec[e].at
  BY DEF TypeOK, Line, StageRun, Execs

\* How often a stage was tried is a number.
LEMMA TriesType ==
    ASSUME NEW r, NEW s
    PROVE  Tries(r, s) \in Nat
  <1>1. IsFiniteSet(1..MaxExec)
    BY ExecAssumption, FS_Interval
  <1>2. IsFiniteSet({e \in Exec : /\ exec[e].state # "none"
                                  /\ exec[e].run = r /\ exec[e].stage = s})
    BY <1>1, FS_Subset DEF Exec
  <1> QED
    BY <1>2, FS_CardinalityType DEF Tries

-----------------------------------------------------------------------------
(* Steps *)

\* An execution begins, or a fault or Airflow ends it; no file changes.
Turns(e) ==
    /\ UNCHANGED <<stageRuns, events>>
    /\ \/ /\ exec[e].state = "none" /\ exec'[e].state = "running"
          /\ exec'[e].lost = exec[e].lost /\ exec'[e].at = exec[e].at
          /\ UNCHANGED <<clock, faults>>
       \/ /\ exec[e].state = "running" /\ exec'[e].state \in {"done", "error"}
          /\ exec'[e].lost = exec[e].lost
          /\ clock' = clock + 1 /\ exec'[e].at = clock + 1
          /\ UNCHANGED faults
       \/ /\ exec[e].state \in {"running", "done", "error", "returned"}
          /\ exec'[e].state = "killed" /\ exec'[e].lost
          /\ exec'[e].at = exec[e].at
          /\ faults' = faults + 1 /\ UNCHANGED clock
       \/ /\ exec[e].state = "returned" /\ exec'[e].state = "success"
          /\ exec'[e].lost = exec[e].lost /\ exec'[e].at = exec[e].at
          /\ UNCHANGED <<clock, faults>>

\* Its line is appended, if the file is whole.
Records(e) ==
    /\ \E s \in {"SUCCEEDED", "FAILED"} :
          /\ exec[e].state = IF s = "SUCCEEDED" THEN "done" ELSE "error"
          /\ exec'[e].state = IF s = "SUCCEEDED" THEN "returned" ELSE "raised"
          /\ stageRuns'.torn = stageRuns.torn
          /\ stageRuns'.lines = IF stageRuns.torn THEN stageRuns.lines
                                ELSE Append(stageRuns.lines, Line(e, s))
    /\ exec'[e].lost = exec[e].lost /\ exec'[e].at = exec[e].at
    /\ UNCHANGED <<events, clock, faults>>

\* The append fails, and may tear the file.
Misses(e) ==
    /\ stageRuns'.lines = stageRuns.lines /\ (stageRuns.torn => stageRuns'.torn)
    /\ exec'[e].lost /\ faults' = faults + 1 /\ UNCHANGED events
    /\ \/ /\ exec[e].state = "done" /\ exec'[e].state = "error"
          /\ clock' = clock + 1 /\ exec'[e].at = clock + 1
       \/ /\ exec[e].state = "error" /\ exec'[e].state = "raised"
          /\ UNCHANGED clock /\ exec'[e].at = exec[e].at

\* A callback reports a failure, or cannot.
Reports(e) ==
    /\ \/ exec[e].state \in {"raised", "killed"} /\ exec'[e].state = "reported"
       \/ exec[e].state = "reported" /\ exec'[e].state = "failed"
    /\ exec'[e].lost = exec[e].lost /\ exec'[e].at = exec[e].at
    /\ \/ /\ events'.torn = events.torn
          /\ ~events.torn => \E v \in Event : /\ v.exec = e
                                              /\ events'.lines = events.lines \cup {v}
          /\ UNCHANGED faults
       \/ /\ events'.lines = events.lines /\ (events.torn => events'.torn)
          /\ faults' = faults + 1
    /\ UNCHANGED <<stageRuns, clock>>

\* Every step of the system is one of these, and well-typed.
LEMMA StepFacts ==
    ASSUME TypeOK, Next
    PROVE  /\ TypeOK'
           /\ \E e \in Exec :
                 /\ Turns(e) \/ Records(e) \/ Misses(e) \/ Reports(e)
                 /\ \A k \in Exec : k # e => exec'[k] = exec[k]
                 /\ exec[e].state # "none" => /\ exec'[e].stage = exec[e].stage
                                              /\ exec'[e].try = exec[e].try
  <1> DEFINE Fact(e) ==
        /\ TypeOK'
        /\ Turns(e) \/ Records(e) \/ Misses(e) \/ Reports(e)
        /\ \A k \in Exec : k # e => exec'[k] = exec[k]
        /\ exec[e].state # "none" => /\ exec'[e].stage = exec[e].stage
                                     /\ exec'[e].try = exec[e].try
  <1>0. /\ exec \in [Exec -> Execs] /\ clock \in Nat /\ clock + 1 \in Nat
        /\ faults \in 0..MaxFaults /\ stageRuns \in File(Seq(StageRun))
        /\ events \in File(SUBSET Event)
    BY DEF TypeOK
  <1>1. Fault => faults' = faults + 1 /\ faults' \in 0..MaxFaults
    BY <1>0, ExecAssumption DEF Fault
  <1>2. ASSUME NEW e \in Exec, NEW x \in Execs, exec' = [exec EXCEPT ![e] = x]
        PROVE  /\ exec' \in [Exec -> Execs] /\ exec'[e] = x
               /\ \A k \in Exec : k # e => exec'[k] = exec[k]
    BY <1>0, <1>2
  <1>3. ASSUME NEW e \in Exec, NEW r \in Run, NEW s \in Stages, Start(e, r, s)
        PROVE  Fact(e)
    <2> DEFINE x == [exec[e] EXCEPT !.state = "running", !.run = r, !.stage = s,
                                    !.try = Tries(r, s) + 1]
    <2>1. exec[e] \in Execs /\ Tries(r, s) + 1 \in Nat
      BY <1>0, TriesType
    <2>2. /\ x \in Execs /\ x.state = "running"
          /\ x.at = exec[e].at /\ x.lost = exec[e].lost
      BY ONLY <2>1, r \in Run, s \in Stages DEF Execs, State
    <2>3. exec' = [exec EXCEPT ![e] = x]
      BY <1>3 DEF Start
    <2>4. exec[e].state = "none" /\ UNCHANGED <<stageRuns, events, clock, faults>>
      BY <1>3 DEF Start
    <2> HIDE DEF x
    <2> QED
      BY <1>0, <1>2, <2>2, <2>3, <2>4 DEF Turns, TypeOK
  <1>4. ASSUME NEW e \in Exec, BodyEnds(e) PROVE Fact(e)
    <2>1. PICK s \in {"done", "error"} :
              exec' = [exec EXCEPT ![e].state = s, ![e].at = clock']
      BY <1>4 DEF BodyEnds
    <2> DEFINE x == [exec[e] EXCEPT !.state = s, !.at = clock + 1]
    <2>2. exec[e] \in Execs /\ s \in State
      BY <1>0 DEF State
    <2>3. /\ x \in Execs /\ x.state = s /\ x.at = clock + 1
          /\ x.lost = exec[e].lost /\ x.stage = exec[e].stage /\ x.try = exec[e].try
      BY ONLY <2>2, <1>0 DEF Execs
    <2>4. /\ exec[e].state = "running" /\ clock' = clock + 1
          /\ UNCHANGED <<stageRuns, events, faults>>
      BY <1>4 DEF BodyEnds
    <2>5. exec' = [exec EXCEPT ![e] = x]
      BY <2>1, <2>4
    <2> HIDE DEF x
    <2> QED
      BY <1>0, <1>2, <2>3, <2>4, <2>5 DEF Turns, TypeOK
  <1>5. ASSUME NEW e \in Exec, NEW t \in State, exec' = [exec EXCEPT ![e].state = t]
        PROVE  /\ exec' \in [Exec -> Execs] /\ exec'[e].state = t
               /\ exec'[e].at = exec[e].at /\ exec'[e].lost = exec[e].lost
               /\ exec'[e].stage = exec[e].stage /\ exec'[e].try = exec[e].try
               /\ \A k \in Exec : k # e => exec'[k] = exec[k]
    BY <1>0, <1>5 DEF Execs
  <1>6. ASSUME NEW e \in Exec, NEW t \in State, NEW n \in Nat,
               exec' = [exec EXCEPT ![e].state = t, ![e].at = n, ![e].lost = TRUE]
        PROVE  /\ exec' \in [Exec -> Execs] /\ exec'[e].state = t
               /\ exec'[e].at = n /\ exec'[e].lost
               /\ exec'[e].stage = exec[e].stage /\ exec'[e].try = exec[e].try
               /\ \A k \in Exec : k # e => exec'[k] = exec[k]
    <2> DEFINE x == [exec[e] EXCEPT !.state = t, !.at = n, !.lost = TRUE]
    <2>1. exec[e] \in Execs
      BY <1>0
    <2>2. /\ x \in Execs /\ x.state = t /\ x.at = n /\ x.lost
          /\ x.stage = exec[e].stage /\ x.try = exec[e].try
      BY ONLY <2>1, t \in State, n \in Nat DEF Execs
    <2>3. exec' = [exec EXCEPT ![e] = x]
      BY <1>6
    <2> HIDE DEF x
    <2> QED
      BY <1>2, <2>2, <2>3
  <1>7. ASSUME NEW e \in Exec, NEW t \in State,
               exec' = [exec EXCEPT ![e].state = t, ![e].lost = TRUE]
        PROVE  /\ exec' \in [Exec -> Execs] /\ exec'[e].state = t
               /\ exec'[e].at = exec[e].at /\ exec'[e].lost
               /\ exec'[e].stage = exec[e].stage /\ exec'[e].try = exec[e].try
               /\ \A k \in Exec : k # e => exec'[k] = exec[k]
    <2> DEFINE x == [exec[e] EXCEPT !.state = t, !.lost = TRUE]
    <2>1. exec[e] \in Execs
      BY <1>0
    <2>2. /\ x \in Execs /\ x.state = t /\ x.at = exec[e].at /\ x.lost
          /\ x.stage = exec[e].stage /\ x.try = exec[e].try
      BY ONLY <2>1, t \in State DEF Execs
    <2>3. exec' = [exec EXCEPT ![e] = x]
      BY <1>7
    <2> HIDE DEF x
    <2> QED
      BY <1>2, <2>2, <2>3
  <1>8. ASSUME NEW e \in Exec, AppendSucceeded(e) \/ AppendFailed(e) PROVE Fact(e)
    <2>1. PICK s \in {"SUCCEEDED", "FAILED"}, t \in State :
              /\ t = IF s = "SUCCEEDED" THEN "returned" ELSE "raised"
              /\ exec[e].state = IF s = "SUCCEEDED" THEN "done" ELSE "error"
              /\ stageRuns' = Appended(stageRuns, Line(e, s))
              /\ exec' = [exec EXCEPT ![e].state = t]
              /\ UNCHANGED <<events, clock, faults>>
      BY <1>8 DEF AppendSucceeded, AppendFailed, State
    <2>2. Line(e, s) \in StageRun
      BY LineType
    <2>3. /\ stageRuns' \in File(Seq(StageRun)) /\ stageRuns'.torn = stageRuns.torn
          /\ stageRuns'.lines = IF stageRuns.torn THEN stageRuns.lines
                                ELSE Append(stageRuns.lines, Line(e, s))
      <3>1. stageRuns.torn \in BOOLEAN
        BY <1>0 DEF File
      <3>2. PICK l \in StageRun : l = Line(e, s)
        BY <2>2
      <3>3. /\ Appended(stageRuns, l) \in File(Seq(StageRun))
            /\ Appended(stageRuns, l).torn = stageRuns.torn
            /\ stageRuns.torn => Appended(stageRuns, l).lines = stageRuns.lines
            /\ ~stageRuns.torn => Appended(stageRuns, l).lines = Append(stageRuns.lines, l)
        BY ONLY <1>0, FileType
      <3>4. stageRuns' = Appended(stageRuns, l)
        BY <2>1, <3>2
      <3> QED
        BY <3>1, <3>2, <3>3, <3>4
    <2> QED
      BY <1>0, <1>5, <2>1, <2>3 DEF Records, TypeOK
  <1>9. ASSUME NEW g \in Spoiled(stageRuns)
        PROVE  /\ g \in File(Seq(StageRun)) /\ g.lines = stageRuns.lines
               /\ stageRuns.torn => g.torn
    BY <1>0, <1>9 DEF File, Spoiled
  <1>10. ASSUME NEW g \in Spoiled(events)
         PROVE  /\ g \in File(SUBSET Event) /\ g.lines = events.lines
                /\ events.torn => g.torn
    BY <1>0, <1>10 DEF File, Spoiled
  <1>11. ASSUME NEW e \in Exec, SucceededFails(e) PROVE Fact(e)
    <2>1. /\ exec[e].state = "done" /\ stageRuns' \in Spoiled(stageRuns)
          /\ clock' = clock + 1 /\ UNCHANGED events /\ Fault
          /\ exec' = [exec EXCEPT ![e].state = "error", ![e].at = clock + 1,
                                  ![e].lost = TRUE]
      BY <1>11 DEF SucceededFails
    <2>2. "error" \in State
      BY DEF State
    <2>3. /\ exec' \in [Exec -> Execs] /\ exec'[e].state = "error"
          /\ exec'[e].at = clock + 1 /\ exec'[e].lost
          /\ exec'[e].stage = exec[e].stage /\ exec'[e].try = exec[e].try
          /\ \A k \in Exec : k # e => exec'[k] = exec[k]
      BY <1>0, <1>6, <2>1, <2>2
    <2> QED
      BY <1>0, <1>1, <1>9, <2>1, <2>3 DEF Misses, TypeOK
  <1>12. ASSUME NEW e \in Exec, FailedFails(e) PROVE Fact(e)
    <2>1. /\ exec[e].state = "error" /\ stageRuns' \in Spoiled(stageRuns)
          /\ UNCHANGED <<events, clock>> /\ Fault
          /\ exec' = [exec EXCEPT ![e].state = "raised", ![e].lost = TRUE]
      BY <1>12 DEF FailedFails
    <2>2. "raised" \in State
      BY DEF State
    <2> QED
      BY <1>0, <1>1, <1>7, <1>9, <2>1, <2>2 DEF Misses, TypeOK
  <1>13. ASSUME NEW e \in Exec, Kill(e) PROVE Fact(e)
    <2>1. "killed" \in State
      BY DEF State
    <2> QED
      BY <1>0, <1>1, <1>7, <1>13, <2>1 DEF Kill, Turns, TypeOK
  <1>14. ASSUME NEW e \in Exec, Succeed(e) PROVE Fact(e)
    <2>1. "success" \in State
      BY DEF State
    <2> QED
      BY <1>0, <1>5, <1>14, <2>1 DEF Succeed, Turns, TypeOK
  <1>15. ASSUME NEW e \in Exec, Report(e) PROVE Fact(e)
    <2>1. PICK t \in State, y \in {"TASK_FAILED", "DAG_FAILED"} :
              /\ \/ exec[e].state \in {"raised", "killed"} /\ t = "reported"
                 \/ exec[e].state = "reported" /\ t = "failed"
              /\ Callback(e).next = t /\ Callback(e).type = y
      BY <1>15 DEF Report, Callback, State
    <2> DEFINE v == [exec |-> e, type |-> y]
    <2>2. /\ exec' = [exec EXCEPT ![e].state = t]
          /\ \/ events' = WithEvent(events, v) /\ UNCHANGED faults
             \/ Fault /\ events' \in Spoiled(events)
          /\ UNCHANGED <<stageRuns, clock>>
      BY <1>15, <2>1 DEF Report
    <2>3. v \in Event /\ v.exec = e
      BY DEF Event
    <2>4. exec' \in [Exec -> Execs] /\ exec'[e].state = t
          /\ exec'[e].at = exec[e].at /\ exec'[e].lost = exec[e].lost
          /\ exec'[e].stage = exec[e].stage /\ exec'[e].try = exec[e].try
          /\ \A k \in Exec : k # e => exec'[k] = exec[k]
      BY <1>5, <2>2
    <2> HIDE DEF v
    <2>5. CASE events' = WithEvent(events, v) /\ UNCHANGED faults
      <3>1. /\ events' \in File(SUBSET Event) /\ events'.torn = events.torn
            /\ ~events.torn => events'.lines = events.lines \cup {v}
        BY <1>0, <2>3, <2>5, EventType
      <3> QED
        BY <1>0, <2>1, <2>2, <2>3, <2>4, <2>5, <3>1 DEF Reports, TypeOK
    <2>6. CASE Fault /\ events' \in Spoiled(events)
      BY <1>0, <1>1, <1>10, <2>1, <2>2, <2>4, <2>6 DEF Reports, TypeOK
    <2> QED
      BY <2>2, <2>5, <2>6
  <1> QED
    BY <1>3, <1>4, <1>8, <1>11, <1>12, <1>13, <1>14, <1>15 DEF Next

-----------------------------------------------------------------------------
(* The records agree with Airflow *)

\* Nothing has run.
LEMMA RecordInit == Init => RecordInv
  <1> SUFFICES ASSUME Init PROVE RecordInv
    OBVIOUS
  <1>1. /\ DOMAIN stageRuns.lines = {}
        /\ clock = 0
        /\ \A e \in Exec : exec[e].state = "none" /\ exec[e].at = 0
    BY DEF Init
  <1> QED
    BY <1>1, TypeInit DEF RecordInv, TimesDiffer, LinesFollow, OneLine, LinesThere

\* The clock has moved on when the next body ends.
LEMMA TimesStep ==
    ASSUME TypeOK, TimesDiffer, NEW e \in Exec,
           Turns(e) \/ Records(e) \/ Misses(e) \/ Reports(e),
           \A k \in Exec : k # e => exec'[k] = exec[k]
    PROVE  TimesDiffer'
  <1>0. clock \in Nat /\ \A k \in Exec : exec[k].at \in Nat /\ exec[k].at <= clock
    BY DEF TypeOK, Execs, TimesDiffer
  <1>1. CASE UNCHANGED clock /\ exec'[e].at = exec[e].at
    <2>1. exec'[e].state \in {"done", "error"} => exec[e].state \in {"done", "error"}
      BY <1>0, <1>1 DEF Turns, Records, Misses, Reports
    <2>2. \A k \in Exec : exec'[k].at = exec[k].at
      BY <1>1
    <2>3. \A k \in Exec : exec'[k].state \in {"done", "error"} =>
                             exec[k].state \in {"done", "error"}
      BY <2>1
    <2> QED
      BY <1>1, <2>2, <2>3 DEF TimesDiffer
  <1>2. CASE clock' = clock + 1 /\ exec'[e].at = clock + 1
    BY <1>0, <1>2 DEF TimesDiffer
  <1> QED
    BY <1>1, <1>2 DEF Turns, Records, Misses, Reports

\* The execution of a line is past its append.
LEMMA LineState ==
    ASSUME TypeOK, LinesFollow, NEW i \in DOMAIN stageRuns.lines
    PROVE  LET l == stageRuns.lines[i] IN
           /\ l \in StageRun /\ l.exec \in Exec /\ l.at \in Nat
           /\ l.status \in {"SUCCEEDED", "FAILED"}
           /\ exec[l.exec].state \in {"returned", "success", "raised", "killed",
                                      "reported", "failed"}
  <1>1. stageRuns.lines \in Seq(StageRun)
    BY DEF TypeOK, File
  <1>2. stageRuns.lines[i] \in StageRun
    BY <1>1
  <1> QED
    BY <1>2 DEF LinesFollow, StageRun

\* Steps that append no line.
LEMMA LinesKept ==
    ASSUME RecordInv, TypeOK', NEW e \in Exec,
           Turns(e) \/ Records(e) \/ Misses(e) \/ Reports(e),
           \A k \in Exec : k # e => exec'[k] = exec[k],
           stageRuns'.lines = stageRuns.lines,
           stageRuns.torn => stageRuns'.torn,
           Records(e) => stageRuns.torn
    PROVE  LinesFollow' /\ OneLine' /\ LinesThere'
  <1>0. TypeOK /\ TimesDiffer /\ LinesFollow /\ OneLine /\ LinesThere
    BY DEF RecordInv
  <1>1. ASSUME NEW i \in DOMAIN stageRuns.lines, stageRuns.lines[i].exec = e
        PROVE  /\ exec'[e].at = exec[e].at
               /\ \/ exec[e].state \in {"returned", "success"} /\ exec'[e].state = "success"
                  \/ exec[e].state = "returned" /\ exec'[e].state = "killed" /\ exec'[e].lost
                  \/ /\ exec'[e].lost = exec[e].lost
                     /\ \/ exec[e].state \in {"raised", "killed"} /\ exec'[e].state = "reported"
                        \/ exec[e].state = "reported" /\ exec'[e].state = "failed"
    <2>1. exec[e].state \in {"returned", "success", "raised", "killed",
                             "reported", "failed"}
      BY <1>0, <1>1, LineState
    <2> QED
      BY <2>1 DEF Turns, Records, Misses, Reports
  <1>2. LinesFollow'
    <2> SUFFICES ASSUME NEW i \in DOMAIN stageRuns.lines,
                        NEW l, l = stageRuns.lines[i]
                 PROVE  /\ l.at = exec'[l.exec].at /\ l.at # 0
                        /\ l.status = "FAILED" =>
                              exec'[l.exec].state \in {"raised", "reported", "failed"}
                        /\ l.status = "SUCCEEDED" =>
                              \/ exec'[l.exec].state \in {"returned", "success"}
                              \/ /\ exec'[l.exec].lost
                                 /\ exec'[l.exec].state \in {"killed", "reported", "failed"}
      BY DEF LinesFollow
    <2>1. /\ l.at = exec[l.exec].at /\ l.at # 0 /\ l.exec \in Exec
          /\ l.status = "FAILED" => exec[l.exec].state \in {"raised", "reported", "failed"}
          /\ l.status = "SUCCEEDED" =>
                \/ exec[l.exec].state \in {"returned", "success"}
                \/ /\ exec[l.exec].lost
                   /\ exec[l.exec].state \in {"killed", "reported", "failed"}
      BY <1>0, LineState DEF LinesFollow
    <2>2. CASE l.exec # e
      BY <2>1, <2>2
    <2>3. CASE l.exec = e
      BY <1>1, <2>1, <2>3
    <2> QED
      BY <2>2, <2>3
  <1>3. OneLine'
    BY <1>0 DEF OneLine
  <1>4. LinesThere'
    <2> DEFINE There(k, x) ==
          /\ x.state = "killed" => x.lost
          /\ (x.state \in {"returned", "success"} /\ ~stageRuns'.torn) =>
                HasLine(k, "SUCCEEDED")
          /\ (/\ x.state \in {"raised", "reported", "failed"}
              /\ ~x.lost /\ ~stageRuns'.torn) => HasLine(k, "FAILED")
    <2> SUFFICES ASSUME NEW k \in Exec PROVE There(k, exec'[k])
      BY DEF LinesThere, HasLine
    <2>1. There(k, exec[k])
      BY <1>0 DEF LinesThere
    <2>2. CASE k # e
      BY <2>1, <2>2
    <2>3. CASE k = e
      BY <1>0, <2>1, <2>3 DEF Turns, Records, Misses, Reports
    <2> QED
      BY <2>2, <2>3
  <1> QED
    BY <1>2, <1>3, <1>4

\* What the append of a line does to the lines.
LEMMA AppendFacts ==
    ASSUME TypeOK, NEW e \in Exec, NEW s \in {"SUCCEEDED", "FAILED"},
           stageRuns'.lines = Append(stageRuns.lines, Line(e, s))
    PROVE  LET N == Len(stageRuns.lines) IN
           /\ N \in Nat /\ DOMAIN stageRuns.lines = 1..N
           /\ DOMAIN stageRuns'.lines = 1..(N + 1)
           /\ \A i \in 1..N : stageRuns'.lines[i] = stageRuns.lines[i]
           /\ stageRuns'.lines[N + 1] = Line(e, s)
  <1>1. stageRuns.lines \in Seq(StageRun)
    BY DEF TypeOK, File
  <1>2. Line(e, s) \in StageRun
    BY LineType
  <1> QED
    BY <1>1, <1>2

\* A line is appended once the body has ended, and once.
LEMMA LineAppended ==
    ASSUME RecordInv, NEW e \in Exec, Records(e), ~stageRuns.torn,
           \A k \in Exec : k # e => exec'[k] = exec[k]
    PROVE  LinesFollow' /\ OneLine' /\ LinesThere'
  <1>0. TypeOK /\ TimesDiffer /\ LinesFollow /\ OneLine /\ LinesThere
    BY DEF RecordInv
  <1>1. PICK s \in {"SUCCEEDED", "FAILED"} :
            /\ exec[e].state = IF s = "SUCCEEDED" THEN "done" ELSE "error"
            /\ exec'[e].state = IF s = "SUCCEEDED" THEN "returned" ELSE "raised"
            /\ stageRuns'.lines = Append(stageRuns.lines, Line(e, s))
    BY DEF Records
  <1> PICK l : l = Line(e, s)
    OBVIOUS
  <1>2. /\ l.exec = e /\ l.status = s /\ l.at = exec[e].at
        /\ exec'[e].at = exec[e].at /\ exec[e].at # 0
    BY <1>0, <1>1, LineType DEF Records, TimesDiffer
  <1> PICK N : N = Len(stageRuns.lines)
    OBVIOUS
  <1>3. /\ N \in Nat /\ DOMAIN stageRuns.lines = 1..N
        /\ DOMAIN stageRuns'.lines = 1..(N + 1)
        /\ \A i \in 1..N : stageRuns'.lines[i] = stageRuns.lines[i]
        /\ stageRuns'.lines[N + 1] = l
    BY <1>0, <1>1, AppendFacts
  <1>4. \A i \in 1..N : /\ stageRuns.lines[i].exec # e
                        /\ stageRuns.lines[i].exec \in Exec
    BY <1>0, <1>1, <1>3, LineState
  <1>5. \A i \in 1..(N + 1) : i \in 1..N \/ i = N + 1
    BY <1>3
  <1>6. LinesFollow'
    <2> SUFFICES ASSUME NEW i \in 1..(N + 1),
                        NEW k, k = stageRuns'.lines[i]
                 PROVE  /\ k.at = exec'[k.exec].at /\ k.at # 0
                        /\ k.status = "FAILED" =>
                              exec'[k.exec].state \in {"raised", "reported", "failed"}
                        /\ k.status = "SUCCEEDED" =>
                              \/ exec'[k.exec].state \in {"returned", "success"}
                              \/ /\ exec'[k.exec].lost
                                 /\ exec'[k.exec].state \in {"killed", "reported", "failed"}
      BY <1>3 DEF LinesFollow
    <2>1. CASE i = N + 1
      BY <1>1, <1>2, <1>3, <2>1
    <2>2. CASE i \in 1..N
      <3>1. k = stageRuns.lines[i] /\ exec'[k.exec] = exec[k.exec]
        BY <1>3, <1>4, <2>2
      <3> QED
        BY <1>0, <1>3, <2>2, <3>1 DEF LinesFollow
    <2> QED
      BY <1>5, <2>1, <2>2
  <1>7. OneLine'
    <2> SUFFICES ASSUME NEW i \in 1..(N + 1), NEW j \in 1..(N + 1),
                        stageRuns'.lines[i].exec = stageRuns'.lines[j].exec
                 PROVE  i = j
      BY <1>3 DEF OneLine
    <2>1. CASE i \in 1..N /\ j \in 1..N
      BY <1>0, <1>3, <2>1 DEF OneLine
    <2>2. CASE i = N + 1 /\ j \in 1..N
      BY <1>2, <1>3, <1>4, <2>2
    <2>3. CASE i \in 1..N /\ j = N + 1
      BY <1>2, <1>3, <1>4, <2>3
    <2> QED
      BY <1>5, <2>1, <2>2, <2>3
  <1>8. ASSUME NEW k, NEW t PROVE HasLine(k, t) => HasLine(k, t)'
    <2>1. ASSUME NEW i \in 1..N, stageRuns.lines[i].exec = k, stageRuns.lines[i].status = t
          PROVE  HasLine(k, t)'
      BY <1>3, <1>5, <2>1 DEF HasLine
    <2> QED
      BY <1>3, <2>1 DEF HasLine
  <1>9. HasLine(e, s)'
    <2>1. N + 1 \in 1..(N + 1)
      BY <1>3
    <2> QED
      BY <1>2, <1>3, <2>1 DEF HasLine
  <1>10. LinesThere'
    BY <1>0, <1>1, <1>8, <1>9 DEF LinesThere
  <1> QED
    BY <1>6, <1>7, <1>10

\* The invariant is inductive.
LEMMA RecordStep == RecordInv /\ [Next]_vars => RecordInv'
  <1> SUFFICES ASSUME RecordInv, [Next]_vars PROVE RecordInv'
    OBVIOUS
  <1>1. CASE UNCHANGED vars
    BY <1>1 DEF vars, RecordInv, TypeOK, TimesDiffer, LinesFollow, OneLine,
                LinesThere, HasLine
  <1>2. CASE Next
    <2>0. TypeOK
      BY DEF RecordInv
    <2>1. PICK e \in Exec :
              /\ Turns(e) \/ Records(e) \/ Misses(e) \/ Reports(e)
              /\ \A k \in Exec : k # e => exec'[k] = exec[k]
      BY <1>2, <2>0, StepFacts
    <2>2. TypeOK' /\ TimesDiffer'
      BY <1>2, <2>0, <2>1, StepFacts, TimesStep DEF RecordInv
    <2>3. CASE Records(e) /\ ~stageRuns.torn
      BY <2>1, <2>2, <2>3, LineAppended DEF RecordInv
    <2>4. CASE Records(e) => stageRuns.torn
      <3>1. /\ stageRuns'.lines = stageRuns.lines
            /\ stageRuns.torn => stageRuns'.torn
        BY <2>1, <2>4 DEF Turns, Records, Misses, Reports
      <3> QED
        BY <2>1, <2>2, <2>4, <3>1, LinesKept DEF RecordInv
    <2> QED
      BY <2>3, <2>4
  <1> QED
    BY <1>1, <1>2

\* Executions, both files and the clock are what their readers take them for.
THEOREM TypeCorrect == Spec => []TypeOK
  <1>1. RecordInv => TypeOK
    BY DEF RecordInv
  <1> QED
    BY RecordInit, RecordStep, <1>1, PTL DEF Spec

\* Whatever is killed and whichever append fails, an execution has one line
\* at most, one that Airflow calls a success has SUCCEEDED in it as long as
\* the file is whole, and only a fault leaves SUCCEEDED behind a failure.
THEOREM RecordsAlwaysAgree == Spec => []RecordsAgree
  <1>1. RecordInv => RecordsAgree
    <2> SUFFICES ASSUME RecordInv, NEW e \in Exec
                 PROVE  /\ Cardinality(Of(e)) <= 1
                        /\ exec[e].state = "success" /\ ~stageRuns.torn => Of(e) # {}
                        /\ \A l \in Of(e) :
                              /\ l.status = "FAILED" =>
                                    exec[e].state \notin {"returned", "success"}
                              /\ l.status = "SUCCEEDED" =>
                                    \/ exec[e].state \in {"returned", "success"}
                                    \/ exec[e].lost
      BY DEF RecordsAgree
    <2>1. \A l, k \in Of(e) : l = k
      BY DEF Of, Lines, RecordInv, OneLine
    <2>2. Cardinality(Of(e)) <= 1
      <3>1. CASE Of(e) = {}
        BY <3>1, FS_EmptySet
      <3>2. CASE Of(e) # {}
        <4>1. PICK l : Of(e) = {l}
          BY <2>1, <3>2
        <4> QED
          BY <4>1, FS_Singleton
      <3> QED
        BY <3>1, <3>2
    <2>3. exec[e].state = "success" /\ ~stageRuns.torn => Of(e) # {}
      BY DEF RecordInv, LinesThere, HasLine, Of, Lines
    <2>4. \A l \in Of(e) : \E i \in DOMAIN stageRuns.lines :
                              l = stageRuns.lines[i] /\ l.exec = e
      BY DEF Of, Lines
    <2> QED
      BY <2>2, <2>3, <2>4 DEF RecordInv, LinesFollow
  <1> QED
    BY RecordInit, RecordStep, <1>1, PTL DEF Spec

-----------------------------------------------------------------------------
(* No failure goes unseen *)

\* What is missing of an execution is 0 or 1 line, and 0 to 2 events.
LEMMA FaultNumbers ==
    ASSUME NEW e
    PROVE  StageFaults(e) \in 0..1 /\ EventFaults(e) \in 0..2
  BY DEF StageFaults, EventFaults

\* A fault accounts for one thing missing at most.
LEMMA FaultsStep ==
    ASSUME SeenInv, TypeOK', NEW e \in Exec,
           Turns(e) \/ Records(e) \/ Misses(e) \/ Reports(e),
           \A k \in Exec : k # e => exec'[k] = exec[k]
    PROVE  FaultsCover'
  <1>0. /\ TypeOK /\ TypeOK' /\ FaultsCover /\ LinesFollow /\ LinesThere
        /\ faults \in Nat /\ faults' \in Nat
        /\ stageRuns.torn \in BOOLEAN /\ stageRuns'.torn \in BOOLEAN
        /\ events.torn \in BOOLEAN /\ events'.torn \in BOOLEAN
    BY ExecAssumption DEF SeenInv, RecordInv, TypeOK, File
  <1> SUFFICES ASSUME NEW k \in Exec
               PROVE  StageFaults(k)' + EventFaults(k)' <= faults'
    BY DEF FaultsCover
  <1>1. /\ StageFaults(k) \in 0..1 /\ EventFaults(k) \in 0..2
        /\ StageFaults(k)' \in 0..1 /\ EventFaults(k)' \in 0..2
        /\ StageFaults(k) + EventFaults(k) <= faults
    BY <1>0, FaultNumbers DEF FaultsCover, StageFaults, EventFaults
  <1>2. \A t : stageRuns'.lines = stageRuns.lines => (HasLine(k, t)' <=> HasLine(k, t))
    BY DEF HasLine
  <1>3. events'.lines = events.lines => (HasEvent(k)' <=> HasEvent(k))
    BY DEF HasEvent
  <1>4. CASE Turns(e)
    <2>1. /\ HasLine(k, "FAILED")' <=> HasLine(k, "FAILED")
          /\ HasEvent(k)' <=> HasEvent(k)
          /\ UNCHANGED <<stageRuns, events>>
      BY <1>2, <1>3, <1>4 DEF Turns
    <2>2. EventFaults(k)' <= EventFaults(k)
      <3>1. exec'[k].state \in {"reported", "failed"} => exec'[k] = exec[k]
        BY <1>4 DEF Turns
      <3> QED
        BY <1>0, <2>1, <3>1 DEF EventFaults
    <2>3. CASE faults' = faults
      <3>1. exec'[k].state \in {"raised", "killed", "reported", "failed"} =>
               exec'[k] = exec[k]
        BY <1>0, <1>4, <2>3 DEF Turns
      <3>2. StageFaults(k)' <= StageFaults(k)
        BY <1>0, <2>1, <3>1 DEF StageFaults
      <3> QED
        BY ONLY <1>0, <1>1, <2>2, <2>3, <3>2
    <2>4. CASE faults' = faults + 1
      BY <1>0, <1>1, <2>2, <2>4
    <2> QED
      BY <1>4, <2>3, <2>4 DEF Turns
  <1>5. CASE Records(e)
    <2>1. /\ HasEvent(k)' <=> HasEvent(k)
          /\ UNCHANGED <<events, faults>>
          /\ stageRuns'.torn = stageRuns.torn
      BY <1>3, <1>5 DEF Records
    <2>2. EventFaults(k)' <= EventFaults(k)
      <3>1. exec'[k].state \in {"reported", "failed"} => exec'[k] = exec[k]
        BY <1>5 DEF Records
      <3> QED
        BY <1>0, <2>1, <3>1 DEF EventFaults
    <2>3. StageFaults(k)' <= StageFaults(k)
      <3>1. CASE stageRuns.torn
        BY <2>1, <3>1 DEF StageFaults
      <3>2. CASE ~stageRuns.torn
        <4>1. PICK s \in {"SUCCEEDED", "FAILED"} :
                  /\ exec'[e].state = IF s = "SUCCEEDED" THEN "returned" ELSE "raised"
                  /\ stageRuns'.lines = Append(stageRuns.lines, Line(e, s))
          BY <1>5, <3>2 DEF Records
        <4>2. HasLine(k, "FAILED") => HasLine(k, "FAILED")'
          BY <1>0, <4>1, AppendFacts DEF HasLine
        <4>3. CASE k # e
          BY <2>1, <4>2, <4>3 DEF StageFaults
        <4>4. CASE k = e /\ s = "SUCCEEDED"
          BY <2>1, <3>2, <4>1, <4>4 DEF StageFaults
        <4>5. CASE k = e /\ s = "FAILED"
          <5>1. HasLine(e, "FAILED")'
            <6>1. /\ Line(e, s).exec = e /\ Line(e, s).status = s
              BY <1>0, LineType
            <6>2. \E i \in DOMAIN stageRuns'.lines : stageRuns'.lines[i] = Line(e, s)
              BY <1>0, <4>1, AppendFacts
            <6> QED
              BY <4>5, <6>1, <6>2 DEF HasLine
          <5> QED
            BY <2>1, <3>2, <4>5, <5>1 DEF StageFaults
        <4> QED
          BY <4>3, <4>4, <4>5
      <3> QED
        BY <3>1, <3>2
    <2> QED
      BY ONLY <1>0, <1>1, <2>1, <2>2, <2>3
  <1>6. CASE Misses(e)
    <2>1. /\ HasEvent(k)' <=> HasEvent(k)
          /\ UNCHANGED events /\ faults' = faults + 1
      BY <1>3, <1>6 DEF Misses
    <2>2. EventFaults(k)' <= EventFaults(k)
      <3>1. exec'[k].state \in {"reported", "failed"} => exec'[k] = exec[k]
        BY <1>6 DEF Misses
      <3> QED
        BY <1>0, <2>1, <3>1 DEF EventFaults
    <2> QED
      BY <1>0, <1>1, <2>1, <2>2
  <1>7. CASE Reports(e)
    <2>1. /\ HasLine(k, "FAILED")' <=> HasLine(k, "FAILED")
          /\ UNCHANGED stageRuns
          /\ exec'[k].state \in {"raised", "killed", "reported", "failed"} =>
                exec[k].state \in {"raised", "killed", "reported", "failed"}
      BY <1>2, <1>7 DEF Reports
    <2>2. StageFaults(k)' <= StageFaults(k)
      BY <1>0, <2>1 DEF StageFaults
    <2>3. CASE /\ events'.torn = events.torn /\ UNCHANGED faults
               /\ ~events.torn => \E v \in Event : /\ v.exec = e
                                                   /\ events'.lines = events.lines \cup {v}
      <3>1. EventFaults(k)' <= EventFaults(k)
        <4>1. CASE events.torn
          BY <1>0, <2>3, <4>1 DEF EventFaults
        <4>2. CASE ~events.torn /\ k = e
          <5>1. HasEvent(k)'
            BY <2>3, <4>2 DEF HasEvent
          <5> QED
            BY <1>0, <1>1, <2>3, <4>2, <5>1 DEF EventFaults
        <4>3. CASE ~events.torn /\ k # e
          <5>1. HasEvent(k) => HasEvent(k)'
            BY <2>3, <4>3 DEF HasEvent
          <5> QED
            BY <1>0, <2>3, <4>3, <5>1 DEF EventFaults
        <4> QED
          BY <1>0, <4>1, <4>2, <4>3
      <3> QED
        BY ONLY <1>0, <1>1, <2>2, <2>3, <3>1
    <2>4. CASE /\ events'.lines = events.lines /\ (events.torn => events'.torn)
               /\ faults' = faults + 1
      <3>1. EventFaults(k)' <= EventFaults(k) + 1
        <4>1. HasEvent(k)' <=> HasEvent(k)
          BY <1>3, <2>4
        <4>2. CASE events'.torn
          BY <1>0, <1>1, <4>2 DEF EventFaults
        <4>3. CASE ~events'.torn /\ HasEvent(k)
          BY <1>0, <1>1, <2>4, <4>1, <4>3 DEF EventFaults
        <4>4. CASE ~events'.torn /\ ~HasEvent(k) /\ k # e
          BY <1>0, <1>1, <2>4, <4>1, <4>4 DEF EventFaults
        <4>5. CASE ~events'.torn /\ ~HasEvent(k) /\ k = e
          BY <1>0, <1>1, <1>7, <2>4, <4>1, <4>5 DEF EventFaults, Reports
        <4> QED
          BY <1>0, <4>2, <4>3, <4>4, <4>5
      <3> QED
        BY <1>0, <1>1, <2>2, <2>4, <3>1
    <2> QED
      BY <1>7, <2>3, <2>4 DEF Reports
  <1> QED
    BY <1>4, <1>5, <1>6, <1>7

\* The invariant is inductive.
LEMMA SeenStep == SeenInv /\ [Next]_vars => SeenInv'
  <1> SUFFICES ASSUME SeenInv, [Next]_vars PROVE SeenInv'
    OBVIOUS
  <1>1. RecordInv'
    BY RecordStep DEF SeenInv
  <1>2. CASE UNCHANGED vars
    BY <1>1, <1>2 DEF vars, SeenInv, FaultsCover, StageFaults, EventFaults, HasLine, HasEvent
  <1>3. CASE Next
    <2>1. PICK e \in Exec :
              /\ Turns(e) \/ Records(e) \/ Misses(e) \/ Reports(e)
              /\ \A k \in Exec : k # e => exec'[k] = exec[k]
      BY <1>3, StepFacts DEF SeenInv, RecordInv
    <2> QED
      BY <1>1, <2>1, FaultsStep DEF SeenInv, RecordInv
  <1> QED
    BY <1>2, <1>3

\* A task that failed has a FAILED line or an event in a file that can still
\* be read, after one fault anywhere, or two that tore no file.
THEOREM FailuresAlwaysSeen == Spec => []NoFailureUnseen
  <1>1. Init => SeenInv
    <2> SUFFICES ASSUME Init PROVE FaultsCover
      BY RecordInit DEF SeenInv
    <2>1. /\ ~stageRuns.torn /\ ~events.torn /\ faults = 0
          /\ \A e \in Exec : exec[e].state = "none"
      BY DEF Init
    <2>2. \A e \in Exec : StageFaults(e) = 0 /\ EventFaults(e) = 0
      BY <2>1 DEF StageFaults, EventFaults
    <2> QED
      BY <2>1, <2>2 DEF FaultsCover
  <1>2. SeenInv => NoFailureUnseen
    <2> SUFFICES ASSUME SeenInv, NEW e \in Exec, exec[e].state = "failed",
                        faults <= 1 \/ (faults = 2 /\ ~stageRuns.torn /\ ~events.torn)
                 PROVE  \/ ~stageRuns.torn /\ \E l \in Of(e) : l.status = "FAILED"
                        \/ ~events.torn /\ \E v \in events.lines : v.exec = e
      BY DEF NoFailureUnseen
    <2>1. /\ StageFaults(e) + EventFaults(e) <= faults /\ faults \in Nat
          /\ stageRuns.torn \in BOOLEAN /\ events.torn \in BOOLEAN
      BY ExecAssumption DEF SeenInv, RecordInv, FaultsCover, TypeOK, File
    <2>2. HasLine(e, "FAILED") => \E l \in Of(e) : l.status = "FAILED"
      BY DEF HasLine, Of, Lines
    <2>3. HasEvent(e) => \E v \in events.lines : v.exec = e
      BY DEF HasEvent
    <2>4. stageRuns.torn \/ ~HasLine(e, "FAILED") => StageFaults(e) = 1
      BY DEF StageFaults
    <2>5. /\ events.torn => EventFaults(e) = 1
          /\ ~events.torn /\ ~HasEvent(e) => EventFaults(e) = 2
      BY DEF EventFaults
    <2> QED
      BY <2>1, <2>2, <2>3, <2>4, <2>5
  <1> QED
    BY SeenStep, <1>1, <1>2, PTL DEF Spec

-----------------------------------------------------------------------------
(* The views tell the truth *)

\* A line of a stage and its execution.
LEMMA StageLine ==
    ASSUME RecordInv, NEW s, NEW l \in StageLines(s)
    PROVE  /\ l.exec \in Exec /\ l.at \in Nat /\ l.at # 0
           /\ l.at = exec[l.exec].at /\ exec[l.exec].stage = s
           /\ l.status \in {"SUCCEEDED", "FAILED"}
           /\ exec[l.exec].state \in {"returned", "success", "raised", "killed",
                                      "reported", "failed"}
           /\ l.status = "FAILED" => exec[l.exec].state \in {"raised", "reported", "failed"}
           /\ l.status = "SUCCEEDED" =>
                 \/ exec[l.exec].state \in {"returned", "success"}
                 \/ exec[l.exec].lost /\ exec[l.exec].state \in {"killed", "reported", "failed"}
  <1>1. PICK i \in DOMAIN stageRuns.lines : l = stageRuns.lines[i]
    BY DEF StageLines, Lines
  <1>2. TypeOK /\ LinesFollow
    BY DEF RecordInv
  <1>3. exec[l.exec].stage = s
    BY DEF StageLines
  <1> QED
    BY <1>1, <1>2, <1>3, LineState DEF LinesFollow

\* Lines that end at the same time are the same line.
LEMMA OneAtATime ==
    ASSUME RecordInv, NEW s, NEW l \in StageLines(s), NEW k \in StageLines(s),
           l.at = k.at
    PROVE  l = k
  <1>1. PICK i \in DOMAIN stageRuns.lines : l = stageRuns.lines[i]
    BY DEF StageLines, Lines
  <1>2. PICK j \in DOMAIN stageRuns.lines : k = stageRuns.lines[j]
    BY DEF StageLines, Lines
  <1>3. l.exec = k.exec
    BY StageLine DEF RecordInv, TimesDiffer
  <1> QED
    BY <1>1, <1>2, <1>3 DEF RecordInv, OneLine

\* The row of rank 1 is the line with the latest completed_at.
LEMMA RankedIsLatest ==
    ASSUME HealthInv, NEW s \in Stages, StageLines(s) # {}
    PROVE  /\ Ranked(s) \in StageLines(s)
           /\ \A k \in StageLines(s) : k.at <= Ranked(s).at
           /\ \A l \in StageLines(s) : (\A k \in StageLines(s) : k.at <= l.at) => l = Ranked(s)
  <1>1. \E l \in StageLines(s) : \A k \in StageLines(s) : k.at <= l.at
    BY DEF HealthInv, LatestThere
  <1>2. /\ Ranked(s) \in StageLines(s)
        /\ \A k \in StageLines(s) : k.at <= Ranked(s).at
    BY <1>1 DEF Ranked
  <1>3. ASSUME NEW l \in StageLines(s), \A k \in StageLines(s) : k.at <= l.at
        PROVE  l = Ranked(s)
    <2>1. l.at <= Ranked(s).at /\ Ranked(s).at <= l.at
      BY <1>2, <1>3
    <2>2. l.at \in Nat /\ Ranked(s).at \in Nat
      BY <1>2, StageLine DEF HealthInv
    <2>3. l.at = Ranked(s).at
      BY <2>1, <2>2
    <2> QED
      BY <1>2, <2>3, OneAtATime DEF HealthInv
  <1> QED
    BY <1>2, <1>3

\* An execution stays in its stage once it has a line, and a line that is
\* appended is the latest of its stage or leaves the latest one there.
LEMMA LatestStep ==
    ASSUME HealthInv, NEW e \in Exec,
           Turns(e) \/ Records(e) \/ Misses(e) \/ Reports(e),
           \A k \in Exec : k # e => exec'[k] = exec[k],
           exec[e].state # "none" => exec'[e].stage = exec[e].stage
    PROVE  LatestThere'
  <1>0. RecordInv /\ TypeOK /\ LatestThere
    BY DEF HealthInv, RecordInv
  <1>1. \A l \in Lines : exec'[l.exec].stage = exec[l.exec].stage
    <2> SUFFICES ASSUME NEW l \in Lines
                 PROVE  exec'[l.exec].stage = exec[l.exec].stage
      OBVIOUS
    <2>1. l.exec \in Exec /\ exec[l.exec].state # "none"
      BY <1>0, LineState DEF Lines, RecordInv
    <2> QED
      BY <2>1
  <1>2. CASE stageRuns'.lines = stageRuns.lines
    <2>1. Lines' = Lines
      BY <1>2 DEF Lines
    <2>2. \A s \in Stages : StageLines(s)' = StageLines(s)
      BY <1>1, <2>1 DEF StageLines
    <2> QED
      BY <1>0, <2>2 DEF LatestThere
  <1>3. CASE Records(e) /\ ~stageRuns.torn
    <2>1. PICK t \in {"SUCCEEDED", "FAILED"} :
              /\ exec[e].state = IF t = "SUCCEEDED" THEN "done" ELSE "error"
              /\ stageRuns'.lines = Append(stageRuns.lines, Line(e, t))
      BY <1>3 DEF Records
    <2> PICK l : l = Line(e, t)
      OBVIOUS
    <2>2. l.exec = e /\ l.at = exec[e].at /\ l.at \in Nat
      BY <1>0, LineType DEF TypeOK, Execs
    <2>3. Lines' = Lines \cup {l}
      <3> PICK N : N = Len(stageRuns.lines)
        OBVIOUS
      <3>1. /\ N \in Nat /\ DOMAIN stageRuns.lines = 1..N
            /\ DOMAIN stageRuns'.lines = 1..(N + 1)
            /\ \A i \in 1..N : stageRuns'.lines[i] = stageRuns.lines[i]
            /\ stageRuns'.lines[N + 1] = l
        BY <1>0, <2>1, AppendFacts
      <3>2. 1..(N + 1) = 1..N \cup {N + 1}
        BY <3>1
      <3> QED
        BY <3>1, <3>2 DEF Lines
    <2>4. exec'[e].stage = exec[e].stage
      BY <2>1
    <2> SUFFICES ASSUME NEW s \in Stages
                 PROVE  StageLines(s)' # {} =>
                           \E m \in StageLines(s)' : \A k \in StageLines(s)' : k.at <= m.at
      BY DEF LatestThere
    <2>5. StageLines(s)' = StageLines(s) \cup (IF exec[e].stage = s THEN {l} ELSE {})
      BY <1>1, <2>2, <2>3, <2>4 DEF StageLines
    <2>6. \A k \in StageLines(s) : k.at \in Nat
      BY <1>0, StageLine
    <2>7. CASE exec[e].stage # s
      BY <1>0, <2>5, <2>7 DEF LatestThere
    <2>8. CASE exec[e].stage = s /\ StageLines(s) = {}
      BY <2>2, <2>5, <2>8
    <2>9. CASE exec[e].stage = s /\ StageLines(s) # {}
      <3>1. PICK m \in StageLines(s) : \A k \in StageLines(s) : k.at <= m.at
        BY <1>0, <2>9 DEF LatestThere
      <3>2. CASE l.at <= m.at
        BY <2>5, <2>9, <3>1, <3>2
      <3>3. CASE ~(l.at <= m.at)
        <4>1. \A k \in StageLines(s) : k.at <= l.at
          BY <2>2, <2>6, <3>1, <3>3
        <4> QED
          BY <2>2, <2>5, <2>9, <4>1
      <3> QED
        BY <3>2, <3>3
    <2> QED
      BY <2>7, <2>8, <2>9
  <1> QED
    BY <1>2, <1>3 DEF Turns, Records, Misses, Reports

\* A stage of which no fault hit a recorded execution shows how its latest
\* execution ended.
LEMMA SoundIsShown ==
    ASSUME HealthInv, ~stageRuns.torn, \A e \in Exec : ~Active(e),
           NEW s \in Stages, NEW e \in LatestSound(s),
           \A l \in StageLines(s) : ~exec[l.exec].lost
    PROVE  RecentHealth(s) = IF exec[e].state = "failed" THEN "CRITICAL"
                             ELSE IF exec[e].try > 1 THEN "WARNING" ELSE "HEALTHY"
  <1>0. RecordInv
    BY DEF HealthInv
  <1>1. /\ e \in Exec /\ exec[e].state \in {"success", "failed"}
        /\ exec[e].stage = s /\ ~exec[e].lost
        /\ \A k \in Exec : (/\ exec[k].state \in {"success", "failed"}
                            /\ exec[k].stage = s /\ ~exec[k].lost) =>
                              exec[k].at <= exec[e].at
    BY DEF LatestSound
  <1>2. PICK l \in StageLines(s) :
            /\ l.exec = e
            /\ l.status = IF exec[e].state = "failed" THEN "FAILED" ELSE "SUCCEEDED"
    <2>1. HasLine(e, IF exec[e].state = "failed" THEN "FAILED" ELSE "SUCCEEDED")
      BY <1>0, <1>1 DEF RecordInv, LinesThere
    <2> QED
      BY <1>1, <2>1 DEF HasLine, StageLines, Lines
  <1>3. \A k \in StageLines(s) : k.at <= l.at
    <2> SUFFICES ASSUME NEW k \in StageLines(s) PROVE k.at <= l.at
      OBVIOUS
    <2>1. /\ k.exec \in Exec /\ k.at = exec[k.exec].at /\ exec[k.exec].stage = s
          /\ exec[k.exec].state # "none" /\ l.at = exec[e].at
      BY <1>0, <1>2, StageLine
    <2>2. exec[k.exec].state \in {"success", "failed"} /\ ~exec[k.exec].lost
      BY <2>1 DEF Active
    <2> QED
      BY <1>1, <2>1, <2>2
  <1>4. Ranked(s) = l
    BY <1>2, <1>3, RankedIsLatest
  <1> QED
    BY <1>1, <1>2, <1>4 DEF RecentHealth

\* CRITICAL comes from a stage, and from the row of rank 1 of it.
LEMMA CriticalIsRanked ==
    ASSUME HealthInv
    PROVE  CurrentHealth = "CRITICAL" <=>
              \E s \in Stages : StageLines(s) # {} /\ Ranked(s).status = "FAILED"
  <1>1. CurrentHealth = "CRITICAL" <=> "CRITICAL" \in Signals
    BY DEF CurrentHealth
  <1>2. "CRITICAL" \notin VolumeHealth
    BY DEF VolumeHealth
  <1>3. "CRITICAL" \in Signals <=>
           \E s \in Stages : StageLines(s) # {} /\ RecentHealth(s) = "CRITICAL"
    BY <1>2 DEF Signals
  <1>4. \A s : RecentHealth(s) = "CRITICAL" <=> Ranked(s).status = "FAILED"
    BY DEF RecentHealth
  <1> QED
    BY <1>1, <1>3, <1>4

\* Whenever nothing runs and the files can be read, current_health is CRITICAL
\* just if the recorded execution of a stage that ended last has failed, and
\* a stage without faults shows how its latest execution ended - in whatever
\* order overlapping executions appended their lines.
THEOREM HealthAlwaysLatest == Spec => []HealthIsLatest
  <1>1. Init => HealthInv
    <2> SUFFICES ASSUME Init PROVE LatestThere
      BY RecordInit DEF HealthInv
    <2>1. DOMAIN stageRuns.lines = {}
      BY DEF Init
    <2> QED
      BY <2>1 DEF LatestThere, StageLines, Lines
  <1>2. HealthInv /\ [Next]_vars => HealthInv'
    <2> SUFFICES ASSUME HealthInv, [Next]_vars PROVE LatestThere'
      BY RecordStep DEF HealthInv
    <2>1. CASE UNCHANGED vars
      BY <2>1 DEF vars, HealthInv, LatestThere, StageLines, Lines
    <2>2. CASE Next
      BY <2>2, StepFacts, LatestStep DEF HealthInv, RecordInv
    <2> QED
      BY <2>1, <2>2
  <1>3. HealthInv => HealthIsLatest
    <2> SUFFICES ASSUME HealthInv, Viewable, \A e \in Exec : ~Active(e)
                 PROVE  /\ \A s \in Stages : \A e \in LatestSound(s) :
                              (\A l \in StageLines(s) : ~exec[l.exec].lost) =>
                                 RecentHealth(s) =
                                    IF exec[e].state = "failed" THEN "CRITICAL"
                                    ELSE IF exec[e].try > 1 THEN "WARNING" ELSE "HEALTHY"
                        /\ CurrentHealth = "CRITICAL" <=>
                              \E s \in Stages : \E l \in StageLines(s) :
                                  /\ exec[l.exec].state = "failed" /\ l.status = "FAILED"
                                  /\ \A k \in StageLines(s) : k.at <= l.at
      BY DEF HealthIsLatest
    <2>1. RecordInv /\ ~stageRuns.torn
      BY DEF HealthInv, Viewable
    <2>2. ASSUME NEW s \in Stages
          PROVE  (StageLines(s) # {} /\ Ranked(s).status = "FAILED") <=>
                    \E l \in StageLines(s) :
                        /\ exec[l.exec].state = "failed" /\ l.status = "FAILED"
                        /\ \A k \in StageLines(s) : k.at <= l.at
      <3>1. \A l \in StageLines(s) : l.status = "FAILED" => exec[l.exec].state = "failed"
        BY <2>1, StageLine DEF Active
      <3> QED
        BY <3>1, RankedIsLatest
    <2> QED
      BY <2>1, <2>2, SoundIsShown, CriticalIsRanked
  <1> QED
    BY <1>1, <1>2, <1>3, PTL DEF Spec
=============================================================================
