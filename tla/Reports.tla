------------------------------ MODULE Reports ------------------------------
(***************************************************************************)
(* Report generation (src/generate_reports.py, src/reports/*.py).          *)
(*                                                                         *)
(* generate_reports reads the two fact tables and the staged events over   *)
(* three connections, one after the other, and then draws four files of    *)
(* the match's report directory, in order.  A drawing that finds the wrong *)
(* number of teams raises; the files drawn before it are already replaced. *)
(***************************************************************************)
EXTENDS Warehouse

VARIABLES
    desk,       \* desk[b]: the call of generate_reports run b is in
    files       \* files[m]: what each file of the match's directory shows

reports == <<desk, files>>

\* The position in the body of generate_reports.
Step == {"closed", "team", "ivl", "stg", "summary", "shots", "xg_timeline",
         "xt_momentum", "drawn"}

Following == [summary |-> "shots", shots |-> "xg_timeline",
              xg_timeline |-> "xt_momentum", xt_momentum |-> "drawn"]

Closed == [step |-> "closed", match |-> CHOOSE m \in Match : TRUE,
           team |-> NoRows, ivl |-> NoRows, stg |-> NoContent]

Desk == [step : Step, match : Match, team : Rows, ivl : Rows,
         stg : Content \cup {NoContent}]

NoFiles == [summary |-> NoRows, shots |-> NoContent,
            xg_timeline |-> NoContent, xt_momentum |-> NoRows]

Files == [summary : Rows, shots : Content \cup {NoContent},
          xg_timeline : Content \cup {NoContent}, xt_momentum : Rows]

\* The teams with a shot in payload c.
Shooters(c) == {t \in DOMAIN Box[c] : Box[c][t] > 0}

ReportsInit ==
    /\ desk = [b \in Builder |-> Closed]
    /\ files = [m \in Match |-> NoFiles]

StartReports(b, m) ==
    /\ desk[b].step = "closed"
    /\ desk' = [desk EXCEPT ![b] = [Closed EXCEPT !.step = "team", !.match = m]]
    /\ UNCHANGED files

\* get_gold_team_metrics, get_gold_intervals_metrics, get_silver_events.
ReadRows(b) ==
    LET d == desk[b] IN
    /\ \/ /\ d.step = "team"
          /\ desk' = [desk EXCEPT ![b].team = team[d.match], ![b].step = "ivl"]
       \/ /\ d.step = "ivl"
          /\ desk' = [desk EXCEPT ![b].ivl = ivl[d.match], ![b].step = "stg"]
       \/ /\ d.step = "stg"
          /\ desk' = [desk EXCEPT ![b].stg = stg[d.match], ![b].step = "summary"]
    /\ UNCHANGED files

\* The data the drawing at this step accepts.
Drawable(d) ==
    CASE d.step = "summary" -> Cardinality(Teams(d.team)) = 2
      [] d.step = "xt_momentum" -> Cardinality(Teams(d.ivl)) = 2
      [] d.step \in {"shots", "xg_timeline"} ->
            d.stg # NoContent /\ Cardinality(Shooters(d.stg)) = 2
      [] OTHER -> FALSE

\* Slip: generate_xt_momentum is given the events, not the interval rows.
DrawEvents(b) ==
    LET d == desk[b] IN
    /\ Drawable(d)
    /\ files' = [files EXCEPT ![d.match][d.step] =
                    IF d.step = "summary" THEN d.team ELSE d.stg]
    /\ desk' = [desk EXCEPT ![b].step = Following[d.step]]

\* generate_match_summary, generate_shot_map, generate_xg_timeline and
\* generate_xt_momentum: the file is replaced.
Draw(b) ==
    LET d == desk[b] IN
    /\ Drawable(d)
    /\ files' = [files EXCEPT ![d.match][d.step] =
                    CASE d.step = "summary"     -> d.team
                      [] d.step = "xt_momentum" -> d.ivl
                      [] OTHER                  -> d.stg]
    /\ desk' = [desk EXCEPT ![b].step = Following[d.step]]

\* generate_reports has returned, raised or been killed.
CloseReports(b) ==
    /\ desk[b].step # "closed"
    /\ desk' = [desk EXCEPT ![b] = Closed]
    /\ UNCHANGED files

CannotDraw(b) ==
    /\ desk[b].step \in DOMAIN Following
    /\ ~Drawable(desk[b])

ReportsTypeOK ==
    /\ desk \in [Builder -> Desk]
    /\ files \in [Match -> Files]
=============================================================================
