--------------------------- MODULE MCGoldMetrics ---------------------------
(* Two teams, and events at the edges of pitch, halves and contract.       *)
EXTENDS GoldMetrics

CONSTANTS T1, T2

\* A different value in every cell, larger towards the goal.
MCGrid == [r \in 0..7 |-> [c \in 0..11 |-> 10 * c * c + r]]

Ev(type, team, period, minute, loc, end) ==
    [id |-> Null, index |-> 0, period |-> period, minute |-> minute, type |-> type,
     team |-> team, outcome |-> Null, xg |-> Null, loc |-> loc, end |-> end]

Shot(team, period, minute, outcome, xg) ==
    [Ev("Shot", team, period, minute, <<110, 40>>, <<120, 40>>)
        EXCEPT !.outcome = outcome, !.xg = xg]

\* Moves of both teams at the boundaries of minutes and cells.
Moves == {Ev("Pass", T1, 1, 44, <<60, 40>>, <<90, 40>>),
          Ev("Pass", T1, 1, 45, <<0, 0>>, <<120, 80>>),
          Ev("Carry", T2, 2, 45, <<9, 9>>, <<10, 10>>),
          Ev("Pass", T2, 2, 90, <<115, 75>>, <<70, 40>>),
          Ev("Pass", T2, 2, 89, <<50, 40>>, <<124, -3>>)}

\* A pass that is intercepted and one without an end.
OtherPasses == {[Ev("Pass", T1, 1, 4, <<50, 50>>, <<100, 50>>) EXCEPT !.outcome = "Incomplete"],
                Ev("Pass", T1, 1, 5, <<50, 50>>, <<>>)}

\* In the halves, in the shootout, without xG; one xG beyond 1.
ShotEvents == {Shot(T1, 1, 46, "Goal", 7), Shot(T2, 2, 50, "Saved", 3),
           Shot(T2, 5, 120, "Goal", 78), Shot(T1, 1, 30, "Saved", Null),
           Shot(T1, 2, 95, "Saved", 101)}

\* Without a team, without a type, off the pitch.
Others == {Ev("Other", Null, 1, 0, <<>>, <<>>), Ev(Null, T1, 1, 1, <<>>, <<>>),
           Ev("Other", T2, 2, 60, <<121, 40>>, <<>>),
           Ev("Other", T2, 1, 10, <<60>>, <<>>)}

\* From the middle of the goal: nothing can come nearer to it.
OnGoal == {Ev("Carry", T2, 2, 70, <<120, 40>>, <<110, 40>>),
           [Shot(T2, 2, 71, "Saved", 4) EXCEPT !.loc = <<120, 40>>]}

MCEvent == Moves \cup OtherPasses \cup ShotEvents \cup Others \cup OnGoal
=============================================================================
