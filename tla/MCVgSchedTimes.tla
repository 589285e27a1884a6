--------------------------- MODULE MCVgSchedTimes ---------------------------
(* Small calendars for VgSchedTimes. *)
EXTENDS VgSchedTimes

\* windows within a day, up to its end, and across midnight
Windows == {<<0, 4>>, <<1, 3>>, <<1, 4>>, <<2, 2>>, <<3, 1>>}
MCSpecs == {[mode |-> m, sday |-> sd, eday |-> 6, soff |-> w[1], eoff |-> w[2],
             ival |-> i] : m \in Modes, sd \in 0..2, w \in Windows, i \in {1, 2, 3, 5}}
WeeklySpecs == {x \in MCSpecs : x.mode = "weekly"}
MCMonthLens == <<3, 2, 3, 2, 3>>
=============================================================================
