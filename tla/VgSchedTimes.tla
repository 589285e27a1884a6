---------------------------- MODULE VgSchedTimes ----------------------------
(***************************************************************************)
(* When vgsched runs a job next: the calendar arithmetic of scheduleupdate *)
(* (src/cmd/vizgems/dc/sched/schedupdate.c) for one schedule, and the life *)
(* of that schedule: chosen, run, chosen again, expired.                   *)
(*                                                                         *)
(* Days have equal length (the code's own assumption, 24 * 60 * 60) and    *)
(* are numbered; time 0 is the midnight day 0 begins with.                 *)
(***************************************************************************)
EXTENDS Integers, Sequences, FiniteSetsExt

CONSTANTS
  Day,             \* time units in a day
  Week,            \* days in a week
  MonthLens,       \* days in each month of the calendar
  Specs,           \* the schedules considered
  MaxTime,         \* bound: the clock stops here
  MaxStep          \* bound: how far the clock moves at once

Modes == {"once", "daily", "weekly", "monthly"}

ASSUME CalendarAssumption ==
  /\ Day \in Nat \ {0} /\ Week \in Nat \ {0}
  /\ MonthLens \in Seq(Nat \ {0})
ASSUME SpecsAssumption == \A s \in Specs :
  /\ s.mode \in Modes
  /\ s.sday \in Nat /\ s.eday \in Nat /\ s.soff \in 0..Day /\ s.eoff \in 0..Day
  /\ s.ival \in Nat \ {0}
ASSUME BoundsAssumption == MaxTime \in Nat /\ MaxStep \in Nat \ {0}

VARIABLES s,       \* the schedule
          ct,      \* current time
          e        \* its nt, scheduled and expired fields
vars == <<s, ct, e>>

---------------------------------------------------------------------------
(* The calendar of tmmake() and tmtime() *)

DayOf(t) == t \div Day
WeekDay(d) == d % Week
MonthStart[m \in 1..(Len(MonthLens) + 1)] ==
  IF m = 1 THEN 0 ELSE MonthStart[m - 1] + MonthLens[m - 1]
\* the calendar goes on as long as the monthly schedules do
ASSUME CalendarCovers ==
  \A x \in Specs : x.mode = "monthly" => x.eday <= MonthStart[Len(MonthLens) + 1]
Month(d) == CHOOSE m \in DOMAIN MonthLens : MonthStart[m] <= d /\ d < MonthStart[m + 1]
MonthDay(d) == d - MonthStart[Month(d)]
\* one month later; a day the next month lacks runs over into the month after it
MonthLater(d) == MonthStart[Month(d) + 1] + MonthDay(d)

---------------------------------------------------------------------------
(* scheduleupdate *)

\* a window that ends before it begins ends on the next day
Eoff(x) == IF x.eoff < x.soff THEN x.eoff + Day ELSE x.eoff
End(x) == x.eday * Day + Eoff(x)

\* mutants: rounded down; a time already used is good enough
FirstRoundedDown(from, ival, t, nt) ==
  LET base == IF t <= from THEN from ELSE from + ((t - from) \div ival) * ival
  IN IF base > nt THEN base ELSE base + ((nt - base) \div ival + 1) * ival
FirstUsedAgain(from, ival, t, nt) ==
  LET base == IF t <= from THEN from
              ELSE from + ((t - from + ival - 1) \div ival) * ival
  IN IF base >= nt THEN base ELSE base + ((nt - base) \div ival + 1) * ival
\* the first time from + n * ival that is not before t and is after nt
FirstFrom(from, ival, t, nt) ==
  LET base == IF t <= from THEN from
              ELSE from + ((t - from + ival - 1) \div ival) * ival
  IN IF base > nt THEN base ELSE base + ((nt - base) \div ival + 1) * ival

\* mutant: the window is open at its end
InOpenWindow(x, noff) == x.soff <= noff /\ noff < Eoff(x)
InWindow(x, noff) == x.soff <= noff /\ noff <= Eoff(x)
FirstDay(x) == DayOf(x.sday * Day + x.soff)
LastDay(x) == DayOf(x.sday * Day + Eoff(x))
SameDay(x, d, d1) == CASE x.mode = "weekly" -> WeekDay(d) = WeekDay(d1)
                       [] x.mode = "monthly" -> MonthDay(d) = MonthDay(d1)

\* is the time nt, found on day d, one the schedule runs at
Accepted(x, d, nt) ==
  LET noff == nt - d * Day IN
  IF x.mode = "daily" THEN InWindow(x, noff)
  ELSE \/ SameDay(x, d, FirstDay(x)) /\ InWindow(x, noff)
       \/ SameDay(x, d, LastDay(x)) /\ noff <= x.eoff

\* mutant: the search of a daily window goes on a week later
FollowingWeek(x, d) == IF x.mode = "monthly" THEN MonthLater(d) ELSE d + Week
Following(x, d) == CASE x.mode = "daily" -> d + 1
                     [] x.mode = "weekly" -> d + Week
                     [] x.mode = "monthly" -> MonthLater(d)

NoTime == -1
\* the time tried on day d: today no earlier than now
TimeOn(x, t, nt, d) ==
  FirstFrom(d * Day + x.soff, x.ival, IF d = DayOf(t) THEN t ELSE d * Day, nt)
\* the search, day by day, until the end date
SearchDays(x, t, nt) ==
  LET Found[d \in DayOf(t)..x.eday] ==
        IF d >= x.eday THEN NoTime
        ELSE IF Accepted(x, d, TimeOn(x, t, nt, d)) THEN TimeOn(x, t, nt, d)
        ELSE IF Following(x, d) >= x.eday THEN NoTime
        ELSE Found[Following(x, d)]
  IN IF DayOf(t) >= x.eday THEN NoTime ELSE Found[DayOf(t)]

NextTime(x, t, nt) ==
  IF x.mode = "once" THEN FirstFrom(x.sday * Day + x.soff, x.ival, t, nt)
  ELSE SearchDays(x, t, nt)

Updated(x, t, old) ==
  LET n == NextTime(x, t, old.nt) IN
  IF t > End(x) \/ n = NoTime \/ n > End(x)
  THEN [old EXCEPT !.expired = TRUE]
  ELSE [old EXCEPT !.nt = n, !.scheduled = TRUE]

---------------------------------------------------------------------------

Init == /\ s \in Specs /\ ct \in 0..MaxTime
        /\ e = [nt |-> 0, scheduled |-> FALSE, expired |-> FALSE]

\* mutant: a time is chosen again while one is set
UpdateAgain == /\ ~e.expired
               /\ e' = Updated(s, ct, e)
               /\ UNCHANGED <<s, ct>>
Update == /\ ~e.expired /\ ~e.scheduled
          /\ e' = Updated(s, ct, e)
          /\ UNCHANGED <<s, ct>>

\* scheduleexec launches the job, now or as late as the other jobs make it
Run == /\ e.scheduled /\ ct >= e.nt
       /\ e' = [e EXCEPT !.scheduled = FALSE, !.nt = ct]
       /\ UNCHANGED <<s, ct>>

Tick == /\ \E d \in 1..MaxStep : ct + d <= MaxTime /\ ct' = ct + d
        /\ UNCHANGED <<s, e>>

Next == Update \/ Run \/ Tick
Spec == Init /\ [][Next]_vars

---------------------------------------------------------------------------
(* What a schedule means, and how far the search meets it *)

\* the days on which a window of the schedule opens
RunDays(x) == {d \in x.sday..(x.eday - 1) :
                 x.mode # "daily" => SameDay(x, d, x.sday)}
Slots(x) ==
  IF x.mode = "once"
  THEN {t \in (x.sday * Day + x.soff)..End(x) : (t - x.sday * Day - x.soff) % x.ival = 0}
  ELSE UNION {{t \in (d * Day + x.soff)..(d * Day + Eoff(x)) :
                 (t - d * Day - x.soff) % x.ival = 0} : d \in RunDays(x)}
Upcoming(x, t, nt) == {n \in Slots(x) : n >= t /\ n > nt}
Meant(x, t, old) ==
  IF Upcoming(x, t, old.nt) = {} THEN [old EXCEPT !.expired = TRUE]
  ELSE [old EXCEPT !.nt = Min(Upcoming(x, t, old.nt)), !.scheduled = TRUE]

Choosing == ~e.expired /\ ~e.scheduled

\* Every variable has its type, and a schedule that has expired is not due.
TypeOK ==
  /\ s \in Specs /\ ct \in 0..MaxTime
  /\ e \in [nt : Nat, scheduled : BOOLEAN, expired : BOOLEAN]
  /\ ~(e.scheduled /\ e.expired)

\* A "once" schedule runs at the first of its times that is neither past nor
\* used, and expires with the last of them (mode 1 of scheduleupdate).
OnceIsExact == s.mode = "once" /\ Choosing => Updated(s, ct, e) = Meant(s, ct, e)

\* So does a daily one whose window stays within the day, from its start date
\* until its end date (mode 2): what vg_scopemgr writes for every asset. (A window
\* that begins late and ends at 24:00 is excepted: at midnight sharp the search
\* begins with the new day and passes over the slot at the end of the old one.)
DailyIsExact ==
  s.mode = "daily" /\ s.soff <= s.eoff /\ (s.soff = 0 \/ s.eoff < Day)
    /\ DayOf(ct) \in s.sday..(s.eday - 1) /\ Choosing
    => Updated(s, ct, e) = Meant(s, ct, e)

\* The days on which a window opens as the search sees it. They are more than
\* RunDays: no day is compared with the start date, so those before it count (a
\* job may run before its schedule begins), and a weekly or monthly window that
\* ends at 24:00 opens on the day after as well.
OpenDays(x) == {d \in 0..(x.eday - 1) :
                  x.mode # "daily" => \/ SameDay(x, d, FirstDay(x))
                                      \/ x.eoff = Day /\ SameDay(x, d, x.sday + 1)}
OpenSlots(x) ==
  IF x.mode = "once" THEN Slots(x)
  ELSE UNION {{t \in (d * Day + x.soff)..(d * Day + Eoff(x)) :
                 (t - d * Day - x.soff) % x.ival = 0} : d \in OpenDays(x)}

\* Whatever the mode, the clock and the time used last, a chosen time lies on the
\* grid of a window that opens on one of those days, the part after midnight
\* included; it is not past and it is not used twice.
ChosenIsASlot ==
  Choosing => LET u == Updated(s, ct, e) IN
              u.scheduled => u.nt \in OpenSlots(s) /\ u.nt >= ct /\ u.nt > e.nt

\* A daily window is never lost for good: while days are left, the job has a
\* next time, whenever the scheduler was started or the job was last run.
DailyIsNeverLost ==
  s.mode = "daily" /\ Choosing /\ DayOf(ct) < s.eday - 1
    => Updated(s, ct, e).scheduled

\* schedmain.c, usage: vgsched "executes the actions at the appropriate times".
\* A weekly schedule that still has times to come is not expired.
WeeklyIsNeverLost ==
  s.mode = "weekly" /\ Choosing /\ Upcoming(s, ct, e.nt) # {}
    => ~Updated(s, ct, e).expired
=============================================================================
