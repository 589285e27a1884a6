------------------------------ MODULE DateLife ------------------------------
(***************************************************************************)
(* The life of the dates of data/main: files are put into a date           *)
(* (sdpincoming with vg_alarm_inc_fileinfo), processed (sdpprocessing with *)
(* vg_alarm_raw2dds_proc_run) and the date is closed in two stages         *)
(* (sdpcomplete with vg_main_compl_run), then its month and its year. A    *)
(* late file opens a closed date again. The three scripts have locks of    *)
(* their own and tell each other by stamp files only. The dates here are   *)
(* those of one month, the only month of its year.                         *)
(***************************************************************************)
EXTENDS Integers, FiniteSets

CONSTANTS
  Days, Files, None,
  Day,          \* Day[f]: the date in the name of f
  StatDays,     \* dates with files all.??.??.stats.dds
  AcceptAge,    \* ACCEPTOLDINCOMING: the last age a closed date opens again at
  MaxCrashes    \* bound: incoming and completion scripts that are killed

ASSUME DayAssumption == Days \subseteq Nat /\ Day \in [Files -> Days] /\ StatDays \subseteq Days
ASSUME AgeAssumption == AcceptAge \in 0..3
ASSUME BoundAssumption == MaxCrashes \in Nat /\ None \notin Days

VARIABLES
  age,       \* of a date: 0, then past completeday1, past completeday2, past
             \* twice completeday2; no date is older than one before it
  complete, stamp1, notcomplete,  \* the dates that have each stamp
  month, year,                    \* their complete.stamp
  where,     \* of a file: "incoming"; which stamp goes next while its script
             \* opens its date again, of "both" or the "one" of the date, then
             \* "stamp1", "month", "year", and the "test" after that; "taken" by
             \* the script, in "input", "saved" after its processing, "removed"
  old,       \* files in input for more than 60 minutes
  recent,    \* dates with outputs of the last hour
  procDates, \* the dates of this processing run
  pc,        \* the completion script: "off", "dates", what it does in date
             \* cur: "one", "stamp", "stamp1", "final", "input" or "unstamp",
             \* "month" or "year"
  dates, cur,
  today,     \* the ages when it began: todaysec; 0 once it needs them no more
  crashes,
  processed, \* history: dates finally processed since they were opened
  half,      \* history: dates left with complete.stamp only, before the final
             \* processing, by a touch or an rm of both stamps
  missed     \* history: dates whose month or year was closed over them, or left
             \* closed, while they were opened

stamps == <<complete, stamp1, notcomplete, month, year>>
files == <<where, old, recent>>
compl == <<pc, dates, cur, today>>
history == <<processed, half, missed>>
vars == <<age, stamps, files, procDates, compl, crashes, history>>

Open(d) == d \notin complete /\ ~month /\ ~year
Final(d) == d \in complete \ stamp1
Ages == [Days -> 0..3]

Init ==
  /\ age = [d \in Days |-> 0]
  /\ complete = {} /\ stamp1 = {} /\ notcomplete = {}
  /\ month = FALSE /\ year = FALSE
  /\ where = [f \in Files |-> "incoming"] /\ old = {} /\ recent = {}
  /\ procDates = {} /\ pc = "off" /\ dates = {} /\ cur = None
  /\ today = age /\ crashes = 0
  /\ processed = {} /\ half = {} /\ missed = {}

---------------------------------------------------------------------------
(* Time *)

Age(d) ==
  /\ age[d] < 3 /\ \A e \in Days : e < d => age[e] > age[d]
  /\ age' = [age EXCEPT ![d] = @ + 1]
  /\ UNCHANGED <<stamps, files, procDates, compl, crashes, history>>

\* an hour without new outputs
Quiet(d) ==
  /\ d \in recent
  /\ recent' = recent \ {d}
  /\ UNCHANGED <<age, stamps, where, old, procDates, compl, crashes, history>>

GetOld(f) ==
  /\ where[f] \in {"input", "saved"} /\ f \notin old
  /\ old' = old \cup {f}
  /\ UNCHANGED <<age, stamps, where, recent, procDates, compl, crashes, history>>

---------------------------------------------------------------------------
(* Incoming and processing *)

Step(f, l) == where' = [where EXCEPT ![f] = l]

\* A file of an open date is taken; one of a closed date stays where it is,
\* unless it opens the date again
Take(f) ==
  /\ where[f] = "incoming" /\ Day[f] \notin complete \cup stamp1
  /\ Step(f, "taken")
  /\ UNCHANGED <<age, stamps, old, recent, procDates, compl, crashes, history>>

\* vg_alarm_inc_fileinfo, for a file that is not too late: touch of
\* notcomplete.stamp; the shell expands complete.stamp*
Reopen(f) ==
  LET d == Day[f] IN
  /\ where[f] = "incoming" /\ d \in complete /\ age[d] <= AcceptAge
  /\ notcomplete' = notcomplete \cup {d}
  /\ Step(f, IF d \in stamp1 THEN "both" ELSE "one")
  /\ UNCHANGED <<age, complete, stamp1, month, year, old, recent, procDates,
                 compl, crashes, history>>

\* rm removes the files it was given one after the other
RmComplete(f) ==
  LET d == Day[f] IN
  /\ where[f] \in {"both", "one"}
  /\ complete' = complete \ {d}
  /\ processed' = processed \ {d} /\ half' = half \ {d}
  /\ Step(f, IF where[f] = "both" THEN "stamp1" ELSE "month")
  /\ UNCHANGED <<age, stamp1, notcomplete, month, year, old, recent, procDates,
                 compl, crashes, missed>>

RmStamp1(f) ==
  LET d == Day[f] IN
  /\ where[f] = "stamp1"
  /\ stamp1' = stamp1 \ {d}
  /\ half' = half \cup ({d} \cap complete \cap stamp1)
  /\ Step(f, "month")
  /\ UNCHANGED <<age, complete, notcomplete, month, year, old, recent,
                 procDates, compl, crashes, processed, missed>>

\* mutant: the month stays closed
KeepMonth(f) ==
  /\ where[f] = "month" /\ Step(f, "year")
  /\ UNCHANGED <<age, stamps, old, recent, procDates, compl, crashes, history>>
RmMonth(f) ==
  /\ where[f] = "month" /\ month' = FALSE
  /\ missed' = IF pc = "month" THEN missed \cup {Day[f]} ELSE {}
  /\ Step(f, "year")
  /\ UNCHANGED <<age, complete, stamp1, notcomplete, year, old, recent,
                 procDates, compl, crashes, processed, half>>

RmYear(f) ==
  /\ where[f] = "year" /\ year' = FALSE
  /\ missed' = IF pc = "year" THEN missed \cup {Day[f]} ELSE missed
  /\ Step(f, "test")
  /\ UNCHANGED <<age, complete, stamp1, notcomplete, month, old, recent,
                 procDates, compl, crashes, processed, half>>

\* sdpincoming: the date may have been closed again meanwhile
Test(f) ==
  /\ where[f] = "test"
  /\ Step(f, IF Day[f] \in complete \cup stamp1 THEN "incoming" ELSE "taken")
  /\ UNCHANGED <<age, stamps, old, recent, procDates, compl, crashes, history>>

Undo(f) == RmComplete(f) \/ RmStamp1(f) \/ RmMonth(f) \/ RmYear(f) \/ Test(f)

\* the incoming script is killed before it has removed all of them
Cut(f) ==
  /\ where[f] \in {"both", "one", "stamp1", "month", "year", "test"}
  /\ crashes < MaxCrashes /\ crashes' = crashes + 1
  /\ missed' = IF \/ where[f] \in {"stamp1", "month"} /\ (month \/ pc = "month")
                  \/ where[f] \in {"stamp1", "month", "year"} /\ (year \/ pc = "year")
               THEN missed \cup {Day[f]} ELSE missed
  /\ Step(f, "incoming")
  /\ UNCHANGED <<age, stamps, old, recent, procDates, compl, processed, half>>

Place(f) ==
  /\ where[f] = "taken"
  /\ where' = [where EXCEPT ![f] = "input"]
  /\ UNCHANGED <<age, stamps, old, recent, procDates, compl, crashes, history>>

\* sdpprocessing lists the open dates once
ProcBegin ==
  /\ procDates = {} /\ procDates' = {d \in Days : Open(d)} /\ procDates' # {}
  /\ UNCHANGED <<age, stamps, files, compl, crashes, history>>

\* vg_alarm: into processed/total, then mv to input/alarm
Process(f) ==
  /\ where[f] = "input" /\ Day[f] \in procDates
  /\ where' = [where EXCEPT ![f] = "saved"]
  /\ recent' = recent \cup {Day[f]}
  /\ UNCHANGED <<age, stamps, old, procDates, compl, crashes, history>>

\* files may be left: ALARMMAXFILERUN, the exit file, no space
ProcEnd ==
  /\ procDates # {} /\ procDates' = {}
  /\ UNCHANGED <<age, stamps, files, compl, crashes, history>>

---------------------------------------------------------------------------
(* Completion *)

\* mutant: only complete.stamp is looked at
StillAny(d) == d \notin complete
\* the dates sdpcomplete works on: those not closed for good
Still(d) == ~Final(d)

\* what the script knows ends with it
NoDates == dates' = {} /\ cur' = None /\ today' = [d \in Days |-> 0]

ComplBegin ==
  /\ pc = "off"
  /\ pc' = "dates" /\ today' = age
  /\ dates' = IF month \/ year THEN {} ELSE {d \in Days : Still(d)}
  /\ UNCHANGED <<age, stamps, files, procDates, cur, crashes, history>>

\* state, once the first stage left stamp1
Stage(d) ==
  IF today[d] >= 2 THEN IF d \in stamp1 THEN 2 ELSE 1 ELSE today[d]

Waits(d) == d \in notcomplete /\ d \in recent

\* stats are processed finally only past twice completeday2
KeepOpen(d) == Stage(d) = 2 /\ d \in StatDays /\ today[d] < 3

Check(d) ==
  /\ pc = "dates" /\ d \in dates
  /\ dates' = dates \ {d} /\ today' = [today EXCEPT ![d] = 0]
  /\ notcomplete' = IF Waits(d) THEN notcomplete ELSE notcomplete \ {d}
  /\ \/ /\ Waits(d) \/ KeepOpen(d) \/ Stage(d) = 0
        /\ UNCHANGED <<pc, cur>>
     \/ /\ ~(Waits(d) \/ KeepOpen(d)) /\ Stage(d) # 0
        /\ pc' = (IF Stage(d) = 1 THEN "one" ELSE "final") /\ cur' = d
  /\ UNCHANGED <<age, complete, stamp1, month, year, files, procDates,
                 crashes, history>>

\* the exit file or no space: the other dates are left for another run
Break ==
  /\ pc = "dates" /\ dates # {} /\ dates' = {}
  /\ UNCHANGED <<age, stamps, files, procDates, pc, cur, today, crashes, history>>

InInput(f) == Day[f] = cur /\ where[f] \in {"input", "saved"}
RemoveInput(F) ==
  /\ where' = [f \in Files |-> IF f \in F THEN "removed" ELSE where[f]]
  /\ old' = old \ F

\* state 1: old input goes, but not the first time; stats are put together
StageOne ==
  /\ pc = "one"
  /\ RemoveInput(IF cur \in complete THEN {f \in old : InInput(f)} ELSE {})
  /\ recent' \in {recent, recent \cup ({cur} \cap StatDays)}
  /\ pc' = "stamp"
  /\ UNCHANGED <<age, stamps, procDates, dates, cur, today, crashes, history>>

\* touch complete.stamp complete.stamp1, one after the other
Touch ==
  /\ pc = "stamp" /\ pc' = "stamp1"
  /\ complete' = complete \cup {cur}
  /\ UNCHANGED <<age, stamp1, notcomplete, month, year, files, procDates, dates,
                 cur, today, crashes, history>>
\* mutant: complete.stamp1 is not touched
TouchOnce ==
  /\ pc = "stamp1" /\ pc' = "dates" /\ cur' = None
  /\ UNCHANGED <<age, stamps, files, procDates, dates, today, crashes, history>>
Touch1 ==
  /\ pc = "stamp1" /\ pc' = "dates" /\ cur' = None
  /\ stamp1' = stamp1 \cup {cur}
  /\ half' = half \ {cur}
  /\ UNCHANGED <<age, complete, notcomplete, month, year, files, procDates, dates,
                 today, crashes, processed, missed>>

\* state 2: the last processing, then all of the input, then complete.stamp1
FinalRun ==
  /\ pc = "final" /\ pc' = "input"
  /\ processed' = processed \cup {cur} /\ recent' = recent \cup {cur}
  /\ UNCHANGED <<age, stamps, where, old, procDates, dates, cur, today, crashes,
                 half, missed>>

FinalInput ==
  /\ pc = "input" /\ pc' = "unstamp"
  /\ RemoveInput({f \in Files : InInput(f)})
  /\ UNCHANGED <<age, stamps, recent, procDates, dates, cur, today,
                 crashes, history>>

Unstamp ==
  /\ pc = "unstamp" /\ pc' = "dates" /\ cur' = None
  /\ stamp1' = stamp1 \ {cur}
  /\ UNCHANGED <<age, complete, notcomplete, month, year, files, procDates,
                 dates, today, crashes, history>>

AllFinal == \A d \in Days : Final(d)

\* monthdone and yeardone; the year waits for the run after its last month
DatesEnd ==
  /\ pc = "dates" /\ dates = {}
  /\ pc' = IF year THEN "off" ELSE IF month THEN "year"
           ELSE IF AllFinal THEN "month" ELSE "off"
  /\ NoDates
  /\ UNCHANGED <<age, stamps, files, procDates, crashes, history>>

\* after the monthly or yearly processing
CloseMonth ==
  /\ pc = "month" /\ pc' = "off" /\ month' = TRUE
  /\ UNCHANGED <<age, complete, stamp1, notcomplete, year, files, procDates,
                 dates, cur, today, crashes, history>>
CloseYear ==
  /\ pc = "year" /\ pc' = "off" /\ year' = TRUE
  /\ UNCHANGED <<age, complete, stamp1, notcomplete, month, files, procDates,
                 dates, cur, today, crashes, history>>

Crash ==
  /\ pc # "off" /\ crashes < MaxCrashes
  /\ pc' = "off" /\ crashes' = crashes + 1
  /\ half' = IF pc = "stamp1" THEN half \cup ({cur} \cap (complete \ stamp1)) ELSE half
  /\ NoDates
  /\ UNCHANGED <<age, stamps, files, procDates, processed, missed>>

Compl ==
  \/ ComplBegin \/ StageOne \/ Touch \/ Touch1 \/ FinalRun \/ FinalInput \/ Unstamp
  \/ Break \/ DatesEnd \/ CloseMonth \/ CloseYear
  \/ \E d \in Days : Check(d)

Next ==
  \/ \E d \in Days : Age(d) \/ Quiet(d)
  \/ \E f \in Files : \/ GetOld(f) \/ Take(f) \/ Place(f) \/ Process(f)
                     \/ Reopen(f) \/ Undo(f) \/ Cut(f)
  \/ ProcBegin \/ ProcEnd \/ Compl \/ Crash

Spec == Init /\ [][Next]_vars

\* Time passes; the incoming and the completion script are started again and
\* again and run to their end, and not every completion run is broken off before
\* the same date.
FairSpec ==
  /\ Spec /\ WF_vars(Compl) /\ WF_vars(\E d \in Days : Age(d))
  /\ \A d \in Days : WF_vars(Quiet(d)) /\ SF_vars(Check(d))
  /\ \A f \in Files : WF_vars(Undo(f) \/ Place(f))

---------------------------------------------------------------------------
(* Properties *)

\* Every variable keeps its type.
TypeOK ==
  /\ age \in Ages /\ today \in Ages
  /\ complete \subseteq Days /\ stamp1 \subseteq Days /\ notcomplete \subseteq Days
  /\ month \in BOOLEAN /\ year \in BOOLEAN
  /\ where \in [Files -> {"incoming", "both", "one", "stamp1", "month", "year", "test",
                          "taken", "input", "saved", "removed"}]
  /\ old \subseteq {f \in Files : where[f] \in {"input", "saved"}}
  /\ recent \subseteq Days /\ procDates \subseteq Days /\ dates \subseteq Days
  /\ pc \in {"off", "dates", "one", "stamp", "stamp1", "final", "input", "unstamp",
             "month", "year"}
  /\ cur \in Days \cup {None} /\ crashes \in 0..MaxCrashes
  /\ processed \subseteq Days /\ half \subseteq Days /\ missed \subseteq Days

\* A date that is closed for good was finally processed since a late file last
\* opened it: however the completion script and late files interleave. It looks
\* closed too early between the two files of one touch. It stays so, unprocessed,
\* only if the completion script is killed there, or if both stamps are made again
\* between the two of one rm.
FinalIsProcessed ==
  \A d \in Days : Final(d) => d \in processed \/ d \in half \/ (pc = "stamp1" /\ cur = d)

\* f has opened its date and has yet to open its month, or its year
OpensMonth(f) == where[f] \in {"stamp1", "month"}
OpensYear(f) == where[f] = "year"

\* A closed month has only dates that are closed for good, a closed year only
\* closed months: nobody looks into them again. It fails for a date that a late
\* file is opening; and for good only if the incoming script is killed before it
\* has opened the month too, or if it does so while that month is being processed,
\* which then closes over the open date.
MonthIsFinal ==
  /\ month => \A d \in Days : \/ Final(d) \/ d \in missed
                              \/ \E f \in Files : Day[f] = d /\ OpensMonth(f)
  /\ year => month \/ missed # {} \/ \E f \in Files : OpensYear(f)

\* Once no more files come, every date, its month and its year are closed for
\* good, whatever was opened again or killed before, unless one was missed so.
NoneComes == \A f \in Files : where[f] \in {"incoming", "input", "saved", "removed"}
EveryDateCloses ==
  <>[]NoneComes => <>[]((AllFinal /\ month /\ year) \/ missed # {})
=============================================================================
