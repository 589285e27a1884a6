--------------------------- MODULE DateLifeProofs ---------------------------
(***************************************************************************)
(* For any dates, files, ages and number of kills: every variable of       *)
(* DateLife keeps its type, a date that is closed for good was finally     *)
(* processed, and a closed month holds only such dates, but for the cases  *)
(* the two properties name.                                                *)
(***************************************************************************)
EXTENDS DateLife, TLAPS

\* The completion script is at work in the date cur
AtWork == pc \in {"one", "stamp", "stamp1", "final", "input", "unstamp"}
Wheres == {"incoming", "both", "one", "stamp1", "month", "year", "test",
           "taken", "input", "saved", "removed"}
TypeInv == TypeOK /\ (AtWork => cur \in Days)

LEMMA InitType == Init => TypeInv
<1> SUFFICES ASSUME Init PROVE TypeInv
  OBVIOUS
<1> USE DayAssumption, BoundAssumption DEF Init, Wheres
<1>1. age \in Ages /\ today \in Ages
  BY DEF Ages
<1>2. where \in [Files -> Wheres]
  OBVIOUS
<1>3. crashes \in 0..MaxCrashes /\ ~AtWork
  BY DEF AtWork
<1>4. complete \subseteq Days /\ stamp1 \subseteq Days /\ notcomplete \subseteq Days
  OBVIOUS
<1> QED BY <1>1, <1>2, <1>3, <1>4 DEF TypeInv, TypeOK

LEMMA NextType == TypeInv /\ [Next]_vars => TypeInv'
<1> SUFFICES ASSUME TypeInv, [Next]_vars PROVE TypeInv'
  OBVIOUS
<1> USE DayAssumption, AgeAssumption, BoundAssumption DEF TypeInv, AtWork, TypeOK, stamps, files, compl, history, Ages, Step
<1>1. CASE UNCHANGED vars
  BY <1>1 DEF vars
<1>2. ASSUME NEW d \in Days, Age(d) PROVE TypeInv'
  <2>1. age[d] + 1 \in 0..3
    BY <1>2 DEF Age
  <2> QED BY <1>2, <2>1 DEF Age
<1>3. ASSUME NEW d \in Days, Quiet(d) PROVE TypeInv'
  BY <1>3 DEF Quiet
<1>4. ASSUME NEW f \in Files, GetOld(f) PROVE TypeInv'
  BY <1>4 DEF GetOld
<1>5. ASSUME NEW f \in Files, Take(f) \/ Reopen(f) \/ Undo(f) \/ Cut(f) PROVE TypeInv'
  <2>1. Day[f] \in Days
    OBVIOUS
  <2>2. CASE Take(f)
    BY <2>2 DEF Take
  <2>3. CASE Reopen(f)
    BY <2>1, <2>3 DEF Reopen
  <2>4. CASE RmComplete(f)
    BY <2>1, <2>4 DEF RmComplete
  <2>5. CASE RmStamp1(f)
    BY <2>1, <2>5 DEF RmStamp1
  <2>6. CASE RmMonth(f)
    BY <2>1, <2>6 DEF RmMonth
  <2>7. CASE RmYear(f)
    BY <2>1, <2>7 DEF RmYear
  <2>8. CASE Test(f)
    BY <2>8 DEF Test
  <2>9. CASE Cut(f)
    <3>1. crashes' \in 0..MaxCrashes
      BY <2>9 DEF Cut
    <3>2. missed' \subseteq Days
      BY <2>1, <2>9 DEF Cut
    <3> QED BY <2>9, <3>1, <3>2 DEF Cut
  <2> QED BY <1>5, <2>2, <2>3, <2>4, <2>5, <2>6, <2>7, <2>8, <2>9 DEF Undo
<1>6. ASSUME NEW f \in Files, Place(f) PROVE TypeInv'
  BY <1>6 DEF Place
<1>7. ASSUME NEW f \in Files, Process(f) PROVE TypeInv'
  BY <1>7 DEF Process
<1>8. CASE ProcBegin
  BY <1>8 DEF ProcBegin
<1>9. CASE ProcEnd
  BY <1>9 DEF ProcEnd
<1>10. CASE Compl
  <2>1. CASE ComplBegin
    BY <2>1 DEF ComplBegin
  <2>2. ASSUME NEW d \in Days, Check(d) PROVE TypeInv'
    BY <2>2 DEF Check
  <2>3. CASE StageOne
    BY <2>3 DEF StageOne, RemoveInput, InInput
  <2>4. CASE Touch \/ Touch1
    BY <2>4 DEF Touch, Touch1
  <2>5. CASE FinalRun
    BY <2>5 DEF FinalRun
  <2>6. CASE FinalInput
    BY <2>6 DEF FinalInput, RemoveInput, InInput
  <2>7. CASE Unstamp
    BY <2>7 DEF Unstamp
  <2>8. CASE DatesEnd \/ Break
    <3>1. CASE DatesEnd
      <4>1. pc' \in {"off", "year", "month"}
        BY <3>1 DEF DatesEnd
      <4>2. dates' = {} /\ cur' = None /\ today' \in [Days -> 0..3]
        BY <3>1 DEF DatesEnd, NoDates
      <4> QED BY <3>1, <4>1, <4>2 DEF DatesEnd
    <3>2. CASE Break
      BY <3>2 DEF Break
    <3> QED BY <2>8, <3>1, <3>2
  <2>9. CASE CloseMonth \/ CloseYear
    BY <2>9 DEF CloseMonth, CloseYear
  <2> QED BY <1>10, <2>1, <2>2, <2>3, <2>4, <2>5, <2>6, <2>7, <2>8, <2>9 DEF Compl
<1>11. CASE Crash
  BY <1>11 DEF Crash, NoDates
<1> QED
  BY <1>1, <1>2, <1>3, <1>4, <1>5, <1>6, <1>7, <1>8, <1>9, <1>10, <1>11 DEF Next

\* Every variable of the life cycle keeps its type.
THEOREM TypeCorrect == Spec => []TypeOK
<1>1. Spec => []TypeInv
  BY InitType, NextType, PTL DEF Spec
<1>2. TypeInv => TypeOK
  BY DEF TypeInv
<1> QED BY <1>1, <1>2, PTL

---------------------------------------------------------------------------
(* A date closed for good was finally processed *)

\* After the last processing the date may have been opened again; if not, it is
\* in processed
FinalInv ==
  /\ FinalIsProcessed
  /\ pc \in {"input", "unstamp"} /\ cur \in complete => cur \in processed

LEMMA NextFinal == TypeInv /\ FinalInv /\ [Next]_vars => FinalInv'
<1> SUFFICES ASSUME TypeInv, FinalInv, [Next]_vars PROVE FinalInv'
  OBVIOUS
<1> USE DEF FinalInv, FinalIsProcessed, Final, stamps, files, compl, history
<1>1. CASE UNCHANGED vars
  BY <1>1 DEF vars
<1>2. ASSUME NEW d \in Days, Age(d) \/ Quiet(d) PROVE FinalInv'
  BY <1>2 DEF Age, Quiet
<1>3. ASSUME NEW f \in Files, GetOld(f) \/ Place(f) \/ Process(f) \/ Take(f) \/ Reopen(f)
      PROVE FinalInv'
  BY <1>3 DEF GetOld, Place, Process, Take, Reopen
<1>4. ASSUME NEW f \in Files, Undo(f) \/ Cut(f) PROVE FinalInv'
  \* a date that rm leaves with complete.stamp only is in half
  <2>1. CASE RmComplete(f)
    BY <2>1 DEF RmComplete
  <2>2. CASE RmStamp1(f)
    BY <2>2 DEF RmStamp1
  <2>3. CASE RmMonth(f) \/ RmYear(f) \/ Test(f) \/ Cut(f)
    BY <2>3 DEF RmMonth, RmYear, Test, Cut
  <2> QED BY <1>4, <2>1, <2>2, <2>3 DEF Undo
<1>5. CASE ProcBegin \/ ProcEnd
  BY <1>5 DEF ProcBegin, ProcEnd
<1>6. CASE Compl
  <2>1. CASE ComplBegin
    BY <2>1 DEF ComplBegin
  <2>2. ASSUME NEW d \in Days, Check(d) PROVE FinalInv'
    BY <2>2 DEF Check
  <2>3. CASE StageOne \/ FinalInput
    BY <2>3 DEF StageOne, FinalInput
  <2>4. CASE Touch \/ Touch1
    BY <2>4 DEF Touch, Touch1
  <2>5. CASE FinalRun
    BY <2>5 DEF FinalRun
  <2>6. CASE Unstamp
    BY <2>6 DEF Unstamp
  <2>7. CASE DatesEnd \/ Break
    BY <2>7 DEF DatesEnd, Break
  <2>8. CASE CloseMonth \/ CloseYear
    BY <2>8 DEF CloseMonth, CloseYear
  <2> QED BY <1>6, <2>1, <2>2, <2>3, <2>4, <2>5, <2>6, <2>7, <2>8 DEF Compl
<1>7. CASE Crash
  BY <1>7 DEF Crash
<1> QED BY <1>1, <1>2, <1>3, <1>4, <1>5, <1>6, <1>7 DEF Next

\* A date that is closed for good was finally processed since it was last
\* opened, however the scripts interleave and wherever they are killed, but for
\* the two cases of FinalIsProcessed.
THEOREM FinalIsProcessedHolds == Spec => []FinalIsProcessed
<1>1. Init => FinalInv
  BY DEF Init, FinalInv, FinalIsProcessed, Final
<1>2. FinalInv => FinalIsProcessed
  BY DEF FinalInv
<1> QED BY <1>1, <1>2, InitType, NextType, NextFinal, PTL DEF Spec

---------------------------------------------------------------------------
(* A closed month holds only dates that are closed for good *)

\* d is closed for good, was missed, or is being opened by a file that goes on to
\* open its month
Settled(d) ==
  Final(d) \/ d \in missed \/ \E f \in Files : Day[f] = d /\ OpensMonth(f)
YearOpens == missed # {} \/ \E f \in Files : OpensYear(f)

\* While the script has dates to look at, neither month nor year is closed; when
\* it processes a month, its dates are what they must be once it is closed
MonthInv ==
  /\ month => \A d \in Days : Settled(d)
  /\ year => month \/ YearOpens
  /\ AtWork \/ (pc = "dates" /\ dates # {}) => ~month /\ ~year
  /\ pc = "month" => \A d \in Days : Settled(d)
  /\ pc = "year" => month \/ YearOpens

\* What is settled stays so while its stamps stay, files go on, dates are missed.
LEMMA StaysSettled ==
  ASSUME UNCHANGED <<complete, stamp1>>, missed \subseteq missed',
         \A f \in Files : OpensMonth(f) => OpensMonth(f)'
  PROVE \A d \in Days : Settled(d) => Settled(d)'
BY DEF Settled, Final

LEMMA NextMonth == TypeInv /\ MonthInv /\ [Next]_vars => MonthInv'
<1> SUFFICES ASSUME TypeInv, MonthInv, [Next]_vars PROVE MonthInv'
  OBVIOUS
<1> USE DEF MonthInv, AtWork, stamps, files, compl, history
\* Steps that leave stamps, missed and the opening files alone
<1>0. ASSUME UNCHANGED <<complete, stamp1, month, year, missed>>,
             \A f \in Files : /\ OpensMonth(f) => OpensMonth(f)'
                              /\ OpensYear(f) => OpensYear(f)'
      PROVE /\ \A d \in Days : Settled(d) => Settled(d)'
            /\ YearOpens => YearOpens'
  BY <1>0 DEF Settled, YearOpens, Final
<1>1. CASE UNCHANGED vars
  BY <1>1 DEF vars, Settled, YearOpens, Final, OpensMonth, OpensYear
<1>2. ASSUME NEW d \in Days, Age(d) \/ Quiet(d) PROVE MonthInv'
  BY <1>0, <1>2 DEF Age, Quiet, OpensMonth, OpensYear
<1>3. ASSUME NEW f \in Files,
             \/ GetOld(f) \/ Place(f) \/ Process(f) \/ Take(f) \/ Reopen(f) \/ Test(f)
      PROVE MonthInv'
  <2>1. \A g \in Files : (OpensMonth(g) => OpensMonth(g)') /\ (OpensYear(g) => OpensYear(g)')
    BY <1>3 DEF GetOld, Place, Process, Take, Reopen, Test, Step, OpensMonth, OpensYear, TypeInv, TypeOK
  <2>2. UNCHANGED <<complete, stamp1, month, year, missed, pc, dates>>
    BY <1>3 DEF GetOld, Place, Process, Take, Reopen, Test
  <2> QED BY <1>0, <2>1, <2>2
<1>4. ASSUME NEW f \in Files, Undo(f) \/ Cut(f) PROVE MonthInv'
  <2> USE DEF TypeInv, TypeOK
  <2>0. \A g \in Files : g # f => where'[g] = where[g]
    BY <1>4 DEF Undo, Cut, RmComplete, RmStamp1, RmMonth, RmYear, Test, Step
  <2>1. CASE RmComplete(f) \/ RmStamp1(f)
    <3>1. OpensMonth(f)'
      BY <2>1 DEF RmComplete, RmStamp1, Step, OpensMonth
    <3>2. \A g \in Files : (OpensMonth(g) => OpensMonth(g)') /\ (OpensYear(g) => OpensYear(g)')
      BY <2>0, <2>1, <3>1 DEF RmComplete, RmStamp1, OpensMonth, OpensYear
    <3>3. \A d \in Days : d # Day[f] => (Final(d) <=> Final(d)')
      BY <2>1 DEF RmComplete, RmStamp1, Final
    <3>4. UNCHANGED <<month, year, missed, pc, dates>>
      BY <2>1 DEF RmComplete, RmStamp1
    <3>5. (\A d \in Days : Settled(d) => Settled(d)') /\ (YearOpens => YearOpens')
      BY <3>1, <3>2, <3>3, <3>4 DEF Settled, YearOpens
    <3> QED BY <3>4, <3>5
  <2>2. CASE RmMonth(f)
    <3>1. OpensYear(f)' /\ YearOpens'
      BY <2>2 DEF RmMonth, Step, OpensYear, YearOpens
    <3>2. ~month' /\ UNCHANGED <<complete, stamp1, year, pc, dates>>
      BY <2>2 DEF RmMonth
    <3>3. ASSUME pc = "month" PROVE \A d \in Days : Settled(d)'
      <4>1. missed' = missed \cup {Day[f]}
        BY <2>2, <3>3 DEF RmMonth
      <4>2. \A g \in Files : g # f /\ OpensMonth(g) => OpensMonth(g)'
        BY <2>0 DEF OpensMonth
      <4> QED BY <3>2, <3>3, <4>1, <4>2 DEF Settled, Final
    <3> QED BY <3>1, <3>2, <3>3
  <2>3. CASE RmYear(f)
    <3>1. ~year' /\ UNCHANGED <<complete, stamp1, month, pc, dates>> /\ missed \subseteq missed'
      BY <2>3 DEF RmYear
    <3>2. \A g \in Files : OpensMonth(g) => OpensMonth(g)'
      BY <2>0, <2>3 DEF RmYear, OpensMonth
    <3>3. \A d \in Days : Settled(d) => Settled(d)'
      BY <3>1, <3>2, StaysSettled
    <3>4. pc = "year" => YearOpens'
      BY <2>3 DEF RmYear, YearOpens
    <3> QED BY <3>1, <3>3, <3>4
  <2>4. CASE Test(f)
    BY <1>3, <2>4
  <2>5. CASE Cut(f)
    <3>1. UNCHANGED <<complete, stamp1, month, year, pc, dates>> /\ missed \subseteq missed'
      BY <2>5 DEF Cut
    <3>2. ASSUME month \/ pc = "month", NEW d \in Days PROVE Settled(d)'
      <4>1. Settled(d)
        BY <3>2
      <4>2. OpensMonth(f) => Day[f] \in missed'
        BY <2>5, <3>2 DEF Cut, OpensMonth
      <4>3. \A g \in Files : g # f /\ OpensMonth(g) => OpensMonth(g)'
        BY <2>0 DEF OpensMonth
      <4> QED BY <3>1, <4>1, <4>2, <4>3 DEF Settled, Final
    <3>3. ASSUME year \/ pc = "year" PROVE YearOpens => YearOpens'
      <4>1. OpensYear(f) => Day[f] \in missed'
        BY <2>5, <3>3 DEF Cut, OpensYear
      <4>2. \A g \in Files : g # f /\ OpensYear(g) => OpensYear(g)'
        BY <2>0 DEF OpensYear
      <4> QED BY <3>1, <4>1, <4>2 DEF YearOpens
    <3> QED BY <3>1, <3>2, <3>3
  <2> QED BY <1>4, <2>1, <2>2, <2>3, <2>4, <2>5 DEF Undo
<1>5. CASE ProcBegin \/ ProcEnd
  BY <1>0, <1>5 DEF ProcBegin, ProcEnd, OpensMonth, OpensYear
<1>6. CASE Compl
  <2>1. CASE ComplBegin
    BY <1>0, <2>1 DEF ComplBegin, OpensMonth, OpensYear
  <2>2. ASSUME NEW d \in Days, Check(d) PROVE MonthInv'
    <3>1. ~month /\ ~year /\ UNCHANGED <<month, year>>
      BY <2>2 DEF Check
    <3>2. pc' \in {"dates", "one", "final"}
      BY <2>2 DEF Check
    <3> QED BY <3>1, <3>2
  <2>3. CASE StageOne \/ FinalInput \/ FinalRun
    BY <2>3 DEF StageOne, FinalInput, FinalRun
  <2>4. CASE Touch \/ Touch1 \/ Unstamp
    BY <2>4 DEF Touch, Touch1, Unstamp
  <2>5. CASE DatesEnd
    <3>1. UNCHANGED <<complete, stamp1, month, year, missed, where>> /\ dates' = {}
      BY <2>5 DEF DatesEnd, NoDates
    <3>2. pc' = IF year THEN "off" ELSE IF month THEN "year"
                ELSE IF AllFinal THEN "month" ELSE "off"
      BY <2>5 DEF DatesEnd
    <3>3. AllFinal => \A d \in Days : Settled(d)
      BY DEF AllFinal, Settled
    <3>4. (\A d \in Days : Settled(d) => Settled(d)') /\ (YearOpens => YearOpens')
      BY <1>0, <3>1 DEF OpensMonth, OpensYear
    <3> QED BY <3>1, <3>2, <3>3, <3>4
  <2>6. CASE CloseMonth \/ CloseYear
    <3>1. UNCHANGED <<complete, stamp1, missed, where>> /\ pc' = "off"
      BY <2>6 DEF CloseMonth, CloseYear
    <3>2. (\A d \in Days : Settled(d) => Settled(d)') /\ (YearOpens => YearOpens')
      BY <3>1 DEF Settled, YearOpens, Final, OpensMonth, OpensYear
    <3> QED BY <2>6, <3>1, <3>2 DEF CloseMonth, CloseYear
  <2>7. CASE Break
    BY <1>0, <2>7 DEF Break, OpensMonth, OpensYear
  <2> QED BY <1>6, <2>1, <2>2, <2>3, <2>4, <2>5, <2>6, <2>7 DEF Compl
<1>7. CASE Crash
  BY <1>0, <1>7 DEF Crash, NoDates, OpensMonth, OpensYear
<1> QED BY <1>1, <1>2, <1>3, <1>4, <1>5, <1>6, <1>7 DEF Next

\* A closed month has only dates closed for good and a closed year only closed
\* months, whenever late files come and wherever the scripts are killed, but for
\* the cases of MonthIsFinal.
THEOREM MonthIsFinalHolds == Spec => []MonthIsFinal
<1>1. Init => MonthInv
  BY DEF Init, MonthInv, AtWork
<1>2. MonthInv => MonthIsFinal
  BY DEF MonthInv, MonthIsFinal, Settled, YearOpens
<1> QED BY <1>1, <1>2, InitType, NextType, NextMonth, PTL DEF Spec
=============================================================================
