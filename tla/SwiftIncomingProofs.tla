------------------------- MODULE SwiftIncomingProofs -------------------------
(***************************************************************************)
(* For any files, settings, and number of movers, failures and kills:      *)
(* every variable of SwiftIncoming keeps its type; a run that ends by      *)
(* itself leaves tmp1 empty; no file is lost but by a failure, or by a     *)
(* wipe after a kill; only whole files are moved; a file enters its input  *)
(* directory once, or in a feed without records once for each time its     *)
(* source is kept or its status swept; and ingestion implements Delivery.  *)
(***************************************************************************)
EXTENDS SwiftIncoming, TLAPS

(* The actions, grouped by what they change *)

Transfer == pc \in {"failures", "moves", "movewait"}
\* steps of the script that only move on
Control ==
  \/ Start \/ RemoveStaleLock \/ RecoverEnd \/ ListDone \/ MoveWait \/ TransferEnd
  \/ WipeTmp1End \/ Prepared \/ CopyWait \/ RoundTransfer \/ RoundEnd \/ ListingEnd
  \/ FinalTransfer \/ Finish
\* steps of the script that look at one file
Handle(f) ==
  \/ Recover(f) \/ GiveUp(f) \/ SpawnMover(f) \/ WipeTmp1(f) \/ WipeStat(f)
  \/ WipeTmp2(f) \/ AlreadyRecorded(f) \/ Skip(f) \/ SpawnCopier(f)
MoverStep(f, m) ==
  \/ MoveToTmp2(f, m) \/ MoveRecord(f, m) \/ MoveToInput(f, m)
  \/ MoveRemoveSource(f, m) \/ MoveRemoveStat(f, m)

LEMMA NextSplit ==
  ASSUME [Next]_vars
  PROVE  \/ UNCHANGED vars \/ Control \/ Kill \/ Crash
         \/ \E f \in Files : \/ Handle(f) \/ Copier(f)
                             \/ \E m \in Movers : MoverStep(f, m)
BY DEF Next, Script, Control, Handle, Mover, MoverStep

LEMMA ControlKeeps ==
  ASSUME Control
  PROVE  /\ UNCHANGED <<gvars, disk, copier, mover, history>>
         /\ mine' = mine \/ (mine' = {} /\ pc' = "stopped")
<1> USE DEF jobs
<1>1. CASE Prepared \/ Finish
  BY <1>1 DEF Prepared, Finish, Stop, Halt
<1>2. CASE ~(Prepared \/ Finish)
  BY <1>2 DEF Control, Start, RemoveStaleLock, RecoverEnd, ListDone, MoveWait, TransferEnd,
       WipeTmp1End, CopyWait, RoundTransfer, RoundEnd, ListingEnd,
       FinalTransfer, CompleteTransfer
<1> QED
  BY <1>1, <1>2

---------------------------------------------------------------------------
(* Types *)

LEMMA TypeControl == ASSUME TypeOK, Control PROVE TypeOK'
<1>0. /\ UNCHANGED <<gvars, disk, copier, mover, history>>
      /\ mine' \subseteq mine
  BY ControlKeeps
<1> USE <1>0, ParamsAssumption DEF TypeOK, disk, jobs, history
<1>1. CASE Start \/ RemoveStaleLock \/ ListDone \/ MoveWait \/ WipeTmp1End
  BY <1>1 DEF Start, RemoveStaleLock, ListDone, MoveWait, WipeTmp1End
<1>2. CASE RecoverEnd \/ RoundTransfer \/ FinalTransfer
  BY <1>2 DEF RecoverEnd, RoundTransfer, FinalTransfer, CompleteTransfer
<1>3. CASE TransferEnd
  <2>1. pc' \in {"wipe1", "roundend", "endwait"} /\ todo' \subseteq Files
    BY <1>3 DEF TransferEnd
  <2> QED
    BY <1>3, <2>1 DEF TransferEnd
<1>4. CASE Prepared
  <2>1. /\ pc' \in {"stopped", "ingest"} /\ listing' \subseteq Files /\ todo' \subseteq Files
        /\ par' \in Nat /\ round' \in Nat /\ caller' \in {"start", "round", "end"}
    BY <1>4 DEF Prepared, Stop, Halt
  <2>2. lock' \in BOOLEAN
    BY <1>4, Zenon DEF Prepared, Stop
  <2> QED
    BY <1>4, <2>1, <2>2 DEF Prepared
<1>5. CASE CopyWait \/ RoundEnd \/ ListingEnd
  BY <1>5 DEF CopyWait, RoundEnd, ListingEnd
<1>6. CASE Finish
  BY <1>6 DEF Finish, Stop, Halt
<1> QED
  BY <1>1, <1>2, <1>3, <1>4, <1>5, <1>6 DEF Control

LEMMA TypeBefalls ==
  ASSUME TypeOK, NEW f \in Files, NEW m \in {"refused", "unmoved", "swept", "kept"},
         Befalls(f, m) \/ UNCHANGED mishaps
  PROVE  mishaps' \in [Files -> SUBSET {"refused", "unmoved", "swept", "kept"}]
BY DEF TypeOK, Befalls

LEMMA TypeHandle == ASSUME TypeOK, NEW f \in Files, Handle(f) PROVE TypeOK'
<1> USE DEF TypeOK, disk, jobs, history, script
<1>1. CASE Recover(f)
  <2>1. record' \in [Files -> BOOLEAN]
    BY <1>1 DEF Recover, Recorded
  <2>2. delivered' \in [Files -> 0..2] /\ failures' \in Nat
    BY <1>1 DEF Recover, CountDelivery, NotMoved, Fails
  <2>3. mishaps' \in [Files -> SUBSET {"refused", "unmoved", "swept", "kept"}]
    BY <1>1, TypeBefalls DEF Recover, NotMoved
  <2> QED
    BY <1>1, <2>1, <2>2, <2>3 DEF Recover
<1>2. CASE GiveUp(f)
  <2>1. record' \in [Files -> BOOLEAN] /\ src' \in [Files -> BOOLEAN]
    BY <1>2 DEF GiveUp, Recorded, RemoveSource
  <2>2. stat' \in [Files -> StatKinds]
    BY <1>2 DEF GiveUp, StatKinds
  <2> QED
    BY <1>2, <2>1, <2>2 DEF GiveUp
<1>3. CASE SpawnMover(f)
  <2>1. PICK m \in Movers : /\ mover' = [mover EXCEPT ![f][m] = "mv1"]
                            /\ mine' = mine \cup {<<f, m>>}
    BY <1>3 DEF SpawnMover
  <2>2. /\ mover' \in [Files -> [Movers -> {"none", "mv1", "record", "mv2", "rmsrc", "rmstat"}]]
        /\ mover'[f][m] = "mv1"
        /\ \A g \in Files, n \in Movers : <<g, n>> # <<f, m>> => mover'[g][n] = mover[g][n]
    BY <2>1
  <2>3. mine' \subseteq {j \in Files \X Movers : mover'[j[1]][j[2]] # "none"}
    BY <2>1, <2>2
  <2> QED
    BY <1>3, <2>2, <2>3 DEF SpawnMover
<1>4. CASE WipeTmp1(f) \/ WipeTmp2(f)
  <2>1. mishaps' \in [Files -> SUBSET {"refused", "unmoved", "swept", "kept"}]
    BY <1>4, TypeBefalls DEF WipeTmp1, WipeTmp2, Sweeps
  <2> QED
    BY <1>4, <2>1 DEF WipeTmp1, WipeTmp2
<1>5. CASE WipeStat(f)
  <2>1. stat' \in [Files -> StatKinds]
    BY <1>5 DEF WipeStat, StatKinds
  <2>2. mishaps' \in [Files -> SUBSET {"refused", "unmoved", "swept", "kept"}]
    BY <1>5, TypeBefalls DEF WipeStat, Sweeps
  <2> QED
    BY <1>5, <2>1, <2>2 DEF WipeStat
<1>6. CASE AlreadyRecorded(f) \/ Skip(f)
  BY <1>6 DEF AlreadyRecorded, Skip
<1>7. CASE SpawnCopier(f)
  BY <1>7 DEF SpawnCopier
<1> QED
  BY <1>1, <1>2, <1>3, <1>4, <1>5, <1>6, <1>7 DEF Handle

LEMMA TypeCopier == ASSUME TypeOK, NEW f \in Files, Copier(f) PROVE TypeOK'
<1> USE DEF TypeOK, disk, jobs, history, script
<1>1. CASE CheckUse(f)
  <2>1. mishaps' \in [Files -> SUBSET {"refused", "unmoved", "swept", "kept"}]
    BY <1>1, TypeBefalls DEF CheckUse
  <2> QED
    BY <1>1, <2>1 DEF CheckUse
<1>2. CASE Copied(f)
  <2>1. mishaps' \in [Files -> SUBSET {"refused", "unmoved", "swept", "kept"}]
    BY <1>2, TypeBefalls DEF Copied
  <2>2. tmp1' \in [Files -> {"none", "part", "full"}]
    BY <1>2 DEF Copied, Whole
  <2>3. failures' \in Nat
    BY <1>2 DEF Copied, Fails
  <2> QED
    BY <1>2, <2>1, <2>2, <2>3 DEF Copied
<1>3. CASE CreateStat(f) \/ WriteStat(f)
  <2>1. stat' \in [Files -> StatKinds]
    BY <1>3 DEF CreateStat, WriteStat, StatKinds
  <2> QED
    BY <1>3, <2>1 DEF CreateStat, WriteStat
<1> QED
  BY <1>1, <1>2, <1>3 DEF Copier

\* One mover goes on to its next stage, or ends.
LEMMA TypeGoes ==
  ASSUME TypeOK, NEW f \in Files, NEW m \in Movers,
         NEW s \in {"none", "mv1", "record", "mv2", "rmsrc", "rmstat"}, Goes(f, m, s)
  PROVE  /\ mover' \in [Files -> [Movers -> {"none", "mv1", "record", "mv2", "rmsrc", "rmstat"}]]
         /\ mover'[f][m] = s
         /\ \A g \in Files, n \in Movers : <<g, n>> # <<f, m>> => mover'[g][n] = mover[g][n]
<1>1. mover \in [Files -> [Movers -> {"none", "mv1", "record", "mv2", "rmsrc", "rmstat"}]]
  BY DEF TypeOK
<1>2. mover' = [mover EXCEPT ![f][m] = s]
  BY DEF Goes
<1> QED
  BY <1>1, <1>2

LEMMA TypeMover ==
  ASSUME TypeOK, NEW f \in Files, NEW m \in Movers, MoverStep(f, m) PROVE TypeOK'
<1>1. PICK s \in {"none", "mv1", "record", "mv2", "rmsrc", "rmstat"} :
        Goes(f, m, s) /\ (s # "none" \/ MoveRemoveStat(f, m))
  BY DEF MoverStep, MoveToTmp2, MoveRecord, MoveToInput, MoveRemoveSource, MoveRemoveStat
<1>2. /\ mover' \in [Files -> [Movers -> {"none", "mv1", "record", "mv2", "rmsrc", "rmstat"}]]
      /\ mover'[f][m] = s
      /\ \A g \in Files, n \in Movers : <<g, n>> # <<f, m>> => mover'[g][n] = mover[g][n]
  BY <1>1, TypeGoes
<1>3. mine' \subseteq {j \in Files \X Movers : mover'[j[1]][j[2]] # "none"}
  <2>1. mine' \subseteq mine /\ (s # "none" \/ <<f, m>> \notin mine')
    BY <1>1 DEF MoverStep, MoveToTmp2, MoveRecord, MoveToInput, MoveRemoveSource, MoveRemoveStat
  <2>2. mine \subseteq {j \in Files \X Movers : mover[j[1]][j[2]] # "none"}
    BY DEF TypeOK
  <2> SUFFICES ASSUME NEW j \in mine'
               PROVE  j \in Files \X Movers /\ mover'[j[1]][j[2]] # "none"
    OBVIOUS
  <2>3. PICK g \in Files, n \in Movers : j = <<g, n>>
    BY <2>1, <2>2
  <2>4. mover[g][n] # "none"
    BY <2>1, <2>2, <2>3
  <2> QED
    BY <1>2, <2>1, <2>3, <2>4
<1>4. mishaps' \in [Files -> SUBSET {"refused", "unmoved", "swept", "kept"}]
  BY TypeBefalls
     DEF MoverStep, MoveToTmp2, MoveRecord, MoveToInput, MoveRemoveSource, MoveRemoveStat,
         Deliver, NotMoved, history
<1>5. failures' \in Nat
  <2>1. failures \in Nat
    BY DEF TypeOK
  <2> QED
    BY <2>1
       DEF MoverStep, MoveToTmp2, MoveRecord, MoveToInput, MoveRemoveSource, MoveRemoveStat,
           Deliver, NotMoved, Fails, history
<1>6. delivered' \in [Files -> 0..2]
  <2>1. delivered \in [Files -> 0..2]
    BY DEF TypeOK
  <2>2. delivered' = delivered \/ CountDelivery(f)
    BY DEF MoverStep, MoveToTmp2, MoveRecord, MoveToInput, MoveRemoveSource, MoveRemoveStat,
           Deliver, NotMoved, history
  <2> QED
    BY <2>1, <2>2 DEF CountDelivery
<1>7. /\ src' \in [Files -> BOOLEAN] /\ tmp2' \in [Files -> BOOLEAN]
      /\ record' \in [Files -> BOOLEAN]
  BY DEF TypeOK, MoverStep, MoveToTmp2, MoveRecord, MoveToInput, MoveRemoveSource,
         MoveRemoveStat, Deliver, NotMoved, Recorded, RemoveSource, disk
<1>8. tmp1' \in [Files -> {"none", "part", "full"}] /\ stat' \in [Files -> StatKinds]
  BY DEF TypeOK, MoverStep, MoveToTmp2, MoveRecord, MoveToInput, MoveRemoveSource,
         MoveRemoveStat, StatKinds, disk
<1>9. UNCHANGED <<script, copier, crashes>>
  BY DEF MoverStep, MoveToTmp2, MoveRecord, MoveToInput, MoveRemoveSource, MoveRemoveStat,
         history
<1> QED
  BY <1>2, <1>3, <1>4, <1>5, <1>6, <1>7, <1>8, <1>9 DEF TypeOK, script

\* Every variable of the ingestion always has its type.
THEOREM TypeCorrect == Spec => []TypeOK
<1>1. Init => TypeOK
  <2> SUFFICES ASSUME Init PROVE TypeOK
    OBVIOUS
  <2>1. /\ tmp1 \in [Files -> {"none", "part", "full"}] /\ stat \in [Files -> StatKinds]
        /\ copier \in [Files -> {"none", "check", "cp", "done", "failed", "write"}]
        /\ mover \in [Files -> [Movers -> {"none", "mv1", "record", "mv2", "rmsrc", "rmstat"}]]
        /\ delivered \in [Files -> 0..2]
        /\ mishaps \in [Files -> SUBSET {"refused", "unmoved", "swept", "kept"}]
    BY DEF Init, StatKinds
  <2>2. src \in [Files -> BOOLEAN] /\ tmp2 \in [Files -> BOOLEAN]
        /\ record \in [Files -> BOOLEAN] /\ par \in Nat
    BY ParamsAssumption DEF Init
  <2> QED
    BY <2>1, <2>2, ParamsAssumption DEF Init, TypeOK
<1>2. TypeOK /\ [Next]_vars => TypeOK'
  <2> SUFFICES ASSUME TypeOK, [Next]_vars PROVE TypeOK'
    OBVIOUS
  <2>1. CASE UNCHANGED vars
    BY <2>1 DEF vars, script, disk, jobs, history, TypeOK
  <2>2. CASE Control
    BY <2>2, TypeControl
  <2>3. CASE Kill \/ Crash
    BY <2>3, ParamsAssumption DEF Kill, Crash, Halt, disk, jobs, TypeOK
  <2>4. ASSUME NEW f \in Files, Handle(f) \/ Copier(f) PROVE TypeOK'
    BY <2>4, TypeHandle, TypeCopier
  <2>5. ASSUME NEW f \in Files, NEW m \in Movers, MoverStep(f, m) PROVE TypeOK'
    BY <2>5, TypeMover
  <2> QED
    BY <2>1, <2>2, <2>3, <2>4, <2>5, NextSplit
<1> QED
  BY <1>1, <1>2, PTL DEF Spec
---------------------------------------------------------------------------
(* tmp1 is empty at the end *)

\* before the main loop
Early == pc \in {"recover", "wipe1", "wipe2"} \/ (caller = "start" /\ Transfer)
\* the last call of completetransfer, and after it
Last == caller = "end" \/ pc = "endwait"

\* Where the script is tells in which call of completetransfer it is. No copier
\* is left of an earlier instance, nor when completetransfer is called last
ScriptInv ==
  /\ pc = "stopped" => caller = "start" /\ listing = {} /\ mine = {}
  /\ Early => caller = "start" /\ listing = {}
  /\ pc = "recover" \/ (caller = "start" /\ pc = "failures") => mine = {}
  /\ caller # "start" => Transfer
  /\ pc # "stopped" => lock
  /\ pc \notin {"recover", "wipe1", "wipe2"} /\ ~Transfer => todo = {}
  /\ ~lock \/ Early \/ Last => \A f \in Files : copier[f] = "none"

LEMMA InitScript == Init => ScriptInv
BY DEF Init, ScriptInv, Early, Last, Transfer

LEMMA NextScript == TypeOK /\ ScriptInv /\ [Next]_vars => ScriptInv'
<1> SUFFICES ASSUME TypeOK, ScriptInv, [Next]_vars PROVE ScriptInv'
  OBVIOUS
<1> USE DEF ScriptInv, Early, Last, Transfer, script, disk, jobs, history
<1>1. CASE UNCHANGED vars
  BY <1>1 DEF vars
<1>2. CASE Control
  <2>1. CASE Start \/ RemoveStaleLock \/ RecoverEnd
    BY <2>1 DEF Start, RemoveStaleLock, RecoverEnd, CompleteTransfer, Idle
  <2>2. CASE ListDone \/ MoveWait \/ WipeTmp1End
    BY <2>2 DEF ListDone, MoveWait, WipeTmp1End
  <2>3. CASE TransferEnd
    BY <2>3 DEF TransferEnd, TypeOK
  <2>4. CASE Prepared \/ Finish
    BY <2>4 DEF Prepared, Finish, Stop, Halt
  <2>5. CASE CopyWait \/ RoundEnd \/ ListingEnd
    BY <2>5 DEF CopyWait, RoundEnd, ListingEnd
  <2>6. CASE RoundTransfer \/ FinalTransfer
    BY <2>6 DEF RoundTransfer, FinalTransfer, CompleteTransfer, NoJobs
  <2> QED
    BY <1>2, <2>1, <2>2, <2>3, <2>4, <2>5, <2>6 DEF Control
<1>3. CASE Kill \/ Crash
  BY <1>3 DEF Kill, Crash, Halt
<1>4. ASSUME NEW f \in Files, Handle(f) PROVE ScriptInv'
  <2>1. CASE Recover(f) \/ GiveUp(f) \/ SpawnMover(f)
    BY <2>1 DEF Recover, GiveUp, SpawnMover
  <2>2. CASE WipeTmp1(f) \/ WipeStat(f) \/ WipeTmp2(f)
    BY <2>2 DEF WipeTmp1, WipeStat, WipeTmp2
  <2>3. CASE AlreadyRecorded(f) \/ Skip(f) \/ SpawnCopier(f)
    BY <2>3 DEF AlreadyRecorded, Skip, SpawnCopier
  <2> QED
    BY <1>4, <2>1, <2>2, <2>3 DEF Handle
<1>5. ASSUME NEW f \in Files, Copier(f) PROVE ScriptInv'
  <2>1. UNCHANGED <<script, mine>> /\ copier[f] # "none"
    BY <1>5 DEF Copier, CheckUse, Copied, CreateStat, WriteStat
  <2> QED
    BY <2>1
<1>6. ASSUME NEW f \in Files, NEW m \in Movers, MoverStep(f, m) PROVE ScriptInv'
  <2>1. UNCHANGED <<script, copier>> /\ mine' \subseteq mine
    BY <1>6 DEF MoverStep, MoveToTmp2, MoveRecord, MoveToInput, MoveRemoveSource,
                MoveRemoveStat
  <2> QED
    BY <2>1
<1> QED
  BY <1>1, <1>2, <1>3, <1>4, <1>5, <1>6, NextSplit

\* a mover of this run is at f
Own(f) == \E m \in Movers : <<f, m>> \in mine

\* What lies in tmp1 is in the hands of a copier, or has a status file by which
\* the next transfer finds it; the last transfer finds all of it
LeftInv ==
  \A f \in Files :
    /\ f \in listing => copier[f] = "none" /\ tmp1[f] = "none"
    /\ copier[f] = "check" => tmp1[f] = "none"
    /\ copier[f] = "write" /\ tmp1[f] # "none" => stat[f] # "none"
    /\ pc = "wipe1" /\ (tmp1[f] # "none" \/ stat[f] # "none") => f \in todo
    /\ pc = "wipe2" => tmp1[f] = "none" /\ stat[f] = "none"
    /\ pc # "stopped" /\ ~Early /\ tmp1[f] # "none" => copier[f] # "none" \/ stat[f] # "none"
    /\ Last /\ Failed(f) => pc = "failures" /\ f \in todo
    /\ Last /\ Done(f) /\ pc # "failures" => f \in todo \/ Own(f)

LEMMA InitLeft == Init => LeftInv
BY DEF Init, LeftInv, Last

LEMMA NextLeft == TypeOK /\ ScriptInv /\ LeftInv /\ [Next]_vars => LeftInv'
<1> SUFFICES ASSUME TypeOK, ScriptInv, LeftInv, [Next]_vars PROVE LeftInv'
  OBVIOUS
<1> USE DEF LeftInv, Early, Last, Transfer, Failed, Done, Own, script, disk, jobs, history
<1>1. CASE UNCHANGED vars
  BY <1>1 DEF vars
<1>2. CASE Control
  <2>1. CASE Start \/ RemoveStaleLock \/ RecoverEnd
    BY <2>1 DEF Start, RemoveStaleLock, RecoverEnd, CompleteTransfer, ScriptInv
  <2>2. CASE ListDone \/ MoveWait \/ WipeTmp1End
    BY <2>2 DEF ListDone, MoveWait, WipeTmp1End, ScriptInv
  <2>3. CASE TransferEnd
    BY <2>3 DEF TransferEnd, TypeOK, ScriptInv
  <2>4. CASE Prepared \/ Finish
    BY <2>4 DEF Prepared, Finish, Stop, Halt, ScriptInv
  <2>5. CASE CopyWait \/ RoundEnd \/ ListingEnd
    BY <2>5 DEF CopyWait, RoundEnd, ListingEnd, ScriptInv
  <2>6. CASE RoundTransfer \/ FinalTransfer
    BY <2>6 DEF RoundTransfer, FinalTransfer, CompleteTransfer, ScriptInv
  <2> QED
    BY <1>2, <2>1, <2>2, <2>3, <2>4, <2>5, <2>6 DEF Control
<1>3. CASE Kill \/ Crash
  BY <1>3 DEF Kill, Crash, Halt
<1>4. ASSUME NEW f \in Files, Handle(f) PROVE LeftInv'
  <2>1. CASE Recover(f) \/ WipeTmp2(f)
    <3>1. /\ pc \in {"recover", "wipe2"}
          /\ UNCHANGED <<pc, caller, par, listing, tmp1, stat, copier, mine>>
      BY <2>1 DEF Recover, WipeTmp2
    <3>2. caller = "start"
      BY <3>1 DEF ScriptInv
    <3> QED
      BY <3>1, <3>2
  <2>2. CASE GiveUp(f)
    <3>1. /\ pc = "failures" /\ todo' = todo \ {f}
          /\ stat' = [stat EXCEPT ![f] = "none"] /\ tmp1' = [tmp1 EXCEPT ![f] = "none"]
          /\ UNCHANGED <<pc, caller, par, listing, copier, mine>>
      BY <2>2 DEF GiveUp
    <3>2. stat'[f] = "none" /\ tmp1'[f] = "none"
      BY <3>1 DEF TypeOK
    <3>3. \A g \in Files \ {f} : stat'[g] = stat[g] /\ tmp1'[g] = tmp1[g]
      BY <3>1 DEF TypeOK
    <3> QED
      BY <3>1, <3>2, <3>3
  <2>3. CASE WipeTmp1(f) \/ WipeStat(f)
    <3>1. /\ pc = "wipe1" /\ UNCHANGED <<pc, caller, par, listing, copier, mine>>
          /\ \/ UNCHANGED <<todo, stat>> /\ tmp1' = [tmp1 EXCEPT ![f] = "none"]
             \/ /\ UNCHANGED tmp1 /\ tmp1[f] = "none"
                /\ todo' = todo \ {f} /\ stat' = [stat EXCEPT ![f] = "none"]
      BY <2>3 DEF WipeTmp1, WipeStat
    <3>2. caller = "start" /\ copier[f] = "none"
      BY <3>1 DEF ScriptInv
    <3>3. /\ tmp1'[f] = "none"
          /\ \/ todo' = todo /\ stat' = stat
             \/ todo' = todo \ {f} /\ stat'[f] = "none"
      BY <3>1 DEF TypeOK
    <3>4. \A g \in Files \ {f} : stat'[g] = stat[g] /\ tmp1'[g] = tmp1[g]
      BY <3>1 DEF TypeOK
    <3> QED
      BY <3>1, <3>2, <3>3, <3>4
  <2>4. CASE AlreadyRecorded(f) \/ Skip(f) \/ SpawnCopier(f)
    <3>1. /\ pc = "ingest" /\ f \in listing /\ listing' = listing \ {f}
          /\ UNCHANGED <<caller, todo, tmp1, stat, mine>>
          /\ \/ pc' = pc /\ copier' = copier
             \/ pc' = "copywait" /\ copier' = [copier EXCEPT ![f] = "check"]
      BY <2>4 DEF AlreadyRecorded, Skip, SpawnCopier
    <3>2. /\ copier'[f] = copier[f] \/ copier'[f] = "check"
          /\ \A g \in Files \ {f} : copier'[g] = copier[g]
      BY <3>1 DEF TypeOK
    <3>3. caller # "end"
      BY <3>1 DEF ScriptInv
    <3> QED
      BY <3>1, <3>2, <3>3
  <2>5. CASE SpawnMover(f)
    <3>1. PICK m \in Movers : mine' = mine \cup {<<f, m>>}
      BY <2>5 DEF SpawnMover
    <3>2. /\ pc = "moves" /\ pc' = "movewait" /\ todo' = todo \ {f}
          /\ UNCHANGED <<caller, listing, tmp1, stat, copier>>
      BY <2>5 DEF SpawnMover
    <3>3. Own(f)' /\ \A g \in Files : Own(g) => Own(g)'
      BY <3>1
    <3> QED
      BY <3>2, <3>3
  <2> QED
    BY <1>4, <2>1, <2>2, <2>3, <2>4, <2>5 DEF Handle
<1>5. ASSUME NEW f \in Files, Copier(f) PROVE LeftInv'
  <2> USE DEF ScriptInv, TypeOK
  <2>1. CASE CheckUse(f)
    <3>1. pc \notin {"wipe1", "wipe2"} /\ copier[f] = "check"
      BY <2>1 DEF CheckUse
    <3>2. \A g \in Files \ {f} : copier'[g] = copier[g] /\ tmp1'[g] = tmp1[g]
      BY <2>1 DEF CheckUse
    <3>3. \/ copier'[f] = "none" /\ tmp1'[f] = tmp1[f]
          \/ copier'[f] = "cp"
          \/ copier'[f] = "failed"
      BY <2>1 DEF CheckUse
    <3>4. UNCHANGED <<script, stat, mine>>
      BY <2>1 DEF CheckUse
    <3> QED
      BY <3>1, <3>2, <3>3, <3>4
  <2>2. CASE Copied(f)
    BY <2>2 DEF Copied, Whole
  <2>3. CASE CreateStat(f)
    BY <2>3 DEF CreateStat
  <2>4. CASE WriteStat(f)
    BY <2>4 DEF WriteStat
  <2> QED
    BY <1>5, <2>1, <2>2, <2>3, <2>4 DEF Copier
<1>6. ASSUME NEW f \in Files, NEW m \in Movers, MoverStep(f, m) PROVE LeftInv'
  <2> USE DEF At, Goes
  <2>1. CASE MoveToTmp2(f, m)
    BY <2>1 DEF MoveToTmp2, TypeOK
  <2>2. CASE MoveRecord(f, m) \/ MoveToInput(f, m) \/ MoveRemoveSource(f, m)
    BY <2>2 DEF MoveRecord, MoveToInput, MoveRemoveSource
  <2>3. CASE MoveRemoveStat(f, m)
    <3>1. /\ UNCHANGED <<script, copier>> /\ mine' = mine \ {<<f, m>>}
          /\ stat'[f] = "none" /\ tmp1'[f] = "none"
          /\ \A g \in Files \ {f} : stat'[g] = stat[g] /\ tmp1'[g] = tmp1[g]
      BY <2>3 DEF MoveRemoveStat, TypeOK
    <3>2. \A g \in Files \ {f} : Own(g) => Own(g)'
      BY <3>1
    <3> QED
      BY <3>1, <3>2
  <2> QED
    BY <1>6, <2>1, <2>2, <2>3 DEF MoverStep
<1> QED
  BY <1>1, <1>2, <1>3, <1>4, <1>5, <1>6, NextSplit

LEMMA LeftHolds == Spec => [](TypeOK /\ ScriptInv /\ LeftInv)
BY InitScript, NextScript, InitLeft, NextLeft, TypeCorrect, PTL DEF Spec

\* A run that ends by itself has moved or given up all that was copied: whatever
\* the settings, the script does not end before its jobs have dealt with tmp1.
THEOREM NothingLeftBehindHolds == Spec => NothingLeftBehind
<1> DEFINE Ends == pc = "endwait" /\ pc' = "stopped" /\ lock # lock'
           Empty == \A f \in Files : tmp1[f] = "none" /\ stat[f] = "none"
<1>1. TypeOK /\ ScriptInv /\ LeftInv /\ [Next]_vars => [Ends => Empty]_vars
  <2> SUFFICES ASSUME TypeOK, ScriptInv, LeftInv, [Next]_vars, Ends PROVE Empty
    OBVIOUS
  <2>1. NoJobs
    <3>1. CASE Control
      BY <3>1 DEF Control, Start, RemoveStaleLock, RecoverEnd, ListDone, MoveWait,
         TransferEnd, WipeTmp1End, Prepared, CopyWait, RoundTransfer, RoundEnd,
         ListingEnd, FinalTransfer, Finish, CompleteTransfer
    <3>2. CASE UNCHANGED vars \/ Kill \/ Crash
      BY <3>2 DEF vars, script, Kill, Crash
    <3>3. ASSUME NEW f \in Files, Handle(f) \/ Copier(f) PROVE FALSE
      BY <3>3 DEF Handle, Recover, GiveUp, SpawnMover, WipeTmp1, WipeStat, WipeTmp2,
         AlreadyRecorded, Skip, SpawnCopier, Copier, CheckUse, Copied, CreateStat,
         WriteStat, script
    <3>4. ASSUME NEW f \in Files, NEW m \in Movers, MoverStep(f, m) PROVE FALSE
      BY <3>4 DEF MoverStep, MoveToTmp2, MoveRecord, MoveToInput, MoveRemoveSource,
         MoveRemoveStat, script
    <3> QED
      BY <3>1, <3>2, <3>3, <3>4, NextSplit
  <2>2. caller = "start" /\ todo = {}
    BY DEF ScriptInv, Transfer
  <2>3. ASSUME NEW f \in Files PROVE tmp1[f] = "none" /\ stat[f] = "none"
    BY <2>1, <2>2
       DEF LeftInv, NoJobs, Own, Failed, Done, Early, Last, Transfer, TypeOK, StatKinds
  <2> QED
    BY <2>3
<1> QED
  BY <1>1, LeftHolds, PTL DEF Spec, NothingLeftBehind

---------------------------------------------------------------------------
(* No file is lost *)

Safe(f) == delivered[f] > 0 \/ tmp2[f] \/ GivenUp(f)
Copying(f) == copier[f] \in {"check", "cp", "done", "failed"}
\* tmp1 holds all of f, or f has been moved on
Ready(f) == tmp1[f] = "full" \/ (tmp1[f] = "none" /\ Safe(f))
In(f, m, stages) == mover[f][m] \in stages

\* tmp1 and tmp2 do not both hold a file, and none is copied that is in tmp2 or
\* has a status file
CopyInv(f) ==
  /\ tmp2[f] => tmp1[f] = "none"
  /\ f \in listing \/ copier[f] = "check" => ~tmp2[f]
  /\ Copying(f) => stat[f] = "none"
  /\ f \in listing => stat[f] = "none"
  /\ f \in todo /\ Transfer => ~Copying(f) /\ f \notin listing
  /\ pc = "failures" /\ f \in todo => ~Done(f)
  /\ pc = "wipe2" /\ tmp2[f] => f \in todo

\* The movers of an earlier run have ended when a run starts, unless their file
\* was swept
JobInv(f) ==
  /\ \A m \in Movers : mover[f][m] # "none" /\ <<f, m>> \notin mine =>
       Swept(f) \/ (pc = "stopped" /\ lock)
  /\ pc = "wipe2" /\ Moving(f) => Swept(f)

\* Before tmp1 and tmp2 are wiped, a file that is not swept has one mover, and
\* that one has its status file
EarlyInv(f) == ~Swept(f) =>
  /\ Early /\ Moving(f) => Done(f)
  /\ Early => \A m, n \in Movers : mover[f][m] # "none" /\ mover[f][n] # "none" => m = n
  /\ caller = "start" /\ pc \in {"moves", "movewait"} /\ f \in todo => Done(f) /\ ~Moving(f)
  /\ caller = "start" /\ pc = "failures" /\ Failed(f) => f \in todo
  /\ caller = "start" /\ pc \in {"moves", "movewait"} =>
       ~Failed(f) /\ (Done(f) => f \in todo \/ Moving(f))
  /\ pc = "wipe1" => ~Failed(f) /\ (Done(f) => Moving(f))
  /\ pc = "recover" => (tmp2[f] <=> f \in todo)
  /\ Early /\ pc # "recover" /\ tmp2[f] =>
       "unmoved" \in mishaps[f] \/ \E m \in Movers : In(f, m, {"record", "mv2"})

\* Copier and mover of a file never meet unless it is swept, and a status file or
\* a mover is there only for a file that is ready
MoveInv(f) == ~Swept(f) =>
  /\ copier[f] \in {"cp", "failed"} => tmp1[f] = "part"
  /\ copier[f] = "done" => tmp1[f] = "full"
  /\ Copying(f) \/ f \in listing => ~Moving(f) /\ src[f] /\ ~tmp2[f]
  /\ Done(f) => Ready(f)
  /\ pc \in {"moves", "movewait"} /\ f \in todo => Ready(f)
  /\ \A m \in Movers :
       /\ mover[f][m] = "mv1" => Ready(f)
       /\ In(f, m, {"record", "mv2"}) =>
            tmp2[f] /\ \A n \in Movers : In(f, n, {"record", "mv2"}) => n = m
       /\ In(f, m, {"rmsrc", "rmstat"}) => Safe(f)
  /\ Failed(f) \/ copier[f] = "failed" \/ (pc = "failures" /\ f \in todo) =>
       "refused" \in mishaps[f]
  /\ ~src[f] \/ record[f] => Safe(f)

FileInv(f) == CopyInv(f) /\ JobInv(f) /\ EarlyInv(f) /\ MoveInv(f)
FilesInv == \A f \in Files : FileInv(f)

LEMMA InitFiles == Init => FilesInv
<1> SUFFICES ASSUME Init, NEW f \in Files PROVE FileInv(f)
  BY DEF FilesInv
<1> USE DEF Init, Copying, Ready, Safe, In, Moving, GivenUp, Swept, Done, Failed, Transfer, Early
<1>1. CopyInv(f) /\ JobInv(f)
  BY DEF CopyInv, JobInv
<1>2. EarlyInv(f)
  BY DEF EarlyInv
<1>3. MoveInv(f)
  BY DEF MoveInv
<1> QED
  BY <1>1, <1>2, <1>3 DEF FileInv

\* A file whose own state does not change, nor what the script does, stays right.
SamePlace == \/ pc' = pc
             \/ {pc, pc'} \subseteq {"ingest", "copywait"}
             \/ {pc, pc'} \subseteq {"moves", "movewait"}
LEMMA OtherFile ==
  ASSUME NEW f \in Files, FileInv(f), SamePlace, UNCHANGED <<caller, lock>>,
         (f \in todo') = (f \in todo), (f \in listing') = (f \in listing),
         src'[f] = src[f], tmp1'[f] = tmp1[f], stat'[f] = stat[f], tmp2'[f] = tmp2[f],
         record'[f] = record[f], copier'[f] = copier[f], mover'[f] = mover[f],
         \A m \in Movers : (<<f, m>> \in mine') = (<<f, m>> \in mine),
         delivered'[f] = delivered[f], mishaps'[f] = mishaps[f]
  PROVE  FileInv(f)'
<1> USE DEF SamePlace, Copying, Ready, Safe, In, Moving, GivenUp, Swept, Done, Failed,
            Transfer, Early
<1>1. CopyInv(f)'
  BY DEF FileInv, CopyInv
<1>2. JobInv(f)'
  BY DEF FileInv, JobInv
<1>3. EarlyInv(f)'
  BY DEF FileInv, EarlyInv
<1>4. MoveInv(f)'
  BY DEF FileInv, MoveInv
<1> QED
  BY <1>1, <1>2, <1>3, <1>4 DEF FileInv

LEMMA FilesControl ==
  ASSUME TypeOK, ScriptInv, LeftInv, FilesInv, Control
  PROVE  FilesInv'
<1> SUFFICES ASSUME NEW f \in Files PROVE FileInv(f)'
  BY DEF FilesInv
<1>0. /\ FileInv(f) /\ stat[f] \in StatKinds
      /\ UNCHANGED <<disk, copier, mover, history>>
      /\ mine' = mine \/ (mine' = {} /\ pc' = "stopped")
  BY ControlKeeps DEF FilesInv, TypeOK
<1> USE <1>0 DEF StatKinds, Copying, Ready, Safe, In, Moving, GivenUp, Swept, Done, Failed,
            Transfer, Early, disk, jobs, history
<1>1. CopyInv(f)'
  <2> USE DEF FileInv, CopyInv
  <2>1. CASE Start \/ RemoveStaleLock \/ RecoverEnd \/ ListDone \/ MoveWait
    BY <2>1 DEF Start, RemoveStaleLock, RecoverEnd, ListDone, MoveWait, CompleteTransfer,
                ScriptInv
  <2>2. CASE TransferEnd \/ WipeTmp1End
    BY <2>2 DEF TransferEnd, WipeTmp1End, TypeOK
  <2>3. CASE Prepared \/ Finish
    BY <2>3 DEF Prepared, Finish, Stop, Halt, ScriptInv, LeftInv
  <2>4. CASE CopyWait \/ RoundEnd \/ ListingEnd
    BY <2>4 DEF CopyWait, RoundEnd, ListingEnd
  <2>5. CASE RoundTransfer \/ FinalTransfer
    BY <2>5 DEF RoundTransfer, FinalTransfer, CompleteTransfer
  <2> QED
    BY <2>1, <2>2, <2>3, <2>4, <2>5 DEF Control
<1>2. JobInv(f)'
  <2> USE DEF FileInv, JobInv
  <2>1. CASE Start \/ RemoveStaleLock \/ RecoverEnd \/ ListDone \/ MoveWait
    BY <2>1 DEF Start, RemoveStaleLock, RecoverEnd, ListDone, MoveWait, CompleteTransfer,
                Idle
  <2>2. CASE TransferEnd
    BY <2>2 DEF TransferEnd, TypeOK
  <2>3. CASE WipeTmp1End
    <3>1. Moving(f) => Swept(f)
      BY <2>3 DEF WipeTmp1End, EarlyInv, LeftInv
    <3> QED
      BY <2>3, <3>1 DEF WipeTmp1End
  <2>4. CASE Prepared
    BY <2>4 DEF Prepared, Stop, Halt
  <2>5. CASE Finish
    BY <2>5 DEF Finish, Stop, Halt, NoJobs
  <2>6. CASE CopyWait \/ RoundEnd \/ ListingEnd \/ RoundTransfer \/ FinalTransfer
    BY <2>6 DEF CopyWait, RoundEnd, ListingEnd, RoundTransfer, FinalTransfer, CompleteTransfer
  <2> QED
    BY <2>1, <2>2, <2>3, <2>4, <2>5, <2>6 DEF Control
<1>3. EarlyInv(f)'
  <2> USE DEF FileInv, EarlyInv
  <2>1. CASE Start
    BY <2>1 DEF Start, JobInv, ScriptInv
  <2>2. CASE RemoveStaleLock
    BY <2>2 DEF RemoveStaleLock
  <2>3. CASE RecoverEnd
    BY <2>3 DEF RecoverEnd, CompleteTransfer
  <2>4. CASE ListDone
    <3>1. caller = "start" /\ ~Swept(f) => ~Moving(f)
      BY <2>4 DEF ListDone, JobInv, ScriptInv
    <3> QED
      BY <2>4, <3>1 DEF ListDone
  <2>5. CASE MoveWait
    BY <2>5 DEF MoveWait
  <2>6. CASE TransferEnd
    <3>1. CASE caller = "start"
      BY <2>6, <3>1 DEF TransferEnd
    <3>2. CASE caller # "start"
      BY <2>6, <3>2 DEF TransferEnd, TypeOK
    <3> QED
      BY <3>1, <3>2
  <2>7. CASE WipeTmp1End
    BY <2>7 DEF WipeTmp1End
  <2>8. CASE Prepared \/ Finish
    BY <2>8 DEF Prepared, Finish, Stop, Halt
  <2>9. CASE CopyWait \/ RoundEnd \/ ListingEnd
    BY <2>9 DEF CopyWait, RoundEnd, ListingEnd
  <2>10. CASE RoundTransfer \/ FinalTransfer
    BY <2>10 DEF RoundTransfer, FinalTransfer, CompleteTransfer
  <2> QED
    BY <2>1, <2>2, <2>3, <2>4, <2>5, <2>6, <2>7, <2>8, <2>9, <2>10 DEF Control
<1>4. MoveInv(f)'
  <2> USE DEF FileInv, MoveInv
  <2>1. CASE Start \/ RemoveStaleLock \/ RecoverEnd
    BY <2>1 DEF Start, RemoveStaleLock, RecoverEnd, CompleteTransfer
  <2>2. CASE ListDone \/ MoveWait
    BY <2>2 DEF ListDone, MoveWait
  <2>3. CASE TransferEnd \/ WipeTmp1End
    BY <2>3 DEF TransferEnd, WipeTmp1End, TypeOK
  <2>4. CASE Prepared
    <3>1. pc' = "ingest" /\ ~Swept(f) => ~Moving(f) /\ ~tmp2[f]
      BY <2>4 DEF Prepared, Stop, Halt, JobInv, CopyInv
    <3> QED
      BY <2>4, <3>1 DEF Prepared, Stop, Halt
  <2>5. CASE CopyWait \/ RoundEnd \/ ListingEnd \/ Finish
    BY <2>5 DEF CopyWait, RoundEnd, ListingEnd, Finish, Stop, Halt
  <2>6. CASE RoundTransfer \/ FinalTransfer
    BY <2>6 DEF RoundTransfer, FinalTransfer, CompleteTransfer
  <2> QED
    BY <2>1, <2>2, <2>3, <2>4, <2>5, <2>6 DEF Control
<1> QED
  BY <1>1, <1>2, <1>3, <1>4 DEF FileInv

LEMMA FilesCrash ==
  ASSUME TypeOK, ScriptInv, FilesInv, Kill \/ Crash
  PROVE  FilesInv'
<1> SUFFICES ASSUME NEW f \in Files PROVE FileInv(f)'
  BY DEF FilesInv
<1>0. FileInv(f)
  BY DEF FilesInv
<1>1. /\ UNCHANGED <<src, tmp1, stat, tmp2, record, delivered, mishaps, lock>>
      /\ pc' = "stopped" /\ listing' = {} /\ todo' = {} /\ caller' = "start"
      /\ copier'[f] = copier[f] \/ copier'[f] = "none"
      /\ mover'[f] = mover[f] \/ \A m \in Movers : mover'[f][m] = "none"
  BY DEF Kill, Crash, Halt, disk
<1> USE <1>0, <1>1 DEF FileInv, Copying, Ready, Safe, In, Moving, GivenUp, Swept, Done,
            Failed, Transfer, Early
<1>2. CopyInv(f)'
  BY DEF CopyInv
<1>3. JobInv(f)'
  BY DEF JobInv, ScriptInv, Kill, Crash
<1>4. EarlyInv(f)'
  BY DEF EarlyInv
<1>5. MoveInv(f)'
  BY DEF MoveInv
<1> QED
  BY <1>2, <1>3, <1>4, <1>5

\* A step that looks at one file leaves the others alone.
LEMMA HandleKeeps ==
  ASSUME TypeOK, NEW f \in Files, Handle(f), NEW g \in Files \ {f}
  PROVE  /\ SamePlace /\ UNCHANGED <<gvars, caller, lock>>
         /\ (g \in todo') = (g \in todo) /\ (g \in listing') = (g \in listing)
         /\ src'[g] = src[g] /\ tmp1'[g] = tmp1[g] /\ stat'[g] = stat[g]
         /\ tmp2'[g] = tmp2[g] /\ record'[g] = record[g]
         /\ copier'[g] = copier[g] /\ mover'[g] = mover[g]
         /\ \A m \in Movers : (<<g, m>> \in mine') = (<<g, m>> \in mine)
         /\ delivered'[g] = delivered[g] /\ mishaps'[g] = mishaps[g]
<1>1. SamePlace /\ UNCHANGED <<gvars, caller, lock>>
  BY DEF SamePlace, Handle, Recover, GiveUp, SpawnMover, WipeTmp1, WipeStat, WipeTmp2,
         SpawnCopier, AlreadyRecorded, Skip, script
<1>2. (g \in todo') = (g \in todo) /\ (g \in listing') = (g \in listing)
  <2>1. /\ todo' = todo \/ todo' = todo \ {f}
        /\ listing' = listing \/ listing' = listing \ {f}
    BY DEF Handle, Recover, GiveUp, SpawnMover, WipeTmp1, WipeStat, WipeTmp2,
           SpawnCopier, AlreadyRecorded, Skip, script
  <2> QED
    BY <2>1
<1>3. src'[g] = src[g] /\ tmp1'[g] = tmp1[g] /\ stat'[g] = stat[g] /\ tmp2'[g] = tmp2[g]
      /\ record'[g] = record[g]
  BY DEF Handle, Recover, GiveUp, SpawnMover, WipeTmp1, WipeStat, WipeTmp2, SpawnCopier,
         AlreadyRecorded, Skip, Recorded, RemoveSource, TypeOK, disk
<1>4. copier'[g] = copier[g] /\ mover'[g] = mover[g]
      /\ \A m \in Movers : (<<g, m>> \in mine') = (<<g, m>> \in mine)
  <2>1. CASE SpawnMover(f)
    <3>1. PICK m \in Movers : /\ mover' = [mover EXCEPT ![f][m] = "mv1"]
                              /\ mine' = mine \cup {<<f, m>>}
      BY <2>1 DEF SpawnMover
    <3> QED
      BY <2>1, <3>1 DEF SpawnMover, TypeOK
  <2>2. CASE ~SpawnMover(f)
    <3>1. UNCHANGED <<mover, mine>>
      BY <2>2 DEF Handle, Recover, GiveUp, WipeTmp1, WipeStat, WipeTmp2, SpawnCopier,
                  AlreadyRecorded, Skip, jobs
    <3>2. copier' = copier \/ copier' = [copier EXCEPT ![f] = "check"]
      BY <2>2 DEF Handle, Recover, GiveUp, WipeTmp1, WipeStat, WipeTmp2, SpawnCopier,
                  AlreadyRecorded, Skip, jobs
    <3> QED
      BY <3>1, <3>2 DEF TypeOK
  <2> QED
    BY <2>1, <2>2
<1>5. delivered'[g] = delivered[g] /\ mishaps'[g] = mishaps[g]
  <2>1. delivered' = delivered \/ CountDelivery(f)
    BY DEF Handle, Recover, GiveUp, SpawnMover, WipeTmp1, WipeStat, WipeTmp2, SpawnCopier,
           AlreadyRecorded, Skip, NotMoved, history
  <2>2. mishaps' = mishaps \/ Befalls(f, "unmoved") \/ Befalls(f, "swept")
    BY DEF Handle, Recover, GiveUp, SpawnMover, WipeTmp1, WipeStat, WipeTmp2, SpawnCopier,
           AlreadyRecorded, Skip, NotMoved, Sweeps, history
  <2> QED
    BY <2>1, <2>2 DEF CountDelivery, Befalls, TypeOK
<1> QED
  BY <1>1, <1>2, <1>3, <1>4, <1>5

LEMMA FilesHandle ==
  ASSUME TypeOK, ScriptInv, LeftInv, FilesInv, NEW f \in Files, Handle(f)
  PROVE  FilesInv'
<1>1. FileInv(f)
  BY DEF FilesInv
<1>2. FileInv(f)'
  <2> USE <1>1 DEF FileInv, Copying, Ready, Safe, In, Moving, GivenUp, Swept,
              Done, Failed, Transfer, Early
  <2>1. CASE Recover(f)
    <3>1. /\ pc = "recover" /\ ~tmp2'[f] /\ f \in todo /\ f \notin todo' /\ caller = "start"
          /\ \A g \in Files : copier[g] = "none"
          /\ UNCHANGED <<pc, caller, listing, lock, src, tmp1, stat, copier, mover, mine>>
      BY <2>1 DEF Recover, TypeOK, jobs, ScriptInv, Early
    <3>2. /\ mishaps[f] \subseteq mishaps'[f] /\ (Swept(f)' <=> Swept(f))
          /\ delivered'[f] > 0 \/ "unmoved" \in mishaps'[f] \/ ~tmp2[f]
          /\ delivered[f] > 0 => delivered'[f] > 0
      <4>1. delivered[f] \in 0..2
        BY DEF TypeOK
      <4>2. CASE CountDelivery(f) /\ UNCHANGED mishaps
        BY <4>1, <4>2 DEF CountDelivery, TypeOK
      <4>3. CASE NotMoved(f, TRUE)
        BY <4>3 DEF NotMoved, Befalls, TypeOK
      <4> QED
        BY <2>1, <4>2, <4>3 DEF Recover
    <3>3. ~Swept(f) => tmp2[f] /\ Safe(f)' /\ (Safe(f) => Safe(f)')
      BY <3>1, <3>2 DEF EarlyInv
    <3>4. CopyInv(f)'
      BY <3>1 DEF CopyInv, ScriptInv
    <3>5. JobInv(f)'
      BY <3>1, <3>2 DEF JobInv
    <3>6. EarlyInv(f)'
      BY <3>1, <3>2 DEF EarlyInv
    <3>7. MoveInv(f)'
      <4>1. ~Swept(f) => ~Moving(f)
        BY <3>1 DEF JobInv, ScriptInv
      <4> QED
        BY <3>1, <3>2, <3>3, <4>1 DEF MoveInv
    <3> QED
      BY <3>4, <3>5, <3>6, <3>7
  <2>2. CASE GiveUp(f)
    <3>1. /\ pc = "failures" /\ f \in todo /\ f \notin todo'
          /\ tmp1'[f] = "none" /\ stat'[f] = "none"
          /\ UNCHANGED <<pc, caller, listing, lock, tmp2, copier, mover, mine, delivered, mishaps>>
      BY <2>2 DEF GiveUp, jobs, history, TypeOK
    <3>2. ~Swept(f) => Safe(f)'
      BY <3>1 DEF MoveInv
    <3>3. CopyInv(f)' /\ JobInv(f)'
      BY <3>1 DEF CopyInv, JobInv
    <3>4. EarlyInv(f)'
      <4>1. caller = "start" /\ ~Swept(f) => ~Moving(f)
        BY <3>1 DEF JobInv, ScriptInv
      <4> QED
        BY <3>1, <4>1 DEF EarlyInv
    <3>5. MoveInv(f)'
      BY <3>1, <3>2 DEF MoveInv, CopyInv
    <3> QED
      BY <3>3, <3>4, <3>5
  <2>3. CASE SpawnMover(f)
    <3>1. PICK m \in Movers : /\ mover' = [mover EXCEPT ![f][m] = "mv1"]
                              /\ mine' = mine \cup {<<f, m>>} /\ mover[f][m] = "none"
      BY <2>3 DEF SpawnMover
    <3>2. /\ mover'[f][m] = "mv1" /\ <<f, m>> \in mine'
          /\ \A n \in Movers \ {m} : /\ mover'[f][n] = mover[f][n]
                                     /\ (<<f, n>> \in mine') = (<<f, n>> \in mine)
      BY <3>1 DEF TypeOK
    <3>3. /\ pc = "moves" /\ pc' = "movewait" /\ f \in todo /\ f \notin todo'
          /\ UNCHANGED <<caller, listing, lock, src, tmp1, stat, tmp2, record, copier,
                         delivered, mishaps>>
      BY <2>3 DEF SpawnMover, disk, history
    <3>4. CopyInv(f)' /\ JobInv(f)'
      BY <3>2, <3>3 DEF CopyInv, JobInv
    <3>5. EarlyInv(f)'
      BY <3>2, <3>3 DEF EarlyInv
    <3>6. MoveInv(f)'
      BY <3>2, <3>3 DEF MoveInv, CopyInv
    <3> QED
      BY <3>4, <3>5, <3>6
  <2>4. CASE WipeTmp1(f) \/ WipeStat(f)
    <3>1. /\ pc = "wipe1" /\ tmp1'[f] = "none" /\ caller = "start"
          /\ copier[f] = "none"
          /\ stat'[f] = stat[f] \/ stat'[f] = "none"
          /\ UNCHANGED <<pc, caller, listing, lock, src, tmp2, record, copier, mover, mine,
                         delivered>>
      BY <2>4 DEF WipeTmp1, WipeStat, TypeOK, script, jobs, ScriptInv, Early
    <3>2. IF Moving(f) THEN mishaps'[f] = mishaps[f] \cup {"swept"} ELSE mishaps'[f] = mishaps[f]
      BY <2>4 DEF WipeTmp1, WipeStat, Sweeps, Befalls, TypeOK
    <3>3. CopyInv(f)' /\ JobInv(f)'
      BY <3>1, <3>2 DEF CopyInv, JobInv, ScriptInv
    <3>4. EarlyInv(f)'
      BY <3>1, <3>2 DEF EarlyInv
    <3>5. MoveInv(f)'
      BY <3>1, <3>2 DEF MoveInv, EarlyInv, ScriptInv
    <3> QED
      BY <3>3, <3>4, <3>5
  <2>5. CASE WipeTmp2(f)
    <3>1. /\ pc = "wipe2" /\ ~tmp2'[f] /\ caller = "start" /\ copier[f] = "none"
          /\ tmp1[f] = "none" /\ stat[f] = "none" /\ f \notin listing
          /\ UNCHANGED <<pc, caller, listing, lock, src, tmp1, stat, record, copier, mover,
                         mine, delivered, mishaps>>
      BY <2>5 DEF WipeTmp2, TypeOK, jobs, history, ScriptInv, LeftInv, Early
    <3>2. ~Swept(f) => ~Moving(f) /\ (Safe(f) => Safe(f)')
      BY <3>1 DEF JobInv, EarlyInv
    <3>3. CopyInv(f)' /\ JobInv(f)'
      BY <3>1 DEF CopyInv, JobInv
    <3>4. EarlyInv(f)'
      BY <3>1 DEF EarlyInv
    <3>5. MoveInv(f)'
      BY <3>1, <3>2 DEF MoveInv
    <3> QED
      BY <3>3, <3>4, <3>5
  <2>6. CASE AlreadyRecorded(f) \/ Skip(f) \/ SpawnCopier(f)
    <3>1. /\ pc = "ingest" /\ f \in listing /\ f \notin listing'
          /\ UNCHANGED <<caller, todo, lock, tmp1, stat, tmp2, record, mover, mine,
                         delivered, mishaps>>
      BY <2>6 DEF AlreadyRecorded, Skip, SpawnCopier, disk, jobs, history
    <3>2. pc' \in {"ingest", "copywait"} /\ todo = {} /\ caller = "start"
      BY <2>6, <3>1 DEF AlreadyRecorded, Skip, SpawnCopier, ScriptInv, Transfer, TypeOK
    <3>3. \/ copier'[f] = copier[f] /\ (src'[f] = src[f] \/ record[f])
          \/ copier'[f] = "check" /\ src'[f] = src[f]
      BY <2>6 DEF AlreadyRecorded, Skip, SpawnCopier, disk, jobs, TypeOK
    <3>4. copier[f] = "none"
      BY <3>1 DEF LeftInv
    <3>5. CopyInv(f)' /\ JobInv(f)'
      BY <3>1, <3>2, <3>3 DEF CopyInv, JobInv
    <3>6. EarlyInv(f)'
      BY <3>1, <3>2 DEF EarlyInv
    <3>7. MoveInv(f)'
      BY <3>1, <3>2, <3>3, <3>4 DEF MoveInv
    <3> QED
      BY <3>5, <3>6, <3>7
  <2> QED
    BY <2>1, <2>2, <2>3, <2>4, <2>5, <2>6 DEF Handle
<1>3. ASSUME NEW g \in Files \ {f} PROVE FileInv(g)'
  <2>1. FileInv(g)
    BY DEF FilesInv
  <2> QED
    BY <2>1, HandleKeeps, OtherFile
<1> QED
  BY <1>2, <1>3 DEF FilesInv

\* A step of a copier touches its own file.
LEMMA CopierKeeps ==
  ASSUME TypeOK, NEW f \in Files, Copier(f)
  PROVE  /\ UNCHANGED <<script, src, tmp2, record, mover, mine, delivered>>
         /\ \A g \in Files \ {f} : /\ tmp1'[g] = tmp1[g] /\ stat'[g] = stat[g]
                                   /\ copier'[g] = copier[g] /\ mishaps'[g] = mishaps[g]
<1>1. UNCHANGED <<script, src, tmp2, record, mover, mine, delivered>>
  BY DEF Copier, CheckUse, Copied, CreateStat, WriteStat, history
<1>2. ASSUME NEW g \in Files \ {f}
      PROVE  tmp1'[g] = tmp1[g] /\ stat'[g] = stat[g] /\ copier'[g] = copier[g]
  BY DEF Copier, CheckUse, Copied, Whole, CreateStat, WriteStat, TypeOK
<1>3. mishaps' = mishaps \/ Befalls(f, "refused")
  BY DEF Copier, CheckUse, Copied, CreateStat, WriteStat, history
<1>4. \A g \in Files \ {f} : mishaps'[g] = mishaps[g]
  BY <1>3 DEF Befalls, TypeOK
<1> QED
  BY <1>1, <1>2, <1>4

LEMMA FilesCopier ==
  ASSUME TypeOK, ScriptInv, LeftInv, FilesInv, NEW f \in Files, Copier(f)
  PROVE  FilesInv'
<1>1. FileInv(f)
  BY DEF FilesInv
<1>2. UNCHANGED <<script, src, tmp2, record, mover, mine, delivered>>
  BY CopierKeeps
<1>3. FileInv(f)'
  <2> USE <1>1, <1>2 DEF FileInv, Copying, Ready, Safe, In, Moving, GivenUp, Swept,
              Done, Failed, Transfer, Early, script
  <2>0. ~Early
    BY DEF Copier, CheckUse, Copied, CreateStat, WriteStat, ScriptInv
  <2>1. CASE CheckUse(f)
    <3>1. /\ copier[f] = "check" /\ stat'[f] = stat[f] /\ tmp1[f] = "none"
          /\ \/ copier'[f] = "none" /\ tmp1'[f] = tmp1[f] /\ mishaps'[f] = mishaps[f]
             \/ copier'[f] = "cp" /\ tmp1'[f] = "part" /\ mishaps'[f] = mishaps[f]
             \/ /\ copier'[f] = "failed" /\ tmp1'[f] = tmp1[f] /\ ~src[f]
                /\ mishaps'[f] = mishaps[f] \cup {"refused"}
      BY <2>1 DEF CheckUse, Befalls, TypeOK, LeftInv
    <3>2. CopyInv(f)' /\ JobInv(f)'
      BY <3>1 DEF CopyInv, JobInv
    <3>3. EarlyInv(f)'
      BY <2>0, <3>1 DEF EarlyInv
    <3>4. MoveInv(f)'
      BY <3>1 DEF MoveInv, CopyInv
    <3> QED
      BY <3>2, <3>3, <3>4
  <2>2. CASE Copied(f)
    <3>1. /\ copier[f] = "cp" /\ stat'[f] = stat[f]
          /\ \/ /\ copier'[f] = "done" /\ mishaps'[f] = mishaps[f]
                /\ tmp1'[f] = IF tmp1[f] = "part" THEN "full" ELSE tmp1[f]
             \/ /\ copier'[f] = "failed" /\ tmp1'[f] = tmp1[f]
                /\ mishaps'[f] = mishaps[f] \cup {"refused"}
      BY <2>2 DEF Copied, Whole, Befalls, TypeOK
    <3>2. CopyInv(f)' /\ JobInv(f)'
      BY <3>1 DEF CopyInv, JobInv
    <3>3. EarlyInv(f)'
      BY <2>0, <3>1 DEF EarlyInv
    <3>4. MoveInv(f)'
      BY <3>1 DEF MoveInv, CopyInv
    <3> QED
      BY <3>2, <3>3, <3>4
  <2>3. CASE CreateStat(f) \/ WriteStat(f)
    <3>1. /\ tmp1'[f] = tmp1[f] /\ mishaps'[f] = mishaps[f]
          /\ \/ /\ copier[f] = "done" /\ copier'[f] = "write" /\ stat'[f] = "done?"
             \/ /\ copier[f] = "failed" /\ copier'[f] = "write" /\ stat'[f] = "failed?"
             \/ /\ copier[f] = "write" /\ copier'[f] = "none"
                /\ Failed(f)' = Failed(f) /\ Done(f)' = Done(f)
      BY <2>3 DEF CreateStat, WriteStat, TypeOK, StatKinds, history
    <3>2. CopyInv(f)' /\ JobInv(f)'
      BY <3>1 DEF CopyInv, JobInv, ScriptInv, LeftInv
    <3>3. EarlyInv(f)'
      BY <2>0, <3>1 DEF EarlyInv
    <3>4. MoveInv(f)'
      BY <3>1 DEF MoveInv, CopyInv
    <3> QED
      BY <3>2, <3>3, <3>4
  <2> QED
    BY <2>1, <2>2, <2>3 DEF Copier
<1>4. ASSUME NEW g \in Files \ {f} PROVE FileInv(g)'
  <2>1. FileInv(g)
    BY DEF FilesInv
  <2> QED
    BY <2>1, CopierKeeps, OtherFile DEF script, SamePlace
<1> QED
  BY <1>3, <1>4 DEF FilesInv

\* A step of a mover touches its own file, and the mover alone.
LEMMA MoverKeeps ==
  ASSUME TypeOK, NEW f \in Files, NEW m \in Movers, MoverStep(f, m)
  PROVE  /\ UNCHANGED <<script, copier, crashes>>
         /\ \A n \in Movers \ {m} : /\ mover'[f][n] = mover[f][n]
                                    /\ (<<f, n>> \in mine') = (<<f, n>> \in mine)
         /\ mover[f][m] # "none"
         /\ mover'[f][m] # "none" => (<<f, m>> \in mine') = (<<f, m>> \in mine)
         /\ \A g \in Files \ {f} :
              /\ mover'[g] = mover[g]
              /\ \A n \in Movers : (<<g, n>> \in mine') = (<<g, n>> \in mine)
              /\ src'[g] = src[g] /\ tmp1'[g] = tmp1[g] /\ stat'[g] = stat[g]
              /\ tmp2'[g] = tmp2[g] /\ record'[g] = record[g]
              /\ delivered'[g] = delivered[g] /\ mishaps'[g] = mishaps[g]
<1>1. UNCHANGED <<script, copier, crashes>> /\ mover[f][m] # "none"
  BY DEF MoverStep, MoveToTmp2, MoveRecord, MoveToInput, MoveRemoveSource, MoveRemoveStat,
         At, history
<1>2. PICK s \in {"none", "mv1", "record", "mv2", "rmsrc", "rmstat"} :
        /\ mover' = [mover EXCEPT ![f][m] = s]
        /\ \/ s # "none" /\ mine' = mine
           \/ s = "none" /\ mine' = mine \ {<<f, m>>}
  BY DEF MoverStep, MoveToTmp2, MoveRecord, MoveToInput, MoveRemoveSource, MoveRemoveStat,
         Goes
<1>3. /\ mover'[f][m] = s
      /\ \A n \in Movers \ {m} : mover'[f][n] = mover[f][n]
      /\ \A g \in Files \ {f} : mover'[g] = mover[g]
  BY <1>2 DEF TypeOK
<1>4. delivered' = delivered \/ CountDelivery(f)
  BY DEF MoverStep, MoveToTmp2, MoveRecord, MoveToInput, MoveRemoveSource, MoveRemoveStat,
         Deliver, NotMoved, history
<1>5. mishaps' = mishaps \/ Befalls(f, "unmoved") \/ Befalls(f, "kept")
  BY DEF MoverStep, MoveToTmp2, MoveRecord, MoveToInput, MoveRemoveSource, MoveRemoveStat,
         Deliver, NotMoved, history
<1>6. ASSUME NEW g \in Files \ {f}
      PROVE  /\ src'[g] = src[g] /\ tmp1'[g] = tmp1[g] /\ stat'[g] = stat[g]
             /\ tmp2'[g] = tmp2[g] /\ record'[g] = record[g]
  BY DEF MoverStep, MoveToTmp2, MoveRecord, MoveToInput, MoveRemoveSource, MoveRemoveStat,
         Deliver, NotMoved, RemoveSource, Recorded, disk, TypeOK
<1>7. ASSUME NEW g \in Files \ {f}
      PROVE  delivered'[g] = delivered[g] /\ mishaps'[g] = mishaps[g]
  BY <1>4, <1>5 DEF CountDelivery, Befalls, TypeOK
<1>8. ASSUME NEW g \in Files, NEW n \in Movers, <<g, n>> # <<f, m>> \/ s # "none"
      PROVE  (<<g, n>> \in mine') = (<<g, n>> \in mine)
  BY <1>2, <1>8
<1> QED
  BY <1>1, <1>3, <1>6, <1>7, <1>8

LEMMA FilesMover ==
  ASSUME TypeOK, ScriptInv, LeftInv, FilesInv, NEW f \in Files, NEW m \in Movers,
         MoverStep(f, m)
  PROVE  FilesInv'
<1>1. FileInv(f)
  BY DEF FilesInv
<1>2. ASSUME NEW g \in Files \ {f} PROVE FileInv(g)'
  <2>1. FileInv(g)
    BY DEF FilesInv
  <2> QED
    BY <2>1, MoverKeeps, OtherFile DEF script, SamePlace
<1>3. FileInv(f)'
  <2>0. /\ UNCHANGED <<script, copier>> /\ mover[f][m] # "none" /\ tmp2[f] \in BOOLEAN
        /\ \A n \in Movers \ {m} : /\ mover'[f][n] = mover[f][n]
                                   /\ (<<f, n>> \in mine') = (<<f, n>> \in mine)
        /\ mover'[f][m] # "none" => (<<f, m>> \in mine') = (<<f, m>> \in mine)
        /\ delivered[f] \in 0..2
    <3>1. tmp2[f] \in BOOLEAN /\ delivered[f] \in 0..2
      BY DEF TypeOK
    <3> QED
      BY <3>1, MoverKeeps
  <2> USE <1>1, <2>0 DEF FileInv, Copying, Ready, Safe, In, Moving, GivenUp, Swept,
              Done, Failed, Transfer, Early, script
  <2>1. CASE MoveToTmp2(f, m)
    <3>1. /\ mover[f][m] = "mv1"
          /\ UNCHANGED <<src, stat, record, delivered>>
          /\ \/ /\ tmp1[f] # "none" /\ tmp1'[f] = "none" /\ tmp2'[f]
                /\ mover'[f][m] \in {"record", "mv2"} /\ mishaps'[f] = mishaps[f]
             \/ /\ tmp1'[f] = tmp1[f] /\ tmp2'[f] = tmp2[f] /\ mover'[f][m] = "rmsrc"
                /\ \/ tmp1[f] # "none" /\ mishaps'[f] = mishaps[f] \cup {"unmoved"}
                   \/ tmp1[f] = "none" /\ mishaps'[f] = mishaps[f]
      BY <2>1 DEF MoveToTmp2, At, Goes, Befalls, TypeOK
    <3>2. CopyInv(f)' /\ JobInv(f)'
      BY <3>1 DEF CopyInv, JobInv, LeftInv
    <3>3. EarlyInv(f)'
      <4>1. pc = "recover" => Swept(f)
        BY <3>1 DEF JobInv, ScriptInv
      <4>2. mover'[f][m] # "none" /\ (Swept(f)' <=> Swept(f))
        BY <3>1
      <4>3. Early /\ pc # "recover" /\ ~Swept(f) /\ tmp2'[f] =>
              \/ "unmoved" \in mishaps'[f]
              \/ \E n \in Movers : mover'[f][n] \in {"record", "mv2"}
        BY <3>1 DEF EarlyInv
      <4> QED
        BY <3>1, <4>1, <4>2, <4>3 DEF EarlyInv
    <3>4. MoveInv(f)'
      BY <3>1 DEF MoveInv, CopyInv
    <3> QED
      BY <3>2, <3>3, <3>4
  <2>2. CASE MoveRecord(f, m)
    <3>1. /\ mover[f][m] = "record" /\ mover'[f][m] = "mv2"
          /\ UNCHANGED <<src, stat, tmp1, tmp2, delivered, mishaps>>
      BY <2>2 DEF MoveRecord, At, Goes, history, TypeOK
    <3>2. CopyInv(f)' /\ JobInv(f)' /\ EarlyInv(f)'
      BY <3>1 DEF CopyInv, JobInv, EarlyInv
    <3>3. MoveInv(f)'
      <4>1. ~Swept(f) => tmp2[f]
        BY <3>1 DEF MoveInv
      <4>2. ~Swept(f) => ~Copying(f) /\ f \notin listing
        BY <3>1 DEF MoveInv
      <4>3. Safe(f)' <=> Safe(f)
        BY <3>1
      <4>4. ASSUME NEW n \in Movers
            PROVE  /\ In(f, n, {"record", "mv2"})' <=> In(f, n, {"record", "mv2"})
                   /\ mover'[f][n] = "mv1" => mover[f][n] = "mv1"
                   /\ In(f, n, {"rmsrc", "rmstat"})' => In(f, n, {"rmsrc", "rmstat"})
        BY <3>1
      <4> HIDE DEF In
      <4>5. ~Swept(f) => \A n \in Movers :
              /\ mover'[f][n] = "mv1" => Ready(f)'
              /\ In(f, n, {"record", "mv2"})' =>
                   tmp2'[f] /\ \A l \in Movers : In(f, l, {"record", "mv2"})' => l = n
              /\ In(f, n, {"rmsrc", "rmstat"})' => Safe(f)'
        BY <3>1, <4>4 DEF MoveInv
      <4> QED
        BY <3>1, <4>1, <4>2, <4>3, <4>5 DEF MoveInv
    <3> QED
      BY <3>2, <3>3
  <2>3. CASE MoveToInput(f, m)
    <3>1. /\ mover[f][m] = "mv2" /\ mover'[f][m] = "rmsrc"
          /\ UNCHANGED <<src, stat, tmp1, record>>
      BY <2>3 DEF MoveToInput, At, Goes, TypeOK
    <3>2. \/ tmp2[f] /\ ~tmp2'[f] /\ delivered'[f] > 0 /\ mishaps'[f] = mishaps[f]
          \/ tmp2'[f] = tmp2[f] /\ mishaps'[f] = mishaps[f] /\ delivered'[f] = delivered[f]
             /\ (tmp2[f] => ~BeforeWipe)
          \/ tmp2'[f] = tmp2[f] /\ mishaps'[f] = mishaps[f] \cup {"unmoved"}
             /\ delivered'[f] = delivered[f]
      <4>1. CASE /\ tmp2[f] /\ tmp2' = [tmp2 EXCEPT ![f] = FALSE]
                 /\ CountDelivery(f) /\ UNCHANGED mishaps
        BY <4>1 DEF CountDelivery, TypeOK
      <4>2. CASE NotMoved(f, BeforeWipe) /\ UNCHANGED tmp2
        BY <4>2 DEF NotMoved, Befalls, TypeOK
      <4> QED
        BY <2>3, <4>1, <4>2 DEF MoveToInput, Deliver
    <3>3. CopyInv(f)' /\ JobInv(f)'
      BY <3>1, <3>2 DEF CopyInv, JobInv
    <3>4. EarlyInv(f)'
      <4>1. mover[f][m] # "none" /\ mover'[f][m] # "none"
        BY <3>1
      <4>2. Early /\ pc # "recover" /\ ~Swept(f) /\ tmp2'[f] => "unmoved" \in mishaps'[f]
        BY <3>1, <3>2 DEF EarlyInv, BeforeWipe, JobInv, ScriptInv
      <4>3. pc = "recover" => Swept(f)
        BY <3>1 DEF JobInv, ScriptInv
      <4>4. Swept(f)' <=> Swept(f)
        BY <3>2
      <4> QED
        BY <3>1, <4>2, <4>3, <4>4 DEF EarlyInv
    <3>5. MoveInv(f)'
      BY <3>1, <3>2 DEF MoveInv
    <3> QED
      BY <3>3, <3>4, <3>5
  <2>4. CASE MoveRemoveSource(f, m)
    <3>1. /\ mover[f][m] = "rmsrc" /\ mover'[f][m] = "rmstat"
          /\ UNCHANGED <<stat, tmp1, tmp2, record, delivered>>
      BY <2>4 DEF MoveRemoveSource, At, Goes, TypeOK
    <3>2. mishaps'[f] = mishaps[f] \/ mishaps'[f] = mishaps[f] \cup {"kept"}
      BY <2>4 DEF MoveRemoveSource, Befalls, TypeOK
    <3>3. CopyInv(f)' /\ JobInv(f)' /\ EarlyInv(f)'
      BY <3>1, <3>2 DEF CopyInv, JobInv, EarlyInv
    <3>4. MoveInv(f)'
      BY <3>1, <3>2 DEF MoveInv
    <3> QED
      BY <3>3, <3>4
  <2>5. CASE MoveRemoveStat(f, m)
    <3>1. /\ mover[f][m] = "rmstat" /\ mover'[f][m] = "none"
          /\ stat'[f] = "none" /\ tmp1'[f] = "none"
          /\ UNCHANGED <<src, tmp2, record, delivered, mishaps>>
      BY <2>5 DEF MoveRemoveStat, At, Goes, history, TypeOK
    <3>2. CopyInv(f)' /\ JobInv(f)'
      BY <3>1 DEF CopyInv, JobInv
    <3>3. EarlyInv(f)'
      BY <3>1 DEF EarlyInv
    <3>4. MoveInv(f)'
      BY <3>1 DEF MoveInv
    <3> QED
      BY <3>2, <3>3, <3>4
  <2> QED
    BY <2>1, <2>2, <2>3, <2>4, <2>5 DEF MoverStep
<1> QED
  BY <1>2, <1>3 DEF FilesInv

LEMMA FilesHold == Spec => [](TypeOK /\ ScriptInv /\ LeftInv /\ FilesInv)
<1>1. TypeOK /\ ScriptInv /\ LeftInv /\ FilesInv /\ [Next]_vars => FilesInv'
  <2> SUFFICES ASSUME TypeOK, ScriptInv, LeftInv, FilesInv, [Next]_vars
               PROVE  FilesInv'
    OBVIOUS
  <2>1. CASE UNCHANGED vars
    <3> SUFFICES ASSUME NEW f \in Files PROVE FileInv(f)'
      BY DEF FilesInv
    <3> QED
      BY <2>1, OtherFile DEF vars, script, disk, jobs, history, FilesInv, SamePlace
  <2>2. CASE Control
    BY <2>2, FilesControl
  <2>3. CASE Kill \/ Crash
    BY <2>3, FilesCrash
  <2>4. ASSUME NEW f \in Files, Handle(f) \/ Copier(f) PROVE FilesInv'
    BY <2>4, FilesHandle, FilesCopier
  <2>5. ASSUME NEW f \in Files, NEW m \in Movers, MoverStep(f, m) PROVE FilesInv'
    BY <2>5, FilesMover
  <2> QED
    BY <2>1, <2>2, <2>3, <2>4, <2>5, NextSplit
<1> QED
  BY <1>1, InitFiles, LeftHolds, PTL DEF Spec

\* Until something is killed, nothing is left of one run for the next
CalmInv ==
  crashes = 0 =>
    /\ pc = "stopped" => ~lock
    /\ \A f \in Files : /\ ~Swept(f)
                        /\ Early \/ pc = "stopped" => ~Moving(f) /\ stat[f] = "none"
                        /\ Early /\ Transfer => f \notin todo

LEMMA NextCalm ==
  TypeOK /\ ScriptInv /\ LeftInv /\ FilesInv /\ CalmInv /\ [Next]_vars => CalmInv'
<1> SUFFICES ASSUME TypeOK, ScriptInv, LeftInv, FilesInv, CalmInv, [Next]_vars
             PROVE  CalmInv'
  OBVIOUS
<1> USE DEF CalmInv, Swept, Moving, Early, Transfer
<1>1. CASE UNCHANGED vars
  BY <1>1 DEF vars, script, disk, jobs, history
<1>2. CASE Control
  <2>0. UNCHANGED <<stat, mover, mishaps, crashes>>
    BY <1>2, ControlKeeps DEF disk, history
  <2>1. CASE Start \/ RemoveStaleLock
    BY <2>0, <2>1 DEF Start, RemoveStaleLock
  <2>2. CASE RecoverEnd \/ ListDone \/ MoveWait
    BY <2>0, <2>2 DEF RecoverEnd, ListDone, MoveWait, CompleteTransfer, Failed, Done
  <2>3. CASE TransferEnd
    BY <2>0, <2>3 DEF TransferEnd, TypeOK
  <2>4. CASE WipeTmp1End \/ CopyWait \/ RoundEnd \/ ListingEnd
    BY <2>0, <2>4 DEF WipeTmp1End, CopyWait, RoundEnd, ListingEnd
  <2>5. CASE Prepared
    BY <2>0, <2>5 DEF Prepared, Stop, Halt
  <2>6. CASE Finish
    <3>1. NoJobs /\ todo = {}
      BY <2>6 DEF Finish, ScriptInv
    <3>2. ASSUME NEW f \in Files, crashes = 0 PROVE ~Moving(f) /\ stat[f] = "none"
      <4>1. ~Moving(f)
        BY <2>6, <3>1, <3>2 DEF Finish, NoJobs, FilesInv, FileInv, JobInv
      <4>2. stat[f] = "none"
        BY <2>6, <3>1 DEF Finish, NoJobs, LeftInv, Last, Own, Failed, Done, TypeOK, StatKinds
      <4> QED
        BY <4>1, <4>2
    <3> QED
      BY <2>0, <2>6, <3>2 DEF Finish, Stop, Halt
  <2>7. CASE RoundTransfer \/ FinalTransfer
    BY <2>0, <2>7 DEF RoundTransfer, FinalTransfer, CompleteTransfer
  <2> QED
    BY <1>2, <2>1, <2>2, <2>3, <2>4, <2>5, <2>6, <2>7 DEF Control
<1>3. CASE Kill \/ Crash
  <2>1. crashes' # 0
    BY <1>3 DEF Kill, Crash, TypeOK
  <2> QED
    BY <2>1
<1>4. ASSUME NEW f \in Files, Handle(f) PROVE CalmInv'
  <2>1. CASE Recover(f) \/ GiveUp(f)
    <3>1. /\ pc \in {"recover", "failures"} /\ pc' = pc /\ caller' = caller
          /\ UNCHANGED <<lock, mover, crashes>> /\ todo' \subseteq todo
          /\ stat' = stat \/ stat' = [stat EXCEPT ![f] = "none"]
          /\ mishaps' = mishaps \/ mishaps' = [mishaps EXCEPT ![f] = @ \cup {"unmoved"}]
      BY <2>1 DEF Recover, GiveUp, NotMoved, Befalls, jobs, history
    <3> QED
      BY <3>1 DEF TypeOK
  <2>2. CASE SpawnMover(f)
    <3>1. UNCHANGED <<crashes, lock, caller, stat, mishaps>> /\ pc' = "movewait" /\ f \in todo
          /\ pc = "moves" /\ todo' \subseteq todo
      BY <2>2 DEF SpawnMover, disk, history
    <3>2. crashes = 0 => caller # "start"
      BY <3>1
    <3> QED
      BY <3>1, <3>2
  <2>3. CASE WipeTmp1(f) \/ WipeStat(f) \/ WipeTmp2(f)
    <3>1. /\ pc' = pc /\ pc \in {"wipe1", "wipe2"}
          /\ UNCHANGED <<lock, mover, crashes>>
          /\ stat' = stat \/ stat' = [stat EXCEPT ![f] = "none"]
          /\ mishaps' = mishaps \/ Moving(f)
      BY <2>3 DEF WipeTmp1, WipeStat, WipeTmp2, Sweeps, script, jobs, history
    <3> QED
      BY <3>1 DEF TypeOK
  <2>4. CASE AlreadyRecorded(f) \/ Skip(f) \/ SpawnCopier(f)
    BY <2>4 DEF AlreadyRecorded, Skip, SpawnCopier, disk, jobs, history
  <2> QED
    BY <1>4, <2>1, <2>2, <2>3, <2>4 DEF Handle
<1>5. ASSUME NEW f \in Files, Copier(f) PROVE CalmInv'
  <2>1. UNCHANGED <<script, crashes, mover>> /\ copier[f] # "none"
    BY <1>5 DEF Copier, CheckUse, Copied, CreateStat, WriteStat, history
  <2>2. ~Early
    BY <2>1 DEF ScriptInv
  <2>3. crashes = 0 => pc # "stopped"
    BY <2>1 DEF ScriptInv
  <2>4. mishaps' = mishaps \/ mishaps' = [mishaps EXCEPT ![f] = @ \cup {"refused"}]
    BY <1>5 DEF Copier, CheckUse, Copied, CreateStat, WriteStat, Befalls, history
  <2> QED
    BY <2>1, <2>2, <2>3, <2>4 DEF script, TypeOK
<1>6. ASSUME NEW f \in Files, NEW m \in Movers, MoverStep(f, m) PROVE CalmInv'
  <2>1. UNCHANGED <<script, crashes>> /\ Moving(f)
    BY <1>6, MoverKeeps
  <2>2. \/ mishaps' = mishaps
        \/ mishaps' = [mishaps EXCEPT ![f] = @ \cup {"unmoved"}]
        \/ mishaps' = [mishaps EXCEPT ![f] = @ \cup {"kept"}]
    BY <1>6 DEF MoverStep, MoveToTmp2, MoveRecord, MoveToInput, MoveRemoveSource,
       MoveRemoveStat, Deliver, NotMoved, Befalls, history
  <2> QED
    BY <2>1, <2>2 DEF script, TypeOK
<1> QED
  BY <1>1, <1>2, <1>3, <1>4, <1>5, <1>6, NextSplit

\* However many jobs run at once, wherever the script or the machine is stopped,
\* and whatever copies and moves fail: a file removed from incoming has reached its
\* input directory or lies in tmp2, unless its copy or a move failed, or a run that
\* came after a kill wiped it away under its mover.
THEOREM NoFileLostHolds == Spec => []NoFileLost
<1>1. Init => CalmInv
  BY DEF Init, CalmInv, Swept, Moving, Early, Transfer
<1>2. TypeOK /\ FilesInv /\ CalmInv => NoFileLost
  BY DEF FilesInv, FileInv, MoveInv, CalmInv, Safe, Swept, GivenUp, NoFileLost, TypeOK
<1> QED
  BY <1>1, <1>2, NextCalm, FilesHold, PTL DEF Spec

\* Only a mover puts a file into tmp2, and only when tmp1 held all of it, unless the
\* file was swept: not even a copier left behind by a killed script is overtaken.
THEOREM OnlyWholeFilesMoveHolds == Spec => OnlyWholeFilesMove
<1> DEFINE Moved(f) == tmp2'[f] /\ ~tmp2[f]
           Right == \A f \in Files : Moved(f) => tmp1[f] = "full" \/ Swept(f)
<1>1. TypeOK /\ FilesInv /\ [Next]_vars => [Right]_vars
  <2> SUFFICES ASSUME TypeOK, FilesInv, [Next]_vars, NEW f \in Files, Moved(f)
               PROVE  tmp1[f] = "full" \/ Swept(f)
    OBVIOUS
  <2>1. PICK m \in Movers : MoveToTmp2(f, m)
    <3>1. CASE UNCHANGED vars \/ Kill \/ Crash
      BY <3>1 DEF vars, disk, Kill, Crash
    <3>2. CASE Control
      BY <3>2, ControlKeeps DEF disk
    <3>3. ASSUME NEW g \in Files, Handle(g) PROVE FALSE
      BY <3>3 DEF TypeOK, Handle, Recover, GiveUp, SpawnMover, WipeTmp1, WipeStat, WipeTmp2,
         AlreadyRecorded, Skip, SpawnCopier, disk
    <3>4. ASSUME NEW g \in Files, Copier(g) PROVE FALSE
      BY <3>4 DEF Copier, CheckUse, Copied, CreateStat, WriteStat
    <3>5. ASSUME NEW g \in Files, NEW m \in Movers, MoverStep(g, m) PROVE MoveToTmp2(f, m)
      BY <3>5 DEF TypeOK, MoverStep, MoveToTmp2, MoveRecord, MoveToInput, MoveRemoveSource,
         MoveRemoveStat, Deliver, NotMoved
    <3> QED
      BY <3>1, <3>2, <3>3, <3>4, <3>5, NextSplit
  <2>2. mover[f][m] = "mv1" /\ tmp1[f] # "none"
    BY <2>1 DEF MoveToTmp2, At, TypeOK
  <2> QED
    BY <2>2 DEF FilesInv, FileInv, MoveInv, Ready
<1> QED
  BY <1>1, FilesHold, PTL DEF Spec, OnlyWholeFilesMove

---------------------------------------------------------------------------
(* No file is delivered twice *)

\* With records: what is delivered is recorded, and has left both directories
RecordedInv(f) ==
  /\ \A m \in Movers : mover[f][m] = "mv2" => record[f]
  /\ delivered[f] > 0 =>
       record[f] /\ ~tmp2[f] /\ tmp1[f] = "none" /\ copier[f] # "check"
  /\ delivered[f] <= 1
\* Without: a file that was taken and is still in incoming has its status file
UnrecordedInv(f) == ~Kept(f) /\ ~Swept(f) =>
  /\ delivered[f] > 0 => ~tmp2[f] /\ tmp1[f] = "none"
  /\ delivered[f] <= 1
  /\ \A m \in Movers : mover[f][m] = "rmstat" => ~src[f]
  /\ /\ \/ Moving(f) \/ tmp2[f] \/ delivered[f] > 0
        \/ pc \in {"moves", "movewait"} /\ f \in todo
     /\ src[f]
     => Done(f)
OnceInv(f) == (FileRecord => RecordedInv(f)) /\ (~FileRecord => UnrecordedInv(f))
AllOnce == \A f \in Files : OnceInv(f)

\* A file whose own state does not change, nor what the script does, stays right.
LEMMA OtherOnce ==
  ASSUME NEW f \in Files, OnceInv(f), SamePlace, gvars' = gvars,
         (f \in todo') = (f \in todo),
         src'[f] = src[f], tmp1'[f] = tmp1[f], stat'[f] = stat[f], tmp2'[f] = tmp2[f],
         record'[f] = record[f], copier'[f] = copier[f], mover'[f] = mover[f],
         delivered'[f] = delivered[f], mishaps'[f] = mishaps[f]
  PROVE  OnceInv(f)'
BY DEF OnceInv, RecordedInv, UnrecordedInv, FileRecord, SamePlace, Moving, Kept, Swept, Done

LEMMA OnceControl ==
  ASSUME TypeOK, ScriptInv, FilesInv, AllOnce, Control
  PROVE  AllOnce'
<1> SUFFICES ASSUME NEW f \in Files PROVE OnceInv(f)'
  BY DEF AllOnce
<1>1. OnceInv(f)
  BY DEF AllOnce
<1>2. UNCHANGED <<gvars, disk, copier, mover, history>>
  BY ControlKeeps
<1>3. RecordedInv(f) => RecordedInv(f)'
  BY <1>2 DEF RecordedInv, disk, history
<1>4. UnrecordedInv(f) => UnrecordedInv(f)'
  <2> USE <1>2 DEF UnrecordedInv, Moving, Kept, Swept, Done, disk, history
  <2>1. CASE Start \/ RemoveStaleLock \/ RecoverEnd
    BY <2>1 DEF Start, RemoveStaleLock, RecoverEnd, CompleteTransfer
  <2>2. CASE ListDone \/ MoveWait
    BY <2>2 DEF ListDone, MoveWait
  <2>3. CASE TransferEnd \/ WipeTmp1End
    BY <2>3 DEF TransferEnd, WipeTmp1End, TypeOK
  <2>4. CASE Prepared \/ Finish
    BY <2>4 DEF Prepared, Finish, Stop, Halt
  <2>5. CASE CopyWait \/ RoundEnd \/ ListingEnd
    BY <2>5 DEF CopyWait, RoundEnd, ListingEnd
  <2>6. CASE RoundTransfer \/ FinalTransfer
    BY <2>6 DEF RoundTransfer, FinalTransfer, CompleteTransfer
  <2> QED
    BY <2>1, <2>2, <2>3, <2>4, <2>5, <2>6 DEF Control
<1> QED
  BY <1>1, <1>2, <1>3, <1>4 DEF OnceInv, FileRecord

LEMMA OnceHandle ==
  ASSUME TypeOK, ScriptInv, FilesInv, AllOnce, NEW f \in Files, Handle(f)
  PROVE  AllOnce'
<1>1. ASSUME NEW g \in Files \ {f} PROVE OnceInv(g)'
  <2>1. OnceInv(g)
    BY DEF AllOnce
  <2> QED
    BY <2>1, HandleKeeps, OtherOnce
<1>2. OnceInv(f) /\ CopyInv(f) /\ EarlyInv(f)
  BY DEF AllOnce, FilesInv, FileInv
<1>3. OnceInv(f)'
  <2> USE <1>2 DEF OnceInv, RecordedInv, UnrecordedInv, FileRecord, Moving, Kept, Swept,
              Done, Transfer, script, disk, jobs, history
  <2>1. CASE Recover(f)
    <3>1. /\ pc = "recover" /\ ~tmp2'[f] /\ copier[f] = "none"
          /\ tmp2[f] => tmp1[f] = "none"
          /\ FileRecord => record'[f]
          /\ UNCHANGED <<gvars, pc, src, tmp1, stat, copier, mover>>
      BY <2>1 DEF Recover, Recorded, TypeOK, ScriptInv, Early, CopyInv
    <3>2. \/ tmp2[f] /\ CountDelivery(f) /\ UNCHANGED mishaps
          \/ delivered'[f] = delivered[f] /\ (Swept(f)' <=> Swept(f)) /\ (Kept(f)' <=> Kept(f))
      BY <2>1 DEF Recover, NotMoved, Befalls, TypeOK
    <3>3. tmp2[f] /\ CountDelivery(f) /\ delivered[f] = 0 => delivered'[f] = 1
      BY DEF CountDelivery, TypeOK
    <3>4. delivered[f] \in 0..2
      BY DEF TypeOK
    <3>5. FileRecord => RecordedInv(f)'
      BY <3>1, <3>2, <3>3, <3>4
    <3>6. ~FileRecord => UnrecordedInv(f)'
      BY <3>1, <3>2, <3>3, <3>4
    <3> QED
      BY <3>1, <3>5, <3>6
  <2>2. CASE GiveUp(f)
    <3>1. /\ pc = "failures" /\ f \in todo /\ ~Done(f)
          /\ tmp1'[f] = "none" /\ (record[f] => record'[f])
          /\ src'[f] => src[f]
          /\ UNCHANGED <<gvars, pc, tmp2, copier, mover, delivered, mishaps>>
      BY <2>2 DEF GiveUp, Recorded, RemoveSource, TypeOK, CopyInv
    <3> QED
      BY <3>1
  <2>3. CASE SpawnMover(f)
    <3>1. PICK m \in Movers : mover' = [mover EXCEPT ![f][m] = "mv1"]
      BY <2>3 DEF SpawnMover
    <3>2. mover'[f][m] = "mv1" /\ \A n \in Movers \ {m} : mover'[f][n] = mover[f][n]
      BY <3>1 DEF TypeOK
    <3>3. /\ pc = "moves" /\ f \in todo
          /\ UNCHANGED <<gvars, src, tmp1, stat, tmp2, record, copier, delivered, mishaps>>
      BY <2>3 DEF SpawnMover
    <3> QED
      BY <3>2, <3>3
  <2>4. CASE WipeTmp1(f) \/ WipeStat(f)
    <3>1. /\ pc = "wipe1" /\ tmp1'[f] = "none"
          /\ stat'[f] = stat[f] \/ (stat'[f] = "none" /\ (Swept(f) \/ Moving(f) \/ ~Done(f)))
          /\ UNCHANGED <<gvars, pc, src, tmp2, record, copier, mover, delivered>>
      BY <2>4 DEF WipeTmp1, WipeStat, TypeOK, EarlyInv
    <3>2. IF Moving(f) THEN mishaps'[f] = mishaps[f] \cup {"swept"} ELSE mishaps'[f] = mishaps[f]
      BY <2>4 DEF WipeTmp1, WipeStat, Sweeps, Befalls, TypeOK
    <3> QED
      BY <3>1, <3>2
  <2>5. CASE WipeTmp2(f)
    BY <2>5 DEF WipeTmp2, TypeOK
  <2>6. CASE AlreadyRecorded(f)
    BY <2>6 DEF AlreadyRecorded, TypeOK
  <2>7. CASE Skip(f) \/ SpawnCopier(f)
    <3>1. /\ pc = "ingest" /\ pc' \in {"ingest", "copywait"}
          /\ copier'[f] = copier[f] \/ ~(FileRecord /\ record[f])
          /\ UNCHANGED <<gvars, src, tmp1, stat, tmp2, record, mover, delivered, mishaps>>
      BY <2>7 DEF Skip, SpawnCopier
    <3> QED
      BY <3>1
  <2> QED
    BY <2>1, <2>2, <2>3, <2>4, <2>5, <2>6, <2>7 DEF Handle
<1> QED
  BY <1>1, <1>3 DEF AllOnce

LEMMA OnceCopier ==
  ASSUME TypeOK, FilesInv, AllOnce, NEW f \in Files, Copier(f)
  PROVE  AllOnce'
<1>0. UNCHANGED <<script, src, tmp2, record, mover, mine, delivered>>
  BY CopierKeeps
<1>1. ASSUME NEW g \in Files \ {f} PROVE OnceInv(g)'
  <2>1. OnceInv(g)
    BY DEF AllOnce
  <2> QED
    BY <2>1, CopierKeeps, OtherOnce DEF script, SamePlace
<1>2. OnceInv(f) /\ CopyInv(f)
  BY DEF AllOnce, FilesInv, FileInv
<1>3. OnceInv(f)'
  <2> USE <1>0, <1>2 DEF OnceInv, RecordedInv, UnrecordedInv, FileRecord, Moving, Kept, Swept,
              Done, Copying, script
  <2>1. CASE CheckUse(f)
    <3>1. /\ copier[f] = "check" /\ copier'[f] # "check" /\ stat'[f] = stat[f]
          /\ tmp1'[f] = tmp1[f] \/ src[f]
          /\ Kept(f)' = Kept(f) /\ Swept(f)' = Swept(f)
      BY <2>1 DEF CheckUse, Befalls, TypeOK
    <3> QED
      BY <3>1 DEF CopyInv, TypeOK
  <2>2. CASE Copied(f)
    <3>1. /\ copier[f] = "cp" /\ copier'[f] # "check" /\ stat'[f] = stat[f]
          /\ tmp1[f] = "none" => tmp1'[f] = "none"
          /\ Kept(f)' = Kept(f) /\ Swept(f)' = Swept(f)
      BY <2>2 DEF Copied, Whole, Befalls, TypeOK
    <3> QED
      BY <3>1 DEF CopyInv
  <2>3. CASE CreateStat(f) \/ WriteStat(f)
    <3>1. /\ tmp1'[f] = tmp1[f] /\ mishaps'[f] = mishaps[f] /\ copier'[f] # "check"
          /\ Done(f) => Done(f)' \/ Copying(f)
      BY <2>3 DEF CreateStat, WriteStat, TypeOK, StatKinds, history
    <3> QED
      BY <3>1 DEF CopyInv
  <2> QED
    BY <2>1, <2>2, <2>3 DEF Copier
<1> QED
  BY <1>1, <1>3 DEF AllOnce

LEMMA OnceMover ==
  ASSUME TypeOK, FilesInv, AllOnce, NEW f \in Files, NEW m \in Movers, MoverStep(f, m)
  PROVE  AllOnce'
<1>0. /\ UNCHANGED <<script, copier>> /\ mover[f][m] # "none"
      /\ \A n \in Movers \ {m} : mover'[f][n] = mover[f][n]
  BY MoverKeeps
<1>1. ASSUME NEW g \in Files \ {f} PROVE OnceInv(g)'
  <2>1. OnceInv(g)
    BY DEF AllOnce
  <2> QED
    BY <2>1, MoverKeeps, OtherOnce DEF script, SamePlace
<1>2. OnceInv(f) /\ CopyInv(f)
  BY DEF AllOnce, FilesInv, FileInv
<1>3. OnceInv(f)'
  <2> USE <1>0, <1>2 DEF OnceInv, RecordedInv, UnrecordedInv, FileRecord, Moving, Kept, Swept,
              Done, script
  <2>1. CASE MoveToTmp2(f, m)
    <3>1. /\ mover[f][m] = "mv1"
          /\ UNCHANGED <<src, stat, record, delivered>>
          /\ Kept(f)' = Kept(f) /\ Swept(f)' = Swept(f)
          /\ \/ /\ tmp1[f] # "none" /\ tmp1'[f] = "none"
                /\ mover'[f][m] = IF FileRecord THEN "record" ELSE "mv2"
             \/ /\ tmp1'[f] = tmp1[f] /\ tmp2'[f] = tmp2[f] /\ mover'[f][m] = "rmsrc"
      BY <2>1 DEF MoveToTmp2, At, Goes, Befalls, TypeOK
    <3> QED
      BY <3>1
  <2>2. CASE MoveRecord(f, m)
    <3>1. /\ mover[f][m] = "record" /\ mover'[f][m] = "mv2"
          /\ record[f] \/ FileRecord => record'[f]
          /\ UNCHANGED <<src, stat, tmp1, tmp2, delivered, mishaps>>
      BY <2>2 DEF MoveRecord, Recorded, At, Goes, history, TypeOK
    <3> QED
      BY <3>1
  <2>3. CASE MoveToInput(f, m)
    <3>1. /\ mover[f][m] = "mv2" /\ mover'[f][m] = "rmsrc"
          /\ UNCHANGED <<src, stat, tmp1, record>>
      BY <2>3 DEF MoveToInput, At, Goes, TypeOK
    <3>2. \/ tmp2[f] /\ ~tmp2'[f] /\ CountDelivery(f) /\ mishaps'[f] = mishaps[f]
          \/ /\ tmp2'[f] = tmp2[f] /\ delivered'[f] = delivered[f]
             /\ Kept(f)' = Kept(f) /\ Swept(f)' = Swept(f)
      BY <2>3 DEF MoveToInput, Deliver, NotMoved, Befalls, TypeOK
    <3>3. CountDelivery(f) /\ delivered[f] = 0 => delivered'[f] = 1
      BY DEF CountDelivery, TypeOK
    <3>4. delivered[f] \in 0..2
      BY DEF TypeOK
    <3>5. FileRecord => RecordedInv(f)'
      BY <3>1, <3>2, <3>3, <3>4 DEF CopyInv
    <3>6. ~FileRecord => UnrecordedInv(f)'
      BY <3>1, <3>2, <3>3, <3>4 DEF CopyInv
    <3> QED
      BY <3>5, <3>6
  <2>4. CASE MoveRemoveSource(f, m)
    <3>1. /\ mover[f][m] = "rmsrc" /\ mover'[f][m] = "rmstat"
          /\ src'[f] => src[f]
          /\ UNCHANGED <<stat, tmp1, tmp2, record, delivered>>
      BY <2>4 DEF MoveRemoveSource, RemoveSource, At, Goes, TypeOK
    <3>2. IF src'[f] /\ ~FileRecord THEN Kept(f)' ELSE mishaps'[f] = mishaps[f]
      BY <2>4 DEF MoveRemoveSource, Befalls, TypeOK
    <3>3. FileRecord => RecordedInv(f)'
      BY <3>1
    <3>4. ~FileRecord => UnrecordedInv(f)'
      BY <3>1, <3>2
    <3> QED
      BY <3>3, <3>4
  <2>5. CASE MoveRemoveStat(f, m)
    <3>1. /\ mover[f][m] = "rmstat" /\ mover'[f][m] = "none"
          /\ tmp1'[f] = "none"
          /\ UNCHANGED <<src, tmp2, record, delivered, mishaps>>
      BY <2>5 DEF MoveRemoveStat, At, Goes, history, TypeOK
    <3> QED
      BY <3>1
  <2> QED
    BY <2>1, <2>2, <2>3, <2>4, <2>5 DEF MoverStep
<1> QED
  BY <1>1, <1>3 DEF AllOnce

\* All that is known of the files
FilesRight == TypeOK /\ ScriptInv /\ LeftInv /\ FilesInv /\ AllOnce

LEMMA FilesRightHolds == Spec => []FilesRight
<1>1. Init => AllOnce
  BY DEF Init, AllOnce, OnceInv, RecordedInv, UnrecordedInv, Moving
<1>2. TypeOK /\ ScriptInv /\ FilesInv /\ AllOnce /\ [Next]_vars => AllOnce'
  <2> SUFFICES ASSUME TypeOK, ScriptInv, FilesInv, AllOnce, [Next]_vars PROVE AllOnce'
    OBVIOUS
  <2>1. CASE UNCHANGED vars
    <3> SUFFICES ASSUME NEW f \in Files PROVE OnceInv(f)'
      BY DEF AllOnce
    <3> QED
      BY <2>1, OtherOnce DEF vars, script, disk, jobs, history, AllOnce, SamePlace
  <2>2. CASE Control
    BY <2>2, OnceControl
  <2>3. CASE Kill \/ Crash
    <3> SUFFICES ASSUME NEW f \in Files PROVE OnceInv(f)'
      BY DEF AllOnce
    <3>1. /\ UNCHANGED <<gvars, src, tmp1, stat, tmp2, record, delivered, mishaps>>
          /\ pc' = "stopped"
          /\ copier'[f] = copier[f] \/ copier'[f] = "none"
          /\ mover'[f] = mover[f] \/ \A m \in Movers : mover'[f][m] = "none"
      BY <2>3 DEF Kill, Crash, Halt, disk
    <3> QED
      BY <3>1 DEF AllOnce, OnceInv, RecordedInv, UnrecordedInv, FileRecord, Moving, Kept,
                  Swept, Done
  <2>4. ASSUME NEW f \in Files, Handle(f) \/ Copier(f) PROVE AllOnce'
    BY <2>4, OnceHandle, OnceCopier
  <2>5. ASSUME NEW f \in Files, NEW m \in Movers, MoverStep(f, m) PROVE AllOnce'
    BY <2>5, OnceMover
  <2> QED
    BY <2>1, <2>2, <2>3, <2>4, <2>5, NextSplit
<1> QED
  BY <1>1, <1>2, FilesHold, PTL DEF Spec, FilesRight

\* With the record file no file enters its input directory twice: not after a kill
\* between a move and its record, nor when recovery repeats the move, nor by two
\* movers at once. Without it none does whose status file named its source and was
\* not swept away.
THEOREM DeliveredOnceHolds == Spec => []DeliveredOnce
<1>1. FilesRight => DeliveredOnce
  BY DEF FilesRight, AllOnce, OnceInv, RecordedInv, UnrecordedInv, DeliveredOnce, TypeOK
<1> QED
  BY <1>1, FilesRightHolds, PTL

---------------------------------------------------------------------------
(* The promise of Delivery *)

Mishap(f) == mishaps[f] # {}

\* What a step does to the file on which it works, as Delivery sees it
Effect(f) ==
  \/ /\ Place(f)' = Place(f) /\ delivered'[f] = delivered[f]
     /\ Mishap(f)' = Mishap(f) \/ Mishap(f)'
  \/ /\ Place(f) = "waiting" /\ Place(f)' = "taken"
     /\ delivered'[f] = delivered[f] /\ Mishap(f)' = Mishap(f)
  \/ /\ Place(f) = "taken" /\ Place(f)' = "delivered"
     /\ delivered'[f] = delivered[f] + 1 /\ Mishap(f)' = Mishap(f)
  \/ /\ Mishap(f)'
     /\ \/ /\ Place(f) \in {"waiting", "taken"} /\ Place(f)' = "dropped"
           /\ delivered'[f] = delivered[f]
        \/ /\ Place(f) = "taken" /\ Place(f)' = "waiting"
           /\ delivered'[f] = delivered[f]
        \/ /\ Place(f) = "dropped" /\ Place(f)' = "taken"
           /\ delivered'[f] = delivered[f]
        \/ /\ Place(f) = "delivered" /\ Place(f)' = "delivered"
           /\ delivered'[f] = delivered[f] + 1

Untouched(f) ==
  /\ Place(f)' = Place(f) /\ delivered'[f] = delivered[f] /\ Mishap(f)' = Mishap(f)

\* the variables of Delivery, as IsDelivery gives them
places == [f \in Files |-> Place(f)]
faulty == {f \in Files : mishaps[f] # {}}
view == <<places, delivered, faulty>>

LEMMA EffectIsAStep ==
  ASSUME TypeOK, TypeOK', NEW f \in Files, Effect(f),
         \A g \in Files \ {f} : Untouched(g)
  PROVE  Outcome!DeliveryNext \/ UNCHANGED view
<1>1. ASSUME NEW p, Place(f)' = p PROVE places' = [places EXCEPT ![f] = p]
  BY <1>1 DEF places, Untouched
<1>2. Place(f)' = Place(f) => places' = places
  BY DEF places, Untouched
<1>3. places[f] = Place(f)
  BY DEF places
<1>4. delivered'[f] = delivered[f] => delivered' = delivered
  BY DEF Untouched, TypeOK
<1>5. delivered'[f] = delivered[f] + 1 => delivered' = [delivered EXCEPT ![f] = @ + 1]
  BY DEF Untouched, TypeOK
<1>6. Mishap(f)' = Mishap(f) => faulty' = faulty
  BY DEF faulty, Mishap, Untouched
<1>7. Mishap(f)' => faulty' = faulty \cup {f} /\ f \in faulty'
  BY DEF faulty, Mishap, Untouched
<1>8. CASE Place(f)' = Place(f) /\ delivered'[f] = delivered[f]
  <2>1. CASE Mishap(f)' = Mishap(f)
    BY <1>2, <1>4, <1>6, <1>8, <2>1 DEF view
  <2>2. CASE Mishap(f)'
    <3>1. Outcome!Fail(f)
      BY <1>2, <1>4, <1>7, <1>8, <2>2 DEF Outcome!Fail, places, faulty
    <3> QED
      BY <3>1 DEF Outcome!DeliveryNext
  <2>3. CASE Place(f) # Place(f)'
    BY <1>8, <2>3
  <2> QED
    BY <1>8, <2>1, <2>2 DEF Effect
<1>9. CASE Place(f) = "waiting" /\ Place(f)' = "taken"
  <2>1. Outcome!Take(f)
    BY <1>1, <1>3, <1>4, <1>6, <1>9
       DEF Effect, Outcome!Take, Outcome!Moves, places, faulty
  <2> QED
    BY <2>1 DEF Outcome!DeliveryNext
<1>10. CASE Place(f) = "taken" /\ Place(f)' = "delivered"
  <2>1. Outcome!Deliver(f)
    BY <1>1, <1>3, <1>5, <1>6, <1>10
       DEF Effect, Outcome!Deliver, Outcome!Moves, Outcome!Put, places, faulty
  <2> QED
    BY <2>1 DEF Outcome!DeliveryNext
<1>11. ASSUME Mishap(f)', delivered'[f] = delivered[f],
              \/ Place(f) \in {"waiting", "taken"} /\ Place(f)' = "dropped"
              \/ Place(f) = "taken" /\ Place(f)' = "waiting"
              \/ Place(f) = "dropped" /\ Place(f)' = "taken"
       PROVE  Outcome!DeliveryNext
  <2>1. Outcome!Stray(f)
    BY <1>1, <1>3, <1>4, <1>7, <1>11 DEF Outcome!Stray, Outcome!Moves, places, faulty
  <2> QED
    BY <2>1 DEF Outcome!DeliveryNext
<1>12. ASSUME Mishap(f)', delivered'[f] = delivered[f] + 1,
              Place(f) = "delivered", Place(f)' = "delivered"
       PROVE  Outcome!DeliveryNext
  <2>1. Outcome!Stray(f)
    BY <1>1, <1>3, <1>5, <1>7, <1>12
       DEF Outcome!Stray, Outcome!Moves, Outcome!Put, places, faulty
  <2> QED
    BY <2>1 DEF Outcome!DeliveryNext
<1> QED
  BY <1>8, <1>9, <1>10, <1>11, <1>12 DEF Effect

\* A file that none of the stores, nor the history, tells apart is as before.
LEMMA SameFile ==
  ASSUME NEW f \in Files,
         src'[f] = src[f], tmp2'[f] = tmp2[f], record'[f] = record[f],
         delivered'[f] = delivered[f], mishaps'[f] = mishaps[f]
  PROVE  Untouched(f)
BY DEF Untouched, Place, Mishap

\* What is gone from incoming, or recorded, without a delivery has had a mishap,
\* and so has what is in tmp2 after a delivery.
LEMMA MishapKnown ==
  ASSUME FilesRight, NEW f \in Files
  PROVE  /\ Place(f) = "dropped" => Mishap(f)
         /\ delivered[f] > 0 /\ tmp2[f] => Mishap(f)
<1>1. Swept(f) \/ Kept(f) \/ GivenUp(f) => Mishap(f)
  BY DEF Swept, Kept, GivenUp, Mishap
<1>2. MoveInv(f) /\ OnceInv(f) /\ gvars.filerecord \in BOOLEAN /\ delivered[f] \in 0..2
  BY ParamsAssumption DEF FilesRight, FilesInv, FileInv, AllOnce, TypeOK
<1>3. Place(f) = "dropped" => Mishap(f)
  BY <1>1, <1>2 DEF MoveInv, Safe, Place
<1>4. delivered[f] > 0 /\ tmp2[f] => Mishap(f)
  BY <1>1, <1>2 DEF OnceInv, RecordedInv, UnrecordedInv, FileRecord
<1> QED
  BY <1>3, <1>4

\* The four things a step does to a file.
LEMMA Drops ==
  ASSUME FilesRight, FilesRight', NEW f \in Files,
         tmp2'[f] = tmp2[f], delivered'[f] = delivered[f],
         src'[f] => src[f], record[f] => record'[f], mishaps[f] \subseteq mishaps'[f]
  PROVE  Effect(f)
<1>1. Place(f)' = "dropped" => Mishap(f)'
  <2>1. MoveInv(f)'
    BY DEF FilesRight, FilesInv, FileInv
  <2>2. Swept(f)' \/ GivenUp(f)' => Mishap(f)'
    BY DEF Swept, GivenUp, Mishap
  <2> QED
    BY <2>1, <2>2 DEF MoveInv, Safe, Place
<1>2. Mishap(f) => Mishap(f)'
  BY DEF Mishap
<1>3. Mishap(f) \in BOOLEAN /\ Mishap(f)' \in BOOLEAN
  BY DEF Mishap
<1>4. Place(f)' = Place(f) \/ (Place(f) = "waiting" /\ Place(f)' = "dropped")
  BY DEF Place
<1> QED
  BY <1>1, <1>2, <1>3, <1>4 DEF Effect

LEMMA Takes ==
  ASSUME FilesRight, NEW f \in Files,
         tmp2'[f], delivered'[f] = delivered[f], src'[f] = src[f], record'[f] = record[f],
         mishaps'[f] = mishaps[f]
  PROVE  Effect(f)
<1>1. (Place(f) = "dropped" => Mishap(f)) /\ Mishap(f)' = Mishap(f)
  BY MishapKnown DEF Mishap
<1>2. \/ Place(f)' = Place(f)
      \/ Place(f) \in {"waiting", "dropped"} /\ Place(f)' = "taken"
  BY DEF Place
<1> QED
  BY <1>1, <1>2 DEF Effect

LEMMA Delivers ==
  ASSUME FilesRight, NEW f \in Files, tmp2[f], ~tmp2'[f], CountDelivery(f),
         mishaps'[f] = mishaps[f]
  PROVE  Effect(f)
<1>1. delivered[f] \in 0..2 /\ delivered'[f] = IF delivered[f] < 2 THEN delivered[f] + 1 ELSE 2
  BY DEF FilesRight, TypeOK, CountDelivery
<1>2. (delivered[f] > 0 => Mishap(f)) /\ Mishap(f)' = Mishap(f)
  BY MishapKnown DEF Mishap
<1>3. /\ Place(f) = IF delivered[f] > 0 THEN "delivered" ELSE "taken"
      /\ Place(f)' = "delivered"
  BY <1>1 DEF Place
<1>4. CASE delivered[f] = 0
  BY <1>1, <1>2, <1>3, <1>4 DEF Effect
<1>5. CASE delivered[f] \in {1, 2}
  BY <1>1, <1>2, <1>3, <1>5 DEF Effect
<1> QED
  BY <1>1, <1>4, <1>5

LEMMA Loses ==
  ASSUME FilesRight, NEW f \in Files,
         tmp2[f], ~tmp2'[f], delivered'[f] = delivered[f], Mishap(f)'
  PROVE  Effect(f)
<1>1. delivered[f] \in 0..2
  BY DEF FilesRight, TypeOK
<1>2. \/ Place(f) = "delivered" /\ Place(f)' = "delivered"
      \/ Place(f) = "taken" /\ Place(f)' \in {"waiting", "dropped"}
  BY <1>1 DEF Place
<1> QED
  BY <1>2 DEF Effect

LEMMA EffectOfHandle ==
  ASSUME FilesRight, FilesRight', NEW f \in Files, Handle(f)
  PROVE  Effect(f)
<1>0. TypeOK /\ ScriptInv /\ CopyInv(f) /\ JobInv(f) /\ EarlyInv(f)
  BY DEF FilesRight, FilesInv, FileInv
<1>1. CASE Recover(f)
  <2>1. pc = "recover" /\ ~tmp2'[f] /\ src'[f] = src[f] /\ (record[f] => record'[f])
    BY <1>0, <1>1 DEF Recover, Recorded, TypeOK
  <2>2. CASE tmp2[f] /\ CountDelivery(f) /\ UNCHANGED <<mishaps, failures>>
    BY <2>1, <2>2, Delivers
  <2>3. CASE NotMoved(f, TRUE)
    <3>1. /\ delivered'[f] = delivered[f] /\ mishaps[f] \subseteq mishaps'[f]
          /\ tmp2[f] => Mishap(f)'
      <4>1. /\ delivered' = delivered
            /\ Befalls(f, "unmoved") \/ (~tmp2[f] /\ mishaps' = mishaps)
        BY <2>3 DEF NotMoved
      <4>2. Befalls(f, "unmoved") => mishaps'[f] = mishaps[f] \cup {"unmoved"}
        BY <1>0 DEF Befalls, TypeOK
      <4> QED
        BY <4>1, <4>2 DEF Mishap
    <3>2. tmp2[f] \in BOOLEAN /\ tmp2'[f] \in BOOLEAN
      BY DEF FilesRight, TypeOK
    <3>3. CASE tmp2[f]
      BY <2>1, <3>1, <3>3, Loses
    <3>4. CASE ~tmp2[f]
      <4>1. tmp2'[f] = tmp2[f]
        BY <2>1, <3>2, <3>4
      <4> QED
        BY <2>1, <3>1, <4>1, Drops
    <3> QED
      BY <3>3, <3>4
  <2> QED
    BY <1>1, <2>2, <2>3 DEF Recover
<1>2. CASE GiveUp(f)
  <2>1. /\ tmp2'[f] = tmp2[f] /\ delivered'[f] = delivered[f] /\ mishaps'[f] = mishaps[f]
        /\ src'[f] => src[f]
        /\ record[f] => record'[f]
    BY <1>0, <1>2 DEF GiveUp, Recorded, RemoveSource, TypeOK, history
  <2> QED
    BY <2>1, Drops
<1>3. CASE SpawnMover(f) \/ WipeTmp1(f) \/ WipeStat(f) \/ AlreadyRecorded(f) \/ Skip(f)
           \/ SpawnCopier(f)
  <2>1. tmp2' = tmp2 /\ delivered' = delivered /\ record' = record
    BY <1>3 DEF SpawnMover, WipeTmp1, WipeStat, AlreadyRecorded, Skip, SpawnCopier, disk, history
  <2>2. src'[f] => src[f]
    BY <1>0, <1>3
       DEF SpawnMover, WipeTmp1, WipeStat, AlreadyRecorded, Skip, SpawnCopier, disk, TypeOK
  <2>3. mishaps' = mishaps \/ Befalls(f, "swept")
    BY <1>3 DEF SpawnMover, WipeTmp1, WipeStat, AlreadyRecorded, Skip, SpawnCopier, Sweeps,
                history
  <2>4. mishaps[f] \subseteq mishaps'[f]
    BY <1>0, <2>3 DEF Befalls, TypeOK
  <2> QED
    BY <2>1, <2>2, <2>4, Drops
<1>4. CASE WipeTmp2(f)
  <2>1. /\ pc = "wipe2" /\ ~tmp2'[f]
        /\ UNCHANGED <<src, record, delivered, mishaps>>
    BY <1>0, <1>4 DEF WipeTmp2, TypeOK, history
  <2>2. tmp2[f] => Mishap(f)
    BY <1>0, <2>1 DEF JobInv, EarlyInv, Early, In, Moving, Swept, Mishap
  <2>3. CASE tmp2[f]
    BY <2>1, <2>2, <2>3, Loses DEF Mishap
  <2>4. CASE ~tmp2[f]
    <3>1. tmp2'[f] = tmp2[f]
      BY <2>1, <2>4 DEF FilesRight, TypeOK
    <3> QED
      BY <2>1, <3>1, Drops
  <2> QED
    BY <2>3, <2>4
<1> QED
  BY <1>1, <1>2, <1>3, <1>4 DEF Handle

LEMMA EffectOfCopier ==
  ASSUME FilesRight, FilesRight', NEW f \in Files, Copier(f)
  PROVE  Effect(f)
<1>1. UNCHANGED <<src, tmp2, record, delivered>>
  BY CopierKeeps DEF FilesRight
<1>2. mishaps' = mishaps \/ Befalls(f, "refused")
  BY DEF Copier, CheckUse, Copied, CreateStat, WriteStat, history
<1>3. mishaps[f] \subseteq mishaps'[f]
  BY <1>2 DEF Befalls, FilesRight, TypeOK
<1> QED
  BY <1>1, <1>3, Drops

LEMMA EffectOfMover ==
  ASSUME FilesRight, FilesRight', NEW f \in Files, NEW m \in Movers, MoverStep(f, m)
  PROVE  Effect(f)
<1>0. TypeOK
  BY DEF FilesRight
<1>1. CASE MoveToTmp2(f, m)
  <2>1. UNCHANGED <<src, record, delivered>>
    BY <1>1 DEF MoveToTmp2
  <2>2. CASE tmp2'[f] /\ mishaps' = mishaps
    BY <2>1, <2>2, Takes
  <2>3. CASE UNCHANGED tmp2
    <3>1. mishaps[f] \subseteq mishaps'[f]
      BY <1>0, <1>1 DEF MoveToTmp2, Befalls, TypeOK
    <3> QED
      BY <2>1, <2>3, <3>1, Drops
  <2> QED
    BY <1>0, <1>1, <2>2, <2>3 DEF MoveToTmp2, TypeOK
<1>2. CASE MoveRecord(f, m) \/ MoveRemoveSource(f, m) \/ MoveRemoveStat(f, m)
  <2>1. tmp2' = tmp2 /\ delivered' = delivered
    BY <1>2 DEF MoveRecord, MoveRemoveSource, MoveRemoveStat, history
  <2>2. (src'[f] => src[f]) /\ (record[f] => record'[f])
    BY <1>0, <1>2
       DEF MoveRecord, MoveRemoveSource, MoveRemoveStat, Recorded, RemoveSource, TypeOK
  <2>3. mishaps' = mishaps \/ Befalls(f, "kept")
    BY <1>2 DEF MoveRecord, MoveRemoveSource, MoveRemoveStat, history
  <2>4. mishaps[f] \subseteq mishaps'[f]
    BY <1>0, <2>3 DEF Befalls, TypeOK
  <2> QED
    BY <2>1, <2>2, <2>4, Drops
<1>3. CASE MoveToInput(f, m)
  <2>1. UNCHANGED <<src, record>>
    BY <1>3 DEF MoveToInput
  <2>2. CASE /\ tmp2[f] /\ tmp2' = [tmp2 EXCEPT ![f] = FALSE]
             /\ CountDelivery(f) /\ UNCHANGED <<mishaps, failures>>
    <3>1. ~tmp2'[f]
      BY <1>0, <2>2 DEF TypeOK
    <3> QED
      BY <2>2, <3>1, Delivers
  <2>3. CASE NotMoved(f, BeforeWipe) /\ UNCHANGED tmp2
    <3>1. delivered'[f] = delivered[f] /\ mishaps[f] \subseteq mishaps'[f]
      BY <1>0, <2>3 DEF NotMoved, Befalls, TypeOK
    <3> QED
      BY <2>1, <2>3, <3>1, Drops
  <2> QED
    BY <1>3, <2>2, <2>3 DEF MoveToInput, Deliver
<1> QED
  BY <1>1, <1>2, <1>3 DEF MoverStep

\* Every step of ingestion is a step of Delivery or none, with records or without
\* and with any number of jobs: a file is taken by the move to tmp2 and delivered by
\* that to its input directory, and one that is recorded, removed, wiped or moved
\* again otherwise has had a mishap.
THEOREM ImplementsDelivery == Spec => IsDelivery
<1>1. Init => Outcome!DeliveryInit
  <2> SUFFICES ASSUME Init PROVE Outcome!DeliveryInit
    OBVIOUS
  <2>1. \A f \in Files : Place(f) = "waiting" /\ mishaps[f] = {}
    BY DEF Init, Place
  <2> QED
    BY <2>1 DEF Outcome!DeliveryInit, Init
<1>2. FilesRight /\ FilesRight' /\ [Next]_vars => [Outcome!DeliveryNext]_view
  <2> SUFFICES ASSUME FilesRight, FilesRight', [Next]_vars
               PROVE  Outcome!DeliveryNext \/ UNCHANGED view
    OBVIOUS
  <2>1. CASE UNCHANGED vars \/ Control \/ Kill \/ Crash
    <3>1. UNCHANGED <<src, tmp2, record, delivered, mishaps>>
      BY <2>1, ControlKeeps DEF vars, Kill, Crash, disk, history
    <3> QED
      BY <3>1 DEF view, places, faulty, Place
  <2>2. ASSUME NEW f \in Files, Effect(f), \A g \in Files \ {f} : Untouched(g)
        PROVE  Outcome!DeliveryNext \/ UNCHANGED view
    BY <2>2, EffectIsAStep DEF FilesRight
  <2>3. ASSUME NEW f \in Files, Handle(f)
        PROVE  Outcome!DeliveryNext \/ UNCHANGED view
    <3>1. \A g \in Files \ {f} : Untouched(g)
      BY <2>3, HandleKeeps, SameFile DEF FilesRight
    <3> QED
      BY <2>2, <2>3, <3>1, EffectOfHandle
  <2>4. ASSUME NEW f \in Files, Copier(f)
        PROVE  Outcome!DeliveryNext \/ UNCHANGED view
    <3>1. \A g \in Files \ {f} : Untouched(g)
      BY <2>4, CopierKeeps, SameFile DEF FilesRight
    <3> QED
      BY <2>2, <2>4, <3>1, EffectOfCopier
  <2>5. ASSUME NEW f \in Files, NEW m \in Movers, MoverStep(f, m)
        PROVE  Outcome!DeliveryNext \/ UNCHANGED view
    <3>1. \A g \in Files \ {f} : Untouched(g)
      BY <2>5, MoverKeeps, SameFile DEF FilesRight
    <3> QED
      BY <2>2, <2>5, <3>1, EffectOfMover
  <2> QED
    BY <2>1, <2>3, <2>4, <2>5, NextSplit
<1> QED
  BY <1>1, <1>2, FilesRightHolds, PTL
     DEF Spec, IsDelivery, Outcome!DeliverySpec, view, places, faulty
=============================================================================
