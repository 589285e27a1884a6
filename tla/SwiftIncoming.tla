---------------------------- MODULE SwiftIncoming ----------------------------
(***************************************************************************)
(* The ingestion of feed files, src/cmd/swift/dp/sdpincoming.sh: every     *)
(* file of the incoming directory is copied to a first temporary directory *)
(* (tmp1), marked there with a status file, moved to a second one (tmp2),  *)
(* moved from there to the input directory of its date, and only then      *)
(* removed from incoming. Copies and moves run in background jobs; the     *)
(* script may be killed between any two steps and is started again by cron.*)
(*                                                                         *)
(* A file is followed by where it is found: src (incoming), tmp1, stat     *)
(* (its status file), tmp2, record, and how often it reached the input     *)
(* directory. Two instances never run at once (see RunLock): an instance   *)
(* starts when no lock file is there, and a lock file left behind is       *)
(* removed when no job of the instance holds it open any more.             *)
(***************************************************************************)
EXTENDS Integers, FiniteSets

CONSTANTS
  Files,
  Settings,        \* what the init scripts of the feeds set
  Movers,          \* bound: the movers of one file that are alive at once
  MaxFailures,     \* bound: how many copies and moves return an error
  MaxCrashes       \* bound: how often a run is killed

ASSUME ParamsAssumption ==
  /\ IsFiniteSet(Files) /\ IsFiniteSet(Movers)
  /\ Settings \subseteq
       [filerecord : BOOLEAN, fileremove : BOOLEAN, filecheckuse : BOOLEAN,
        filesinparallel : Nat \ {0}, filesperround : Nat \ {0}]
  /\ MaxFailures \in Nat /\ MaxCrashes \in Nat

VARIABLES
  gvars,           \* the settings of this feed
  pc,              \* where the script is
  caller,          \* which call of completetransfer is in progress
  par,             \* filesinparallel, which the script increments
  listing,         \* files of incoming the main loop has still to look at
  todo,            \* files the helper in progress has still to look at
  round,           \* filesthisround
  lock,            \* the lock file exists
  src, tmp1, stat, tmp2, record,
  copier,          \* copier[f]: the background job that copies f
  mover,           \* mover[f][m]: a background job that moves f
  mine,            \* the movers this run has started, jobs of its shell
  delivered,       \* history: how often f was moved to its input directory
  mishaps,         \* history: what befell f. Its copy was "refused"; it is "unmoved",
                   \* a move failed that is not tried again; it was "swept" out of
                   \* tmp1 while a mover was at it; or its source was "kept", for its
                   \* status file named none, in a feed without records
  failures, crashes

script == <<gvars, pc, caller, par, listing, todo, round, lock>>
disk == <<src, tmp1, stat, tmp2, record>>
jobs == <<copier, mover, mine>>
history == <<delivered, mishaps, failures, crashes>>
vars == <<script, disk, jobs, history>>

FileRecord == gvars.filerecord
FileRemove == gvars.fileremove

\* a status file is created by the shell before its line is written to it
StatKinds == {"none", "done?", "done", "failed?", "failed"}
Done(f) == stat[f] \in {"done?", "done"}
Failed(f) == stat[f] \in {"failed?", "failed"}

\* the jobs of this shell: copiers of an earlier run are gone when one starts
Active == Cardinality({f \in Files : copier[f] # "none"}) + Cardinality(mine)
NoJobs == mine = {} /\ \A f \in Files : copier[f] = "none"
Moving(f) == \E m \in Movers : mover[f][m] # "none"
\* fuser finds no process that has the lock file open
Idle == \A f \in Files : copier[f] = "none" /\ ~Moving(f)

Fails == failures < MaxFailures /\ failures' = failures + 1
Befalls(f, mishap) == mishaps' = [mishaps EXCEPT ![f] = @ \cup {mishap}]

Init ==
  /\ gvars \in Settings
  /\ pc = "stopped" /\ caller = "start" /\ par = gvars.filesinparallel
  /\ listing = {} /\ todo = {} /\ round = 0 /\ lock = FALSE
  /\ src = [f \in Files |-> TRUE]
  /\ tmp1 = [f \in Files |-> "none"] /\ stat = [f \in Files |-> "none"]
  /\ tmp2 = [f \in Files |-> FALSE] /\ record = [f \in Files |-> FALSE]
  /\ copier = [f \in Files |-> "none"]
  /\ mover = [f \in Files |-> [m \in Movers |-> "none"]] /\ mine = {}
  /\ delivered = [f \in Files |-> 0] /\ mishaps = [f \in Files |-> {}]
  /\ failures = 0 /\ crashes = 0

---------------------------------------------------------------------------
(* Start, and recovertransfer *)

Start ==
  /\ pc = "stopped" /\ ~lock
  /\ lock' = TRUE /\ pc' = "recover"
  /\ todo' = {f \in Files : tmp2[f]}
  /\ UNCHANGED <<gvars, caller, par, listing, round, disk, jobs, history>>

\* mutant: the lock file is seen to be stale, and left
StaleLockStays == pc = "stopped" /\ lock /\ Idle /\ UNCHANGED vars
\* the lock file of a killed instance: its pid is gone, and so are its jobs
RemoveStaleLock ==
  /\ pc = "stopped" /\ lock /\ Idle
  /\ lock' = FALSE
  /\ UNCHANGED <<gvars, pc, caller, par, listing, todo, round, disk, jobs, history>>

\* bound: deliveries are counted to 2, which is once too often
CountDelivery(f) == delivered' = [delivered EXCEPT ![f] = IF @ < 2 THEN @ + 1 ELSE 2]

\* The move to the input directory fails, or the file is gone from tmp2; one that
\* stays there is tried again unless it is doomed
NotMoved(f, doomed) ==
  /\ \/ /\ tmp2[f] /\ Fails
        /\ IF doomed THEN Befalls(f, "unmoved") ELSE UNCHANGED mishaps
     \/ ~tmp2[f] /\ UNCHANGED <<mishaps, failures>>
  /\ UNCHANGED delivered

\* mv from tmp2 to the input directory
Deliver(f, doomed) ==
  \/ /\ tmp2[f]
     /\ tmp2' = [tmp2 EXCEPT ![f] = FALSE]
     /\ CountDelivery(f) /\ UNCHANGED <<mishaps, failures>>
  \/ NotMoved(f, doomed) /\ UNCHANGED tmp2

Recorded(f) == record' = IF FileRecord THEN [record EXCEPT ![f] = TRUE] ELSE record

\* what cannot be moved, or whose date directory cannot be made, is removed
Recover(f) ==
  /\ pc = "recover" /\ f \in todo
  /\ Recorded(f)
  /\ \/ tmp2[f] /\ CountDelivery(f) /\ UNCHANGED <<mishaps, failures>>
     \/ NotMoved(f, TRUE)
  /\ tmp2' = [tmp2 EXCEPT ![f] = FALSE]
  /\ todo' = todo \ {f}
  /\ UNCHANGED <<gvars, pc, caller, par, listing, round, lock, src, tmp1, stat, jobs,
                 crashes>>

---------------------------------------------------------------------------
(* completetransfer *)

CompleteTransfer(from) ==
  /\ caller' = from /\ pc' = "failures"
  /\ todo' = {f \in Files : Failed(f)}
  /\ UNCHANGED <<gvars, par, listing, round, lock, disk, jobs, history>>

RecoverEnd == pc = "recover" /\ todo = {} /\ CompleteTransfer("start")

\* the line in a status file names the file to remove; an empty or missing
\* status file names none
RemoveSource(f) ==
  src' = IF FileRemove /\ stat[f] \in {"done", "failed"}
         THEN [src EXCEPT ![f] = FALSE] ELSE src

\* a file that could not be copied is recorded and removed like the others
GiveUp(f) ==
  /\ pc = "failures" /\ f \in todo
  /\ Recorded(f) /\ RemoveSource(f)
  /\ stat' = [stat EXCEPT ![f] = "none"]
  /\ tmp1' = [tmp1 EXCEPT ![f] = "none"]
  /\ todo' = todo \ {f}
  /\ UNCHANGED <<gvars, pc, caller, par, listing, round, lock, tmp2, jobs, history>>

ListDone ==
  /\ pc = "failures" /\ todo = {}
  /\ pc' = "moves" /\ todo' = {f \in Files : Done(f)}
  /\ UNCHANGED <<gvars, caller, par, listing, round, lock, disk, jobs, history>>

\* a file whose mover still runs gets another
SpawnMover(f) ==
  LET Free == {m \in Movers : mover[f][m] = "none"}
      m == CHOOSE n \in Free : TRUE
  IN
  /\ pc = "moves" /\ f \in todo /\ Free # {}
  /\ mover' = [mover EXCEPT ![f][m] = "mv1"] /\ mine' = mine \cup {<<f, m>>}
  /\ todo' = todo \ {f}
  /\ pc' = "movewait"
  /\ UNCHANGED <<gvars, caller, par, listing, round, lock, disk, copier, history>>

\* sdpjobcntl par: go on when fewer than par jobs are left
MoveWait ==
  /\ pc = "movewait" /\ Active < par
  /\ pc' = "moves"
  /\ UNCHANGED <<gvars, caller, par, listing, todo, round, lock, disk, jobs, history>>

TransferEnd ==
  /\ pc = "moves" /\ todo = {}
  /\ pc' = CASE caller = "start" -> "wipe1"
             [] caller = "round" -> "roundend"
             [] caller = "end" -> "endwait"
  /\ todo' = IF caller = "start" THEN {f \in Files : tmp1[f] # "none" \/ stat[f] # "none"}
             ELSE {}
  /\ caller' = "start"
  /\ UNCHANGED <<gvars, par, listing, round, lock, disk, jobs, history>>

\* the mover: to tmp2, record, to the input directory, remove source and status
At(f, m, stage) == mover[f][m] = stage
Goes(f, m, stage) == mover' = [mover EXCEPT ![f][m] = stage]

\* When mv fails the source, its status and the copy are removed all the same
MoveToTmp2(f, m) ==
  /\ At(f, m, "mv1")
  /\ \/ /\ tmp1[f] # "none"
        /\ tmp1' = [tmp1 EXCEPT ![f] = "none"]
        /\ tmp2' = [tmp2 EXCEPT ![f] = TRUE]
        /\ Goes(f, m, IF FileRecord THEN "record" ELSE "mv2")
        /\ UNCHANGED <<mishaps, failures>>
     \/ /\ tmp1[f] # "none" /\ Fails
        /\ Goes(f, m, "rmsrc") /\ Befalls(f, "unmoved") /\ UNCHANGED <<tmp1, tmp2>>
     \/ /\ tmp1[f] = "none"
        /\ Goes(f, m, "rmsrc") /\ UNCHANGED <<tmp1, tmp2, mishaps, failures>>
  /\ UNCHANGED <<script, src, stat, record, copier, mine, delivered, crashes>>

\* mutant: the file is not recorded
MoveUnrecorded(f, m) ==
  /\ At(f, m, "record")
  /\ Goes(f, m, "mv2")
  /\ UNCHANGED <<script, disk, copier, mine, history>>
MoveRecord(f, m) ==
  /\ At(f, m, "record")
  /\ Recorded(f)
  /\ Goes(f, m, "mv2")
  /\ UNCHANGED <<script, src, tmp1, stat, tmp2, copier, mine, history>>

\* the call of completetransfer that is followed by the removal of tmp2
BeforeWipe == caller = "start" /\ pc \in {"moves", "movewait", "wipe1", "wipe2"}
MoveToInput(f, m) ==
  /\ At(f, m, "mv2")
  /\ Deliver(f, BeforeWipe)
  /\ Goes(f, m, "rmsrc")
  /\ UNCHANGED <<script, src, tmp1, stat, record, copier, mine, crashes>>

MoveRemoveSource(f, m) ==
  /\ At(f, m, "rmsrc")
  /\ RemoveSource(f)
  /\ IF src'[f] /\ ~FileRecord THEN Befalls(f, "kept") ELSE UNCHANGED mishaps
  /\ Goes(f, m, "rmstat")
  /\ UNCHANGED <<script, tmp1, stat, tmp2, record, copier, mine, delivered, failures,
                 crashes>>

MoveRemoveStat(f, m) ==
  /\ At(f, m, "rmstat")
  /\ stat' = [stat EXCEPT ![f] = "none"]
  /\ tmp1' = [tmp1 EXCEPT ![f] = "none"]
  /\ Goes(f, m, "none") /\ mine' = mine \ {<<f, m>>}
  /\ UNCHANGED <<script, src, tmp2, record, copier, history>>

---------------------------------------------------------------------------
(* rm -rf $tmp1dir/* and $tmp2dir/*, in the order of names: a file, then its *)
(* status file *)

Sweeps(f) == IF Moving(f) THEN Befalls(f, "swept") ELSE UNCHANGED mishaps

WipeTmp1(f) ==
  /\ pc = "wipe1" /\ f \in todo /\ tmp1[f] # "none"
  /\ tmp1' = [tmp1 EXCEPT ![f] = "none"] /\ Sweeps(f)
  /\ UNCHANGED <<script, src, stat, tmp2, record, jobs, delivered, failures, crashes>>

WipeStat(f) ==
  /\ pc = "wipe1" /\ f \in todo /\ tmp1[f] = "none"
  /\ stat' = [stat EXCEPT ![f] = "none"] /\ Sweeps(f)
  /\ todo' = todo \ {f}
  /\ UNCHANGED <<gvars, pc, caller, par, listing, round, lock, src, tmp1, tmp2, record,
                 jobs, delivered, failures, crashes>>

WipeTmp1End ==
  /\ pc = "wipe1" /\ todo = {}
  /\ pc' = "wipe2" /\ todo' = {f \in Files : tmp2[f]}
  /\ UNCHANGED <<gvars, caller, par, listing, round, lock, disk, jobs, history>>

WipeTmp2(f) ==
  /\ pc = "wipe2" /\ f \in todo
  /\ tmp2' = [tmp2 EXCEPT ![f] = FALSE]
  /\ todo' = todo \ {f}
  /\ UNCHANGED <<gvars, pc, caller, par, listing, round, lock, src, tmp1, stat, record,
                 jobs, history>>

\* sdpruncheck, sdpspacecheck or the collector may end the run here; the exit
\* trap removes the lock file whether or not jobs are still running
Halt == /\ pc' = "stopped" /\ caller' = "start" /\ par' = gvars.filesinparallel
        /\ round' = 0 /\ listing' = {} /\ todo' = {} /\ mine' = {}
Stop == Halt /\ lock' = FALSE

Prepared ==
  /\ pc = "wipe2" /\ todo = {}
  /\ \/ Stop
     \/ /\ par' = par + 1
        /\ pc' = "ingest" /\ listing' = {f \in Files : src[f]}
        /\ UNCHANGED <<caller, todo, round, lock, mine>>
  /\ UNCHANGED <<gvars, disk, copier, mover, history>>

---------------------------------------------------------------------------
(* the main loop *)

AlreadyRecorded(f) ==
  /\ pc = "ingest" /\ f \in listing /\ FileRecord /\ record[f]
  /\ src' = IF FileRemove THEN [src EXCEPT ![f] = FALSE] ELSE src
  /\ listing' = listing \ {f}
  /\ UNCHANGED <<gvars, pc, caller, par, todo, round, lock, tmp1, stat, tmp2, record,
                 jobs, history>>

\* name not known, date out of range or complete, directory not made
Skip(f) ==
  /\ pc = "ingest" /\ f \in listing /\ ~(FileRecord /\ record[f])
  /\ listing' = listing \ {f}
  /\ UNCHANGED <<gvars, pc, caller, par, todo, round, lock, disk, jobs, history>>

SpawnCopier(f) ==
  /\ pc = "ingest" /\ f \in listing /\ ~(FileRecord /\ record[f]) /\ copier[f] = "none"
  /\ copier' = [copier EXCEPT ![f] = "check"]
  /\ listing' = listing \ {f}
  /\ pc' = "copywait"
  /\ UNCHANGED <<gvars, caller, par, todo, round, lock, disk, mover, mine, history>>

\* sdpjobcntl par, then the round is counted
CopyWait ==
  /\ pc = "copywait" /\ Active < par
  /\ round' = round + 1
  /\ pc' = IF round + 1 = gvars.filesperround THEN "roundwait" ELSE "ingest"
  /\ UNCHANGED <<gvars, caller, par, listing, todo, lock, disk, jobs, history>>

\* sdpjobcntl 2: one copier may be left, with or without its status file
RoundTransfer ==
  /\ pc = "roundwait" /\ Active < 2
  /\ CompleteTransfer("round")

\* the exit file or the lack of space ends the loop
RoundEnd ==
  /\ pc = "roundend" /\ Active < 2
  /\ round' = 0
  /\ \/ pc' = "ingest" /\ UNCHANGED listing
     \/ pc' = "wait" /\ listing' = {}
  /\ UNCHANGED <<gvars, caller, par, todo, lock, disk, jobs, history>>

ListingEnd ==
  /\ pc = "ingest" /\ listing = {} /\ pc' = "wait" /\ round' = 0
  /\ UNCHANGED <<gvars, caller, par, listing, todo, lock, disk, jobs, history>>

\* mutant: the copiers are not waited for
FinalTransferAtOnce == pc = "wait" /\ CompleteTransfer("end")
FinalTransfer == pc = "wait" /\ NoJobs /\ CompleteTransfer("end")

Finish ==
  /\ pc = "endwait" /\ NoJobs
  /\ Stop
  /\ UNCHANGED <<gvars, disk, copier, mover, history>>

\* the copier leaves a file alone that is in use, and begins to copy it otherwise,
\* if it is still there
CheckUse(f) ==
  /\ copier[f] = "check"
  /\ \/ /\ gvars.filecheckuse
        /\ copier' = [copier EXCEPT ![f] = "none"] /\ UNCHANGED <<tmp1, mishaps>>
     \/ /\ src[f]
        /\ copier' = [copier EXCEPT ![f] = "cp"]
        /\ tmp1' = [tmp1 EXCEPT ![f] = "part"] /\ UNCHANGED mishaps
     \/ /\ ~src[f]
        /\ copier' = [copier EXCEPT ![f] = "failed"]
        /\ Befalls(f, "refused") /\ UNCHANGED tmp1
  /\ UNCHANGED <<script, src, stat, tmp2, record, mover, mine, delivered, failures,
                 crashes>>

\* the copy is where cp began it, or was moved or removed meanwhile
Whole(f) == tmp1' = [tmp1 EXCEPT ![f] = IF @ = "part" THEN "full" ELSE @]

\* mutants: the file is moved to tmp1; the exit status of the copy is ignored
CopiedByMove(f) ==
  /\ copier[f] = "cp"
  /\ Whole(f) /\ src' = [src EXCEPT ![f] = FALSE]
  /\ copier' = [copier EXCEPT ![f] = "done"]
  /\ UNCHANGED <<script, stat, tmp2, record, mover, mine, history>>
CopiedAnyway(f) ==
  /\ copier[f] = "cp"
  /\ Whole(f) \/ UNCHANGED tmp1
  /\ copier' = [copier EXCEPT ![f] = "done"]
  /\ UNCHANGED <<script, src, stat, tmp2, record, mover, mine, history>>
\* it copies, creates the status file, and writes it
Copied(f) ==
  /\ copier[f] = "cp"
  /\ \/ /\ Whole(f)
        /\ copier' = [copier EXCEPT ![f] = "done"]
        /\ UNCHANGED <<mishaps, failures>>
     \/ /\ Fails
        /\ copier' = [copier EXCEPT ![f] = "failed"]
        /\ Befalls(f, "refused") /\ UNCHANGED tmp1
  /\ UNCHANGED <<script, src, stat, tmp2, record, mover, mine, delivered, crashes>>

CreateStat(f) ==
  /\ copier[f] \in {"done", "failed"}
  /\ stat' = [stat EXCEPT ![f] = IF copier[f] = "done" THEN "done?" ELSE "failed?"]
  /\ copier' = [copier EXCEPT ![f] = "write"]
  /\ UNCHANGED <<script, src, tmp1, tmp2, record, mover, mine, history>>

\* mutants: the file is recorded as soon as it is copied; no one of the copier's
\* states tells that it has ended
WriteStatAndRecord(f) ==
  /\ copier[f] = "write"
  /\ stat' = [stat EXCEPT ![f] = CASE @ = "done?" -> "done" [] @ = "failed?" -> "failed"
                                   [] OTHER -> @]
  /\ record' = [record EXCEPT ![f] = TRUE]
  /\ copier' = [copier EXCEPT ![f] = "none"]
  /\ UNCHANGED <<script, src, tmp1, tmp2, mover, mine, history>>
WriteStatAndStay(f) ==
  /\ copier[f] = "write"
  /\ copier' = [copier EXCEPT ![f] = "ended"]
  /\ UNCHANGED <<script, src, tmp1, stat, tmp2, record, mover, mine, history>>
\* the line goes to the file created above, though that may have been removed
WriteStat(f) ==
  /\ copier[f] = "write"
  /\ stat' = [stat EXCEPT ![f] = CASE @ = "done?" -> "done" [] @ = "failed?" -> "failed"
                                   [] OTHER -> @]
  /\ copier' = [copier EXCEPT ![f] = "none"]
  /\ UNCHANGED <<script, src, tmp1, tmp2, record, mover, mine, history>>

---------------------------------------------------------------------------
(* Crashes *)

\* the script alone is killed: its jobs run on, and hold the lock file open
Kill ==
  /\ pc # "stopped" /\ crashes < MaxCrashes
  /\ Halt
  /\ crashes' = crashes + 1
  /\ UNCHANGED <<gvars, lock, disk, copier, mover, delivered, mishaps, failures>>

\* everything stops: the machine
Crash ==
  /\ pc # "stopped" \/ ~Idle
  /\ crashes < MaxCrashes
  /\ Halt
  /\ copier' = [f \in Files |-> "none"]
  /\ mover' = [f \in Files |-> [m \in Movers |-> "none"]]
  /\ crashes' = crashes + 1
  /\ UNCHANGED <<gvars, lock, disk, delivered, mishaps, failures>>

---------------------------------------------------------------------------

Script ==
  \/ Start \/ RemoveStaleLock \/ RecoverEnd \/ ListDone \/ MoveWait \/ TransferEnd
  \/ WipeTmp1End \/ Prepared \/ CopyWait \/ RoundTransfer \/ RoundEnd \/ ListingEnd
  \/ FinalTransfer \/ Finish
  \/ \E f \in Files : \/ Recover(f) \/ GiveUp(f) \/ SpawnMover(f)
                      \/ WipeTmp1(f) \/ WipeStat(f) \/ WipeTmp2(f)
                      \/ AlreadyRecorded(f) \/ Skip(f) \/ SpawnCopier(f)
Copier(f) == CheckUse(f) \/ Copied(f) \/ CreateStat(f) \/ WriteStat(f)
Mover(f) == \E m \in Movers :
  \/ MoveToTmp2(f, m) \/ MoveRecord(f, m) \/ MoveToInput(f, m)
  \/ MoveRemoveSource(f, m) \/ MoveRemoveStat(f, m)

Next == Script \/ Kill \/ Crash \/ \E f \in Files : Copier(f) \/ Mover(f)

Spec == Init /\ [][Next]_vars

\* cron starts the script again and again, it and its jobs run on when not
\* killed, and a run is not always ended early, nor a file always passed over or
\* in use.
Fairness ==
  /\ WF_vars(Script) /\ WF_vars(\E f \in Files : Copier(f) \/ Mover(f))
  /\ SF_vars(Prepared /\ pc' = "ingest")
  /\ \A f \in Files : /\ SF_vars(SpawnCopier(f))
                      /\ SF_vars(CheckUse(f) /\ copier'[f] = "cp")
FairSpec == Spec /\ Fairness

---------------------------------------------------------------------------
(* Properties *)

\* Every variable of the script, its jobs and the disk has its type.
TypeOK ==
  /\ gvars \in Settings
  /\ pc \in {"stopped", "recover", "failures", "moves", "movewait", "wipe1", "wipe2",
            "ingest", "copywait", "roundwait", "roundend", "wait", "endwait"}
  /\ caller \in {"start", "round", "end"}
  /\ par \in Nat /\ round \in Nat /\ lock \in BOOLEAN
  /\ listing \subseteq Files /\ todo \subseteq Files
  /\ src \in [Files -> BOOLEAN] /\ tmp1 \in [Files -> {"none", "part", "full"}]
  /\ stat \in [Files -> StatKinds] /\ tmp2 \in [Files -> BOOLEAN]
  /\ record \in [Files -> BOOLEAN]
  /\ copier \in [Files -> {"none", "check", "cp", "done", "failed", "write"}]
  /\ mover \in [Files -> [Movers -> {"none", "mv1", "record", "mv2", "rmsrc", "rmstat"}]]
  /\ mine \subseteq {j \in Files \X Movers : mover[j[1]][j[2]] # "none"}
  /\ delivered \in [Files -> 0..2] /\ failures \in Nat /\ crashes \in Nat
  /\ mishaps \in [Files -> SUBSET {"refused", "unmoved", "swept", "kept"}]

Swept(f) == "swept" \in mishaps[f]
Kept(f) == "kept" \in mishaps[f]
GivenUp(f) == mishaps[f] \cap {"refused", "unmoved", "swept"} # {}

\* A file leaves the incoming directory only when it has reached its input
\* directory or lies in tmp2, from where the next run recovers it. The exceptions:
\* its copy failed; a move to tmp2 failed, or one to the input directory just
\* before tmp2 was wiped; or a run that started after a kill wiped tmp1 while its
\* own movers were at the file.
NoFileLost ==
  \A f \in Files : /\ ~src[f] => delivered[f] > 0 \/ tmp2[f] \/ GivenUp(f)
                   /\ Swept(f) => crashes > 0

\* A file enters the input directory twice only in a feed without records, and
\* there only if its source was kept or its status swept away: else, whatever is
\* killed when, it enters once.
DeliveredOnce ==
  \A f \in Files :
    delivered[f] > 1 => ~FileRecord /\ (Kept(f) \/ Swept(f))

\* completetransfer races with the last copier of a round. The claim that this is
\* not really a problem: without kills and failures no file is delivered twice.
RaceIsHarmless == \A f \in Files : delivered[f] <= 1

\* where a file is for the runs to come: one that is recorded, or gone from the
\* incoming directory, is never taken again
Place(f) ==
  IF delivered[f] > 0 THEN "delivered"
  ELSE IF tmp2[f] THEN "taken"
  ELSE IF record[f] \/ ~src[f] THEN "dropped"
  ELSE "waiting"

\* Ingestion keeps the promise of Delivery through kills, crashes and failures:
\* what is taken is delivered once or stays in tmp2 for the next run, and no file
\* is recorded or removed but for a delivery, unless a failure befell it.
Outcome == INSTANCE Delivery WITH
  place <- [f \in Files |-> Place(f)], copies <- delivered,
  failed <- {f \in Files : mishaps[f] # {}}
IsDelivery == Outcome!DeliverySpec

\* Only whole files get to tmp2, and so to the input directory: a copier that
\* still writes, or was killed writing, is overtaken only by a mover of an earlier
\* run whose status file was swept away.
OnlyWholeFilesMove ==
  [][\A f \in Files : tmp2'[f] /\ ~tmp2[f] => tmp1[f] = "full" \/ Swept(f)]_vars

\* A run that ends by itself leaves nothing behind in tmp1.
NothingLeftBehind ==
  [][pc = "endwait" /\ pc' = "stopped" /\ lock # lock'
       => \A f \in Files : tmp1[f] = "none" /\ stat[f] = "none"]_vars

\* Every file is taken in the end, or given up.
EveryFileTaken == <>(\A f \in Files : delivered[f] > 0 \/ GivenUp(f))
=============================================================================
