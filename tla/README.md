# Verification of VizGEMS

TLA+ modules, TLC configurations and TLAPS proofs for the parts of VizGEMS in
`src/src/cmd` whose correctness depends on timing, failures and the order of
events. Paths below are relative to `src/src/cmd/` unless they begin with `src/`.

    cd tla
    tlc -workers 2 -config VgSchedLimits.cfg MCVgSched   # any run of the table below
    tlapm VgSchedProofs.tla                              # the proofs

`PROJECT.json` is the index: which definition models which lines (`map`), the
runs, for each property of a passing run a bug that breaks it (`mutants`), the
findings, the hazards, and the theorems.

## 1. The system and its components

VizGEMS collects measurements from remote assets, moves them as files through a
chain of directories, reduces and stores them by date, correlates alarms, and
shows the result. It is a set of processes (ksh93 scripts started by cron or by
each other, and C programs they start) that share a file system; nearly all of
the coordination is done with lock files, status files, stamps and renames.

    vg_scopemgr --schedule file--> vgsched --forks--> vg_collector
                                                         | files
           (transport swift/tr, between systems)         v
                              incoming directory of the data server
                                                         | sdpincoming
                                                         v
      input/  of a date --sdpprocessing--> data --sdpcomplete--> --sdpcleanup-->
                 |
                 +--- alarms: vg_alarm (engine vgce, its state in pmem) ---> tickets

| Component | State it keeps | Operations | Hard part | What makes it correct |
|---|---|---|---|---|
| Collection scheduler, `vizgems/dc/sched` | table of schedules (next time, running, late, pid), counters of running jobs, table of exits | update, reap, kill, launch, SIGCHLD handler, reload, restart | signal handler against loop; reload and restart while children run; calendar | limits on jobs, no exit lost, no job left running for ever, state stays with its job, times are those the schedule means |
| Feed ingestion, `swift/dp/sdpincoming.sh` | incoming, tmp1, tmp2, input directories, status files, records | copy, mark, move, record, remove, recover, wipe | parallel background jobs, kills between any two steps, rounds | no file lost, delivered twice or moved half written but by a named failure; all taken in the end |
| Run lock, first block of every periodic script | a lock file and who holds it open | create, probe, remove, print pid, exit trap | two runs at once, jobs that survive their script, a file that is empty for a moment | one run works at a time, stale locks go |
| REST job limiter, `swift/dp/sdpmpjobcntl.sh` | table of pids with times, a lock | enter, wait, leave, expire | expiry of entries against jobs that run, a lock that is probed and removed | at most so many jobs and a job at work keeps its slot, but for those a race for the lock has touched; no one waits for ever |
| Life cycle of a date, `swift/dp/sdpprocessing.sh`, `sdpcomplete.sh`, `sdpcleanup.sh`, `vizgems/dp/*_run.sh`, `vg_alarm_inc_fileinfo.sh` | stamps, input and output directories of each date | process, complete, clean, reopen for a late file | three periodic scripts and ingestion on one directory | a closed date was finally processed, a closed month has closed dates only, all close in the end |
| Alarm processing, `vizgems/dp/alarm/vg_alarm*.sh` | dated alarm files, the engine's state | raw to dds, monthly lock | crash between engine and files | no alarm lost or repeated |
| Correlation engine, `vizgems/dp/alarm/ce` | rules, groups of matches, alarms, reference counts, tickets | load rules, match, clear, ticket, prune, flush, fail | rules changed in the life of their matches, order of alarms and clears, failures in mid run | books agree with the alarms, a match keeps its rule, an alarm that demands a ticket gets one |
| Persistent memory, `vizgems/dp/alarm/ce/pm/pmem.c` | segments of blocks, free lists, a file with a record for every pointer | allocate, free, resize, save, reopen, compact | blocks of changing size, pointers into blocks that move | the same graph after reopening and compaction |
| Rule expressions, `vizgems/dp/alarm/ce/ee` | none between calls | compile, evaluate | none of it concurrent | value of an expression |
| File transport, `swift/tr` | outgoing and incoming queues, records | transfer, retry, clean | two systems, lost links | each file arrives once |
| Message server, `swift/ms` | queue files | send, notify | two readers | each message read once |
| Statistics and profiles, `vizgems/dp/stat` | record files | reduce | volume, not control | arithmetic of the reduction |
| User interface, `swift/ui`, `vizgems/ui` | sessions and preference files | serve pages | locks like the run lock | as the run lock |
| Collection drivers, `vizgems/dc/scopes` | schedule and specification files | write them | replaced while read | the scheduler sees whole files |

They interact through files alone: the scheduler reads the schedule file that
the drivers' scripts put in place and its children write files the transport
carries to `incoming`; ingestion hands a file to a date by a rename into its
input directory and reads the date's stamps; every script takes a run lock
before it does anything. Left aside for good: AST, SFIO and the other libraries
under `src/src/lib`, the vendored `gd`, `graphviz` and `ssl` code, generated
pages, data and geometry under `src/dtrees`.

## 2. Modules

    JobSlots      abstract: jobs enter while there is room, and leave once
      ^ VgSched       by the children alive       (IsJobSlots, TLC and TLAPS)
      ^ JobLimiter    by the files held open      (IsJobSlots, TLC and TLAPS)
    VgSchedTimes  the slots VgSched takes as given
    Delivery      abstract: a file is taken and delivered once; only one that
      ^ SwiftIncoming failed may stray        (IsDelivery, TLC and TLAPS)
    RunLock       what SwiftIncoming!Start and DateLife's single scripts rest on
    SwiftIncoming -> (input directory) -> DateLife -> (alarms) -> CorrEngine
    PersistMem    the memory CorrEngine's state lives in between runs

### `VgSched`: the scheduler daemon
One process with a signal handler. `pc` says where the main loop of
`schedmain.c` is, and the loop is cut at exactly the points where the handler or
a child can make a difference:

| `pc` | code | actions |
|---|---|---|
| `update` | `scheduleupdate` | `Update` |
| `mark` | `schedulereap`, first loop | `ReapMark` |
| `reap` | search of the table of exits for one schedule, and the sweep after the last | `SkipIdle`, `ReapExited`, `NoExitSeen`, `ReapSweep` |
| `late` | after the search, before the kill | `StillRunning`, `KillLate`, `ReapVanished` |
| `clock` | `time(NULL)` | `Clock`, `ClockBack` |
| `exec` | `scheduleexec`, one schedule a step in the order of `sorder` | `SkipJob`, `Incomplete`, `Launch`, `LaunchFails`, `LaunchFatal`, `ExecEnd` |
| `check` | exit file, `scheduleload` | `Exit`, `NoReload`, `Reload`, `ReloadFails` |
| `done` | the daemon has ended | `Restart` (by `vg_scheduler`) |

`SigChld` is the handler and is enabled at every `pc`. `sigdata` is its table
of exits, whose full case drops the exit as the code does. `proc` and `desc` are
the kernel's side: processes that are alive, zombies or orphans of an earlier
daemon, and process groups in which something other than the leader lives.
`loaded` is the content the tables were built from, `disk` what the file holds
now. `Carried` is the copying of state in `scheduleload`, including what it does
for an entry that was entered in `jobdict` and then refused for its group.
Slots are a set of times for each job here; how they are found is
`VgSchedTimes`.

### `VgSchedTimes`: the calendar
`Updated(x, t, old)` is `scheduleupdate` for one schedule: `FirstFrom` the
rounding to the interval, `TimeOn` its use for one day, `Accepted` the tests of
window, weekday and monthday, `SearchDays` the loop over days, weeks or months. `Meant` is the reference: the
least slot that is neither past nor used, over all slots of all days, for once and
daily schedules. `OpenSlots` is what can be said in every mode: the grid of the
windows of `OpenDays`, the days the search accepts, which are more than those the
schedule means (section 4). `Update`,
`Run` and `Tick` bring the two arguments of the search, the current time and the
time last used, into the states the daemon produces.

### `SwiftIncoming`: ingestion
A file is where it is found: `src` (incoming), `tmp1`, its `stat` file, `tmp2`,
`record`, and how often it was `delivered`. The script is one process (`pc`),
every background job another: `copier[f]`, and `mover[f][m]`, for a file may have
several, of this run (`mine`) or of one that was killed. A feed has the settings
`gvars`: whether it keeps records, removes what it took, looks for files in use, how
many jobs run at once (`par`, which the script increments) and how many files make a
round. The status file is
created and written in two steps, since a shell redirection is. A copy, the move to
tmp2 and that to the input directory may each fail, and what the script removes then
is removed. The wipe of tmp1 and tmp2 takes a file at a time, a copy before its status
file. `Kill` ends the
script and leaves its jobs, `Crash` ends everything. `completetransfer`, called
from three places, is one group of actions with a `caller`. `mishaps` is history:
`refused` (the copy failed), `unmoved` (a move failed and is not tried again),
`swept` (the wipe met a mover of the file), `kept` (its source was not removed, in a
feed without records).

### `Delivery`: what ingestion promises
Each file is `waiting`, `taken`, `delivered` or `dropped`, with the number of
`copies` that reached the input directory and the files of which something
`failed`. `SwiftIncoming` implements it, with records or without: `Place` reads off
the disk what the next run will make of a file. The move to tmp2 is `Take`, that to
the input directory (by a mover or by recovery) `Deliver`. A mishap is `Fail`; only a
file that has had one may `Stray`: be dropped, go back from tmp2, be taken up again
or be delivered once more.

### `RunLock`: the lock block
One process for each run of the script. `UsesFuser` separates the scripts under
`swift` from `vg_scheduler`; `AwaitsJobs` those that wait for their background
jobs before they exit; `OneStarter` is the assumption below. Killed scripts
leave their jobs, which still hold the lock file open.

### `JobSlots` and `JobLimiter`: parallel REST jobs
`JobSlots` is the promise. In `JobLimiter` each process is cut at the lock's
commands: the lock file is created empty (`Create`), gets its pid later
(`PrintPid`), is judged (`Probe`) and removed (`Remove`) by processes that find
it. `state` is the table on disk, `tab[p]` the copy a process has read, `open`
the files that fuser sees held open, `aged` the entries older than a minute. A
process may be killed anywhere, with children that keep its file open, or leave
without `sdpmpendjob` as `vg_rest_dataupload` does for a bad query. `Remove` removes
whatever lock file is there by then. `late` are the processes whose probe is older
than that file; when one of them takes it from a process past the lock (`stolen`) and
another comes in (`Create`), those that had a slot or were past the lock are `hurt`:
two tables are about to overwrite each other. A process is `hurt` until its file is
closed, and the promises are kept for all others. `Leave` of `JobSlots` lets several
go at once for this.

### `DateLife`: from ingestion to closed months
Stamps are sets of dates (`complete`, `stamp1`, `notcomplete`) and two flags
for the month and its year. Every file touched or removed is a step of its own. A late
file opens its date by `Reopen` (the test, `notcomplete.stamp` and the names the shell
finds for `complete.stamp*`), `RmComplete`, `RmStamp1`, `RmMonth`, `RmYear`
(`vg_alarm_inc_fileinfo`) and `Test` (`sdpincoming`, which looks again), and may be
cut off between any two (`Cut`); `Take` is a file of a date that is open. `ProcBegin`,
`Process`, `ProcEnd` are a run of `sdpprocessing`; `ComplBegin`, `Check`, `StageOne`,
`Touch` and `Touch1` (the two files of one `touch`), `FinalRun`, `FinalInput`, `Unstamp`,
`CloseMonth` and `CloseYear` a run of `sdpcomplete`, which reads dates and ages
once and may be killed between any two of them. Time is `Age` (a date passes a
limit in days), `GetOld` (a file is an hour old) and `Quiet` (outputs are). `half` and
`missed` are history, of the dates a kill or a race left in a state no later run
puts right.

### `CorrEngine`: the correlation engine
`matchs[<<c, n>>]` is match `n` of group `c`, with the slot of its rule, its
alarms, their first and last time and whether its ticket mode is KEEP. `rrc` and
`arc` are the reference counts. `Removal` is what pruning, clearing and removing
a rule share. `LoadRule`, `RemoveUnmarked` and `LoadEnd` (`packrules`) are
`loadrules`; `Alarm`, `Simple`, `Clear`, `Heartbeat`, `UpdateTickets`, `Prune`,
`End`, `Flush` a run; `AlarmFails`, `RestEnd`, `PruneFails`, `Lose` and `Kill` the
three failsafes and the script's moving away of the state. What expressions of a
rule answer is chosen by `\E`: which matches an alarm joins, which rules begin
one, which groups get a ticket, what is pruned. `of`, `came` and `settled` are
history.

### `PersistMem`: the engine's memory
`segs` are segments with an end, blocks by offset and lists of freed blocks by
size; an object is as long as its block's size in use and its cells may hold
pointers to a cell of any object. `Save` writes a record for every pointer
and makes the pointers themselves meaningless, `Open` puts them back,
`Compact` moves the blocks that pointers lead to. `graph` is the reference:
what the engine stored.

### `MC...` and `...Proofs`
`MCVgSched`, `MCVgSchedTimes`, `MCSwiftIncoming`, `MCRunLock`, `MCJobLimiter`,
`MCDateLife`, `MCCorrEngine` and `MCPersistMem` only give constants their values.
The proofs are in `VgSchedProofs` (the scheduler and its processes),
`VgSchedTimesProofs` (the calendar), `SwiftIncomingProofs`, `CorrEngineProofs`,
`PersistMemProofs`, `RunLockProofs`, `JobLimiterProofs` and `DateLifeProofs`.

The operators marked "mutant" in a module are plausible bugs: each stands for
the definition that follows it and breaks a property named in `PROJECT.json`.
No specification uses them.

## 3. Runs

| Run | Shows | Instance |
|---|---|---|
| `VgSchedLimits` | `IsJobSlots`, `OneProcessPerJob`, `GroupLimit`, `KilledInTime`, `NoExitLost`, `ReapedOnlyWhenGone` | 3 jobs, with and without a group of two, `-j 1`, 4 pids, 4 table entries, times 0..4, one life, no reload |
| `VgSchedReload` | `JobLimit`, `OwnProcess`, `NeverASlotTwice`, `EveryJobIsReaped` | 2 jobs, one of which comes and goes while the other changes places; `-j 0`, `-li 0`, 2 pids, times 0..3, one restart |
| `VgSchedAlias` | **violated**: `OwnProcess` | 2 jobs, one entry refused for its group |
| `VgSchedTimes` | `TypeOK`, `OnceIsExact`, `DailyIsExact`, `ChosenIsASlot`, `DailyIsNeverLost` | 4 modes, 5 windows, 4 intervals, 3 start days; day of 4 units, week of 3 days, 5 months of 2 or 3 days |
| `VgSchedWeekly` | **violated**: `WeeklyIsNeverLost` | the weekly ones of these |
| `SwiftIncoming` | `TypeOK`, `DeliveredOnce`, `NoFileLost`, `IsDelivery`, `OnlyWholeFilesMove`, `NothingLeftBehind`, `EveryFileTaken` | 2 files; feeds with records whose files may be in use and feeds without, 1 or 2 jobs at once in rounds of as many, 2 movers of a file; 1 copy or move that fails, 1 kill or crash |
| `SwiftIncomingRace` | **violated**: `RaceIsHarmless` | 2 files, rounds of 2, no records, no failure, no kill |
| `RunLockFuser` | `OneAtWork`, `OwnLockInPlace`, `StaleLockGoes` | 5 runs, 3 killed, 1 signalled |
| `JobLimiter` | `WorkerIsRegistered`, `IsJobSlots`, `EveryoneServed` | 3 processes, 1 slot, 1 killed at any step, races for the lock |
| `DateLife` | `FinalIsProcessed`, `MonthIsFinal`, `EveryDateCloses` | 2 dates, one with stats files, 1 file at any time for the other, 1 kill of ingestion or completion |
| `CorrEngine` | `TypeOK`, `BooksRight`, `MatchKeepsRule`, `RulesInForce`, `KeepIsTicketed`, `KeepNotForgotten` | 3 alarms, one of mode KEEP; 2 rules, one in two versions of which one cannot be pruned; 3 rules files; 2 groups of 2 matches; 1 failure |
| `PersistMem` | `GraphKept`, `BlocksSound`, `CompactionIsTight` | root and 2 objects of 1 to 3 cells, segments of 8, 3 pointers, 1 object forgotten |

The type invariants of `VgSched`, `RunLock`, `JobLimiter` and `DateLife` are in no
`cfg`: they are proved for all constants.

Why these bounds. *Scheduler*: three jobs and a limit of one make `MaxJobN + 1`
smaller than the jobs, so that a job waits. The table has `2 * (MaxJobN + 1)`
entries: room for the exits of all jobs and for as many left over from the pass
before. The daemon's `max (100, 2 * n)` is that much up to `-j 49`. The fourth
entry is needed: with `SigDataN` 2 or 3 the same run finds `NoExitLost` violated.
Four units of time, with an interval and `-li` of one, are a launch, its missed
slot, and the kill two intervals later. The reload run has `-li 0`, so that the
kill falls into its three units too, and `-j 0`, so that one job waits for the
other. Reloading is off where a limit on real processes is stated, because with
it on the code does exceed the limit: a job deleted while it runs is in no
counter. *Calendar*: days, weeks and months are short, but every relation of
window to midnight, of interval to window and of start day to weekday occurs.
*Ingestion*: with rounds of one, a move of the first file meets the copy of the second;
with two jobs at once a file has two movers, and after a kill those of two runs. One
failure and one kill or crash can each fall into any step, the recovery from one
included; more of either, more files and more jobs are the theorems' matter.
*Lock*: a dead owner, a run that removes its file, two that
meet in between, and one more. *Job limiter*: one slot, and two more processes: it takes three for a race, one that
holds the lock, one that found the lock before it stale, and one that comes in. *Dates*: one date may be closed
while the other is open, which is all a month can tell; the date with stats
stays open one age longer, so that the month can close in several orders. *Engine*: an alarm may be in two matches of two
groups, a rule removed may empty one and leave the other; a slot is free
for a new version beside the old ones, as `RULEINCR` gives the code, and packing
has a gap to fill. *Memory*: a segment holds the root and a small object, or two small ones, so
that blocks cross segments in both directions; with `SlotN` 3 sizes 2 and 3 share
the last slot and size 1 has its own; three pointers are one to each object and
one more, into the middle of a block.

`CHECK_DEADLOCK FALSE` is set where the bounded program stops by itself: the
scheduler with all its starts and time used up, the calendar at its end, the
lock with no run to come, the limiter when every process has gone. Symmetry is
used over interchangeable pids, files and objects in runs without liveness only.

### Fairness
* Scheduler: the loop keeps running (it never blocks but in `sleep`); time
  passes, since a pass that finds nothing to do sleeps, hence strong fairness of
  a `Clock` step that advances; a pending SIGCHLD is delivered. No fairness is
  given to children: `EveryJobIsReaped` holds for jobs that never end.
* Ingestion: cron starts the script again; the script and its jobs go on when
  not killed; a run is not always ended early by `sdpruncheck` or
  `sdpspacecheck`, a file not always passed over for its name or date, nor
  always in use (strong fairness of those three outcomes).
* Lock: cron again, every run decides, jobs end, and a run ends when it can.
* Limiter: processes go on, time passes, children of killed scripts end. A
  process that finds the lock sleeps and tries again, so it is strong fairness
  that it meets a free moment in the end (`Create`), and that it does not always
  probe just while another holds the lock. Nothing in the code orders those
  who wait; their random sleeps are what justifies it.
* Dates: the scripts are started again by cron and go on, time passes, and not every
  completion run is broken off before the same date. Neither `Take` nor `Reopen` nor
  any step of processing has fairness: dates close whether or not files come and are
  processed. But a file that comes again and again could open its date for ever, so
  `EveryDateCloses` says what happens once no more come.

### Assumptions in the models
* `FreshPid`: a pid still named by the tables is not handed out again; the same
  for the limiter, whose processes are all different.
* `OneStarter`: two runs of the same script do not execute the lock block at the
  same time. The block is a handful of commands and cron starts runs minutes
  apart, but nothing enforces it. Without it `OneScript` and `OneAtWork` are
  violated: a run that has judged a file stale removes a newer one.
* `Movers` bounds the movers of one file that are alive at once: where the run has two,
  a third one of the same file waits for one of them to end. The theorems hold for any
  set of movers.
* Copies go to a file system on which `mv` is atomic and what was renamed
  survives a crash. One `mv`, `touch` or `rm` of one file is one step; those of
  several files are several.
* The engine is the only user of its memory and reaches every object by
  pointers to beginnings (the lists of `misc.c`).

## 4. Findings and weaknesses

Shown by runs that TLC finds violated:

1. **Aliased state after a reload** (`schedload.c:325`). A job whose group does
   not validate stays in `jobdict`, pointing at the slot the next entry takes.
   At the next reload it inherits that entry's running flag and pid, and its
   exit is credited to the wrong job.
2. **Weekly and monthly schedules expire at once** (`schedupdate.c:75`) when the
   daemon looks at them on another weekday or monthday than theirs: the search
   steps by whole weeks from today.
3. **A file delivered twice** (`sdpincoming.sh:359`), without records and with
   rounds: a status file is seen after its creation and before its line is
   written, the file is moved, and nothing is removed from incoming. The comment
   there calls the race harmless.

Seen while modelling, not run for. *Scheduler*:
* `-j n` allows `n + 1` jobs (`schedexec.c:44`) and `-li n` gives a job `n + 1`
  intervals (`schedreap.c:59`), each one more than the usage text says; the
  properties state what the code does.
* From `-j 50` on the table of exits is two entries short of the worst case: an
  exit that finds it full is dropped (`schedexec.c:151`), and its job stays
  running, for the daemon, until it is late.
* An exit can be swept that belongs to no deleted job, contrary to the comment
  at `schedreap.c:81`: its job was reaped when the kill failed.
* A daemon that looks just at midnight begins its search with the new day and
  passes over a slot at 24:00 of the old one, when the window begins later than
  0:00 (`schedupdate.c:52`): `DailyIsExact` excepts such windows, and TLC refutes
  it without the exception.
* A daily, weekly or monthly schedule runs on days before its start date as well:
  `schedupdate.c:53-63` never compares with it. A weekly or monthly schedule whose
  window ends at 24:00 also accepts the day after its own. `OpenDays` has these days,
  and `ChosenIsASlot` claims no more than that.
* A schedule file replaced twice within a second is loaded once
  (`schedload.c:74`); one that is missing at the start is no error and leaves
  `schedrootp` NULL (`schedload.c:65`); a pass ends at the first overdue job
  there is no room for, whatever is behind it (`schedexec.c:50`).

*Ingestion and lock*:
* A move to tmp2 that fails (`sdpincoming.sh:52`) loses the file: source, status file
  and copy are removed all the same. So does a move to the input directory (line 54)
  that fails in recovery or just before the wipe of tmp2 (`GivenUp` in the properties
  names these cases).
* After a kill, the next run finds copies that are done, starts movers for them, and
  wipes tmp1 and tmp2 while they run (`sdpincoming.sh:264-266`, with `filesinparallel >
  1`): a file can be gone with its source, and one whose status file is wiped is taken
  again. `Swept` names the files.
* Without records a file is delivered twice whenever its mover meets an empty status
  file (finding 3), also after a kill between the creation and the writing of one.
* An interrupted `vg_scheduler` (no fuser) is followed by a second daemon beside the
  first; a TERM signal removes the lock and the script runs on. The notes under
  `hazards` say which constant shows each.

*Job limiter*: a lock file made after the probe and before the `rm` of another process is
removed by it (`sdpmpjobcntl.sh:22-27`), without any kill: two processes are past the
lock, the tables overwrite each other, more jobs than the limit run and one at work
may be in no table. The properties say who is spared: all that had no slot and were
not past the lock then.

*Dates*: completion removes input without asking whether it was processed; a
reopened date waits for its outputs to be quiet, which they are before the late
file is processed, so it may close again without it (`vg_main_compl_run.sh:64`);
a file taken before its date closes and put in place after the last removal of
input stays there for ever. A kill between the two files of `touch complete.stamp
complete.stamp1` (`vg_main_compl_run.sh:117`) leaves a date that looks closed for good
and never gets its final processing; so does an `rm complete.stamp*` of a late file
that a new `touch` overtakes between its two files (`half`). A late file whose script
is killed before it has removed the stamps of month and year, or that comes while the
month or year is being processed (`sdpcomplete.sh:227`), leaves an open date in a closed
month, which no run looks into again (`missed`).

*Engine*: `maxtmode` is not computed again when the alarm it came from goes
(`match.c:594`); the alarm an expression fails at, in a match of no rule, gets no ticket
(`vgce.c:437`); a kill loses the alarms of unticketed groups; group
numbers begin again after the state is lost, so a late clear by group may meet
another; a rule whose PRUNE does not mention `_prunetime` sends every run that
prunes one of its matches to the failsafe; `comprules` compares one expression with
itself, and a NULL description with `strcmp`.

*Memory*: names and descriptions of removed rules are forgotten, not freed
(`rule.c:312`), and stay until compaction; an error of `PMptrwrite` is ignored by
`phelper` and puts the records after it out of step (`pmem.c:601`); after
compaction the anchor is taken to be the pointer with the lowest target, which is
right as long as the root is the first block ever allocated (`pmem.c:492`).

## 5. Proofs

`RunLockProofs`, for any set of runs and any bounds:
* `TypeCorrect`.
* `OneScriptHolds`: under `OneStarter`, `Spec => []OneScript`. Inductive
  invariant `ScriptInv`: while no run was signalled, a script past the lock has
  its own file in place, with its pid once printed, and a run about to remove
  the file finds no script. The last part is what `OneScript` lacks: a remover
  with a script beside it would open the lock. It rests on `OneDecides` (at most
  one run is in the block), proved first.
* `OneAtWorkHolds`, `OwnLockHolds`: the same for scripts with their jobs, under
  `UsesFuser` and `AwaitsJobs` too, from `WorkInv`.

`VgSchedProofs`, for any jobs, groups, files, slots, pids and limits:
* `TypeCorrect`. Its one subtle part is `LeastOfNat`: a non-empty set of
  naturals has a least element, which the next slot is. It is derived from the
  well-foundedness of the subset order on finite sets.
* `JobLimitHolds`, under `Trusted`: nothing is reloaded, or every group of the
  files validates (`GroupsValidate`), without which finding 1 breaks it. The
  daemon never believes in more than `MaxJobN + 1` jobs. `JobLimit` is not inductive: launching looks at `curjobn`,
  which is rebuilt one schedule at a time by every reap. `CountInv` adds what the
  counter is at each `pc`: the running jobs already visited while reaping, all of
  them from `clock` to `check`.

Its second half relates what the daemon believes to the processes there are:
* `ReapedOnlyWhenGoneHolds`, `NeverASlotTwiceHolds` and `OwnProcessHolds`, under
  `Trusted`, through reloads and restarts. `PidInv`: the running schedules name
  different pids, and a process that has one of them is that schedule's own.
  `TableInv`: an exit in the table is that of a process that is gone, no two of the
  same; so the exit a pass finds for a schedule is that of its own process. They
  need each other and `CountInv`: a launch must not take a pid that is still named
  (`FreshPid`), and a reload must carry a pid over to one slot only.
* `OneProcessPerJobHolds`, `GroupLimitHolds` and the refinement
  `ImplementsJobSlots`, without reloading (`Sc = 0`): a job that a reload deletes
  while it runs is in no counter afterwards, and the limit on real processes is
  then false. `KnownInv`: every child alive or a zombie is named by a running
  schedule. `GroupInv` is to the counters of groups what `CountInv` is to
  `curjobn`. The refinement is stated for one life (`MaxStarts = 1`), since the
  children of an earlier daemon are known to nobody; `Launch` maps to `Enter`, the
  end of a process to `Leave`, all else to a stutter.
* `NoExitLostHolds`, without reloading, under `RoomyTable`: `SigDataN >=
  2 * (MaxJobN + 1)`. `MarkInv`: marked exits are there during a pass only and
  none is that of a job the pass has been at and left running. `StaleInv`: of the
  exits that no running schedule names at most `MaxJobN + 1` are marked, and at
  most as many are not, so that beside the running jobs there is always room. `schedmain.c:120` makes the table
  `max (100, 2 * n)` long, so the hypothesis is true of the daemon up to `-j 49`
  (the default is 16) and false from `-j 50` on; the bound is tight.
* `KilledInTimeHolds`, under `Trusted` and `Dense`: consecutive slots of a schedule
  are at most an interval apart, as they are without a daily window (with one,
  the night is between two slots and the kill is later by as much). `TimeInv`:
  the slot a running schedule waits for is at most an interval after its launch, until it
  is late, and a job that the pass has been at is within its limit.

`VgSchedTimesProofs`, for any calendar, schedules, clock and steps of time:
* `TypeCorrect`.
* `OnceIsExactHolds`, `DailyIsExactHolds` and `ChosenIsASlotHolds`: the arithmetic of
  `scheduleupdate` against the definition of a schedule by its slots, for every
  interval and window. The third has no hypothesis on the mode, the window or the
  clock: what is chosen lies on the grid of a window of one of the `OpenDays`, the part
  after midnight included. They need no more of the state than its types. The
  argument rests on `FirstFromIs` (rounding up and stepping over used times gives
  the least time of the grid that is left) and `SearchIs` (what the search returns
  is `NoTime` or the time of a day that the schedule accepts; a daily search
  passes over no accepted day). `MonthStart` and the search are recursive
  functions; that functions with these equations exist is shown for the least
  length at which it could fail (`StartsExist`, `FoundExists`), since the search
  goes strictly forward (`FollowingIs`). For a monthly schedule this needs
  `CalendarCovers`: the model's calendar has the months up to the end date, as the
  real one has.
* `DailyIsNeverLostHolds`, from `UsedIsPast`: while no next time is set, the last
  one is not in the future. The property needs it: a time used that lies
  beyond tomorrow would hide tomorrow's window.

`SwiftIncomingProofs`, for any files and settings (records or none, any number of jobs
at once and files in a round), any movers of a file, failures, kills and crashes, and
without any further hypothesis:
* `TypeCorrect`, and `NothingLeftBehindHolds`: `LeftInv` says which files the script
  can still leave in `tmp1` at each `pc` and for each caller of `completetransfer`.
* `NoFileLostHolds` and `OnlyWholeFilesMoveHolds`. `ScriptInv` says in which call of
  `completetransfer` the script is and when no copier is left. `FilesInv`, for each
  file: `CopyInv` (`tmp1` and `tmp2` do not both hold it, and none is copied that is in
  tmp2 or has a status file), `JobInv` (the movers of a killed run have ended when a
  run starts, unless it has swept their file), and, for files not swept, `EarlyInv`
  (before the wipe a file has one mover and that one has its status file) and
  `MoveInv` (what has a mover or a status file is in `tmp1` whole, or safe: delivered,
  in tmp2 or given up). The properties themselves are not inductive: they say where a
  file is, and the next step depends on who is at work on it. `CalmInv` says that only
  a kill leaves anything for the movers of a start, hence that only it leads to a sweep.
* `DeliveredOnceHolds`. With records (`RecordedInv`) a delivered file is recorded and in
  neither directory, and a mover that is about to deliver has recorded it. Without
  (`UnrecordedInv`) a file that was taken and is still in incoming has a status file,
  by which its source goes, until one is found empty or is swept away.
* `ImplementsDelivery`. `Effect` lists what a step may do to the place, the copies and the
  mishaps of its file (`EffectOfHandle`, `EffectOfCopier`, `EffectOfMover`, from `Takes`,
  `Delivers`, `Drops` and `Loses`), `EffectIsAStep` turns that into a step of
  `Delivery`, and all other files are `Untouched`.

`CorrEngineProofs`, for any alarms, rules, rules files and bounds, and any answers
of the rules:
* `TypeCorrect`, `BooksRightHolds` and `MatchKeepsRuleHolds`, from `Base`: the three
  properties with `UniqueIds` (no two rules in memory have one id), inductive only
  together. A count does not go below zero because it counts something; a rule
  that goes takes all its matches along because no other slot has its id; a rule
  may be moved when its count is zero because then no match refers to it.
  `RemovalBooks` is the step that pruning, clears and rules going share:
  a count falls by exactly what leaves. `InsertBase` is the other: the rules that
  make matches take different places (`NewSlotIs`). `Packed` is a recursive
  function; that it exists and that every gap filled keeps what matters
  (`PackedIs`) is shown for the least gap it could fail at, instead of by induction.
* `RulesInForceHolds`, under `OneOfEachId`: a rules file has every id once. Of two
  rules with one id `loadrules` keeps the second (`rule.c:98`), so that what is in
  force is then not all the file says. `RuleInv`: the marked rules are those read
  so far, and from the end of the load on all rules are those of the file.
* `KeepIsTicketedHolds` and `KeepNotForgottenHolds`, from `TicketInv`: the match of a
  KEEP alarm has the flag, all such matches are in ticketed groups unless something was matched since
  (`Settling`), and alarms of ticketed groups are settled. The step that
  matters is `RemovalTickets`: what pruning or a rule that goes takes away was ticketed,
  since neither happens with `mn` set.

`PersistMemProofs`, for any finite set of objects, any sizes and segments, any
pointers between objects and any number of objects forgotten:
* `GraphKeptHolds`, `BlocksSoundHolds` and `CompactionIsTightHolds`, from one
  invariant, `Inv`: there are places for the objects, the first that of the anchor,
  such that the blocks there show the graph. Its parts need each other: the
  engine's own pointers are addresses, so that the graph is kept only while
  blocks stay apart (`HeapOk`, which `BlocksSound` is a part of), and a record of the state file leads to one
  object only for the same reason. `GraphKept` itself is not inductive: it does
  not say what is in the file while the engine is down, nor that a block left
  over cannot be taken for an object.
* `Apart` is the lemma all rests on: an address in a block, header and size
  counted, is in no other. `PMallocIs`, `FreeIs` and `GrownIs` say what the
  allocator does to a sound heap.
* Compaction: the targets with a header are the places of the objects, one each
  (`HeadsAre`, `BlocksAre`), because every object but the first has a pointer to
  its beginning (`Pointed`) and the others lead into an object past its
  beginning (`Led`); the new blocks tile the new segments (`RowTiled`); a pointer
  moves with its block (`MovedIs`); so nothing is left over and the `abort` of
  `PMcompact` is not reached (`HandledIs`). The lowest target is the anchor's
  (`FirstIs`), as the code takes it to be.
* Recursive functions (`Kept`, `End`) exist by `RecursionIs`. `NamesAssumption`
  tells the model's marks, objects and pointers apart. That every object is
  reached by pointers to beginnings when something is dropped (`Kept`) is a guard
  of the actions: the engine's structures are like that, as section 3
  says (assumptions in the models).

`JobLimiterProofs`, for any finite set of processes, any limit and any kills:
* `TypeCorrect`.
* `JobLimitHolds`, `WorkerIsRegisteredHolds` and the refinement
  `ImplementsJobSlots`, with the races for the lock. `LockInv`: unless a lock was stolen,
  who is past the lock owns the lock file, and who is about to remove a file made
  before his probe robs nobody. `RaceInv`: of two that are past the lock each is `hurt`,
  or done with its slot. `TableInv`: a file that is held open and not hurt has its entry
  in the table or in the copy of the one who is about to write it, and no copy about to
  be written misses another such file. The step that matters is `RegisterStep`: what
  expiry drops is not open, so the files open are among the entries kept, which are
  fewer than the limit. `LeaveEarly`, `Close`, `Kill` and `ChildrenEnd` map to
  `Leave`, as does the `Create` that hurts, `Register` to `Enter`, all others to a stutter.

`DateLifeProofs`, for any dates and files and any kills:
* `TypeCorrect`.
* `FinalIsProcessedHolds`, with each touch and rm a step: a date has lost
  `complete.stamp1` only after its last
  processing, since only `Unstamp` and a late file take it, and the latter takes
  `complete.stamp` first. What is left is a date between two touches, or left there by
  a kill or an overtaken `rm` (`half`). `FinalInv` adds what the script has done when it
  stands before the removal of input and before that of the stamp, also when its
  date was opened again in between.
* `MonthIsFinalHolds`, with late files at any time: `MonthInv` adds that the dates are
  settled (closed, being opened, or missed) while the month or year is being processed,
  and that the script works on no date once it is closed.

Assumptions about constants are the named `ASSUME`s of the modules; TLC
evaluates them in every run.

Only model-checked: liveness (`EveryJobIsReaped`, `EveryFileTaken`,
`StaleLockGoes`, `EveryoneServed`, `EveryDateCloses`), which the prover cannot
reach.

## 6. Not modelled

* Scheduler: time correction, logs, the contents of job directories.
* Ingestion: files matching the remove pattern, the collector call.
* Dates: cleanup of old dates, files forwarded to other dates, the date
  `latest`, the cache of closed dates in one run of ingestion, spikes of
  statistics and other record types than alarms.
* Engine: texts of tickets and emitted records, the values of expressions, the
  global engine `vggce`; a rules file that does not parse (`rule.c:157-163`, and the
  second failsafe after it); system errors while tickets are written
  (`ticket.c:45-53,70-73`); a machine that crashes after tickets were sent and
  before the state is saved repeats them, which the model has no ticket count
  to show.
* Memory: requests larger than a segment, failures of `malloc` and of writing.
* The components listed as `not_modelled` in `PROJECT.json`, with the reason for
  each.

## 7. Plan

1. Composition of `Delivery` with `DateLife`: what ingestion delivers is what the
   dates take.
2. `Transport` (`swift/tr`): two systems, lost transfers, retries, cleanup.
3. `MessageServer` (`swift/ms`), and cleanup of dates (`sdpcleanup.sh`).
