---------------------------- MODULE Persistence -----------------------------
(***************************************************************************)
(* PersistenceManager (backend/infrastructure/persistence.py) and its use  *)
(* in the server's lifespan (backend/main.py): mutations mark the store    *)
(* dirty, one background thread saves it once writes pause or a deadline   *)
(* passes, shutdown flushes, the process may be killed or lose power at    *)
(* any step, and the next start loads the file or seeds afresh.            *)
(*                                                                         *)
(* The store's content is <<epoch, ver>>: ver mutations after the seeding  *)
(* numbered epoch.  A mutation and the schedule_save it ends with are one  *)
(* step: both happen under the store's lock, which a snapshot needs, and   *)
(* the _cond section of schedule_save reads nothing the saver could change *)
(* in between.  Time is kept as ages (since the last write, since          *)
(* _dirty_since), saturated where they stop mattering, and passes only     *)
(* while the saver has nothing to do at once: a runnable thread runs       *)
(* before the next tick, but a save may take any number of ticks.          *)
(***************************************************************************)
EXTENDS Naturals

CONSTANTS MaxVer,     \* bound on the mutations of an epoch
          MaxEpoch,   \* bound on the seedings; the last epoch's process never ends
          Debounce,   \* _DEBOUNCE_SECONDS
          MaxDelay,   \* _MAX_DELAY_SECONDS
          MayFail,    \* whether a save may raise (disk full, I/O error)
          MayCrash,   \* whether the process may die before a flush
          None,       \* no file, no snapshot, not dirty, no timer
          Torn        \* a file that holds no whole snapshot

ASSUME DelaysAssumption ==
  /\ Debounce \in Nat \ {0} /\ MaxDelay \in Nat \ {0}
  /\ MaxVer \in Nat /\ MaxEpoch \in Nat
  /\ MayFail \in BOOLEAN /\ MayCrash \in BOOLEAN

Savers == {"saver", "flush"}   \* the two threads that run _do_save

Contents == (0..MaxEpoch) \X (0..MaxVer)

ASSUME ValuesAssumption ==
  /\ None # Torn /\ {None, Torn} \cap Contents = {}
  /\ None \notin Savers /\ None \notin Nat

VARIABLES
  proc,       \* "up", or "down" between two lives of the process
  epoch, ver, \* the store's content
  age,        \* age[v]: ticks since the unsaved mutation v, 0 where
              \* UnsavedWritesAreYoung does not ask (history)
  dirtyAge,   \* ticks since _dirty_since, or None
  quiet,      \* ticks since _last_write while dirty, saturated at Debounce
  closed,     \* _closed
  timer,      \* what is left of the saver's timed wait, or None
  pc,         \* where each saver is
  snap,       \* the snapshot each has exported
  saveLock,   \* the holder of _save_lock, or None
  synced,     \* the temporary file being written has been fsync'd
  file,       \* what the path names: a content, None or Torn
  durable,    \* what it would name after a power cut: the last synced rename
  wholeFile,  \* the data of file was on disk before it got its name
  floor,      \* the content when flush was called (history)
  overlap,    \* ... and whether the saver was saving then (history)
  excused     \* a save failed and none has saved everything since (history)

storeVars == <<epoch, ver, age>>
condVars == <<dirtyAge, quiet, closed, timer>>
saveVars == <<snap, saveLock, synced>>
diskVars == <<file, durable, wholeFile>>
vars == <<proc, epoch, ver, age, dirtyAge, quiet, closed, timer, pc, snap,
          saveLock, synced, file, durable, wholeFile, floor, overlap, excused>>

Content == <<epoch, ver>>
InSave == {"snapshot", "lock", "write", "replace", "dirsync"}

\* The file f holds mutation v of the current epoch.
Covers(f, v) == f \notin {None, Torn} /\ f[1] = epoch /\ f[2] >= v

-----------------------------------------------------------------------------
(* Start: load the file, or seed.                                          *)

\* Everything the process kept in memory is gone when it ends.
Forget ==
  /\ proc' = "down"
  /\ dirtyAge' = None /\ quiet' = 0 /\ closed' = FALSE /\ timer' = None
  /\ pc' = [t \in Savers |-> "none"] /\ snap' = [t \in Savers |-> None]
  /\ saveLock' = None /\ synced' = FALSE
  /\ floor' = None /\ overlap' = FALSE /\ excused' = FALSE
  /\ ver' = 0 /\ age' = [v \in 1..MaxVer |-> 0]

Init ==
  /\ proc = "up" /\ epoch = 0 /\ ver = 0 /\ age = [v \in 1..MaxVer |-> 0]
  /\ dirtyAge = None /\ quiet = 0 /\ closed = FALSE /\ timer = None
  /\ pc = [t \in Savers |-> "none"] /\ snap = [t \in Savers |-> None]
  /\ saveLock = None /\ synced = FALSE
  /\ file = None /\ durable = None /\ wholeFile = TRUE
  /\ floor = None /\ overlap = FALSE /\ excused = FALSE

\* load_if_exists restored every record.
StartLoaded ==
  /\ file \notin {None, Torn}
  /\ epoch' = file[1] /\ ver' = file[2]
  /\ UNCHANGED diskVars

\* No file, or one that could not be read or decoded: seeds afresh and
\* leaves whatever is there in place.
StartSeeded ==
  /\ epoch < MaxEpoch
  /\ epoch' = epoch + 1 /\ ver' = 0
  /\ UNCHANGED diskVars

\* The snapshot of another release lost records on import: _quarantine moves
\* it aside.
StartQuarantined ==
  /\ file \notin {None, Torn} /\ epoch < MaxEpoch
  /\ epoch' = epoch + 1 /\ ver' = 0
  /\ file' = None /\ wholeFile' = TRUE
  /\ UNCHANGED durable

Start ==
  /\ proc = "down" /\ proc' = "up"
  /\ StartLoaded \/ StartSeeded \/ StartQuarantined
  /\ UNCHANGED <<age, condVars, pc, saveVars, floor, overlap, excused>>

-----------------------------------------------------------------------------
(* schedule_save and the saver's waiting, under _cond.                     *)

\* Mutant: every write restarts the deadline (a debounce alone).
MutateRestartsDeadline ==
  /\ proc = "up" /\ ver < MaxVer
  /\ ver' = ver + 1
  /\ quiet' = 0
  /\ dirtyAge' = 0
  /\ IF pc["saver"] = "none"
       THEN closed' = FALSE /\ pc' = [pc EXCEPT !["saver"] = "top"]
       ELSE /\ pc' = [pc EXCEPT !["saver"] = IF @ = "wait" THEN "top" ELSE @]
            /\ UNCHANGED closed
  /\ timer' = None
  /\ UNCHANGED <<proc, epoch, age, saveVars, diskVars, floor, overlap, excused>>

\* Mutant: schedule_save does not notify a waiting saver.
MutateWithoutNotify ==
  /\ proc = "up" /\ ver < MaxVer
  /\ ver' = ver + 1
  /\ quiet' = 0
  /\ dirtyAge' = IF dirtyAge = None THEN 0 ELSE dirtyAge
  /\ IF pc["saver"] = "none"
       THEN closed' = FALSE /\ pc' = [pc EXCEPT !["saver"] = "top"]
       ELSE UNCHANGED <<closed, pc>>
  /\ UNCHANGED <<proc, epoch, age, timer, saveVars, diskVars, floor, overlap, excused>>

\* A store mutation: schedule_save stamps it, starts the saver if there is
\* none, and notifies it (which ends its wait, timed or not).
Mutate ==
  /\ proc = "up" /\ ver < MaxVer
  /\ ver' = ver + 1
  /\ quiet' = 0
  /\ dirtyAge' = IF dirtyAge = None THEN 0 ELSE dirtyAge
  /\ IF pc["saver"] = "none"
       THEN closed' = FALSE /\ pc' = [pc EXCEPT !["saver"] = "top"]
       ELSE /\ pc' = [pc EXCEPT !["saver"] = IF @ = "wait" THEN "top" ELSE @]
            /\ UNCHANGED closed
  /\ timer' = None
  /\ UNCHANGED <<proc, epoch, age, saveVars, diskVars, floor, overlap, excused>>

Due == quiet >= Debounce \/ dirtyAge >= MaxDelay

\* Mutant: the wait runs to the deadline, whatever the debounce.
RemainingToDeadline == MaxDelay - dirtyAge

\* What is left until min(last_write + debounce, dirty_since + max_delay).
Remaining ==
  IF Debounce - quiet <= MaxDelay - dirtyAge THEN Debounce - quiet
                                            ELSE MaxDelay - dirtyAge

\* One pass of _run's loop body under _cond.
RunLoop ==
  /\ proc = "up" /\ pc["saver"] = "top"
  /\ \/ /\ closed
        /\ pc' = [pc EXCEPT !["saver"] = "none"]
        /\ UNCHANGED <<dirtyAge, timer>>
     \/ /\ ~closed /\ dirtyAge = None
        /\ pc' = [pc EXCEPT !["saver"] = "wait"]
        /\ UNCHANGED <<dirtyAge, timer>>
     \/ /\ ~closed /\ dirtyAge # None /\ ~Due
        /\ pc' = [pc EXCEPT !["saver"] = "wait"]
        /\ timer' = Remaining
        /\ UNCHANGED dirtyAge
     \/ /\ ~closed /\ dirtyAge # None /\ Due
        /\ pc' = [pc EXCEPT !["saver"] = "snapshot"]
        /\ dirtyAge' = None
        /\ UNCHANGED timer
  /\ quiet' = IF dirtyAge' = None THEN 0 ELSE quiet
  /\ UNCHANGED <<proc, storeVars, closed, saveVars, diskVars, floor, overlap, excused>>

TimedOut ==
  /\ proc = "up" /\ pc["saver"] = "wait" /\ timer = 0
  /\ pc' = [pc EXCEPT !["saver"] = "top"]
  /\ timer' = None
  /\ UNCHANGED <<proc, storeVars, dirtyAge, quiet, closed, saveVars, diskVars, floor, overlap, excused>>

\* Mutant: flush saves only a store that is marked dirty.
FlushOnlyIfDirty ==
  /\ proc = "up" /\ pc["flush"] = "none" /\ floor = None
  /\ closed' = TRUE /\ dirtyAge' = None /\ timer' = None /\ quiet' = 0
  /\ pc' = [pc EXCEPT !["flush"] = IF dirtyAge = None THEN "done" ELSE "snapshot",
                      !["saver"] = IF @ = "wait" THEN "top" ELSE @]
  /\ floor' = Content /\ overlap' = (pc["saver"] \in InSave)
  /\ UNCHANGED <<proc, storeVars, saveVars, diskVars, excused>>

\* flush, up to its _do_save.
FlushBegin ==
  /\ proc = "up" /\ pc["flush"] = "none" /\ floor = None
  /\ closed' = TRUE /\ dirtyAge' = None /\ timer' = None /\ quiet' = 0
  /\ pc' = [pc EXCEPT !["flush"] = "snapshot",
                      !["saver"] = IF @ = "wait" THEN "top" ELSE @]
  /\ floor' = Content /\ overlap' = (pc["saver"] \in InSave)
  /\ UNCHANGED <<proc, storeVars, saveVars, diskVars, excused>>

-----------------------------------------------------------------------------
(* _do_save, for the saver and for flush.                                  *)

\* Where _do_save returns to: the saver's loop, or flush's caller.
Return(t) == IF t = "saver" THEN "top" ELSE "done"

\* Under the store's lock, before _save_lock is taken.
Snapshot(t) ==
  /\ proc = "up" /\ pc[t] = "snapshot"
  /\ snap' = [snap EXCEPT ![t] = Content]
  /\ pc' = [pc EXCEPT ![t] = "lock"]
  /\ UNCHANGED <<proc, storeVars, condVars, saveLock, synced, diskVars, floor, overlap, excused>>

LockSave(t) ==
  /\ proc = "up" /\ pc[t] = "lock" /\ saveLock = None
  /\ saveLock' = t /\ synced' = FALSE
  /\ pc' = [pc EXCEPT ![t] = "write"]
  /\ UNCHANGED <<proc, storeVars, condVars, snap, diskVars, floor, overlap, excused>>

\* Mutant: the temporary file is not fsync'd before the rename.
WriteUnsynced(t) ==
  /\ proc = "up" /\ pc[t] = "write"
  /\ pc' = [pc EXCEPT ![t] = "replace"]
  /\ UNCHANGED <<proc, storeVars, condVars, saveVars, diskVars, floor, overlap, excused>>

\* The temporary file is written, flushed and fsync'd.
Write(t) ==
  /\ proc = "up" /\ pc[t] = "write"
  /\ synced' = TRUE
  /\ pc' = [pc EXCEPT ![t] = "replace"]
  /\ UNCHANGED <<proc, storeVars, condVars, snap, saveLock, diskVars, floor, overlap, excused>>

Replace(t) ==
  /\ proc = "up" /\ pc[t] = "replace"
  /\ file' = snap[t] /\ wholeFile' = synced
  /\ pc' = [pc EXCEPT ![t] = "dirsync"]
  /\ excused' = (excused /\ snap[t] # Content)
  /\ UNCHANGED <<proc, storeVars, condVars, saveVars, durable, floor, overlap>>

\* _fsync_directory; its own failure is swallowed.
SyncDirectory(t) ==
  /\ proc = "up" /\ pc[t] = "dirsync"
  /\ durable' = file \/ (MayFail /\ UNCHANGED durable)
  /\ pc' = [pc EXCEPT ![t] = Return(t)]
  /\ snap' = [snap EXCEPT ![t] = None]
  /\ saveLock' = None
  /\ UNCHANGED <<proc, storeVars, condVars, synced, file, wholeFile, floor, overlap, excused>>

\* Any exception: the temporary file is removed, the error is logged, and
\* nobody marks the store dirty again.
SaveFails(t) ==
  /\ MayFail /\ proc = "up"
  /\ pc[t] \in {"snapshot", "lock", "write", "replace"}
  /\ pc' = [pc EXCEPT ![t] = Return(t)]
  /\ snap' = [snap EXCEPT ![t] = None]
  /\ saveLock' = IF saveLock = t THEN None ELSE saveLock
  /\ excused' = TRUE
  /\ UNCHANGED <<proc, storeVars, condVars, synced, diskVars, floor, overlap>>

-----------------------------------------------------------------------------
(* The environment: time, and the end of the process.                      *)

Older(a, top) == IF a < top THEN a + 1 ELSE a

Tick ==
  /\ proc = "up" /\ pc["saver"] # "top" /\ timer # 0
  /\ quiet' = IF dirtyAge = None THEN quiet ELSE Older(quiet, Debounce)
  /\ dirtyAge' = IF dirtyAge = None THEN None ELSE Older(dirtyAge, MaxDelay)
  /\ timer' = IF timer = None THEN None ELSE timer - 1
  /\ age' = [v \in DOMAIN age |->
               IF v > ver \/ Covers(file, v) \/ floor # None \/ excused THEN 0 ELSE Older(age[v], MaxDelay + 1)]
  /\ UNCHANGED <<proc, epoch, ver, closed, pc, saveVars, diskVars, floor, overlap, excused>>

\* The process is killed, or exits once flush has returned; the operating
\* system still finishes what was written.
Die ==
  /\ proc = "up" /\ epoch < MaxEpoch /\ (MayCrash \/ pc["flush"] = "done")
  /\ Forget
  /\ durable' = file
  /\ UNCHANGED <<epoch, file, wholeFile>>

\* Power is lost: the path names what the last synced rename gave it, or the
\* newer file if that rename happened to reach the disk; a file whose data
\* was not synced first may come back torn.
PowerCut ==
  /\ proc = "up" /\ epoch < MaxEpoch /\ MayCrash
  /\ Forget
  /\ file' \in {durable, IF wholeFile THEN file ELSE Torn}
  /\ durable' = file' /\ wholeFile' = TRUE
  /\ UNCHANGED <<epoch>>

-----------------------------------------------------------------------------
DoSave(t) ==
  \/ Snapshot(t) \/ LockSave(t) \/ Write(t)
  \/ Replace(t) \/ SyncDirectory(t)

Next ==
  \/ Mutate \/ RunLoop \/ TimedOut \/ FlushBegin
  \/ \E t \in Savers : DoSave(t) \/ SaveFails(t)
  \/ Tick \/ Die \/ PowerCut \/ Start

\* The threads are scheduled and time passes; clients, failures, shutdowns
\* and crashes need never come.
Fairness ==
  /\ WF_vars(RunLoop) /\ WF_vars(TimedOut) /\ WF_vars(Tick)
  /\ \A t \in Savers : WF_vars(DoSave(t))

Spec == Init /\ [][Next]_vars /\ Fairness

-----------------------------------------------------------------------------
(* Properties.                                                             *)

TypeOK ==
  /\ proc \in {"up", "down"}
  /\ epoch \in 0..MaxEpoch /\ ver \in 0..MaxVer
  /\ age \in [1..MaxVer -> 0..(MaxDelay + 1)]
  /\ dirtyAge \in 0..MaxDelay \cup {None} /\ quiet \in 0..Debounce
  /\ closed \in BOOLEAN /\ timer \in 0..Debounce \cup {None}
  /\ pc \in [Savers -> InSave \cup {"none", "top", "wait", "done"}]
  /\ snap \in [Savers -> Contents \cup {None}]
  /\ saveLock \in Savers \cup {None} /\ synced \in BOOLEAN
  /\ file \in Contents \cup {None, Torn} /\ durable \in Contents \cup {None, Torn}
  /\ wholeFile \in BOOLEAN
  /\ floor \in Contents \cup {None} /\ excused \in BOOLEAN
  /\ overlap \in BOOLEAN

\* A crash leaves the previous snapshot or the new one: wherever the process
\* dies or power fails, the path never names part of a snapshot.
CrashLeavesAWholeSnapshot == Torn \notin {file, durable}

\* However steadily writes come, the saver never sleeps on one older than
\* MaxDelay: such a write is in the file, or the saver is awake and saving;
\* unless flush closed the manager, or a save failed and none succeeded since.
UnsavedWritesAreYoung ==
  proc = "up" /\ floor = None /\ ~excused =>
    \A v \in 1..ver :
      \/ Covers(file, v)
      \/ age[v] <= MaxDelay
      \/ pc["saver"] \in InSave \cup {"top"}

\* Every write is eventually in the file, unless the process ends, a save
\* fails or flush closes the manager.
WritesAreEventuallySaved ==
  \A v \in 1..MaxVer :
    (proc = "up" /\ ver >= v) ~>
      (Covers(file, v) \/ excused \/ floor # None \/ proc = "down")

\* Once flush has returned the file holds everything the store held when it
\* was called, if no background save was under way at that moment and
\* neither save failed.
FlushCoversAQuietManager ==
  pc["flush"] = "done" /\ ~overlap /\ ~excused => Covers(file, floor[2])

\* Flush saves what the store held when it was called: once it has returned,
\* the file holds that state, whatever the background saver does.
FlushIsFinal == pc["flush"] = "done" => Covers(file, floor[2])
=============================================================================
