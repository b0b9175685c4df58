------------------------- MODULE PersistenceProofs --------------------------
(***************************************************************************)
(* What module Persistence promises of the snapshot file, for every bound  *)
(* on mutations and seedings and all delays: a crash leaves a whole        *)
(* snapshot, flush saves a quiet manager's store, and the saver does not   *)
(* sleep on an old write.  The inductive invariant IInv says what each     *)
(* saver holds at each point of a save, what the file can be of, and where *)
(* every unsaved write is on its way.                                      *)
(***************************************************************************)
EXTENDS Persistence, TLAPS

-----------------------------------------------------------------------------
(* The inductive invariant.                                                *)

Holding == {"lock", "write", "replace", "dirsync"}   \* a snapshot has been taken

\* From its snapshot on, a saver holds a content the store had; from LockSave
\* on it has the lock, and the data is synced before the rename.
SavesInOrder ==
  \A t \in Savers :
    /\ pc[t] \in Holding =>
         snap[t] \in Contents /\ snap[t][1] = epoch /\ snap[t][2] <= ver
    /\ pc[t] \in {"write", "replace", "dirsync"} => saveLock = t
    /\ pc[t] = "replace" => synced

FileIsWhole == file # Torn /\ durable # Torn /\ wholeFile

\* No file is of a later seeding than the store, or of a later state of it.
FileIsOfThePast ==
  /\ file # None => file[1] <= epoch
  /\ durable # None => durable[1] <= epoch
  /\ proc = "up" /\ file # None /\ file[1] = epoch => file[2] <= ver

\* Between two lives nothing is left but the disk.
DownIsEmpty ==
  proc = "down" =>
    /\ ver = 0 /\ durable = file
    /\ pc = [t \in Savers |-> "none"] /\ dirtyAge = None /\ floor = None
    /\ age = [v \in 1..MaxVer |-> 0]

\* After flush was called every snapshot covers what the store held then,
\* and so does the file once flush has renamed its own.
FlushCovers ==
  /\ pc["flush"] \notin {"top", "wait"}
  /\ pc["saver"] # "done"
  /\ floor = None <=> pc["flush"] = "none"
  /\ closed => floor # None
  /\ floor # None => floor[1] = epoch /\ floor[2] <= ver
  /\ floor # None /\ ~overlap => \A t \in Savers : pc[t] \in Holding => snap[t][2] >= floor[2]
  /\ pc["flush"] \in {"dirsync", "done"} /\ ~overlap /\ ~excused => Covers(file, floor[2])

\* The saver's timed wait ends no later than the deadline.
WaitEndsInTime ==
  /\ \A v \in 1..MaxVer : v > ver => age[v] = 0
  /\ floor = None /\ pc["saver"] = "none" => dirtyAge = None
  /\ pc["saver"] = "wait" /\ dirtyAge # None => timer # None /\ timer + dirtyAge <= MaxDelay

\* While flush has not been called, the saver's snapshot is newer than the
\* file.
SaverIsAhead ==
  floor = None /\ file # None /\ file[1] = epoch /\ pc["saver"] \in Holding =>
    file[2] <= snap["saver"][2]

\* A write that is not in the file is on its way there: the store is dirty
\* since before it, or the saver is about to take or has taken a snapshot of it.
OnItsWay(v) ==
  \/ Covers(file, v)
  \/ /\ dirtyAge # None
     /\ \/ age[v] <= dirtyAge
        \/ dirtyAge = MaxDelay /\ pc["saver"] \in InSave \cup {"top"}
  \/ pc["saver"] = "snapshot"
  \/ pc["saver"] \in {"lock", "write", "replace"} /\ snap["saver"][2] >= v

NoWriteIsLost ==
  proc = "up" /\ floor = None /\ ~excused => \A v \in 1..ver : OnItsWay(v)

IInv == /\ TypeOK /\ SavesInOrder /\ FileIsWhole /\ FileIsOfThePast /\ DownIsEmpty
        /\ FlushCovers /\ WaitEndsInTime /\ SaverIsAhead /\ NoWriteIsLost

-----------------------------------------------------------------------------
(* Every step.                                                             *)

\* schedule_save: a new write is as young as can be, and the store is dirty.
LEMMA MutateStep ==
  ASSUME IInv, Mutate
  PROVE  IInv'
<1>1. TypeOK'
  <2>1. ver' \in 0..MaxVer /\ quiet' \in 0..Debounce /\ dirtyAge' \in 0..MaxDelay \cup {None}
    BY DelaysAssumption DEF IInv, Mutate, TypeOK
  <2>2. pc' \in [Savers -> InSave \cup {"none", "top", "wait", "done"}] /\ closed' \in BOOLEAN
    BY DEF IInv, Mutate, TypeOK, Savers
  <2> QED
    BY <2>1, <2>2 DEF IInv, Mutate, TypeOK, saveVars, diskVars
<1>2. SavesInOrder'
  BY DelaysAssumption, ValuesAssumption DEF IInv, Mutate, saveVars, SavesInOrder,
     TypeOK, Savers, Content, Contents, Holding
<1>3. FileIsOfThePast'
  BY DelaysAssumption, ValuesAssumption DEF IInv, Mutate, diskVars, FileIsOfThePast,
     TypeOK, SavesInOrder, Savers, Holding, Contents, FileIsWhole
<1>4. FlushCovers'
  BY DelaysAssumption, ValuesAssumption DEF IInv, Mutate, saveVars, diskVars,
     FlushCovers, TypeOK, Savers, Covers, SavesInOrder, Holding, Content, InSave,
     Contents
<1>5. WaitEndsInTime'
  BY DelaysAssumption, ValuesAssumption DEF IInv, Mutate, WaitEndsInTime, TypeOK, Due,
     Remaining, DownIsEmpty, FlushCovers, SavesInOrder, FileIsWhole, FileIsOfThePast,
     Holding, InSave, Savers, Contents, Covers, Content
<1>6. SaverIsAhead'
  BY DelaysAssumption, ValuesAssumption DEF IInv, Mutate, saveVars, diskVars,
     SaverIsAhead, TypeOK, SavesInOrder, Savers, Holding, FileIsOfThePast, FlushCovers,
     Content
<1>7. NoWriteIsLost'
  <2> SUFFICES ASSUME floor = None, ~excused, NEW v \in 1..(ver + 1)
               PROVE  OnItsWay(v)'
    BY DEF Mutate, NoWriteIsLost
  <2>1. /\ proc = "up" /\ ver \in Nat /\ ver + 1 \in 1..MaxVer /\ file' = file /\ epoch' = epoch
        /\ age' = age /\ snap' = snap /\ dirtyAge' = IF dirtyAge = None THEN 0 ELSE dirtyAge
    BY DelaysAssumption DEF IInv, Mutate, TypeOK, diskVars, saveVars
  <2>2. /\ dirtyAge' \in Nat /\ dirtyAge' # None /\ (dirtyAge # None => dirtyAge' = dirtyAge)
    BY <2>1, DelaysAssumption, ValuesAssumption DEF IInv, TypeOK
  <2>3. pc'["saver"] = pc["saver"] \/ pc'["saver"] = "top"
    BY DEF IInv, Mutate, TypeOK, Savers
  <2>4. pc["saver"] \in InSave => pc'["saver"] = pc["saver"]
    BY DEF IInv, Mutate, TypeOK, Savers, InSave
  <2>5. CASE v = ver + 1
    <3>1. age[v] = 0
      BY <2>1, <2>5 DEF IInv, WaitEndsInTime
    <3> QED
      BY <2>1, <2>2, <3>1 DEF OnItsWay
  <2>6. CASE v # ver + 1
    <3>1. OnItsWay(v)
      BY <2>1, <2>6 DEF IInv, NoWriteIsLost
    <3>2. pc["saver"] = "top" => pc'["saver"] = "top"
      BY <2>3
    <3> QED
      BY <2>1, <2>2, <2>4, <3>1, <3>2 DEF OnItsWay, Covers, InSave
  <2> QED
    BY <2>5, <2>6
<1>8. FileIsWhole' /\ DownIsEmpty'
  BY DEF IInv, Mutate, diskVars, FileIsWhole, DownIsEmpty
<1> QED
  BY <1>1, <1>2, <1>3, <1>4, <1>5, <1>6, <1>7, <1>8 DEF IInv

\* One pass of the saver's loop: it sleeps no longer than the deadline allows.
LEMMA RunLoopStep ==
  ASSUME IInv, RunLoop
  PROVE  IInv'
<1>1. TypeOK'
  <2>1. /\ dirtyAge \in 0..MaxDelay \cup {None} /\ quiet \in 0..Debounce
        /\ timer \in 0..Debounce \cup {None} /\ Debounce \in Nat /\ MaxDelay \in Nat
    BY DelaysAssumption DEF IInv, TypeOK
  <2>2. timer' \in 0..Debounce \cup {None}
    <3>1. CASE dirtyAge # None /\ ~Due /\ timer' = Remaining
      <4>1. dirtyAge \in 0..MaxDelay /\ quiet < Debounce /\ dirtyAge < MaxDelay
        BY <2>1, <3>1 DEF Due
      <4> QED
        BY <2>1, <3>1, <4>1 DEF Remaining
    <3> QED
      BY <2>1, <3>1 DEF RunLoop
  <2>3. dirtyAge' \in 0..MaxDelay \cup {None} /\ quiet' \in 0..Debounce
    BY <2>1 DEF RunLoop
  <2>4. pc' \in [Savers -> InSave \cup {"none", "top", "wait", "done"}]
    BY DEF IInv, RunLoop, TypeOK, Savers, InSave
  <2> QED
    BY <2>2, <2>3, <2>4 DEF IInv, RunLoop, TypeOK, storeVars, saveVars, diskVars
<1>2. SavesInOrder'
  BY DelaysAssumption, ValuesAssumption DEF IInv, RunLoop, storeVars, saveVars,
     SavesInOrder, TypeOK, Savers, Content, Contents, Holding
<1>3. FlushCovers'
  BY DelaysAssumption, ValuesAssumption DEF IInv, RunLoop, storeVars, saveVars,
     diskVars, FlushCovers, TypeOK, Savers, Covers, SavesInOrder, Holding, Content,
     InSave, Contents
<1>4. WaitEndsInTime'
  BY DelaysAssumption, ValuesAssumption DEF IInv, RunLoop, storeVars, WaitEndsInTime,
     TypeOK, Due, Remaining, DownIsEmpty, FlushCovers, SavesInOrder, FileIsWhole,
     FileIsOfThePast, Holding, InSave, Savers, Contents, Covers, Content
<1>5. SaverIsAhead'
  BY DelaysAssumption, ValuesAssumption DEF IInv, RunLoop, storeVars, saveVars,
     diskVars, SaverIsAhead, TypeOK, SavesInOrder, Savers, Holding, FileIsOfThePast,
     FlushCovers, Content
<1>6. NoWriteIsLost'
  BY DelaysAssumption, ValuesAssumption DEF IInv, RunLoop, storeVars, saveVars,
     diskVars, NoWriteIsLost, TypeOK, OnItsWay, Covers, SaverIsAhead, SavesInOrder,
     Savers, Holding, FlushCovers, WaitEndsInTime, InSave, Content, Contents, Due,
     Remaining
<1>7. FileIsWhole' /\ FileIsOfThePast' /\ DownIsEmpty'
  BY DEF IInv, RunLoop, diskVars, FileIsWhole, storeVars, FileIsOfThePast, DownIsEmpty
<1> QED
  BY <1>1, <1>2, <1>3, <1>4, <1>5, <1>6, <1>7 DEF IInv

\* The saver's wait ends.
LEMMA TimedOutStep ==
  ASSUME IInv, TimedOut
  PROVE  IInv'
<1>1. TypeOK'
  BY DEF IInv, TimedOut, storeVars, saveVars, diskVars, TypeOK, Contents, Savers
<1>2. SavesInOrder'
  BY DelaysAssumption, ValuesAssumption DEF IInv, TimedOut, storeVars, saveVars,
     SavesInOrder, TypeOK, Savers, Content, Contents, Holding
<1>3. FlushCovers'
  BY DelaysAssumption, ValuesAssumption DEF IInv, TimedOut, storeVars, saveVars,
     diskVars, FlushCovers, TypeOK, Savers, Covers, SavesInOrder, Holding, Content,
     InSave, Contents
<1>4. WaitEndsInTime'
  BY DelaysAssumption, ValuesAssumption DEF IInv, TimedOut, storeVars, WaitEndsInTime,
     TypeOK, Due, Remaining, DownIsEmpty, FlushCovers, SavesInOrder, FileIsWhole,
     FileIsOfThePast, Holding, InSave, Savers, Contents, Covers, Content
<1>5. SaverIsAhead'
  BY DelaysAssumption, ValuesAssumption DEF IInv, TimedOut, storeVars, saveVars,
     diskVars, SaverIsAhead, TypeOK, SavesInOrder, Savers, Holding, FileIsOfThePast,
     FlushCovers, Content
<1>6. FileIsWhole' /\ FileIsOfThePast' /\ DownIsEmpty' /\ NoWriteIsLost'
  BY DEF IInv, TimedOut, diskVars, FileIsWhole, storeVars, FileIsOfThePast, DownIsEmpty,
     saveVars, NoWriteIsLost, OnItsWay, Covers
<1> QED
  BY <1>1, <1>2, <1>3, <1>4, <1>5, <1>6 DEF IInv

\* flush closes the manager and notes what the store held.
LEMMA FlushBeginStep ==
  ASSUME IInv, FlushBegin
  PROVE  IInv'
<1>1. TypeOK'
  BY DelaysAssumption, ValuesAssumption DEF IInv, FlushBegin, storeVars, saveVars,
     diskVars, TypeOK, Contents, Savers, Content, DownIsEmpty, FlushCovers,
     SavesInOrder, FileIsWhole, FileIsOfThePast, Holding, InSave, Covers
<1>2. SavesInOrder'
  BY DelaysAssumption, ValuesAssumption DEF IInv, FlushBegin, storeVars, saveVars,
     SavesInOrder, TypeOK, Savers, Content, Contents, Holding
<1>3. FlushCovers'
  <2>1. /\ pc'["flush"] = "snapshot" /\ pc["flush"] = "none" /\ floor' = Content /\ closed'
        /\ pc'["saver"] = IF pc["saver"] = "wait" THEN "top" ELSE pc["saver"]
        /\ overlap' = (pc["saver"] \in InSave)
        /\ UNCHANGED <<epoch, ver, snap>>
    BY DEF IInv, FlushBegin, TypeOK, Savers, storeVars, saveVars
  <2>2. Content \in Contents /\ Content # None /\ Content[1] = epoch /\ Content[2] = ver
    BY ValuesAssumption DEF IInv, TypeOK, Content, Contents
  <2>3. pc["saver"] # "done" /\ ver \in Nat
    BY DelaysAssumption DEF IInv, FlushCovers, TypeOK
  <2>4. ~overlap' => \A t \in Savers : pc'[t] \notin Holding
    BY <2>1 DEF Savers, Holding, InSave
  <2> QED
    BY <2>1, <2>2, <2>3, <2>4 DEF FlushCovers
<1>4. SaverIsAhead'
  BY DelaysAssumption, ValuesAssumption DEF IInv, FlushBegin, storeVars, saveVars,
     diskVars, SaverIsAhead, TypeOK, SavesInOrder, Savers, Holding, FileIsOfThePast,
     FlushCovers, Content
<1>5. NoWriteIsLost'
  <2>1. floor' # None
    BY ValuesAssumption DEF IInv, FlushBegin, TypeOK, Content, Contents
  <2> QED
    BY <2>1 DEF NoWriteIsLost
<1>6. FileIsWhole' /\ FileIsOfThePast' /\ DownIsEmpty' /\ WaitEndsInTime'
  BY DEF IInv, FlushBegin, diskVars, FileIsWhole, storeVars, FileIsOfThePast,
     DownIsEmpty, WaitEndsInTime
<1> QED
  BY <1>1, <1>2, <1>3, <1>4, <1>5, <1>6 DEF IInv

\* A snapshot covers everything the store holds.
LEMMA SnapshotStep ==
  ASSUME NEW t \in Savers, IInv, Snapshot(t)
  PROVE  IInv'
<1>1. TypeOK'
  BY DelaysAssumption, ValuesAssumption DEF IInv, Snapshot, storeVars, condVars,
     diskVars, TypeOK, Contents, Savers, Content, DownIsEmpty, FlushCovers,
     SavesInOrder, FileIsWhole, FileIsOfThePast, Holding, InSave, Covers
<1>2. SavesInOrder'
  BY DelaysAssumption, ValuesAssumption DEF IInv, Snapshot, storeVars, SavesInOrder,
     TypeOK, Savers, Content, Contents, Holding
<1>3. FlushCovers'
  BY DelaysAssumption, ValuesAssumption DEF IInv, Snapshot, storeVars, condVars,
     diskVars, FlushCovers, TypeOK, Savers, Covers, SavesInOrder, Holding, Content,
     InSave, Contents
<1>4. SaverIsAhead'
  BY DelaysAssumption, ValuesAssumption DEF IInv, Snapshot, storeVars, diskVars,
     SaverIsAhead, TypeOK, SavesInOrder, Savers, Holding, FileIsOfThePast, FlushCovers,
     Content
<1>5. NoWriteIsLost'
  BY DelaysAssumption, ValuesAssumption DEF IInv, Snapshot, storeVars, condVars,
     diskVars, NoWriteIsLost, TypeOK, OnItsWay, Covers, SaverIsAhead, SavesInOrder,
     Savers, Holding, FlushCovers, WaitEndsInTime, InSave, Content, Contents
<1>6. FileIsWhole' /\ FileIsOfThePast' /\ DownIsEmpty' /\ WaitEndsInTime'
  BY DEF IInv, Snapshot, diskVars, FileIsWhole, storeVars, FileIsOfThePast, condVars,
     DownIsEmpty, WaitEndsInTime
<1> QED
  BY <1>1, <1>2, <1>3, <1>4, <1>5, <1>6 DEF IInv

\* _save_lock is taken.
LEMMA LockSaveStep ==
  ASSUME NEW t \in Savers, IInv, LockSave(t)
  PROVE  IInv'
<1>1. TypeOK'
  BY DelaysAssumption, ValuesAssumption DEF IInv, LockSave, storeVars, condVars,
     diskVars, TypeOK, Contents, Savers, Content, DownIsEmpty, FlushCovers,
     SavesInOrder, FileIsWhole, FileIsOfThePast, Holding, InSave, Covers
<1>2. SavesInOrder'
  BY DelaysAssumption, ValuesAssumption DEF IInv, LockSave, storeVars, SavesInOrder,
     TypeOK, Savers, Content, Contents, Holding
<1>3. FlushCovers'
  BY DelaysAssumption, ValuesAssumption DEF IInv, LockSave, storeVars, condVars,
     diskVars, FlushCovers, TypeOK, Savers, Covers, SavesInOrder, Holding, Content,
     InSave, Contents
<1>4. SaverIsAhead'
  BY DelaysAssumption, ValuesAssumption DEF IInv, LockSave, storeVars, diskVars,
     SaverIsAhead, TypeOK, SavesInOrder, Savers, Holding, FileIsOfThePast, FlushCovers,
     Content
<1>5. NoWriteIsLost'
  BY DelaysAssumption, ValuesAssumption DEF IInv, LockSave, storeVars, condVars,
     diskVars, NoWriteIsLost, TypeOK, OnItsWay, Covers, SaverIsAhead, SavesInOrder,
     Savers, Holding, FlushCovers, WaitEndsInTime, InSave, Content, Contents
<1>6. FileIsWhole' /\ FileIsOfThePast' /\ DownIsEmpty' /\ WaitEndsInTime'
  BY DEF IInv, LockSave, diskVars, FileIsWhole, storeVars, FileIsOfThePast, condVars,
     DownIsEmpty, WaitEndsInTime
<1> QED
  BY <1>1, <1>2, <1>3, <1>4, <1>5, <1>6 DEF IInv

\* The temporary file is synced.
LEMMA WriteStep ==
  ASSUME NEW t \in Savers, IInv, Write(t)
  PROVE  IInv'
<1>1. TypeOK'
  BY DelaysAssumption, ValuesAssumption DEF IInv, Write, storeVars, condVars, diskVars,
     TypeOK, Contents, Savers, Content, DownIsEmpty, FlushCovers, SavesInOrder,
     FileIsWhole, FileIsOfThePast, Holding, InSave, Covers
<1>2. SavesInOrder'
  BY DelaysAssumption, ValuesAssumption DEF IInv, Write, storeVars, SavesInOrder,
     TypeOK, Savers, Content, Contents, Holding
<1>3. FlushCovers'
  BY DelaysAssumption, ValuesAssumption DEF IInv, Write, storeVars, condVars, diskVars,
     FlushCovers, TypeOK, Savers, Covers, SavesInOrder, Holding, Content, InSave,
     Contents
<1>4. SaverIsAhead'
  BY DelaysAssumption, ValuesAssumption DEF IInv, Write, storeVars, diskVars,
     SaverIsAhead, TypeOK, SavesInOrder, Savers, Holding, FileIsOfThePast, FlushCovers,
     Content
<1>5. NoWriteIsLost'
  BY DelaysAssumption, ValuesAssumption DEF IInv, Write, storeVars, condVars, diskVars,
     NoWriteIsLost, TypeOK, OnItsWay, Covers, SaverIsAhead, SavesInOrder, Savers,
     Holding, FlushCovers, WaitEndsInTime, InSave, Content, Contents
<1>6. FileIsWhole' /\ FileIsOfThePast' /\ DownIsEmpty' /\ WaitEndsInTime'
  BY DEF IInv, Write, diskVars, FileIsWhole, storeVars, FileIsOfThePast, condVars,
     DownIsEmpty, WaitEndsInTime
<1> QED
  BY <1>1, <1>2, <1>3, <1>4, <1>5, <1>6 DEF IInv

\* The rename: the file becomes a snapshot whose data is on the disk.
LEMMA ReplaceStep ==
  ASSUME NEW t \in Savers, IInv, Replace(t)
  PROVE  IInv'
<1>1. TypeOK'
  BY DelaysAssumption, ValuesAssumption DEF IInv, Replace, storeVars, condVars,
     saveVars, TypeOK, Contents, Savers, Content, DownIsEmpty, FlushCovers,
     SavesInOrder, FileIsWhole, FileIsOfThePast, Holding, InSave, Covers
<1>2. SavesInOrder'
  BY DelaysAssumption, ValuesAssumption DEF IInv, Replace, storeVars, saveVars,
     SavesInOrder, TypeOK, Savers, Content, Contents, Holding
<1>3. FileIsWhole'
  BY DelaysAssumption, ValuesAssumption DEF IInv, Replace, FileIsWhole, TypeOK,
     SavesInOrder, Savers, Holding
<1>4. FileIsOfThePast'
  BY DelaysAssumption, ValuesAssumption DEF IInv, Replace, storeVars, FileIsOfThePast,
     TypeOK, SavesInOrder, Savers, Holding, Contents, FileIsWhole
<1>5. FlushCovers'
  BY DelaysAssumption, ValuesAssumption DEF IInv, Replace, storeVars, condVars,
     saveVars, FlushCovers, TypeOK, Savers, Covers, SavesInOrder, Holding, Content,
     InSave, Contents
<1>6. SaverIsAhead'
  BY DelaysAssumption, ValuesAssumption DEF IInv, Replace, storeVars, saveVars,
     SaverIsAhead, TypeOK, SavesInOrder, Savers, Holding, FileIsOfThePast, FlushCovers,
     Content, DownIsEmpty, FileIsWhole, InSave, Contents, Covers
<1>7. NoWriteIsLost'
  <2> SUFFICES ASSUME floor = None, ~excused', NEW v \in 1..ver
               PROVE  OnItsWay(v)'
    BY DEF Replace, NoWriteIsLost, storeVars
  <2>1. t = "saver" /\ pc[t] = "replace" /\ proc = "up"
    BY DEF IInv, FlushCovers, Replace, Savers
  <2>2. /\ snap["saver"] \in Contents /\ snap["saver"][1] = epoch /\ snap["saver"] \notin {None, Torn}
    BY <2>1, ValuesAssumption DEF IInv, SavesInOrder, Savers, Holding
  <2>3. /\ file' = snap["saver"] /\ pc'["saver"] = "dirsync"
        /\ UNCHANGED <<epoch, ver, age, dirtyAge, snap>>
    BY <2>1 DEF IInv, Replace, TypeOK, storeVars, condVars, saveVars
  <2>4. ver \in Nat /\ v \in Nat /\ snap["saver"][2] \in Nat
    BY <2>2, DelaysAssumption DEF IInv, TypeOK, Contents
  <2>5. CASE excused
    <3>1. snap["saver"] = Content
      BY <2>1, <2>5 DEF Replace
    <3>2. snap["saver"][2] = ver
      BY <3>1 DEF Content
    <3> QED
      BY <2>2, <2>3, <2>4, <3>2 DEF OnItsWay, Covers
  <2>6. CASE ~excused
    <3>1. OnItsWay(v)
      BY <2>1, <2>6 DEF IInv, NoWriteIsLost
    <3>2. Covers(file, v) => snap["saver"][2] >= v
      <4> SUFFICES ASSUME Covers(file, v) PROVE snap["saver"][2] >= v
        OBVIOUS
      <4>1. file \in Contents /\ file # None /\ file[1] = epoch /\ file[2] >= v /\ file[2] \in Nat
        BY DelaysAssumption DEF IInv, TypeOK, Covers, Contents
      <4>2. file[2] <= snap["saver"][2]
        BY <2>1, <4>1 DEF IInv, SaverIsAhead, Holding
      <4> QED
        BY <2>4, <4>1, <4>2
    <3>3. snap["saver"][2] >= v => Covers(file, v)'
      BY <2>2, <2>3 DEF Covers
    <3> QED
      BY <2>1, <2>3, <3>1, <3>2, <3>3 DEF OnItsWay, InSave, Covers
  <2> QED
    BY <2>5, <2>6
<1>8. DownIsEmpty' /\ WaitEndsInTime'
  BY DEF IInv, Replace, storeVars, condVars, DownIsEmpty, WaitEndsInTime
<1> QED
  BY <1>1, <1>2, <1>3, <1>4, <1>5, <1>6, <1>7, <1>8 DEF IInv

\* The directory is synced and the lock released.
LEMMA SyncDirectoryStep ==
  ASSUME NEW t \in Savers, IInv, SyncDirectory(t)
  PROVE  IInv'
<1>1. TypeOK'
  BY DEF IInv, SyncDirectory, Return, storeVars, condVars, TypeOK, Contents, Savers
<1>2. SavesInOrder'
  BY DelaysAssumption, ValuesAssumption DEF IInv, SyncDirectory, Return, storeVars,
     SavesInOrder, TypeOK, Savers, Content, Contents, Holding
<1>3. FlushCovers'
  BY DelaysAssumption, ValuesAssumption DEF IInv, SyncDirectory, Return, storeVars,
     condVars, FlushCovers, TypeOK, Savers, Covers, SavesInOrder, Holding, Content,
     InSave, Contents
<1>4. SaverIsAhead'
  BY DelaysAssumption, ValuesAssumption DEF IInv, SyncDirectory, Return, storeVars,
     SaverIsAhead, TypeOK, SavesInOrder, Savers, Holding, FileIsOfThePast, FlushCovers,
     Content
<1>5. FileIsWhole' /\ FileIsOfThePast' /\ DownIsEmpty' /\ WaitEndsInTime' /\ NoWriteIsLost'
  BY DEF IInv, SyncDirectory, Return, FileIsWhole, storeVars, FileIsOfThePast, condVars,
     DownIsEmpty, WaitEndsInTime, NoWriteIsLost, OnItsWay, Covers
<1> QED
  BY <1>1, <1>2, <1>3, <1>4, <1>5 DEF IInv

\* A save that fails leaves the file alone.
LEMMA SaveFailsStep ==
  ASSUME NEW t \in Savers, IInv, SaveFails(t)
  PROVE  IInv'
<1>1. TypeOK'
  BY DEF IInv, SaveFails, Return, storeVars, condVars, diskVars, TypeOK, Contents,
     Savers
<1>2. SavesInOrder'
  BY DelaysAssumption, ValuesAssumption DEF IInv, SaveFails, Return, storeVars,
     SavesInOrder, TypeOK, Savers, Content, Contents, Holding
<1>3. FlushCovers'
  BY DelaysAssumption, ValuesAssumption DEF IInv, SaveFails, Return, storeVars,
     condVars, diskVars, FlushCovers, TypeOK, Savers, Covers, SavesInOrder, Holding,
     Content, InSave, Contents
<1>4. SaverIsAhead'
  BY DelaysAssumption, ValuesAssumption DEF IInv, SaveFails, Return, storeVars,
     diskVars, SaverIsAhead, TypeOK, SavesInOrder, Savers, Holding, FileIsOfThePast,
     FlushCovers, Content
<1>5. FileIsWhole' /\ FileIsOfThePast' /\ DownIsEmpty' /\ WaitEndsInTime' /\ NoWriteIsLost'
  BY DEF IInv, SaveFails, Return, diskVars, FileIsWhole, storeVars, FileIsOfThePast,
     condVars, DownIsEmpty, WaitEndsInTime, NoWriteIsLost, OnItsWay, Covers
<1> QED
  BY <1>1, <1>2, <1>3, <1>4, <1>5 DEF IInv

\* Time passes: a sleeping saver's deadline is still ahead.
LEMMA TickStep ==
  ASSUME IInv, Tick
  PROVE  IInv'
<1>1. TypeOK'
  <2>1. age' \in [1..MaxVer -> 0..(MaxDelay + 1)]
    <3>1. \A v \in 1..MaxVer : Older(age[v], MaxDelay + 1) \in 0..(MaxDelay + 1)
      BY DelaysAssumption DEF IInv, TypeOK, Older
    <3>2. 0 \in 0..(MaxDelay + 1)
      BY DelaysAssumption
    <3> QED
      BY <3>1, <3>2 DEF IInv, TypeOK, Tick
  <2>2. dirtyAge' \in 0..MaxDelay \cup {None} /\ quiet' \in 0..Debounce
    BY DelaysAssumption, ValuesAssumption DEF IInv, TypeOK, Tick, Older
  <2>3. timer' \in 0..Debounce \cup {None}
    BY DelaysAssumption, ValuesAssumption DEF IInv, TypeOK, Tick
  <2> QED
    BY <2>1, <2>2, <2>3 DEF IInv, TypeOK, Tick, saveVars, diskVars
<1>2. WaitEndsInTime'
  BY DelaysAssumption, ValuesAssumption DEF IInv, Tick, Older, WaitEndsInTime, TypeOK
<1>3. NoWriteIsLost'
  <2> SUFFICES ASSUME floor = None, ~excused, NEW v \in 1..ver
               PROVE  OnItsWay(v)'
    BY DEF Tick, NoWriteIsLost
  <2>1. /\ proc = "up" /\ pc["saver"] # "top" /\ timer # 0
        /\ UNCHANGED <<epoch, ver, pc, snap, file>>
    BY DEF Tick, saveVars, diskVars
  <2>2. /\ ver \in 0..MaxVer /\ v \in 1..MaxVer /\ age[v] \in 0..(MaxDelay + 1)
        /\ MaxDelay \in Nat /\ (dirtyAge # None => dirtyAge \in 0..MaxDelay)
        /\ (timer # None => timer \in Nat)
    BY DelaysAssumption DEF IInv, TypeOK
  <2>3. OnItsWay(v)
    BY <2>1 DEF IInv, NoWriteIsLost
  <2>4. Covers(file, v) => Covers(file, v)'
    BY <2>1 DEF Covers
  <2>5. CASE /\ ~Covers(file, v) /\ pc["saver"] # "snapshot"
             /\ ~(pc["saver"] \in {"lock", "write", "replace"} /\ snap["saver"][2] >= v)
    <3>1. /\ dirtyAge # None
          /\ \/ age[v] <= dirtyAge
             \/ dirtyAge = MaxDelay /\ pc["saver"] \in InSave
      BY <2>1, <2>3, <2>5 DEF OnItsWay
    <3>2. dirtyAge' = IF dirtyAge < MaxDelay THEN dirtyAge + 1 ELSE dirtyAge
      BY <3>1 DEF Tick, Older
    <3>3. age'[v] <= age[v] + 1 /\ age'[v] \in Nat
      <4>1. age'[v] = 0 \/ age'[v] = Older(age[v], MaxDelay + 1)
        BY <2>2 DEF Tick, IInv, TypeOK
      <4> QED
        BY <2>2, <4>1 DEF Older
    <3>4. dirtyAge' # None
      BY <2>2, <3>1, <3>2, ValuesAssumption
    <3>5. CASE pc["saver"] \in InSave
      <4>1. age'[v] <= dirtyAge' \/ dirtyAge' = MaxDelay
        BY <2>2, <3>1, <3>2, <3>3
      <4> QED
        BY <2>1, <3>4, <3>5, <4>1 DEF OnItsWay
    <3>6. CASE pc["saver"] \notin InSave
      <4>1. pc["saver"] = "wait"
        BY <2>1, <3>1, <3>6 DEF IInv, TypeOK, WaitEndsInTime, FlushCovers, Savers
      <4>2. timer # None /\ timer + dirtyAge <= MaxDelay
        BY <3>1, <4>1 DEF IInv, WaitEndsInTime
      <4>3. dirtyAge < MaxDelay
        BY <2>1, <2>2, <3>1, <4>2
      <4>4. age'[v] <= dirtyAge'
        BY <2>2, <3>1, <3>2, <3>3, <3>6, <4>3
      <4> QED
        BY <3>4, <4>4 DEF OnItsWay
    <3> QED
      BY <3>5, <3>6
  <2> QED
    BY <2>1, <2>3, <2>4, <2>5 DEF OnItsWay
<1>4. SavesInOrder' /\ FileIsWhole' /\ FileIsOfThePast' /\ DownIsEmpty' /\ FlushCovers' /\ SaverIsAhead'
  BY DEF IInv, Tick, Older, saveVars, SavesInOrder, diskVars, FileIsWhole,
     FileIsOfThePast, DownIsEmpty, FlushCovers, Covers, SaverIsAhead
<1> QED
  BY <1>1, <1>2, <1>3, <1>4 DEF IInv

\* The process ends; the disk stays as it is.
LEMMA DieStep ==
  ASSUME IInv, Die
  PROVE  IInv'
<1>1. TypeOK'
  <2>1. /\ ver' \in 0..MaxVer /\ quiet' \in 0..Debounce /\ age' \in [1..MaxVer -> 0..(MaxDelay + 1)]
    BY DelaysAssumption DEF Die, Forget
  <2>2. /\ pc' \in [Savers -> InSave \cup {"none", "top", "wait", "done"}]
        /\ snap' \in [Savers -> Contents \cup {None}]
    BY DEF Die, Forget
  <2> QED
    BY <2>1, <2>2 DEF IInv, Die, Forget, TypeOK
<1>2. SavesInOrder'
  BY DelaysAssumption, ValuesAssumption DEF IInv, Die, Forget, SavesInOrder, TypeOK,
     Savers, Content, Contents, Holding
<1>3. SaverIsAhead'
  BY DelaysAssumption, ValuesAssumption DEF IInv, Die, Forget, SaverIsAhead, TypeOK,
     SavesInOrder, Savers, Holding, FileIsOfThePast, FlushCovers, Content
<1>4. FileIsWhole' /\ FileIsOfThePast' /\ DownIsEmpty' /\ FlushCovers' /\ WaitEndsInTime' /\ NoWriteIsLost'
  BY DEF IInv, Die, Forget, FileIsWhole, FileIsOfThePast, DownIsEmpty, FlushCovers,
     Savers, Covers, WaitEndsInTime, NoWriteIsLost, OnItsWay
<1> QED
  BY <1>1, <1>2, <1>3, <1>4 DEF IInv

\* Power is lost: the path names one of two whole files.
LEMMA PowerCutStep ==
  ASSUME IInv, PowerCut
  PROVE  IInv'
<1>1. TypeOK'
  <2>1. /\ ver' \in 0..MaxVer /\ quiet' \in 0..Debounce /\ age' \in [1..MaxVer -> 0..(MaxDelay + 1)]
    BY DelaysAssumption DEF PowerCut, Forget
  <2>2. /\ pc' \in [Savers -> InSave \cup {"none", "top", "wait", "done"}]
        /\ snap' \in [Savers -> Contents \cup {None}]
    BY DEF PowerCut, Forget
  <2>3. file' \in Contents \cup {None, Torn} /\ durable' = file'
    BY DEF IInv, PowerCut, TypeOK
  <2> QED
    BY <2>1, <2>2, <2>3 DEF IInv, PowerCut, Forget, TypeOK
<1>2. SavesInOrder'
  BY DelaysAssumption, ValuesAssumption DEF IInv, PowerCut, Forget, SavesInOrder,
     TypeOK, Savers, Content, Contents, Holding
<1>3. FileIsOfThePast'
  BY DelaysAssumption, ValuesAssumption DEF IInv, PowerCut, Forget, FileIsOfThePast,
     TypeOK, SavesInOrder, Savers, Holding, Contents, FileIsWhole
<1>4. SaverIsAhead'
  BY DelaysAssumption, ValuesAssumption DEF IInv, PowerCut, Forget, SaverIsAhead,
     TypeOK, SavesInOrder, Savers, Holding, FileIsOfThePast, FlushCovers, Content
<1>5. FileIsWhole' /\ DownIsEmpty' /\ FlushCovers' /\ WaitEndsInTime' /\ NoWriteIsLost'
  BY DEF IInv, PowerCut, Forget, FileIsWhole, DownIsEmpty, FlushCovers, Savers, Covers,
     WaitEndsInTime, NoWriteIsLost, OnItsWay
<1> QED
  BY <1>1, <1>2, <1>3, <1>4, <1>5 DEF IInv

\* The next start finds a whole file or none.
LEMMA StartStep ==
  ASSUME IInv, Start
  PROVE  IInv'
<1>1. TypeOK'
  <2>1. epoch' \in 0..MaxEpoch /\ ver' \in 0..MaxVer
    BY DelaysAssumption DEF IInv, TypeOK, Start, StartLoaded, StartSeeded, StartQuarantined, Contents
  <2>2. file' \in Contents \cup {None, Torn} /\ wholeFile' \in BOOLEAN /\ durable' = durable
    BY DEF IInv, TypeOK, Start, StartLoaded, StartSeeded, StartQuarantined, diskVars
  <2> QED
    BY <2>1, <2>2 DEF IInv, TypeOK, Start, condVars, saveVars
<1>2. SavesInOrder'
  BY DelaysAssumption, ValuesAssumption DEF IInv, Start, StartLoaded, StartSeeded,
     StartQuarantined, saveVars, SavesInOrder, TypeOK, Savers, Content, Contents,
     Holding, DownIsEmpty, FlushCovers, FileIsWhole, FileIsOfThePast, InSave, Covers
<1>3. FileIsWhole'
  BY DelaysAssumption, ValuesAssumption DEF IInv, Start, StartLoaded, StartSeeded,
     StartQuarantined, diskVars, FileIsWhole, TypeOK
<1>4. FileIsOfThePast'
  <2>1. /\ file # None => file \in Contents /\ file[1] \in Nat /\ file[2] \in Nat /\ file[1] <= epoch
        /\ durable = file /\ epoch \in Nat
    BY DelaysAssumption DEF IInv, TypeOK, FileIsWhole, FileIsOfThePast, DownIsEmpty, Contents, Start
  <2>2. CASE StartLoaded
    BY <2>1, <2>2 DEF StartLoaded, FileIsOfThePast, diskVars
  <2>3. CASE StartSeeded
    BY <2>1, <2>3 DEF StartSeeded, FileIsOfThePast, diskVars
  <2>4. CASE StartQuarantined
    BY <2>1, <2>4 DEF StartQuarantined, FileIsOfThePast
  <2> QED
    BY <2>2, <2>3, <2>4 DEF Start
<1>5. FlushCovers'
  BY DelaysAssumption, ValuesAssumption DEF IInv, Start, StartLoaded, StartSeeded,
     StartQuarantined, condVars, saveVars, diskVars, FlushCovers, TypeOK, Savers,
     Covers, SavesInOrder, Holding, Content, InSave, Contents, DownIsEmpty, FileIsWhole,
     FileIsOfThePast
<1>6. WaitEndsInTime'
  BY DelaysAssumption, ValuesAssumption DEF IInv, Start, StartLoaded, StartSeeded,
     StartQuarantined, condVars, WaitEndsInTime, TypeOK, Due, Remaining, DownIsEmpty,
     FlushCovers, SavesInOrder, FileIsWhole, FileIsOfThePast, Holding, InSave, Savers,
     Contents, Covers, Content
<1>7. SaverIsAhead'
  BY DelaysAssumption, ValuesAssumption DEF IInv, Start, StartLoaded, StartSeeded,
     StartQuarantined, saveVars, diskVars, SaverIsAhead, TypeOK, SavesInOrder, Savers,
     Holding, FileIsOfThePast, FlushCovers, Content, DownIsEmpty, FileIsWhole, InSave,
     Contents, Covers
<1>8. NoWriteIsLost'
  <2>1. CASE StartLoaded
    <3>1. file \in Contents /\ file[2] \in Nat
      BY <2>1, DelaysAssumption DEF IInv, TypeOK, StartLoaded, Contents
    <3> QED
      BY <2>1, <3>1 DEF StartLoaded, NoWriteIsLost, OnItsWay, Covers, diskVars
  <2>2. CASE StartSeeded \/ StartQuarantined
    <3>1. 1..ver' = {}
      BY <2>2 DEF StartSeeded, StartQuarantined
    <3> QED
      BY <3>1 DEF NoWriteIsLost
  <2> QED
    BY <2>1, <2>2 DEF Start
<1>9. DownIsEmpty'
  BY DEF IInv, Start, StartLoaded, StartSeeded, StartQuarantined, condVars, diskVars,
     DownIsEmpty
<1> QED
  BY <1>1, <1>2, <1>3, <1>4, <1>5, <1>6, <1>7, <1>8, <1>9 DEF IInv

-----------------------------------------------------------------------------
(* The theorems.                                                           *)

LEMMA InitIInv == Init => IInv
<1> SUFFICES ASSUME Init PROVE IInv
  OBVIOUS
<1>1. TypeOK
  <2>1. /\ age \in [1..MaxVer -> 0..(MaxDelay + 1)] /\ quiet \in 0..Debounce
        /\ epoch \in 0..MaxEpoch /\ ver \in 0..MaxVer
    BY DelaysAssumption DEF Init
  <2>2. /\ pc \in [Savers -> InSave \cup {"none", "top", "wait", "done"}]
        /\ snap \in [Savers -> Contents \cup {None}]
    BY DEF Init
  <2> QED
    BY <2>1, <2>2 DEF Init, TypeOK
<1>2. SavesInOrder /\ FlushCovers
  BY DEF Init, SavesInOrder, FlushCovers, Savers, Holding
<1>3. FileIsWhole /\ FileIsOfThePast /\ DownIsEmpty /\ WaitEndsInTime /\ SaverIsAhead
  BY ValuesAssumption DEF Init, FileIsWhole, FileIsOfThePast, DownIsEmpty, WaitEndsInTime,
     SaverIsAhead, Savers
<1>4. NoWriteIsLost
  BY DEF Init, NoWriteIsLost
<1> QED
  BY <1>1, <1>2, <1>3, <1>4 DEF IInv

\* IInv holds in every reachable state: in every life of the process, at
\* every point of every save.
THEOREM Invariance == Spec => []IInv
<1>1. IInv /\ Next => IInv'
  BY MutateStep, RunLoopStep, TimedOutStep, FlushBeginStep, SnapshotStep, LockSaveStep,
     WriteStep, ReplaceStep, SyncDirectoryStep, SaveFailsStep, TickStep, DieStep,
     PowerCutStep, StartStep DEF Next, DoSave
<1>2. IInv /\ UNCHANGED vars => IInv'
  BY DEF IInv, vars, TypeOK, SavesInOrder, FileIsWhole, FileIsOfThePast, DownIsEmpty, FlushCovers,
         WaitEndsInTime, SaverIsAhead, NoWriteIsLost, OnItsWay, Covers
<1> QED
  BY <1>1, <1>2, InitIInv, PTL DEF Spec

\* The manager's state keeps its types and its ages their bounds.
THEOREM TypeCorrect == Spec => []TypeOK
<1>1. IInv => TypeOK
  BY DEF IInv
<1> QED
  BY <1>1, Invariance, PTL

\* Wherever the process is killed or power fails during a save, the path
\* names the previous snapshot or the new one, never part of one.
THEOREM CrashIsAtomic == Spec => []CrashLeavesAWholeSnapshot
<1>1. IInv => CrashLeavesAWholeSnapshot
  BY DEF IInv, FileIsWhole, CrashLeavesAWholeSnapshot
<1> QED
  BY <1>1, Invariance, PTL

\* Once flush has returned the file holds what the store held when it was
\* called, if no background save was under way then and neither failed.
THEOREM FlushSavesAQuietManager == Spec => []FlushCoversAQuietManager
<1>1. IInv => FlushCoversAQuietManager
  BY DEF IInv, FlushCovers, FlushCoversAQuietManager
<1> QED
  BY <1>1, Invariance, PTL

\* The saver never sleeps on a write older than _MAX_DELAY_SECONDS, however
\* steadily writes come and however long a save takes.
THEOREM SaverNeverOversleeps == Spec => []UnsavedWritesAreYoung
<1>1. IInv => UnsavedWritesAreYoung
  <2> SUFFICES ASSUME IInv, proc = "up", floor = None, ~excused, NEW v \in 1..ver,
                      ~Covers(file, v), pc["saver"] \notin InSave \cup {"top"}
               PROVE  age[v] <= MaxDelay
    BY DEF UnsavedWritesAreYoung
  <2>1. OnItsWay(v)
    BY DEF IInv, NoWriteIsLost
  <2>2. dirtyAge # None /\ age[v] <= dirtyAge
    BY <2>1 DEF OnItsWay, InSave
  <2>3. dirtyAge \in 0..MaxDelay /\ v \in 1..MaxVer /\ age[v] \in Nat /\ MaxDelay \in Nat
    BY <2>2, DelaysAssumption DEF IInv, TypeOK
  <2> QED
    BY <2>2, <2>3
<1> QED
  BY <1>1, Invariance, PTL
=============================================================================
