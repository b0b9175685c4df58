--------------------------- MODULE PlaybookProofs ---------------------------
(***************************************************************************)
(* What module Playbook promises when starts come one at a time, overlap   *)
(* no reset or import, and wait for the run before them: for any number of *)
(* clients, runs, replacements and steps, and with resets and imports that *)
(* overlap each other and give up their joins, no step writes into a store *)
(* it was not fetched from, and no two threads wait for each other's lock. *)
(***************************************************************************)
EXTENDS Playbook, FiniteSetTheorems, TLAPS

\* The conditions of the theorems.  Without the first the code deadlocks
\* (run playbook_reset); without the others an earlier run may go on beside
\* the next one, out of reach of stop.
OrderlyStarts ==
  /\ ~StartsOverlap
  /\ "start" \notin GivesUp
  /\ \A c, d \in Starters : c = d

-----------------------------------------------------------------------------
(* The inductive invariant.                                                *)

Launching == {"uncancel", "setrun", "publish", "launch"}
InStep == {"recheck", "write", "finish"}

\* Where a client is belongs to the operation it is in, and no start is
\* under way beside another or beside a reset or import.
CallsInOrder ==
  \A c \in Clients :
    /\ cpc[c] = "idle" <=> op[c] = None
    /\ cpc[c] \in Launching => op[c] = "start"
    /\ cpc[c] \in {"stop", "steplock", "lock", "replace"} => op[c] \in {"reset", "import"}
    /\ op[c] = "start" => c \in Starters /\ \A d \in Clients : op[d] \in {"start", None}
    /\ cpc[c] = "join" /\ op[c] = "start" => target[c] = thread

\* The replacements done and under way stay within the bound.
Budget == gen + Cardinality(Replacing) <= MaxGen

\* A lock is held exactly by who is at a place between its acquisition and
\* its release.
LocksHeld ==
  /\ \A n \in Runs : stepLock = n <=> tpc[n] \in InStep
  /\ \A c \in Clients :
       /\ storeLock = c => cpc[c] \in {"stop", "steplock", "join", "replace"} /\ op[c] # "start"
       /\ cpc[c] = "replace" => storeLock = c

\* Only one thread is alive: the one stop knows of, working on the run the
\* status shows; none is while a start launches the next.
OneThread ==
  \A n \in Runs : Alive(n) =>
    /\ n = thread /\ n = run
    /\ tpc[n] \notin {"fetch", "getrun", "noagent"} => runOf[n] = n
    /\ \A c \in Clients : cpc[c] \notin Launching

\* A run has a status from before its thread is born until after it is dead.
Lives ==
  /\ \A n \in Runs :
       /\ tpc[n] # "unborn" => status[n] # None
       /\ tpc[n] = "unborn" /\ status[n] # None =>
            \E c \in Clients : cpc[c] \in {"publish", "launch"} /\ mine[c] = n
  /\ \A c \in Clients :
       /\ cpc[c] \in {"publish", "launch"} =>
            mine[c] \in Runs /\ mine[c] = run /\ tpc[mine[c]] = "unborn" /\ status[mine[c]] = "running"
       /\ cpc[c] = "launch" => thread = mine[c]

\* A step under way is one of the playbook's.
StepsInRange ==
  \A n \in Runs : tpc[n] \in {"sleep", "acquire"} \cup InStep => step[n] <= Steps

\* From the moment stop has raised the flag until the store is replaced, the
\* flag is up or nothing is alive; from PassStepLock on, nothing writes.
Stopping(c) == op[c] \in {"reset", "import"} /\ (cpc[c] = "stop" => storeLock = c)
StopHolds ==
  \A c \in Clients : Stopping(c) =>
    /\ cancelFlag \/ \A n \in Runs : ~Alive(n)
    /\ cpc[c] # "steplock" \/ storeLock = c => \A n \in Runs : tpc[n] # "write"

\* A thread holds an agent of the present store, unless it is to be
\* cancelled before it writes again.
Fresh ==
  \A n \in Runs :
    /\ Alive(n) /\ tpc[n] # "fetch" => fetched[n] = gen \/ cancelFlag
    /\ tpc[n] = "write" => fetched[n] = gen

IInv == /\ TypeOK /\ CallsInOrder /\ Budget /\ LocksHeld /\ OneThread /\ Lives
        /\ StepsInRange /\ StopHolds /\ Fresh /\ NoStaleWrite

-----------------------------------------------------------------------------
(* Lemmas.                                                                 *)

\* The thread that works moves on, or ends, saying so in its own run or not.
LEMMA LivesOfAThread ==
  ASSUME IInv, NEW n \in Runs, Alive(n), UNCHANGED <<cpc, mine, run, thread>>,
         \/ \E w \in {"getrun", "noagent", "loop", "sleep", "acquire", "recheck", "write",
                     "finish", "dead"} :
              tpc' = [tpc EXCEPT ![n] = w] /\ status' = status
         \/ /\ tpc' = [tpc EXCEPT ![n] = "dead"]
            /\ \E s \in {"done", "cancelled", "error"} : status' = [status EXCEPT ![n] = s]
  PROVE  Lives'
<1>1. /\ tpc[n] # "unborn" /\ tpc'[n] # "unborn" /\ \A m \in Runs : m # n => tpc'[m] = tpc[m]
      /\ status'[n] # None /\ \A m \in Runs : m # n => status'[m] = status[m]
  BY NamesAssumption DEF IInv, TypeOK, Lives, Alive
<1> QED
  BY <1>1 DEF IInv, Lives

\* One client more or less among those that replace the store.
LEMMA ReplacingSize ==
  /\ IsFiniteSet(Replacing) /\ Cardinality(Replacing) \in Nat
  /\ \A c \in Clients : /\ Cardinality(Replacing \cup {c}) <= Cardinality(Replacing) + 1
                        /\ c \in Replacing =>
                             Cardinality(Replacing \ {c}) = Cardinality(Replacing) - 1
<1>1. IsFiniteSet(Replacing)
  BY PlaybookAssumption, FS_Subset DEF Replacing
<1>2. Cardinality(Replacing) \in Nat
  BY <1>1, FS_CardinalityType
<1>3. ASSUME NEW c \in Clients
      PROVE  /\ Cardinality(Replacing \cup {c}) <= Cardinality(Replacing) + 1
             /\ c \in Replacing => Cardinality(Replacing \ {c}) = Cardinality(Replacing) - 1
  <2>1. Cardinality(Replacing \cup {c}) =
          IF c \in Replacing THEN Cardinality(Replacing) ELSE Cardinality(Replacing) + 1
    BY <1>1, FS_AddElement
  <2>2. c \in Replacing => Cardinality(Replacing \ {c}) = Cardinality(Replacing) - 1
    BY <1>1, FS_RemoveElement
  <2> QED
    BY <1>2, <2>1, <2>2
<1> QED
  BY <1>1, <1>2, <1>3

-----------------------------------------------------------------------------
(* Every step.                                                             *)

\* The thread fetches its agent from the present store.
LEMMA FetchAgentStep ==
  ASSUME NEW n \in Runs, OrderlyStarts, IInv, FetchAgent(n)
  PROVE  IInv'
<1>1. TypeOK'
  BY DEF IInv, FetchAgent, Go, clientVars, stateVars, TypeOK
<1>2. Fresh'
  BY PlaybookAssumption, NamesAssumption DEF IInv, FetchAgent, Go, stateVars, Fresh,
     OrderlyStarts, TypeOK, Alive
<1>3. CallsInOrder' /\ Budget' /\ LocksHeld' /\ OneThread' /\ Lives' /\ StepsInRange' /\
      StopHolds' /\ NoStaleWrite'
  BY DEF IInv, FetchAgent, Go, clientVars, stateVars, CallsInOrder, Budget, Replacing,
     LocksHeld, InStep, OneThread, Alive, Launching, Lives, StepsInRange, StopHolds,
     Stopping, NoStaleWrite
<1> QED
  BY <1>1, <1>2, <1>3 DEF IInv

\* get_run: the run set last is this thread's own.
LEMMA GetRunStep ==
  ASSUME NEW n \in Runs, OrderlyStarts, IInv, GetRun(n)
  PROVE  IInv'
<1>1. TypeOK'
  BY DEF IInv, GetRun, Go, clientVars, TypeOK
<1>2. LocksHeld'
  BY PlaybookAssumption, NamesAssumption DEF IInv, GetRun, Go, clientVars, LocksHeld,
     OrderlyStarts, TypeOK, InStep
<1>3. OneThread'
  BY PlaybookAssumption, NamesAssumption DEF IInv, GetRun, Go, clientVars, OneThread,
     OrderlyStarts, TypeOK, Alive, Launching
<1>4. Lives'
  <2>1. Alive(n) /\ n = run
    BY NamesAssumption DEF IInv, GetRun, OneThread, Alive
  <2> QED
    BY <2>1, LivesOfAThread DEF GetRun, Go, clientVars
<1>5. StepsInRange'
  BY PlaybookAssumption, NamesAssumption DEF IInv, GetRun, Go, StepsInRange,
     OrderlyStarts, TypeOK, InStep
<1>6. StopHolds'
  BY PlaybookAssumption, NamesAssumption DEF IInv, GetRun, Go, clientVars, StopHolds,
     OrderlyStarts, TypeOK, Stopping, Alive
<1>7. Fresh'
  BY PlaybookAssumption, NamesAssumption DEF IInv, GetRun, Go, Fresh, OrderlyStarts,
     TypeOK, Alive
<1>8. CallsInOrder' /\ Budget' /\ NoStaleWrite'
  BY DEF IInv, GetRun, Go, clientVars, CallsInOrder, Budget, Replacing, NoStaleWrite
<1> QED
  BY <1>1, <1>2, <1>3, <1>4, <1>5, <1>6, <1>7, <1>8 DEF IInv

\* The head of the loop over the steps.
LEMMA LoopHeadStep ==
  ASSUME NEW n \in Runs, OrderlyStarts, IInv, LoopHead(n)
  PROVE  IInv'
<1>1. TypeOK'
  BY DEF IInv, LoopHead, End, Go, clientVars, TypeOK
<1>2. LocksHeld'
  BY PlaybookAssumption, NamesAssumption DEF IInv, LoopHead, End, Go, clientVars,
     LocksHeld, OrderlyStarts, TypeOK, InStep
<1>3. OneThread'
  BY PlaybookAssumption, NamesAssumption DEF IInv, LoopHead, End, Go, clientVars,
     OneThread, OrderlyStarts, TypeOK, Alive, Launching
<1>4. Lives'
  <2>1. Alive(n) /\ runOf[n] = n
    BY NamesAssumption DEF IInv, LoopHead, OneThread, Alive
  <2> QED
    BY <2>1, LivesOfAThread DEF LoopHead, End, Go, clientVars
<1>5. StepsInRange'
  BY PlaybookAssumption, NamesAssumption DEF IInv, LoopHead, End, Go, StepsInRange,
     OrderlyStarts, TypeOK, InStep
<1>6. StopHolds'
  BY PlaybookAssumption, NamesAssumption DEF IInv, LoopHead, End, Go, clientVars,
     StopHolds, OrderlyStarts, TypeOK, Stopping, Alive
<1>7. Fresh'
  BY PlaybookAssumption, NamesAssumption DEF IInv, LoopHead, End, Go, Fresh,
     OrderlyStarts, TypeOK, Alive
<1>8. CallsInOrder' /\ Budget' /\ NoStaleWrite'
  BY DEF IInv, LoopHead, End, Go, clientVars, CallsInOrder, Budget, Replacing,
     NoStaleWrite
<1> QED
  BY <1>1, <1>2, <1>3, <1>4, <1>5, <1>6, <1>7, <1>8 DEF IInv

\* The delay before a step.
LEMMA SleepStep ==
  ASSUME NEW n \in Runs, OrderlyStarts, IInv, Sleep(n)
  PROVE  IInv'
<1>1. TypeOK'
  BY DEF IInv, Sleep, End, Go, clientVars, TypeOK
<1>2. LocksHeld'
  BY PlaybookAssumption, NamesAssumption DEF IInv, Sleep, End, Go, clientVars,
     LocksHeld, OrderlyStarts, TypeOK, InStep
<1>3. OneThread'
  BY PlaybookAssumption, NamesAssumption DEF IInv, Sleep, End, Go, clientVars,
     OneThread, OrderlyStarts, TypeOK, Alive, Launching
<1>4. Lives'
  <2>1. Alive(n) /\ runOf[n] = n
    BY NamesAssumption DEF IInv, Sleep, OneThread, Alive
  <2> QED
    BY <2>1, LivesOfAThread DEF Sleep, End, Go, clientVars
<1>5. StepsInRange'
  BY PlaybookAssumption, NamesAssumption DEF IInv, Sleep, End, Go, StepsInRange,
     OrderlyStarts, TypeOK, InStep
<1>6. StopHolds'
  BY PlaybookAssumption, NamesAssumption DEF IInv, Sleep, End, Go, clientVars,
     StopHolds, OrderlyStarts, TypeOK, Stopping, Alive
<1>7. Fresh'
  BY PlaybookAssumption, NamesAssumption DEF IInv, Sleep, End, Go, Fresh, OrderlyStarts,
     TypeOK, Alive
<1>8. CallsInOrder' /\ Budget' /\ NoStaleWrite'
  BY DEF IInv, Sleep, End, Go, clientVars, CallsInOrder, Budget, Replacing, NoStaleWrite
<1> QED
  BY <1>1, <1>2, <1>3, <1>4, <1>5, <1>6, <1>7, <1>8 DEF IInv

\* The step lock is taken.
LEMMA AcquireStepStep ==
  ASSUME NEW n \in Runs, OrderlyStarts, IInv, AcquireStep(n)
  PROVE  IInv'
<1>1. TypeOK'
  BY DEF IInv, AcquireStep, Go, clientVars, stateVars, TypeOK
<1>2. LocksHeld'
  BY PlaybookAssumption, NamesAssumption DEF IInv, AcquireStep, Go, clientVars,
     LocksHeld, OrderlyStarts, TypeOK, InStep
<1>3. CallsInOrder' /\ Budget' /\ OneThread' /\ Lives' /\ StepsInRange' /\ StopHolds' /\
      Fresh' /\ NoStaleWrite'
  BY DEF IInv, AcquireStep, Go, clientVars, stateVars, CallsInOrder, Budget, Replacing,
     OneThread, Alive, Launching, Lives, StepsInRange, InStep, StopHolds, Stopping,
     Fresh, NoStaleWrite
<1> QED
  BY <1>1, <1>2, <1>3 DEF IInv

\* A step is begun only if the flag is still down.
LEMMA RecheckStep ==
  ASSUME NEW n \in Runs, OrderlyStarts, IInv, Recheck(n)
  PROVE  IInv'
<1>1. TypeOK'
  BY DEF IInv, Recheck, End, Go, clientVars, TypeOK
<1>2. LocksHeld'
  BY PlaybookAssumption, NamesAssumption DEF IInv, Recheck, End, Go, clientVars,
     LocksHeld, OrderlyStarts, TypeOK, InStep
<1>3. OneThread'
  BY PlaybookAssumption, NamesAssumption DEF IInv, Recheck, End, Go, clientVars,
     OneThread, OrderlyStarts, TypeOK, Alive, Launching
<1>4. Lives'
  <2>1. Alive(n) /\ runOf[n] = n
    BY NamesAssumption DEF IInv, Recheck, OneThread, Alive
  <2> QED
    BY <2>1, LivesOfAThread DEF Recheck, End, Go, clientVars
<1>5. StepsInRange'
  BY PlaybookAssumption, NamesAssumption DEF IInv, Recheck, End, Go, StepsInRange,
     OrderlyStarts, TypeOK, InStep
<1>6. StopHolds'
  BY PlaybookAssumption, NamesAssumption DEF IInv, Recheck, End, Go, clientVars,
     StopHolds, OrderlyStarts, TypeOK, Stopping, Alive
<1>7. Fresh'
  BY PlaybookAssumption, NamesAssumption DEF IInv, Recheck, End, Go, Fresh,
     OrderlyStarts, TypeOK, Alive
<1>8. CallsInOrder' /\ Budget' /\ NoStaleWrite'
  BY DEF IInv, Recheck, End, Go, clientVars, CallsInOrder, Budget, Replacing,
     NoStaleWrite
<1> QED
  BY <1>1, <1>2, <1>3, <1>4, <1>5, <1>6, <1>7, <1>8 DEF IInv

\* A step writes what it holds of the present store.
LEMMA WriteStepStep ==
  ASSUME NEW n \in Runs, OrderlyStarts, IInv, WriteStep(n)
  PROVE  IInv'
<1>1. TypeOK'
  BY DEF IInv, WriteStep, Go, clientVars, stateVars, TypeOK
<1>2. LocksHeld'
  BY PlaybookAssumption, NamesAssumption DEF IInv, WriteStep, Go, clientVars, LocksHeld,
     OrderlyStarts, TypeOK, InStep
<1>3. OneThread'
  BY PlaybookAssumption, NamesAssumption DEF IInv, WriteStep, Go, clientVars, stateVars,
     OneThread, OrderlyStarts, TypeOK, Alive, Launching
<1>4. Lives'
  BY PlaybookAssumption, NamesAssumption DEF IInv, WriteStep, Go, clientVars, stateVars,
     Lives, OrderlyStarts, TypeOK
<1>5. StepsInRange'
  BY PlaybookAssumption, NamesAssumption DEF IInv, WriteStep, Go, StepsInRange,
     OrderlyStarts, TypeOK, InStep
<1>6. StopHolds'
  BY PlaybookAssumption, NamesAssumption DEF IInv, WriteStep, Go, clientVars, stateVars,
     StopHolds, OrderlyStarts, TypeOK, Stopping, Alive
<1>7. Fresh'
  BY PlaybookAssumption, NamesAssumption DEF IInv, WriteStep, Go, stateVars, Fresh,
     OrderlyStarts, TypeOK, Alive
<1>8. NoStaleWrite'
  BY PlaybookAssumption, NamesAssumption DEF IInv, WriteStep, Go, NoStaleWrite,
     OrderlyStarts, TypeOK, Fresh
<1>9. CallsInOrder' /\ Budget'
  BY DEF IInv, WriteStep, Go, clientVars, stateVars, CallsInOrder, Budget, Replacing
<1> QED
  BY <1>1, <1>2, <1>3, <1>4, <1>5, <1>6, <1>7, <1>8, <1>9 DEF IInv

\* The step lock is released.
LEMMA FinishStepStep ==
  ASSUME NEW n \in Runs, OrderlyStarts, IInv, FinishStep(n)
  PROVE  IInv'
<1>1. TypeOK'
  BY PlaybookAssumption, NamesAssumption DEF IInv, FinishStep, Go, clientVars,
     stateVars, TypeOK, OrderlyStarts, StepsInRange, Lives, InStep
<1>2. LocksHeld'
  BY PlaybookAssumption, NamesAssumption DEF IInv, FinishStep, Go, clientVars,
     LocksHeld, OrderlyStarts, TypeOK, InStep
<1>3. StepsInRange'
  BY PlaybookAssumption, NamesAssumption DEF IInv, FinishStep, Go, StepsInRange,
     OrderlyStarts, TypeOK, InStep
<1>4. CallsInOrder' /\ Budget' /\ OneThread' /\ Lives' /\ StopHolds' /\ Fresh' /\
      NoStaleWrite'
  BY DEF IInv, FinishStep, Go, clientVars, stateVars, CallsInOrder, Budget, Replacing,
     OneThread, Alive, Launching, Lives, StopHolds, Stopping, Fresh, NoStaleWrite
<1> QED
  BY <1>1, <1>2, <1>3, <1>4 DEF IInv

\* A start raises the flag for the run before it.
LEMMA StartCallStep ==
  ASSUME NEW c \in Clients, OrderlyStarts, IInv, StartCall(c)
  PROVE  IInv'
<1>1. TypeOK'
  BY DEF IInv, StartCall, Begin, At, Starting, Replacing, threadVars, TypeOK
<1>2. CallsInOrder'
  BY PlaybookAssumption, NamesAssumption DEF IInv, StartCall, Begin, At, Starting,
     Replacing, CallsInOrder, OrderlyStarts, TypeOK, Launching
<1>3. Budget'
  BY PlaybookAssumption, NamesAssumption DEF IInv, StartCall, Begin, At, Starting,
     Replacing, Budget, OrderlyStarts, TypeOK
<1>4. LocksHeld'
  BY PlaybookAssumption, NamesAssumption DEF IInv, StartCall, Begin, At, Starting,
     Replacing, threadVars, LocksHeld, OrderlyStarts, TypeOK, InStep
<1>5. OneThread'
  BY PlaybookAssumption, NamesAssumption DEF IInv, StartCall, Begin, At, Starting,
     Replacing, threadVars, OneThread, OrderlyStarts, TypeOK, Alive, Launching
<1>6. Lives'
  BY PlaybookAssumption, NamesAssumption DEF IInv, StartCall, Begin, At, Starting,
     Replacing, threadVars, Lives, OrderlyStarts, TypeOK
<1>7. StopHolds'
  BY PlaybookAssumption, NamesAssumption DEF IInv, StartCall, Begin, At, Starting,
     Replacing, threadVars, StopHolds, OrderlyStarts, TypeOK, Stopping, Alive
<1>8. StepsInRange' /\ Fresh' /\ NoStaleWrite'
  BY DEF IInv, StartCall, Begin, At, Starting, Replacing, threadVars, StepsInRange,
     Fresh, Alive, NoStaleWrite
<1> QED
  BY <1>1, <1>2, <1>3, <1>4, <1>5, <1>6, <1>7, <1>8 DEF IInv

\* A start's join ends with the thread dead; a stop's may give up.
LEMMA JoinStep ==
  ASSUME NEW c \in Clients, OrderlyStarts, IInv, Join(c)
  PROVE  IInv'
<1>1. TypeOK'
  BY DEF IInv, Join, At, threadVars, stateVars, TypeOK
<1>2. CallsInOrder'
  BY PlaybookAssumption, NamesAssumption DEF IInv, Join, At, stateVars, CallsInOrder,
     OrderlyStarts, TypeOK, Launching
<1>3. OneThread'
  BY PlaybookAssumption, NamesAssumption DEF IInv, Join, At, threadVars, stateVars,
     OneThread, OrderlyStarts, TypeOK, Alive, Launching, CallsInOrder, Lives
<1>4. Budget' /\ LocksHeld' /\ Lives' /\ StepsInRange' /\ StopHolds' /\ Fresh' /\
      NoStaleWrite'
  BY DEF IInv, Join, At, Budget, Replacing, threadVars, LocksHeld, InStep, stateVars,
     Lives, StepsInRange, StopHolds, Stopping, Alive, Fresh, NoStaleWrite
<1> QED
  BY <1>1, <1>2, <1>3, <1>4 DEF IInv

\* The flag is cleared when nothing is alive.
LEMMA UncancelStep ==
  ASSUME NEW c \in Clients, OrderlyStarts, IInv, Uncancel(c)
  PROVE  IInv'
<1>1. TypeOK'
  BY DEF IInv, Uncancel, At, threadVars, TypeOK
<1>2. StopHolds'
  BY PlaybookAssumption, NamesAssumption DEF IInv, Uncancel, At, threadVars, StopHolds,
     OrderlyStarts, TypeOK, Stopping, Alive, CallsInOrder, LocksHeld, InStep, OneThread,
     Launching, Lives
<1>3. Fresh'
  BY PlaybookAssumption, NamesAssumption DEF IInv, Uncancel, At, threadVars, Fresh,
     OrderlyStarts, TypeOK, Alive, StopHolds, Stopping, CallsInOrder, LocksHeld,
     OneThread, Launching
<1>4. CallsInOrder' /\ Budget' /\ LocksHeld' /\ OneThread' /\ Lives' /\ StepsInRange' /\
      NoStaleWrite'
  BY DEF IInv, Uncancel, At, CallsInOrder, Launching, Budget, Replacing, threadVars,
     LocksHeld, InStep, OneThread, Alive, Lives, StepsInRange, NoStaleWrite
<1> QED
  BY <1>1, <1>2, <1>3, <1>4 DEF IInv

\* The new run is shown before its thread exists.
LEMMA SetRunStep ==
  ASSUME NEW c \in Clients, OrderlyStarts, IInv, SetRun(c)
  PROVE  IInv'
<1>1. TypeOK'
  BY DEF IInv, SetRun, At, threadVars, TypeOK
<1>2. Lives'
  BY PlaybookAssumption, NamesAssumption DEF IInv, SetRun, At, threadVars, Lives,
     OrderlyStarts, TypeOK, OneThread, Alive, CallsInOrder, Launching
<1>3. CallsInOrder' /\ Budget' /\ LocksHeld' /\ OneThread' /\ StepsInRange' /\
      StopHolds' /\ Fresh' /\ NoStaleWrite'
  BY DEF IInv, SetRun, At, CallsInOrder, Launching, Budget, Replacing, threadVars,
     LocksHeld, InStep, OneThread, Alive, StepsInRange, StopHolds, Stopping, Fresh,
     NoStaleWrite
<1> QED
  BY <1>1, <1>2, <1>3 DEF IInv

\* The new thread is known to stop.
LEMMA PublishStep ==
  ASSUME NEW c \in Clients, OrderlyStarts, IInv, Publish(c)
  PROVE  IInv'
<1>1. TypeOK'
  BY DEF IInv, Publish, At, threadVars, TypeOK
<1>2. CallsInOrder'
  BY PlaybookAssumption, NamesAssumption DEF IInv, Publish, At, CallsInOrder,
     OrderlyStarts, TypeOK, Launching
<1>3. Budget' /\ LocksHeld' /\ OneThread' /\ Lives' /\ StepsInRange' /\ StopHolds' /\
      Fresh' /\ NoStaleWrite'
  BY DEF IInv, Publish, At, Budget, Replacing, threadVars, LocksHeld, InStep, OneThread,
     Alive, Launching, Lives, StepsInRange, StopHolds, Stopping, Fresh, NoStaleWrite
<1> QED
  BY <1>1, <1>2, <1>3 DEF IInv

\* The new thread is alive.
LEMMA LaunchStep ==
  ASSUME NEW c \in Clients, OrderlyStarts, IInv, Launch(c)
  PROVE  IInv'
<1>1. TypeOK'
  BY DEF IInv, Launch, At, Go, stateVars, TypeOK
<1>2. CallsInOrder'
  BY PlaybookAssumption, NamesAssumption DEF IInv, Launch, At, Go, stateVars,
     CallsInOrder, OrderlyStarts, TypeOK, Launching
<1>3. Budget'
  <2>1. op[c] = "start" /\ op' = [op EXCEPT ![c] = None]
    BY DEF IInv, Launch, CallsInOrder, Launching
  <2>2. Replacing' = Replacing
    BY <2>1, NamesAssumption DEF IInv, TypeOK, Replacing
  <2> QED
    BY <2>2 DEF IInv, Budget, Launch
<1>4. LocksHeld'
  BY PlaybookAssumption, NamesAssumption DEF IInv, Launch, At, Go, LocksHeld,
     OrderlyStarts, TypeOK, InStep, CallsInOrder, Launching, Alive, OneThread, Lives,
     StopHolds, Stopping
<1>5. OneThread'
  BY PlaybookAssumption, NamesAssumption DEF IInv, Launch, At, Go, stateVars, OneThread,
     OrderlyStarts, TypeOK, Alive, Launching, CallsInOrder, Lives
<1>6. Lives'
  BY PlaybookAssumption, NamesAssumption DEF IInv, Launch, At, Go, stateVars, Lives,
     OrderlyStarts, TypeOK, OneThread, Alive, CallsInOrder, Launching
<1>7. StopHolds'
  BY PlaybookAssumption, NamesAssumption DEF IInv, Launch, At, Go, stateVars, StopHolds,
     OrderlyStarts, TypeOK, Stopping, Alive, CallsInOrder, LocksHeld, InStep, OneThread,
     Launching, Lives
<1>8. StepsInRange' /\ Fresh' /\ NoStaleWrite'
  BY DEF IInv, Launch, At, Go, StepsInRange, InStep, stateVars, Fresh, Alive,
     NoStaleWrite
<1> QED
  BY <1>1, <1>2, <1>3, <1>4, <1>5, <1>6, <1>7, <1>8 DEF IInv

\* cancel raises the flag.
LEMMA CancelStep ==
  ASSUME NEW c \in Clients, OrderlyStarts, IInv, Cancel(c)
  PROVE  IInv'
<1>1. TypeOK'
  BY DEF IInv, Cancel, clientVars, threadVars, TypeOK
<1>2. CallsInOrder' /\ Budget' /\ LocksHeld' /\ OneThread' /\ Lives' /\ StepsInRange' /\
      StopHolds' /\ Fresh' /\ NoStaleWrite'
  BY DEF IInv, Cancel, clientVars, CallsInOrder, Budget, Replacing, threadVars,
     LocksHeld, OneThread, Alive, Lives, StepsInRange, StopHolds, Stopping, Fresh,
     NoStaleWrite
<1> QED
  BY <1>1, <1>2 DEF IInv

\* A reset or import is called while no start is.
LEMMA ReplaceCallStep ==
  ASSUME NEW c \in Clients, NEW o \in {"reset", "import"}, OrderlyStarts, IInv, ReplaceCall(c, o)
  PROVE  IInv'
<1>1. TypeOK'
  BY DEF IInv, ReplaceCall, Begin, At, Starting, threadVars, stateVars, TypeOK
<1>2. CallsInOrder'
  BY PlaybookAssumption, NamesAssumption DEF IInv, ReplaceCall, Begin, At, Starting,
     stateVars, CallsInOrder, OrderlyStarts, TypeOK, Launching
<1>3. Budget'
  <2>1. Replacing' = Replacing \cup {c}
    BY DEF IInv, TypeOK, ReplaceCall, Begin, Replacing
  <2>2. Cardinality(Replacing)' <= Cardinality(Replacing) + 1 /\ Cardinality(Replacing) \in Nat
    BY <2>1, ReplacingSize
  <2>3. Cardinality(Replacing)' \in Nat
    <3>1. IsFiniteSet(Replacing')
      BY PlaybookAssumption, FS_Subset DEF Replacing
    <3> QED
      BY <3>1, FS_CardinalityType
  <2> QED
    BY <2>2, <2>3, PlaybookAssumption DEF IInv, TypeOK, Budget, ReplaceCall
<1>4. StopHolds'
  BY PlaybookAssumption, NamesAssumption DEF IInv, ReplaceCall, Begin, At, Starting,
     threadVars, stateVars, StopHolds, OrderlyStarts, TypeOK, Stopping, Alive,
     CallsInOrder, LocksHeld, InStep, OneThread
<1>5. LocksHeld' /\ OneThread' /\ Lives' /\ StepsInRange' /\ Fresh' /\ NoStaleWrite'
  BY DEF IInv, ReplaceCall, Begin, At, Starting, threadVars, LocksHeld, InStep,
     stateVars, OneThread, Alive, Launching, Lives, StepsInRange, Fresh, NoStaleWrite
<1> QED
  BY <1>1, <1>2, <1>3, <1>4, <1>5 DEF IInv

\* stop raises the flag if the thread is alive.
LEMMA StopStep ==
  ASSUME NEW c \in Clients, OrderlyStarts, IInv, Stop(c)
  PROVE  IInv'
<1>1. TypeOK'
  BY DEF IInv, Stop, At, threadVars, TypeOK
<1>2. CallsInOrder'
  BY PlaybookAssumption, NamesAssumption DEF IInv, Stop, At, CallsInOrder,
     OrderlyStarts, TypeOK, Launching
<1>3. LocksHeld'
  BY PlaybookAssumption, NamesAssumption DEF IInv, Stop, At, threadVars, LocksHeld,
     OrderlyStarts, TypeOK, InStep
<1>4. OneThread'
  BY PlaybookAssumption, NamesAssumption DEF IInv, Stop, At, threadVars, OneThread,
     OrderlyStarts, TypeOK, Alive, Launching
<1>5. Lives'
  BY PlaybookAssumption, NamesAssumption DEF IInv, Stop, At, threadVars, Lives,
     OrderlyStarts, TypeOK
<1>6. StopHolds'
  BY PlaybookAssumption, NamesAssumption DEF IInv, Stop, At, threadVars, StopHolds,
     OrderlyStarts, TypeOK, Stopping, Alive, CallsInOrder, LocksHeld, InStep, OneThread
<1>7. Budget' /\ StepsInRange' /\ Fresh' /\ NoStaleWrite'
  BY DEF IInv, Stop, At, Budget, Replacing, threadVars, StepsInRange, Fresh, Alive,
     NoStaleWrite
<1> QED
  BY <1>1, <1>2, <1>3, <1>4, <1>5, <1>6, <1>7 DEF IInv

\* Past the step lock nothing writes.
LEMMA PassStepLockStep ==
  ASSUME NEW c \in Clients, OrderlyStarts, IInv, PassStepLock(c)
  PROVE  IInv'
<1>1. TypeOK'
  BY DEF IInv, PassStepLock, At, threadVars, stateVars, TypeOK
<1>2. StopHolds'
  BY PlaybookAssumption, NamesAssumption DEF IInv, PassStepLock, At, threadVars,
     stateVars, StopHolds, OrderlyStarts, TypeOK, Stopping, Alive, CallsInOrder,
     LocksHeld, InStep, OneThread
<1>3. CallsInOrder' /\ Budget' /\ LocksHeld' /\ OneThread' /\ Lives' /\ StepsInRange' /\
      Fresh' /\ NoStaleWrite'
  BY DEF IInv, PassStepLock, At, stateVars, CallsInOrder, Launching, Budget, Replacing,
     threadVars, LocksHeld, InStep, OneThread, Alive, Lives, StepsInRange, Fresh,
     NoStaleWrite
<1> QED
  BY <1>1, <1>2, <1>3 DEF IInv

\* The store is locked.
LEMMA LockStoreStep ==
  ASSUME NEW c \in Clients, OrderlyStarts, IInv, LockStore(c)
  PROVE  IInv'
<1>1. TypeOK'
  BY DEF IInv, LockStore, At, threadVars, stateVars, TypeOK
<1>2. LocksHeld'
  BY PlaybookAssumption, NamesAssumption DEF IInv, LockStore, At, threadVars, LocksHeld,
     OrderlyStarts, TypeOK, InStep, CallsInOrder
<1>3. CallsInOrder' /\ Budget' /\ OneThread' /\ Lives' /\ StepsInRange' /\ StopHolds' /\
      Fresh' /\ NoStaleWrite'
  BY DEF IInv, LockStore, At, stateVars, CallsInOrder, Launching, Budget, Replacing,
     threadVars, OneThread, Alive, Lives, StepsInRange, StopHolds, Stopping, Fresh,
     NoStaleWrite
<1> QED
  BY <1>1, <1>2, <1>3 DEF IInv

\* The store is replaced while nothing writes.
LEMMA ReplaceStoreStep ==
  ASSUME NEW c \in Clients, OrderlyStarts, IInv, ReplaceStore(c)
  PROVE  IInv'
<1>1. TypeOK'
  <2>1. gen' \in 0..MaxGen
    <3>1. Replacing' = Replacing \ {c} /\ c \in Replacing
      BY NamesAssumption DEF IInv, TypeOK, CallsInOrder, ReplaceStore, Replacing
    <3>2. Cardinality(Replacing \ {c}) = Cardinality(Replacing) - 1 /\ Cardinality(Replacing) \in Nat
      BY <3>1, ReplacingSize
    <3>3. IsFiniteSet(Replacing \ {c})
      BY ReplacingSize, FS_Subset
    <3>4. Cardinality(Replacing \ {c}) \in Nat
      BY <3>3, FS_CardinalityType
    <3> QED
      BY <3>2, <3>4, PlaybookAssumption DEF IInv, TypeOK, Budget, ReplaceStore
  <2>2. op' \in [Clients -> {"start", "reset", "import", None}]
    BY DEF IInv, TypeOK, ReplaceStore
  <2> QED
    BY <2>1, <2>2 DEF IInv, TypeOK, ReplaceStore, At, threadVars, stateVars
<1>2. CallsInOrder'
  BY PlaybookAssumption, NamesAssumption DEF IInv, ReplaceStore, At, stateVars,
     CallsInOrder, OrderlyStarts, TypeOK, Launching
<1>3. Budget'
  <2>1. Replacing' = Replacing \ {c} /\ c \in Replacing
    BY NamesAssumption DEF IInv, TypeOK, CallsInOrder, ReplaceStore, Replacing
  <2>2. Cardinality(Replacing)' = Cardinality(Replacing) - 1 /\ Cardinality(Replacing) \in Nat
    BY <2>1, ReplacingSize
  <2> QED
    BY <2>2, PlaybookAssumption DEF IInv, TypeOK, Budget, ReplaceStore
<1>4. LocksHeld'
  BY PlaybookAssumption, NamesAssumption DEF IInv, ReplaceStore, At, threadVars,
     LocksHeld, OrderlyStarts, TypeOK, InStep
<1>5. StopHolds'
  BY PlaybookAssumption, NamesAssumption DEF IInv, ReplaceStore, At, threadVars,
     stateVars, StopHolds, OrderlyStarts, TypeOK, Stopping, Alive
<1>6. Fresh'
  BY PlaybookAssumption, NamesAssumption DEF IInv, ReplaceStore, At, threadVars,
     stateVars, Fresh, OrderlyStarts, TypeOK, Alive, StopHolds, Stopping, CallsInOrder,
     LocksHeld, OneThread, Launching
<1>7. OneThread' /\ Lives' /\ StepsInRange' /\ NoStaleWrite'
  BY DEF IInv, ReplaceStore, At, threadVars, stateVars, OneThread, Alive, Launching,
     Lives, StepsInRange, NoStaleWrite
<1> QED
  BY <1>1, <1>2, <1>3, <1>4, <1>5, <1>6, <1>7 DEF IInv

-----------------------------------------------------------------------------
(* The theorems.                                                           *)

LEMMA Initially == Init => IInv
<1> SUFFICES ASSUME Init PROVE IInv
  OBVIOUS
<1>1. TypeOK
  <2>1. 1 \in 1..(Steps + 1) /\ 0 \in 0..MaxGen
    BY PlaybookAssumption
  <2>2. step \in [Runs -> 1..(Steps + 1)] /\ fetched \in [Runs -> 0..MaxGen] /\ gen \in 0..MaxGen
    BY <2>1 DEF Init
  <2> QED
    BY <2>2 DEF Init, TypeOK
<1>2. CallsInOrder /\ StopHolds /\ NoStaleWrite
  BY NamesAssumption
     DEF Init, CallsInOrder, StopHolds, NoStaleWrite, Launching, Stopping
<1>3. LocksHeld /\ OneThread /\ Lives /\ StepsInRange /\ Fresh
  BY NamesAssumption
     DEF Init, LocksHeld, OneThread, Lives, StepsInRange, Fresh, Alive, InStep
<1>4. Replacing = {}
  BY NamesAssumption DEF Init, Replacing
<1>5. Budget
  BY <1>4, FS_EmptySet, PlaybookAssumption DEF Init, Budget
<1> QED
  BY <1>1, <1>2, <1>3, <1>5 DEF IInv

\* The invariant holds after every step of every executor and client.
LEMMA NextStep ==
  ASSUME OrderlyStarts, IInv, [Next]_vars
  PROVE  IInv'
<1>1. CASE UNCHANGED vars
  BY <1>1 DEF vars, IInv, TypeOK, CallsInOrder, Budget, LocksHeld, OneThread, Lives,
              StepsInRange, StopHolds, Fresh, NoStaleWrite, Alive, Stopping, Replacing
<1>2. ASSUME NEW n \in Runs, Executor(n) PROVE IInv'
  BY <1>2, FetchAgentStep, GetRunStep, LoopHeadStep, SleepStep, AcquireStepStep, RecheckStep,
     WriteStepStep, FinishStepStep DEF Executor
<1>3. ASSUME NEW c \in Clients, Call(c) PROVE IInv'
  BY <1>3, StartCallStep, CancelStep, ReplaceCallStep DEF Call
<1>4. ASSUME NEW c \in Clients, Proceed(c) PROVE IInv'
  BY <1>4, JoinStep, UncancelStep, SetRunStep, PublishStep, LaunchStep, StopStep,
     PassStepLockStep, LockStoreStep, ReplaceStoreStep DEF Proceed
<1> QED
  BY <1>1, <1>2, <1>3, <1>4 DEF Next

\* The inductive invariant is one, under orderly starts.
THEOREM Invariance == ASSUME OrderlyStarts PROVE Spec => []IInv
<1>1. Init => IInv
  BY Initially
<1>2. IInv /\ [Next]_vars => IInv'
  BY NextStep
<1> QED
  BY <1>1, <1>2, PTL DEF Spec

\* Every variable of the executor and its clients keeps its type, and the
\* bounds on runs, steps and replacements are kept (executor.py).
THEOREM TypeCorrect == ASSUME OrderlyStarts PROVE Spec => []TypeOK
<1>1. IInv => TypeOK
  BY DEF IInv
<1> QED
  BY <1>1, Invariance, PTL

\* No playbook step writes an agent of a replaced data set: the flag, the
\* step lock and the second look at the flag under it are enough, whether or
\* not a reset's join gave up (_run_playbook, stop).
THEOREM NothingStaleIsWritten == ASSUME OrderlyStarts PROVE Spec => []NoStaleWrite
<1>1. IInv => NoStaleWrite
  BY DEF IInv
<1> QED
  BY <1>1, Invariance, PTL

\* Once stop has returned to a reset or import, no step writes until the
\* store is replaced (stop).
THEOREM StopIsFinalAlways == ASSUME OrderlyStarts PROVE Spec => []StopIsFinal
<1>1. IInv => StopIsFinal
  BY DEF IInv, StopIsFinal, StopHolds, Stopping, CallsInOrder
<1> QED
  BY <1>1, Invariance, PTL

\* Two threads never wait for locks the other holds: who holds the store's
\* lock waits for the step lock only when its holder is past its writes
\* (reset, generate_all, stop, _run_playbook).
THEOREM NoCircle == ASSUME OrderlyStarts PROVE Spec => []NoCircularWait
<1>1. IInv => NoCircularWait
  <2> SUFFICES ASSUME IInv, NEW x \in Clients \cup Runs, NEW y \in Clients \cup Runs,
                      <<x, y>> \in Blocked, <<y, x>> \in Blocked
               PROVE  FALSE
    BY DEF NoCircularWait
  <2>1. ASSUME NEW u, NEW w, <<u, w>> \in Blocked
        PROVE  \/ u \in Clients /\ cpc[u] = "steplock" /\ w = stepLock /\ w # None
               \/ u \in Clients /\ cpc[u] = "lock" /\ w = storeLock /\ w # None
               \/ u \in Runs /\ tpc[u] = "acquire" /\ w = stepLock /\ w # None
               \/ u \in Runs /\ tpc[u] \in {"fetch", "write"} /\ w = storeLock /\ w # None
    BY <2>1 DEF Blocked
  <2>2. stepLock \in Runs \cup {None} /\ storeLock \in Clients \cup {None}
    BY DEF IInv, TypeOK
  <2>3. \A n \in Runs : stepLock = n => tpc[n] \in InStep
    BY DEF IInv, LocksHeld
  <2>4. \A c \in Clients : storeLock = c =>
          /\ cpc[c] # "lock"
          /\ cpc[c] = "steplock" => \A n \in Runs : tpc[n] # "write"
    BY DEF IInv, LocksHeld, StopHolds, Stopping, CallsInOrder
  <2> QED
    BY <2>1, <2>2, <2>3, <2>4, NamesAssumption DEF InStep
<1> QED
  BY <1>1, Invariance, PTL
=============================================================================
