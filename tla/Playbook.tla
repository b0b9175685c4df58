------------------------------ MODULE Playbook ------------------------------
(***************************************************************************)
(* The playbook executor (backend/application/playbook) against the two    *)
(* operations that replace the whole store under it: /_dev/reset, which    *)
(* re-seeds, and /_dev/import, which loads a snapshot (backend/            *)
(* application/dev/commands.py, backend/infrastructure/seed.py).           *)
(*                                                                         *)
(* Requests run on a thread pool and each start() creates an executor      *)
(* thread, so all of these interleave.  What orders them is the step lock  *)
(* (held while a playbook step writes), the store lock (held by every      *)
(* store call, and by reset and import for their whole critical section),  *)
(* the cancel flag, and joins that give up after three seconds.            *)
(*                                                                         *)
(* The store is its generation: reset and import replace it by the next    *)
(* one.  A run holds the agent it fetched from one generation; writing it  *)
(* into a later one puts an object of the old data set back.               *)
(***************************************************************************)
EXTENDS Naturals, FiniteSets

CONSTANTS Clients,        \* request threads
          Starters,       \* ... those that may start a playbook
          MaxRuns,        \* bound on the runs ever started
          MaxGen,         \* bound on resets and imports together
          Steps,          \* steps of the playbook
          GivesUp,        \* operations whose join(timeout=3.0) may give up
          StartsOverlap,  \* whether a start may overlap a reset or import
          None            \* no lock holder, no thread, no run

ASSUME PlaybookAssumption ==
  /\ MaxRuns \in Nat /\ MaxGen \in Nat /\ Steps \in Nat
  /\ GivesUp \subseteq {"start", "reset", "import"} /\ StartsOverlap \in BOOLEAN
  /\ Starters \subseteq Clients /\ IsFiniteSet(Clients)

Runs == 1..MaxRuns   \* executor threads, and the PlaybookRun each start made

ASSUME NamesAssumption ==
  /\ None \notin Clients /\ None \notin Runs
  /\ None \notin {"start", "reset", "import", "running", "done", "cancelled", "error"}
  /\ Clients \cap Runs = {}

VARIABLES
  cpc,         \* where each client is
  op,          \* ... in which operation: "start", "reset", "import" or None
  target,      \* ... the thread it is joining
  mine,        \* ... the run its start created
  tpc,         \* where each executor thread is
  step,        \* ... its loop index
  fetched,     \* ... the generation of the agent it holds
  runOf,       \* ... the PlaybookRun its get_run() returned
  thread,      \* _executor_thread
  run,         \* _run
  status,      \* the status of each PlaybookRun
  cancelFlag,  \* _cancel_flag
  stepLock,    \* the thread holding _step_lock, or None
  storeLock,   \* the client holding the store's lock over a critical section
  gen,         \* the store's generation
  stale        \* a step wrote an older generation's object (history)

clientVars == <<cpc, op, target, mine>>
threadVars == <<tpc, step, fetched, runOf>>
stateVars == <<thread, run, status, cancelFlag>>
vars == <<cpc, op, target, mine, tpc, step, fetched, runOf, thread, run,
          status, cancelFlag, stepLock, storeLock, gen, stale>>

Alive(n) == n # None /\ tpc[n] \notin {"unborn", "dead"}

Init ==
  /\ cpc = [c \in Clients |-> "idle"] /\ op = [c \in Clients |-> None]
  /\ target = [c \in Clients |-> None] /\ mine = [c \in Clients |-> None]
  /\ tpc = [n \in Runs |-> "unborn"] /\ step = [n \in Runs |-> 1]
  /\ fetched = [n \in Runs |-> 0] /\ runOf = [n \in Runs |-> None]
  /\ thread = None /\ run = None
  /\ status = [n \in Runs |-> None] /\ cancelFlag = FALSE
  /\ stepLock = None /\ storeLock = None /\ gen = 0 /\ stale = FALSE

-----------------------------------------------------------------------------
(* The executor thread: _run_playbook.                                     *)

Go(n, where) == tpc' = [tpc EXCEPT ![n] = where]

\* Set the status of the PlaybookRun the thread works on, and end.
End(n, s) ==
  /\ Go(n, "dead")
  /\ status' = [status EXCEPT ![runOf[n]] = s]

\* agent_repo.get: a store call, so it waits for a reset or import.
FetchAgent(n) ==
  /\ tpc[n] = "fetch" /\ storeLock = None
  /\ fetched' = [fetched EXCEPT ![n] = gen]
  /\ \E found \in BOOLEAN : Go(n, IF found THEN "getrun" ELSE "noagent")
  /\ UNCHANGED <<clientVars, step, runOf, stateVars, stepLock, storeLock, gen, stale>>

\* get_run: whichever run was set last, not necessarily this thread's.
GetRun(n) ==
  /\ tpc[n] \in {"getrun", "noagent"}
  /\ runOf' = [runOf EXCEPT ![n] = run]
  /\ IF tpc[n] = "noagent"
       THEN Go(n, "dead") /\ status' = [status EXCEPT ![run] = "error"]
       ELSE Go(n, "loop") /\ UNCHANGED status
  /\ UNCHANGED <<clientVars, step, fetched, thread, run, cancelFlag,
                 stepLock, storeLock, gen, stale>>

\* Mutant: one step too many.
LoopHeadOffByOne(n) ==
  /\ tpc[n] = "loop"
  /\ IF step[n] > Steps + 1 THEN End(n, "done")
     ELSE IF cancelFlag THEN End(n, "cancelled")
     ELSE Go(n, "sleep") /\ UNCHANGED status
  /\ UNCHANGED <<clientVars, step, fetched, runOf, thread, run, cancelFlag,
                 stepLock, storeLock, gen, stale>>

\* The head of the loop over the steps, and its end.
LoopHead(n) ==
  /\ tpc[n] = "loop"
  /\ IF step[n] > Steps THEN End(n, "done")
     ELSE IF cancelFlag THEN End(n, "cancelled")
     ELSE Go(n, "sleep") /\ UNCHANGED status
  /\ UNCHANGED <<clientVars, step, fetched, runOf, thread, run, cancelFlag,
                 stepLock, storeLock, gen, stale>>

\* The delay before a step: a poll may notice the flag, or the deadline
\* passes first.  When it passes between the loop's test and the argument of
\* sleep, that is negative, sleep raises, and the thread ends without a word:
\* its run is shown as running until another is started.
Sleep(n) ==
  /\ tpc[n] = "sleep"
  /\ \/ cancelFlag /\ End(n, "cancelled")
     \/ Go(n, "acquire") /\ UNCHANGED status
     \/ Go(n, "dead") /\ UNCHANGED status
  /\ UNCHANGED <<clientVars, step, fetched, runOf, thread, run, cancelFlag,
                 stepLock, storeLock, gen, stale>>

AcquireStep(n) ==
  /\ tpc[n] = "acquire" /\ stepLock = None
  /\ stepLock' = n /\ Go(n, "recheck")
  /\ UNCHANGED <<clientVars, step, fetched, runOf, stateVars, storeLock, gen, stale>>

\* Mutant: the step lock is taken and the flag is not read again.
RecheckSkipped(n) ==
  /\ tpc[n] = "recheck"
  /\ Go(n, "write")
  /\ UNCHANGED <<clientVars, step, fetched, runOf, stateVars, stepLock,
                 storeLock, gen, stale>>

\* Mutant: a cancelled step returns without releasing the step lock.
RecheckLeaksLock(n) ==
  /\ tpc[n] = "recheck"
  /\ IF cancelFlag THEN End(n, "cancelled") ELSE Go(n, "write") /\ UNCHANGED status
  /\ UNCHANGED <<clientVars, step, fetched, runOf, thread, run, cancelFlag,
                 stepLock, storeLock, gen, stale>>

\* The flag is read again under the step lock before anything is written.
Recheck(n) ==
  /\ tpc[n] = "recheck"
  /\ IF cancelFlag THEN End(n, "cancelled") /\ stepLock' = None
     ELSE Go(n, "write") /\ UNCHANGED <<status, stepLock>>
  /\ UNCHANGED <<clientVars, step, fetched, runOf, thread, run, cancelFlag,
                 storeLock, gen, stale>>

\* _execute_step: one or more store calls, each waiting for the store lock
\* and saving what derives from the fetched agent.
WriteStep(n) ==
  /\ tpc[n] = "write" /\ storeLock = None
  /\ stale' = (stale \/ fetched[n] # gen)
  /\ Go(n, "write") \/ Go(n, "finish")
  /\ UNCHANGED <<clientVars, step, fetched, runOf, stateVars, stepLock, storeLock, gen>>

\* The step is done (or raised and was marked so); the lock is released.
FinishStep(n) ==
  /\ tpc[n] = "finish"
  /\ stepLock' = None
  /\ step' = [step EXCEPT ![n] = @ + 1]
  /\ Go(n, "loop")
  /\ UNCHANGED <<clientVars, fetched, runOf, stateVars, storeLock, gen, stale>>

-----------------------------------------------------------------------------
(* start and cancel.                                                       *)

At(c, where) == cpc' = [cpc EXCEPT ![c] = where]

Begin(c, o) ==
  /\ cpc[c] = "idle"
  /\ op' = [op EXCEPT ![c] = o]

Replacing == {c \in Clients : op[c] \in {"reset", "import"}}
Starting  == {c \in Clients : op[c] = "start"}

StartCall(c) ==
  /\ c \in Starters
  /\ Cardinality({n \in Runs : status[n] # None}) + Cardinality(Starting) < MaxRuns
  /\ StartsOverlap \/ Replacing = {}
  /\ Begin(c, "start")
  /\ IF Alive(thread)
       THEN /\ cancelFlag' = TRUE
            /\ target' = [target EXCEPT ![c] = thread]
            /\ At(c, "join")
       ELSE At(c, "uncancel") /\ UNCHANGED <<cancelFlag, target>>
  /\ UNCHANGED <<mine, threadVars, thread, run, status, stepLock, storeLock, gen, stale>>

\* join(timeout=3.0), in start and in stop.
Join(c) ==
  /\ cpc[c] = "join"
  /\ ~Alive(target[c]) \/ op[c] \in GivesUp
  /\ target' = [target EXCEPT ![c] = None]
  /\ At(c, IF op[c] = "start" THEN "uncancel"
           ELSE IF storeLock = c THEN "replace" ELSE "lock")
  /\ UNCHANGED <<op, mine, threadVars, stateVars, stepLock, storeLock, gen, stale>>

\* reset_cancel.
Uncancel(c) ==
  /\ cpc[c] = "uncancel"
  /\ cancelFlag' = FALSE
  /\ At(c, "setrun")
  /\ UNCHANGED <<op, target, mine, threadVars, thread, run, status,
                 stepLock, storeLock, gen, stale>>

\* set_run of the new PlaybookRun.
SetRun(c) ==
  /\ cpc[c] = "setrun"
  /\ \E n \in Runs :
       /\ status[n] = None /\ \A m \in Runs : m < n => status[m] # None
       /\ status' = [status EXCEPT ![n] = "running"]
       /\ run' = n /\ mine' = [mine EXCEPT ![c] = n]
  /\ At(c, "publish")
  /\ UNCHANGED <<op, target, threadVars, thread, cancelFlag, stepLock, storeLock, gen, stale>>

\* _executor_thread names the new thread before it is alive ...
Publish(c) ==
  /\ cpc[c] = "publish"
  /\ thread' = mine[c]
  /\ At(c, "launch")
  /\ UNCHANGED <<op, target, mine, threadVars, run, status, cancelFlag,
                 stepLock, storeLock, gen, stale>>

\* ... and then it is started, and start returns.
Launch(c) ==
  /\ cpc[c] = "launch"
  /\ Go(mine[c], "fetch")
  /\ mine' = [mine EXCEPT ![c] = None]
  /\ op' = [op EXCEPT ![c] = None] /\ At(c, "idle")
  /\ UNCHANGED <<target, step, fetched, runOf, stateVars, stepLock, storeLock, gen, stale>>

\* cancel: only raises the flag, and only for a run that is "running".
Cancel(c) ==
  /\ cpc[c] = "idle" /\ run # None /\ status[run] = "running"
  /\ cancelFlag' = TRUE
  /\ UNCHANGED <<clientVars, threadVars, thread, run, status, stepLock, storeLock, gen, stale>>

-----------------------------------------------------------------------------
(* reset and import_state, and the stop they begin with.                   *)

\* Mutant: the store is locked before the playbook is stopped.
ReplaceCallLocksFirst(c, o) ==
  /\ gen + Cardinality(Replacing) < MaxGen
  /\ StartsOverlap \/ Starting = {}
  /\ Begin(c, o)
  /\ At(c, "lock")
  /\ UNCHANGED <<target, mine, threadVars, stateVars, stepLock, storeLock, gen, stale>>

ReplaceCall(c, o) ==
  /\ gen + Cardinality(Replacing) < MaxGen
  /\ StartsOverlap \/ Starting = {}
  /\ Begin(c, o)
  /\ At(c, "stop")
  /\ UNCHANGED <<target, mine, threadVars, stateVars, stepLock, storeLock, gen, stale>>

\* stop: nothing to do for a dead thread, else raise the flag.
Stop(c) ==
  /\ cpc[c] = "stop"
  /\ IF Alive(thread)
       THEN /\ cancelFlag' = TRUE
            /\ target' = [target EXCEPT ![c] = thread]
            /\ At(c, "steplock")
       ELSE /\ At(c, IF storeLock = c THEN "replace" ELSE "lock")
            /\ UNCHANGED <<cancelFlag, target>>
  /\ UNCHANGED <<op, mine, threadVars, thread, run, status, stepLock, storeLock, gen, stale>>

\* Mutant: stop goes on to the join with a step under way.
PassStepLockAtOnce(c) ==
  /\ cpc[c] = "steplock"
  /\ At(c, "join")
  /\ UNCHANGED <<op, target, mine, threadVars, stateVars, stepLock, storeLock, gen, stale>>

\* stop passes through the step lock, so a step under way has finished.
PassStepLock(c) ==
  /\ cpc[c] = "steplock" /\ stepLock = None
  /\ At(c, "join")
  /\ UNCHANGED <<op, target, mine, threadVars, stateVars, stepLock, storeLock, gen, stale>>

\* The critical section.  reset calls generate_all in it, which begins with
\* a stop of its own; import goes straight on to replace the store.
LockStore(c) ==
  /\ cpc[c] = "lock" /\ storeLock = None
  /\ storeLock' = c
  /\ At(c, IF op[c] = "reset" THEN "stop" ELSE "replace")
  /\ UNCHANGED <<op, target, mine, threadVars, stateVars, stepLock, gen, stale>>

\* clear_all and seeding, or loading; then the lock is released.
ReplaceStore(c) ==
  /\ cpc[c] = "replace"
  /\ gen' = gen + 1
  /\ storeLock' = None
  /\ op' = [op EXCEPT ![c] = None] /\ At(c, "idle")
  /\ UNCHANGED <<target, mine, threadVars, stateVars, stepLock, stale>>

-----------------------------------------------------------------------------
Executor(n) ==
  \/ FetchAgent(n) \/ GetRun(n) \/ LoopHead(n) \/ Sleep(n)
  \/ AcquireStep(n) \/ Recheck(n) \/ WriteStep(n) \/ FinishStep(n)

\* What a client that is inside a call does next.
Proceed(c) ==
  \/ Join(c) \/ Uncancel(c) \/ SetRun(c) \/ Publish(c) \/ Launch(c)
  \/ Stop(c) \/ PassStepLock(c) \/ LockStore(c) \/ ReplaceStore(c)

Call(c) ==
  StartCall(c) \/ Cancel(c) \/ ReplaceCall(c, "reset") \/ ReplaceCall(c, "import")

Next ==
  \/ \E n \in Runs : Executor(n)
  \/ \E c \in Clients : Call(c) \/ Proceed(c)

\* Threads keep running, and a lock that stays free is obtained.
\* A step makes finitely many store calls.
Fairness ==
  /\ \A n \in Runs : WF_vars(Executor(n)) /\ WF_vars(WriteStep(n) /\ tpc'[n] = "finish")
  /\ \A c \in Clients : WF_vars(Proceed(c))

Spec == Init /\ [][Next]_vars /\ Fairness

-----------------------------------------------------------------------------
(* Properties.                                                             *)

TypeOK ==
  /\ cpc \in [Clients -> {"idle", "join", "uncancel", "setrun", "publish", "launch",
                          "stop", "steplock", "lock", "replace"}]
  /\ op \in [Clients -> {"start", "reset", "import", None}]
  /\ target \in [Clients -> Runs \cup {None}] /\ mine \in [Clients -> Runs \cup {None}]
  /\ tpc \in [Runs -> {"unborn", "fetch", "getrun", "noagent", "loop", "sleep",
                       "acquire", "recheck", "write", "finish", "dead"}]
  /\ step \in [Runs -> 1..(Steps + 1)] /\ fetched \in [Runs -> 0..MaxGen]
  /\ runOf \in [Runs -> Runs \cup {None}]
  /\ thread \in Runs \cup {None} /\ run \in Runs \cup {None}
  /\ status \in [Runs -> {"running", "done", "cancelled", "error", None}]
  /\ cancelFlag \in BOOLEAN
  /\ stepLock \in Runs \cup {None} /\ storeLock \in Clients \cup {None}
  /\ gen \in 0..MaxGen /\ stale \in BOOLEAN

\* No step puts an object of a replaced data set back: what a run fetched
\* before a reset or import never reaches the store that follows it.
NoStaleWrite == ~stale

\* Once stop has returned to a reset or import, no step is writing, and none
\* starts before the store is replaced.
StopIsFinal ==
  \A c \in Clients :
    cpc[c] \in {"lock", "replace"} => \A n \in Runs : tpc[n] # "write"

\* Who waits for a lock whom holds: clients for the step lock or the store
\* lock, executor threads for the step lock or, inside a step, the store.
Blocked ==
  {<<c, stepLock>> : c \in {d \in Clients : cpc[d] = "steplock" /\ stepLock # None}}
  \cup {<<c, storeLock>> : c \in {d \in Clients : cpc[d] = "lock" /\ storeLock # None}}
  \cup {<<n, stepLock>> : n \in {m \in Runs : tpc[m] = "acquire" /\ stepLock # None}}
  \cup {<<n, storeLock>> : n \in {m \in Runs : tpc[m] \in {"fetch", "write"} /\ storeLock # None}}

\* Reset, import, start and the playbook's steps never wait for each other
\* in a circle over the step lock and the store lock.
NoCircularWait ==
  \A x, y \in Clients \cup Runs : <<x, y>> \in Blocked => <<y, x>> \notin Blocked

\* A start, reset or import that was called returns.
CallsReturn == \A c \in Clients : cpc[c] # "idle" ~> cpc[c] = "idle"
=============================================================================
