--------------------------- MODULE ServicesProofs ---------------------------
(***************************************************************************)
(* What module Services promises, for every set of clients, every lifetime *)
(* and every bound: the components' invariants, each kept by its own       *)
(* handlers, the clock, the sweep and the reset, and their composition.    *)
(***************************************************************************)
EXTENDS Services, CredentialsProofs, RateLimitProofs, FiniteSetTheorems

-----------------------------------------------------------------------------
(* Search contexts                                                         *)

\* A context is what its last use left, and is gone only once that is over or
\* to the cap.
ContextsFollowUse ==
  /\ opened \in Nat
  /\ DOMAIN contexts \subseteq DOMAIN contextUse /\ DOMAIN contextUse \subseteq 1..opened
  /\ \A id \in DOMAIN contextUse :
       contextUse[id] \in [keepAlive : KeepAlives \union {None}, accessed : Times]
  /\ \A id \in DOMAIN contexts : contexts[id] = contextUse[id]
  /\ \A id \in DOMAIN contextUse : id \notin DOMAIN contexts =>
       ContextExpired(contextUse[id]) \/ ~(opened - id < ContextCap)

LEMMA ContextsInitially == ContextsInit => ContextsFollowUse
  BY EmptyEntries DEF ContextsInit, ContextsFollowUse

LEMMA ContextNumbers ==
  ASSUME ContextsFollowUse
  PROVE  \A id \in DOMAIN contextUse :
           /\ contextUse[id].accessed \in Nat
           /\ contextUse[id].keepAlive # None => contextUse[id].keepAlive \in Nat
<1>1. Times \subseteq Nat
  BY ClockAssumption DEF Times
<1>2. ASSUME NEW c \in [keepAlive : KeepAlives \union {None}, accessed : Times]
      PROVE  c.accessed \in Nat /\ (c.keepAlive # None => c.keepAlive \in Nat)
  <2>1. c.accessed \in Times /\ c.keepAlive \in KeepAlives \union {None}
    OBVIOUS
  <2> QED
    BY <1>1, <2>1, ContextsAssumption
<1> QED
  BY <1>2 DEF ContextsFollowUse

LEMMA ContextsUntouched ==
  ASSUME ContextsFollowUse, now' = now, UNCHANGED contextVars
  PROVE  ContextsFollowUse'
  BY DEF ContextsFollowUse, ContextExpired, contextVars

\* A use dates the context and its history alike.
LEMMA ContextKept ==
  ASSUME ContextsFollowUse, now \in Times, now' = now, UNCHANGED opened,
         NEW id \in DOMAIN contexts, NEW alive \in KeepAlives \union {None},
         contexts' = Put(contexts, id, UsedNow(alive)),
         contextUse' = Put(contextUse, id, UsedNow(alive))
  PROVE  ContextsFollowUse'
<1> DEFINE c == UsedNow(alive)
<1>1. c \in [keepAlive : KeepAlives \union {None}, accessed : Times]
  BY DEF UsedNow
<1> HIDE DEF c
<1>2. contexts' = Put(contexts, id, c) /\ contextUse' = Put(contextUse, id, c)
  BY DEF c
<1>3. /\ DOMAIN contexts' = DOMAIN contexts \cup {id}
      /\ DOMAIN contextUse' = DOMAIN contextUse \cup {id}
      /\ contexts'[id] = c /\ contextUse'[id] = c
      /\ \A x \in DOMAIN contexts : x # id => contexts'[x] = contexts[x]
      /\ \A x \in DOMAIN contextUse : x # id => contextUse'[x] = contextUse[x]
  BY <1>2 DEF Put
<1> QED
  BY <1>1, <1>3 DEF ContextsFollowUse, ContextExpired

\* A new context takes the place of none of the last opened before it.
LEMMA ContextOpened ==
  ASSUME ContextsFollowUse, now \in Times, now' = now, NEW alive \in KeepAlives \union {None},
         OpenContext(alive)
  PROVE  ContextsFollowUse'
<1> DEFINE c == UsedNow(alive)
           n == opened
<1>1. c \in [keepAlive : KeepAlives \union {None}, accessed : Times]
  BY DEF UsedNow
<1>2. /\ n \in Nat /\ DOMAIN contexts \subseteq 1..n /\ DOMAIN contextUse \subseteq 1..n
      /\ n + 1 \notin 1..n /\ ContextCap \in Nat \ {0} /\ opened' = n + 1
  BY ContextsAssumption DEF ContextsFollowUse, OpenContext
<1>3. /\ contexts' = Saved(contexts, n + 1, c, ContextCap, First(contexts))
      /\ contextUse' = Put(contextUse, n + 1, c)
  BY DEF OpenContext
<1> HIDE DEF c, n
<1>4. /\ n + 1 \in DOMAIN contexts' /\ contexts'[n + 1] = c /\ DOMAIN contexts' \subseteq 1..(n + 1)
      /\ \A x \in DOMAIN contexts' : x # n + 1 => x \in DOMAIN contexts /\ contexts'[x] = contexts[x]
      /\ \A x \in DOMAIN contexts : (n + 1) - x < ContextCap => x \in DOMAIN contexts'
  BY <1>2, <1>3, SavedNext
<1>5. /\ DOMAIN contextUse' = DOMAIN contextUse \cup {n + 1} /\ contextUse'[n + 1] = c
      /\ \A x \in DOMAIN contextUse : x # n + 1 => contextUse'[x] = contextUse[x]
  BY <1>3 DEF Put
<1>6. ASSUME NEW x \in DOMAIN contextUse', x \notin DOMAIN contexts'
      PROVE  ContextExpired(contextUse[x]) \/ ~((n + 1) - x < ContextCap)
  <2>1. x \in DOMAIN contextUse /\ x \in 1..n
    BY <1>2, <1>4, <1>5, <1>6
  <2>2. CASE x \in DOMAIN contexts
    BY <1>4, <1>6, <2>2
  <2>3. CASE x \notin DOMAIN contexts
    <3>1. ContextExpired(contextUse[x]) \/ ~(n - x < ContextCap)
      BY <2>1, <2>3 DEF ContextsFollowUse, n
    <3> QED
      BY <1>2, <2>1, <3>1
  <2> QED
    BY <2>2, <2>3
<1>7. DOMAIN contexts' \subseteq DOMAIN contextUse' /\ DOMAIN contextUse' \subseteq 1..(n + 1)
  BY <1>2, <1>4, <1>5 DEF ContextsFollowUse
<1>8. \A x \in DOMAIN contextUse' :
        contextUse'[x] \in [keepAlive : KeepAlives \union {None}, accessed : Times]
  BY <1>1, <1>2, <1>5 DEF ContextsFollowUse
<1>9. \A x \in DOMAIN contexts' : contexts'[x] = contextUse'[x]
  BY <1>2, <1>4, <1>5 DEF ContextsFollowUse
<1>10. \A x \in DOMAIN contextUse' : x \notin DOMAIN contexts' =>
         ContextExpired(contextUse[x])' \/ ~((n + 1) - x < ContextCap)
  <2>1. \A x \in DOMAIN contextUse' : x \notin DOMAIN contexts' => contextUse'[x] = contextUse[x]
    BY <1>4, <1>5
  <2> QED
    BY <1>6, <2>1 DEF ContextExpired
<1> QED
  BY <1>2, <1>7, <1>8, <1>9, <1>10 DEF ContextsFollowUse

\* What is dropped while the history stays is what has expired.
LEMMA ContextsDropped ==
  ASSUME ContextsFollowUse, now' = now, NEW S,
         \A id \in S : id \in DOMAIN contexts /\ ContextExpired(contexts[id]),
         contexts' = Pop(contexts, S), contextUse' = contextUse, UNCHANGED opened
  PROVE  ContextsFollowUse'
<1>1. /\ DOMAIN contexts' = DOMAIN contexts \ S
      /\ \A x \in DOMAIN contexts' : contexts'[x] = contexts[x]
  BY DEF Pop, Restrict
<1> QED
  BY <1>1 DEF ContextsFollowUse, ContextExpired

\* open_context, _live_context and close.
LEMMA ContextsStep ==
  ASSUME ContextsFollowUse, now \in Times, now' = now, ContextsNext
  PROVE  ContextsFollowUse'
<1>2. ASSUME NEW alive \in KeepAlives \union {None}, OpenContext(alive)
      PROVE  ContextsFollowUse'
  BY <1>2, ContextOpened
<1>3. ASSUME NEW id, NEW alive \in KeepAlives \union {None}, UseContext(id, alive)
      PROVE  ContextsFollowUse'
  <2> DEFINE renewed == IF alive = None THEN contexts[id].keepAlive ELSE alive
  <2>1. id \in DOMAIN contexts /\ UNCHANGED opened
    BY <1>3 DEF UseContext
  <2>2. renewed \in KeepAlives \union {None}
    <3>1. contexts[id] \in [keepAlive : KeepAlives \union {None}, accessed : Times]
      BY <2>1 DEF ContextsFollowUse
    <3> QED
      BY <3>1
  <2>3. \/ ContextExpired(contexts[id]) /\ contexts' = Pop(contexts, {id}) /\ contextUse' = contextUse
        \/ /\ contexts' = Put(contexts, id, UsedNow(renewed))
           /\ contextUse' = Put(contextUse, id, UsedNow(renewed))
    BY <1>3 DEF UseContext
  <2> HIDE DEF renewed
  <2>4. CASE ContextExpired(contexts[id]) /\ contexts' = Pop(contexts, {id}) /\ contextUse' = contextUse
    BY <2>1, <2>4, ContextsDropped
  <2> QED
    BY <2>1, <2>2, <2>3, <2>4, ContextKept
<1>4. ASSUME NEW id, CloseContext(id) PROVE ContextsFollowUse'
  <2>1. /\ DOMAIN contexts' = DOMAIN contexts \ {id} /\ DOMAIN contextUse' = DOMAIN contextUse \ {id}
        /\ \A x \in DOMAIN contexts' : contexts'[x] = contexts[x]
        /\ \A x \in DOMAIN contextUse' : contextUse'[x] = contextUse[x]
        /\ UNCHANGED opened
    BY <1>4 DEF CloseContext, Pop, Restrict
  <2> QED
    BY <2>1 DEF ContextsFollowUse, ContextExpired
<1> QED
  BY <1>2, <1>3, <1>4 DEF ContextsNext

\* Time passes: what had expired stays so.
LEMMA ContextsTickStep ==
  ASSUME ContextsFollowUse, now \in Times, now' = now + 1, UNCHANGED contextVars
  PROVE  ContextsFollowUse'
<1>1. \A id \in DOMAIN contextUse :
        /\ contextUse[id].accessed \in Nat
        /\ contextUse[id].keepAlive # None => contextUse[id].keepAlive \in Nat
  BY ContextNumbers
<1>2. now \in Nat
  BY ClockAssumption DEF Times
<1>3. \A id \in DOMAIN contextUse : ContextExpired(contextUse[id]) => ContextExpired(contextUse[id])'
  BY <1>1, <1>2 DEF ContextExpired, contextVars
<1> QED
  BY <1>3 DEF ContextsFollowUse, contextVars

LEMMA ContextsSweepStep ==
  ASSUME ContextsFollowUse, now' = now, ReapContexts
  PROVE  ContextsFollowUse' /\ ContextsAccepted' = ContextsAccepted
<1> DEFINE S == {id \in DOMAIN contexts : ContextExpired(contexts[id])}
<1>1. contexts' = Pop(contexts, S) /\ contextUse' = contextUse /\ UNCHANGED opened
  BY DEF ReapContexts
<1>2. ContextsFollowUse'
  BY <1>1, ContextsDropped
<1>3. DOMAIN contexts' = DOMAIN contexts \ S /\ \A x \in DOMAIN contexts' : contexts'[x] = contexts[x]
  BY <1>1 DEF Pop, Restrict
<1>4. \A id : ContextAccepted(id)' <=> ContextAccepted(id)
  BY <1>3 DEF ContextAccepted, ContextExpired
<1> QED
  BY <1>1, <1>2, <1>4 DEF ContextsAccepted

LEMMA ContextsResetStep == ASSUME ContextsFollowUse, ResetContexts PROVE ContextsFollowUse'
  BY EmptyEntries DEF ResetContexts, ContextsFollowUse

LEMMA ContextsUsable ==
  ASSUME ContextsFollowUse, now \in Times
  PROVE  ContextsTypeOK /\ ContextsStayUsable
<1>1. ContextsTypeOK
  BY DEF ContextsFollowUse, ContextsTypeOK
<1>2. \A id \in DOMAIN contextUse :
        /\ contextUse[id].accessed \in Nat
        /\ contextUse[id].keepAlive # None => contextUse[id].keepAlive \in Nat
  BY ContextNumbers
<1>3. ContextsStayUsable
  BY <1>2, ClockAssumption DEF ContextsFollowUse, ContextExpired, ContextsStayUsable, ContextAccepted, Times
<1> QED
  BY <1>1, <1>3

-----------------------------------------------------------------------------
(* Search jobs                                                             *)

JobRecords ==
  [state : {"DONE", "FAILED", "PAUSE"}, failed : BOOLEAN, done : {TRUE}, paused : BOOLEAN,
   pausedAt : Times \cup {None}, settled : BOOLEAN, ttl : Nat, published : Times, touched : Times]

\* Until when a job has run: now, or when it was paused.
RanUntil(j) == IF j.paused THEN j.pausedAt ELSE now

\* The clock a job keeps shows how long it has run, to the tick.
JobsRun ==
  /\ dispatched \in Nat /\ dispatched <= MaxJobs
  /\ DOMAIN runTime = 1..dispatched /\ DOMAIN jobs \subseteq DOMAIN jobUse
  /\ DOMAIN jobUse \subseteq 1..dispatched
  /\ \A s \in 1..dispatched : runTime[s] \in Nat
  /\ \A s \in DOMAIN jobs :
       /\ jobs[s] \in JobRecords /\ (jobs[s].paused <=> jobs[s].pausedAt # None)
       /\ jobs[s].paused => jobs[s].pausedAt <= now
       /\ RanUntil(jobs[s]) - jobs[s].published = runTime[s]

\* A job is gone only by request, once its last use is over, or to the cap.
JobsFollowUse ==
  /\ \A s \in DOMAIN jobUse : jobUse[s].at \in Times /\ jobUse[s].ttl \in Nat
  /\ \A s \in DOMAIN jobs : jobs[s].touched = jobUse[s].at /\ jobs[s].ttl = jobUse[s].ttl
  /\ \A s \in DOMAIN jobUse : s \notin DOMAIN jobs =>
       \/ jobUse[s].ttl > 0 /\ now > jobUse[s].at + jobUse[s].ttl
       \/ ~(dispatched - s < JobCap)

JobsInv == JobsRun /\ JobsFollowUse

LEMMA JobsInitially == JobsInit => JobsInv
  BY EmptyEntries, JobsAssumption DEF JobsInit, JobsInv, JobsRun, JobsFollowUse

LEMMA JobsUntouched ==
  ASSUME JobsInv, now' = now, UNCHANGED jobVars
  PROVE  JobsInv'
  BY DEF JobsInv, JobsRun, JobsFollowUse, RanUntil, jobVars

\* What a job's record holds, part by part.
LEMMA JobParts ==
  ASSUME NEW j \in JobRecords
  PROVE  /\ j.published \in Nat /\ j.touched \in Nat /\ j.ttl \in Nat /\ j.done = TRUE
         /\ j.published \in Times /\ j.touched \in Times
         /\ j.paused \in BOOLEAN /\ j.pausedAt \in Times \cup {None}
         /\ j.state \in {"DONE", "FAILED", "PAUSE"}
<1>1. /\ j.ttl \in Nat /\ j.done = TRUE /\ j.paused \in BOOLEAN
      /\ j.published \in Times /\ j.touched \in Times /\ j.pausedAt \in Times \cup {None}
      /\ j.state \in {"DONE", "FAILED", "PAUSE"}
  BY DEF JobRecords
<1> QED
  BY <1>1, ClockAssumption DEF Times

\* An expired job is one whose last use is over.
LEMMA ExpiredIsOver ==
  ASSUME JobsInv, now \in Times, NEW s \in DOMAIN jobs, JobExpired(jobs[s])
  PROVE  jobUse[s].ttl > 0 /\ now > jobUse[s].at + jobUse[s].ttl
<1>1. jobs[s] \in JobRecords /\ jobs[s].touched = jobUse[s].at /\ jobs[s].ttl = jobUse[s].ttl
  BY DEF JobsInv, JobsRun, JobsFollowUse
<1>2. jobs[s].published \in Nat /\ jobs[s].touched \in Nat /\ jobs[s].ttl \in Nat
  BY <1>1, JobParts
<1>3. now \in Nat /\ Dispatch \in Nat
  BY ClockAssumption, JobsAssumption DEF Times
<1>4. now > jobs[s].touched + jobs[s].ttl /\ jobs[s].ttl > 0
  BY <1>2, <1>3 DEF JobExpired, Later
<1> QED
  BY <1>1, <1>4

\* What is dropped while the history stays is what has expired.
LEMMA JobsDropped ==
  ASSUME JobsInv, now \in Times, now' = now, NEW S,
         \A s \in S : s \in DOMAIN jobs /\ JobExpired(jobs[s]),
         jobs' = Pop(jobs, S), UNCHANGED <<dispatched, runTime, jobUse>>
  PROVE  JobsInv'
<1>1. /\ DOMAIN jobs' = DOMAIN jobs \ S
      /\ \A x \in DOMAIN jobs' : jobs'[x] = jobs[x]
  BY DEF Pop, Restrict
<1>2. \A s \in S : jobUse[s].ttl > 0 /\ now > jobUse[s].at + jobUse[s].ttl
  BY ExpiredIsOver
<1>3. JobsRun'
  BY <1>1 DEF JobsInv, JobsRun, RanUntil
<1>4. JobsFollowUse'
  BY <1>1, <1>2 DEF JobsInv, JobsFollowUse
<1> QED
  BY <1>3, <1>4 DEF JobsInv

\* A read of a job, and what the caller saves of it: the job's clock must
\* still show how long it has run.
LEMMA GotStep ==
  ASSUME JobsInv, now \in Times, now' = now, NEW s, NEW job \in JobRecords,
         job.paused <=> job.pausedAt # None, job.paused => job.pausedAt <= now,
         RanUntil(job) - job.published = runTime[s], Got(s, job)
  PROVE  JobsInv'
<1>1. s \in DOMAIN jobs /\ UNCHANGED <<dispatched, runTime>>
  BY DEF Got
<1>2. CASE JobExpired(jobs[s]) /\ jobs' = Pop(jobs, {s}) /\ UNCHANGED jobUse
  BY <1>1, <1>2, JobsDropped
<1>3. CASE ~JobExpired(jobs[s])
  <2> DEFINE j == [job EXCEPT !.touched = now]
             u == [at |-> now, ttl |-> j.ttl]
  <2>1. jobs' = [jobs EXCEPT ![s] = j] /\ jobUse' = Put(jobUse, s, u)
    BY <1>3 DEF Got
  <2>2. /\ j \in JobRecords /\ j.paused = job.paused /\ j.pausedAt = job.pausedAt
        /\ j.published = job.published /\ j.touched = now /\ j.ttl \in Nat
    BY DEF JobRecords
  <2>3. u.at = now /\ u.ttl = j.ttl
    OBVIOUS
  <2> HIDE DEF j, u
  <2>4. /\ DOMAIN jobs' = DOMAIN jobs /\ jobs'[s] = j
        /\ \A x \in DOMAIN jobs : x # s => jobs'[x] = jobs[x]
    BY <1>1, <2>1
  <2>5. /\ DOMAIN jobUse' = DOMAIN jobUse \cup {s} /\ jobUse'[s] = u
        /\ \A x \in DOMAIN jobUse : x # s => jobUse'[x] = jobUse[x]
    BY <2>1 DEF Put
  <2>6. JobsRun'
    <3>1. /\ j.paused <=> j.pausedAt # None
          /\ j.paused => j.pausedAt <= now
          /\ (IF j.paused THEN j.pausedAt ELSE now') - j.published = runTime[s]
      BY <2>2 DEF RanUntil
    <3> QED
      BY <1>1, <2>2, <2>4, <2>5, <3>1 DEF JobsInv, JobsRun, RanUntil
  <2>7. JobsFollowUse'
    BY <1>1, <2>2, <2>3, <2>4, <2>5 DEF JobsInv, JobsRun, JobsFollowUse
  <2> QED
    BY <2>6, <2>7 DEF JobsInv
<1> QED
  BY <1>2, <1>3 DEF Got

\* A new job takes the place of none of the last created before it.
LEMMA CreateJobStep ==
  ASSUME JobsInv, now \in Times, now' = now, NEW failed \in BOOLEAN, CreateSearchJob(failed)
  PROVE  JobsInv'
<1> DEFINE n == dispatched
           j == NewJob(failed)
           u == [at |-> now, ttl |-> JobTtl]
<1>1. /\ n \in Nat /\ n + 1 <= MaxJobs /\ dispatched' = n + 1 /\ JobCap \in Nat \ {0}
      /\ jobs' = Saved(jobs, n + 1, j, JobCap, First(jobs))
      /\ runTime' = Put(runTime, n + 1, 0) /\ jobUse' = Put(jobUse, n + 1, u)
  BY JobsAssumption DEF CreateSearchJob, JobsInv, JobsRun
<1>2. /\ j \in JobRecords /\ j.paused = FALSE /\ j.pausedAt = None
      /\ j.published = now /\ j.touched = now /\ j.ttl = JobTtl
  BY JobsAssumption DEF NewJob, JobRecords
<1>3. u.at = now /\ u.ttl = JobTtl /\ JobTtl \in Nat /\ now \in Nat /\ now - now = 0
  BY JobsAssumption, ClockAssumption DEF Times
<1>4. DOMAIN jobs \subseteq 1..n /\ DOMAIN jobUse \subseteq 1..n /\ DOMAIN runTime = 1..n
  BY DEF JobsInv, JobsRun
<1> HIDE DEF n, j, u
<1>5. n + 1 \notin 1..n /\ 1..(n + 1) = 1..n \cup {n + 1}
  BY <1>1
<1>a. n \in Nat /\ JobCap \in Nat \ {0} /\ jobs' = Saved(jobs, n + 1, j, JobCap, First(jobs))
  BY <1>1
<1>6. /\ n + 1 \in DOMAIN jobs' /\ jobs'[n + 1] = j /\ DOMAIN jobs' \subseteq 1..(n + 1)
      /\ \A x \in DOMAIN jobs' : x # n + 1 => x \in DOMAIN jobs /\ jobs'[x] = jobs[x]
      /\ \A x \in DOMAIN jobs : (n + 1) - x < JobCap => x \in DOMAIN jobs'
  BY <1>4, <1>a, SavedNext
<1>7. /\ DOMAIN runTime' = 1..(n + 1) /\ runTime'[n + 1] = 0
      /\ \A x \in 1..n : runTime'[x] = runTime[x]
      /\ DOMAIN jobUse' = DOMAIN jobUse \cup {n + 1} /\ jobUse'[n + 1] = u
      /\ \A x \in DOMAIN jobUse : jobUse'[x] = jobUse[x]
  BY <1>1, <1>4, <1>5 DEF Put
<1>8. JobsRun'
  <2>1. /\ DOMAIN jobs' \subseteq DOMAIN jobUse' /\ DOMAIN jobUse' \subseteq 1..(n + 1)
        /\ \A x \in 1..(n + 1) : runTime'[x] \in Nat
    BY <1>4, <1>5, <1>6, <1>7 DEF JobsInv, JobsRun, n
  <2>2. (IF j.paused THEN j.pausedAt ELSE now') - j.published = 0
    BY <1>2, <1>3
  <2>3. ASSUME NEW x \in DOMAIN jobs'
        PROVE  /\ jobs'[x] \in JobRecords /\ (jobs'[x].paused <=> jobs'[x].pausedAt # None)
               /\ jobs'[x].paused => jobs'[x].pausedAt <= now'
               /\ RanUntil(jobs[x])' - jobs'[x].published = runTime'[x]
    <3>1. CASE x = n + 1
      BY <1>2, <1>6, <1>7, <2>2, <3>1 DEF RanUntil
    <3>2. CASE x # n + 1
      <4>1. x \in DOMAIN jobs /\ jobs'[x] = jobs[x] /\ runTime'[x] = runTime[x]
        BY <1>4, <1>6, <1>7, <3>2
      <4> QED
        BY <4>1 DEF JobsInv, JobsRun, RanUntil
    <3> QED
      BY <3>1, <3>2
  <2> QED
    BY <1>1, <1>7, <2>1, <2>3 DEF JobsRun
<1>9. JobsFollowUse'
  <2>1. \A x \in DOMAIN jobUse' : jobUse'[x].at \in Times /\ jobUse'[x].ttl \in Nat
    BY <1>3, <1>7 DEF JobsInv, JobsFollowUse
  <2>2. \A x \in DOMAIN jobs' : jobs'[x].touched = jobUse'[x].at /\ jobs'[x].ttl = jobUse'[x].ttl
    BY <1>2, <1>3, <1>6, <1>7 DEF JobsInv, JobsRun, JobsFollowUse
  <2>3. ASSUME NEW x \in DOMAIN jobUse', x \notin DOMAIN jobs'
        PROVE  \/ jobUse'[x].ttl > 0 /\ now > jobUse'[x].at + jobUse'[x].ttl
               \/ ~((n + 1) - x < JobCap)
    <3>1. x \in DOMAIN jobUse /\ x \in 1..n /\ jobUse'[x] = jobUse[x]
      BY <1>4, <1>6, <1>7, <2>3
    <3>2. CASE x \in DOMAIN jobs
      BY <1>6, <2>3, <3>2
    <3>3. CASE x \notin DOMAIN jobs
      <4>1. \/ jobUse[x].ttl > 0 /\ now > jobUse[x].at + jobUse[x].ttl
            \/ ~(n - x < JobCap)
        BY <3>1, <3>3 DEF JobsInv, JobsFollowUse, n
      <4> QED
        BY <1>1, <3>1, <4>1
    <3> QED
      BY <3>2, <3>3
  <2> QED
    BY <1>1, <2>1, <2>2, <2>3 DEF JobsFollowUse
<1> QED
  BY <1>8, <1>9 DEF JobsInv

\* search.py, _ACTIONS: none of them moves a job's clock.
LEMMA ControlKeepsClock ==
  ASSUME JobsInv, now \in Times, NEW s \in DOMAIN jobs, NEW t \in Nat,
         NEW job \in {jobs[s], Paused(jobs[s]), Unpaused(jobs[s]), Finalized(jobs[s]),
                      [jobs[s] EXCEPT !.ttl = t]}
  PROVE  /\ job \in JobRecords
         /\ job.paused <=> job.pausedAt # None
         /\ job.paused => job.pausedAt <= now
         /\ RanUntil(job) - job.published = runTime[s]
<1> DEFINE j == jobs[s]
<1>1. /\ j \in JobRecords /\ (j.paused <=> j.pausedAt # None)
      /\ j.paused => j.pausedAt <= now
      /\ RanUntil(j) - j.published = runTime[s] /\ runTime[s] \in Nat
  BY DEF JobsInv, JobsRun
<1> HIDE DEF j
<1>2. /\ j.published \in Nat /\ j.done = TRUE /\ j.paused \in BOOLEAN
      /\ j.pausedAt \in Times \cup {None} /\ j.published \in Times
  BY <1>1, JobParts
<1>3. now \in Nat /\ None \notin Nat /\ Times \subseteq Nat
  BY ClockAssumption DEF Times
<1>4. CASE job = j
  BY <1>1, <1>4
<1>5. CASE job = Paused(j)
  <2>1. /\ job \in JobRecords /\ job.paused = TRUE /\ job.published = j.published
        /\ job.pausedAt = IF j.paused THEN j.pausedAt ELSE now
    BY <1>1, <1>2, <1>5 DEF Paused, JobRecords
  <2> QED
    BY <1>1, <1>2, <1>3, <2>1 DEF RanUntil
<1>6. CASE job = Unpaused(j)
  <2> DEFINE p == IF j.paused /\ j.pausedAt # None THEN j.published + (now - j.pausedAt)
                  ELSE j.published
  <2>1. p \in Times /\ now - p = runTime[s]
    <3>1. CASE j.paused
      <4>1. j.pausedAt \in Nat /\ j.pausedAt <= now /\ j.pausedAt - j.published = runTime[s]
            /\ p = j.published + (now - j.pausedAt)
        BY <1>1, <1>2, <1>3, <3>1 DEF RanUntil
      <4> QED
        BY <1>1, <1>2, <1>3, <4>1, ClockAssumption DEF Times
    <3>2. CASE ~j.paused
      BY <1>1, <1>2, <1>3, <3>2 DEF RanUntil
    <3> QED
      BY <3>1, <3>2
  <2>2. job = [j EXCEPT !.published = p, !.pausedAt = None, !.paused = FALSE,
                        !.state = IF j.done THEN "DONE" ELSE "RUNNING"]
    BY <1>6 DEF Unpaused
  <2> HIDE DEF p
  <2>3. job \in JobRecords /\ job.paused = FALSE /\ job.published = p /\ job.pausedAt = None
    BY <1>1, <1>2, <2>1, <2>2 DEF JobRecords
  <2> QED
    BY <2>1, <2>3 DEF RanUntil
<1>7. CASE job = Finalized(j)
  <2>1. /\ job \in JobRecords /\ job.paused = j.paused /\ job.published = j.published
        /\ job.pausedAt = j.pausedAt
    BY <1>1, <1>7 DEF Finalized, JobRecords
  <2> QED
    BY <1>1, <2>1 DEF RanUntil
<1>8. CASE job = [j EXCEPT !.ttl = t]
  <2>1. /\ job \in JobRecords /\ job.paused = j.paused /\ job.published = j.published
        /\ job.pausedAt = j.pausedAt
    BY <1>1, <1>8 DEF JobRecords
  <2> QED
    BY <1>1, <2>1 DEF RanUntil
<1> QED
  BY <1>4, <1>5, <1>6, <1>7, <1>8 DEF j

LEMMA JobsStep ==
  ASSUME JobsInv, now \in Times, now' = now, JobsNext
  PROVE  JobsInv'
<1>0. CASE \E failed \in BOOLEAN : CreateSearchJob(failed)
  BY <1>0, CreateJobStep
<1> SUFFICES ASSUME NEW s,
                    \/ View(s) \/ Pause(s) \/ Unpause(s) \/ Finalize(s) \/ SaveJob(s) \/ CancelJob(s)
                    \/ \E t \in Ttls : SetTtl(s, t)
             PROVE  JobsInv'
  BY <1>0 DEF JobsNext
<1>2. ASSUME NEW t \in Nat, s \in DOMAIN jobs,
             NEW job \in {jobs[s], Paused(jobs[s]), Unpaused(jobs[s]), Finalized(jobs[s]),
                          [jobs[s] EXCEPT !.ttl = t]},
             Got(s, job)
      PROVE  JobsInv'
  <2>1. /\ job \in JobRecords
        /\ job.paused <=> job.pausedAt # None
        /\ job.paused => job.pausedAt <= now
        /\ RanUntil(job) - job.published = runTime[s]
    BY <1>2, ControlKeepsClock
  <2> QED
    BY <1>2, <2>1, GotStep
<1>4. CASE View(s) \/ Pause(s) \/ Unpause(s) \/ Finalize(s)
  <2>1. s \in DOMAIN jobs /\ 0 \in Nat
    BY <1>4 DEF View, Pause, Unpause, Finalize, Got
  <2> QED
    BY <1>2, <1>4, <2>1 DEF View, Pause, Unpause, Finalize
<1>5. CASE SaveJob(s)
  BY <1>2, <1>5, JobsAssumption DEF SaveJob, Got
<1>6. CASE \E t \in Ttls : SetTtl(s, t)
  BY <1>2, <1>6, JobsAssumption DEF SetTtl, Got
<1>7. CASE CancelJob(s)
  <2>1. /\ DOMAIN jobs' = DOMAIN jobs \ {s} /\ DOMAIN jobUse' = DOMAIN jobUse \ {s}
        /\ \A x \in DOMAIN jobs' : jobs'[x] = jobs[x]
        /\ \A x \in DOMAIN jobUse' : jobUse'[x] = jobUse[x]
        /\ UNCHANGED <<dispatched, runTime>>
    BY <1>7 DEF CancelJob, Remove, Pop, Restrict
  <2>2. JobsRun'
    BY <2>1 DEF JobsInv, JobsRun, RanUntil
  <2>3. JobsFollowUse'
    BY <2>1 DEF JobsInv, JobsRun, JobsFollowUse
  <2> QED
    BY <2>2, <2>3 DEF JobsInv
<1> QED
  BY <1>4, <1>5, <1>6, <1>7

\* Time passes: every job not paused has run a tick more.
LEMMA JobsTickStep ==
  ASSUME JobsInv, now \in Times, now' = now + 1, JobsTick
  PROVE  JobsInv'
<1>1. now \in Nat /\ Times \subseteq Nat
  BY ClockAssumption DEF Times
<1>2. UNCHANGED <<jobs, dispatched, jobUse>> /\ DOMAIN runTime' = 1..dispatched
  BY DEF JobsTick, JobsInv, JobsRun
<1>3. \A s \in 1..dispatched : runTime'[s] \in Nat
  BY DEF JobsTick, JobsInv, JobsRun
<1>4. ASSUME NEW s \in DOMAIN jobs
      PROVE  /\ jobs[s].paused => jobs[s].pausedAt <= now + 1
             /\ RanUntil(jobs[s])' - jobs[s].published = runTime'[s]
  <2> DEFINE j == jobs[s]
  <2>1. /\ j \in JobRecords /\ (j.paused <=> j.pausedAt # None) /\ s \in DOMAIN runTime
        /\ j.paused => j.pausedAt <= now
        /\ RanUntil(j) - j.published = runTime[s] /\ runTime[s] \in Nat
    BY DEF JobsInv, JobsRun
  <2>2. runTime'[s] = IF ~j.paused THEN runTime[s] + 1 ELSE runTime[s]
    BY <2>1 DEF JobsTick
  <2>3. j' = j
    BY <1>2
  <2> HIDE DEF j
  <2>4. j.published \in Nat /\ j.pausedAt \in Times \cup {None} /\ j.paused \in BOOLEAN
    BY <2>1, JobParts
  <2>5. CASE j.paused
    <3>1. j.pausedAt \in Nat
      BY <1>1, <2>1, <2>4, <2>5
    <3>2. RanUntil(j)' = j.pausedAt
      BY <2>3, <2>5 DEF RanUntil
    <3> QED
      BY <1>1, <2>1, <2>2, <2>5, <3>1, <3>2, <2>3 DEF RanUntil, j
  <2>6. CASE ~j.paused
    <3>1. RanUntil(j)' = now + 1
      BY <2>3, <2>6 DEF RanUntil
    <3> QED
      BY <1>1, <2>1, <2>2, <2>4, <2>6, <3>1, <2>3 DEF RanUntil, j
  <2> QED
    BY <2>5, <2>6
<1>5. JobsRun'
  BY <1>2, <1>3, <1>4 DEF JobsInv, JobsRun
<1>6. JobsFollowUse'
  <2>1. \A s \in DOMAIN jobUse : jobUse[s].at \in Nat /\ jobUse[s].ttl \in Nat
    BY <1>1 DEF JobsInv, JobsFollowUse
  <2> QED
    BY <1>1, <1>2, <2>1 DEF JobsInv, JobsFollowUse
<1> QED
  BY <1>5, <1>6 DEF JobsInv

LEMMA JobsSweepStep ==
  ASSUME JobsInv, now \in Times, now' = now, ReapJobs
  PROVE  JobsInv' /\ JobsAccepted' = JobsAccepted
<1> DEFINE S == {s \in DOMAIN jobs : JobExpired(jobs[s])}
<1>1. jobs' = Pop(jobs, S) /\ UNCHANGED <<dispatched, runTime, jobUse>>
  BY DEF ReapJobs
<1>2. JobsInv'
  BY <1>1, JobsDropped
<1>3. DOMAIN jobs' = DOMAIN jobs \ S /\ \A x \in DOMAIN jobs' : jobs'[x] = jobs[x]
  BY <1>1 DEF Pop, Restrict
<1>4. \A s : JobAccepted(s)' <=> JobAccepted(s)
  BY <1>3 DEF JobAccepted, JobExpired
<1> QED
  BY <1>1, <1>2, <1>4 DEF JobsAccepted

LEMMA JobsResetStep == ASSUME JobsInv, ResetJobs PROVE JobsInv'
  BY EmptyEntries DEF ResetJobs, JobsInv, JobsRun, JobsFollowUse

LEMMA JobsUsable ==
  ASSUME JobsInv, now \in Times
  PROVE  JobsTypeOK /\ JobsStayUsable /\ ProgressIsRunTime
<1>1. JobsTypeOK
  BY JobParts DEF JobsInv, JobsRun, JobsTypeOK
<1>2. JobsStayUsable
  <2> SUFFICES ASSUME NEW s \in DOMAIN jobUse, dispatched - s < JobCap,
                      jobUse[s].ttl = 0 \/ now <= jobUse[s].at + jobUse[s].ttl
               PROVE  JobAccepted(s)
    BY DEF JobsStayUsable
  <2>1. now \in Nat /\ jobUse[s].ttl \in Nat /\ jobUse[s].at \in Nat
    BY ClockAssumption DEF Times, JobsInv, JobsFollowUse
  <2>2. ~(jobUse[s].ttl > 0 /\ now > jobUse[s].at + jobUse[s].ttl)
    BY <2>1
  <2>3. s \in DOMAIN jobs
    BY <2>2 DEF JobsInv, JobsFollowUse
  <2> QED
    BY <2>2, <2>3, ExpiredIsOver DEF JobAccepted
<1>3. ProgressIsRunTime
  <2> SUFFICES ASSUME NEW s \in DOMAIN jobs
               PROVE  Progress(jobs[s]) = Sooner(runTime[s], Dispatch)
    BY DEF ProgressIsRunTime
  <2>1. /\ jobs[s].paused <=> jobs[s].pausedAt # None
        /\ RanUntil(jobs[s]) - jobs[s].published = runTime[s]
    BY DEF JobsInv, JobsRun
  <2> QED
    BY <2>1 DEF Progress, RanUntil
<1> QED
  BY <1>1, <1>2, <1>3

-----------------------------------------------------------------------------
(* Indexer acknowledgement                                                 *)

\* Every channel known has its set of the life it is in; the numbers of every
\* set were given out, to its channel in its life, and no poll that asked for
\* them as integers has its answer; no number of this life is yet to be given.
AckSets ==
  /\ life \in [Channels -> Nat]
  /\ DOMAIN counters = DOMAIN issued /\ DOMAIN counters \subseteq DOMAIN seen
  /\ DOMAIN seen \subseteq Channels
  /\ \A c \in DOMAIN counters :
       /\ counters[c] \in 1..MaxAcks /\ issued[c] = <<c, life[c]>>
       /\ issued[c] \in DOMAIN numbers /\ numbers[issued[c]] \subseteq 0..counters[c] - 1
  /\ DOMAIN numbers \subseteq Channels \X Nat
  /\ \A c \in Channels, l \in Nat : <<c, l>> \in DOMAIN numbers =>
       l <= life[c] /\ (l = life[c] => c \in DOMAIN counters)

AcksGiven ==
  /\ \A c \in Channels, l \in Nat : <<c, l>> \in DOMAIN numbers =>
       \A id \in numbers[<<c, l>>] : <<c, l, id>> \in given /\ <<c, l, id>> \notin answered
  /\ answered \subseteq given
  /\ \A c \in Channels, l \in Nat : \A id : <<c, l, id>> \in given =>
       l <= life[c] /\ (l = life[c] => c \in DOMAIN counters /\ id \in 0..counters[c] - 1)

\* A poll has taken no set or its channel's set of the life it found, and
\* what it has answered was given out.
PollRecords ==
  [at : {"touch", "answer", "forget"}, channel : Channels, life : Nat,
   set : (Channels \X Nat) \cup {None}, ids : Questions, ints : BOOLEAN,
   answer : SUBSET UNION Questions]
PollsInHand ==
  /\ polls \in [Pollers -> PollRecords \cup {None}]
  /\ \A p \in Pollers : polls[p] # None =>
       /\ polls[p].set = None \/ polls[p].set = <<polls[p].channel, polls[p].life>>
       /\ polls[p].answer \subseteq polls[p].ids
       /\ polls[p].set = None => polls[p].answer = {}
       /\ \A id \in polls[p].answer : <<polls[p].channel, polls[p].life, id>> \in given

AcksInv == AckSets /\ AcksGiven /\ PollsInHand /\ ~untrue

LEMMA AcksInitially == AcksInit => AcksInv
<1> SUFFICES ASSUME AcksInit PROVE AcksInv
  OBVIOUS
<1>1. /\ DOMAIN counters = {} /\ DOMAIN issued = {} /\ DOMAIN numbers = {} /\ DOMAIN seen = {}
      /\ life \in [Channels -> Nat] /\ given = {} /\ answered = {} /\ ~untrue
      /\ polls \in [Pollers -> PollRecords \cup {None}] /\ \A p \in Pollers : polls[p] = None
  BY EmptyEntries DEF AcksInit
<1> QED
  BY <1>1 DEF AcksInv, AckSets, AcksGiven, PollsInHand

LEMMA AcksUntouched ==
  ASSUME AcksInv, UNCHANGED ackVars
  PROVE  AcksInv'
  BY DEF AcksInv, AckSets, AcksGiven, PollsInHand, ackVars

\* _next_ack: the number is the channel's next, and was not given before.
LEMMA NextAckStep ==
  ASSUME AcksInv, NEW c \in Channels, NextAck(c)
  PROVE  AcksInv'
<1> DEFINE n == Of(counters, c, 0)
           h == <<c, life[c]>>
           old == Of(numbers, h, {})
<1>1. /\ life[c] \in Nat /\ h \in Channels \X Nat
      /\ c \in DOMAIN counters => c \in DOMAIN issued /\ issued[c] = h /\ h \in DOMAIN numbers
      /\ c \notin DOMAIN counters => c \notin DOMAIN issued /\ h \notin DOMAIN numbers
      /\ c \in DOMAIN counters => n = counters[c] /\ n \in 1..MaxAcks
      /\ c \notin DOMAIN counters => n = 0
  BY DEF AcksInv, AckSets, Of
<1>2. Of(issued, c, <<c, life[c]>>) = h
  BY <1>1 DEF Of
<1>3. /\ n < MaxAcks /\ counters' = Put(counters, c, n + 1) /\ issued' = Put(issued, c, h)
      /\ numbers' = Put(numbers, h, old \union {n}) /\ seen' = Put(seen, c, now)
      /\ given' = given \union {<<c, life[c], n>>}
      /\ UNCHANGED <<polls, life, answered, untrue>>
  BY <1>2 DEF NextAck
<1>4. n \in Nat /\ MaxAcks \in Nat
  BY <1>1, AcksAssumption
<1>5. /\ old \subseteq 0..n - 1 /\ \A id \in old : <<c, life[c], id>> \in given /\ <<c, life[c], id>> \notin answered
  <2>1. CASE c \in DOMAIN counters
    <3>1. old = numbers[h] /\ h = issued[c] /\ n = counters[c]
      BY <1>1, <2>1 DEF Of
    <3>2. numbers[h] \subseteq 0..n - 1
      BY <2>1, <3>1 DEF AcksInv, AckSets
    <3> QED
      BY <1>1, <2>1, <3>1, <3>2 DEF AcksInv, AcksGiven
  <2>2. CASE c \notin DOMAIN counters
    BY <1>1, <2>2 DEF Of
  <2> QED
    BY <2>1, <2>2
<1>6. <<c, life[c], n>> \notin given
  <2>1. ASSUME <<c, life[c], n>> \in given PROVE FALSE
    <3>1. c \in DOMAIN counters /\ n \in 0..counters[c] - 1
      BY <1>1, <2>1 DEF AcksInv, AcksGiven
    <3> QED
      BY <1>1, <1>4, <3>1
  <2> QED
    BY <2>1
<1> HIDE DEF n, h, old
<1>7. /\ DOMAIN counters' = DOMAIN counters \cup {c} /\ counters'[c] = n + 1
      /\ \A x \in DOMAIN counters : x # c => counters'[x] = counters[x]
      /\ DOMAIN issued' = DOMAIN issued \cup {c} /\ issued'[c] = h
      /\ \A x \in DOMAIN issued : x # c => issued'[x] = issued[x]
      /\ DOMAIN numbers' = DOMAIN numbers \cup {h} /\ numbers'[h] = old \union {n}
      /\ \A x \in DOMAIN numbers : x # h => numbers'[x] = numbers[x]
      /\ DOMAIN seen' = DOMAIN seen \cup {c}
  BY <1>3 DEF Put
<1>8. \A x \in Channels : \A l : <<x, l>> = h <=> x = c /\ l = life[c]
  BY DEF h
<1>9. AckSets'
  <2>1. AckSets
    BY DEF AcksInv
  <2>2. /\ life' \in [Channels -> Nat] /\ DOMAIN counters' = DOMAIN issued'
        /\ DOMAIN counters' \subseteq DOMAIN seen' /\ DOMAIN seen' \subseteq Channels
        /\ DOMAIN numbers' \subseteq Channels \X Nat
    BY <1>1, <1>3, <1>7, <2>1 DEF AckSets
  <2>3. ASSUME NEW x \in DOMAIN counters'
        PROVE  /\ counters'[x] \in 1..MaxAcks /\ issued'[x] = <<x, life'[x]>>
               /\ issued'[x] \in DOMAIN numbers' /\ numbers'[issued'[x]] \subseteq 0..counters'[x] - 1
    <3>1. CASE x = c
      <4>1. n + 1 \in 1..MaxAcks /\ old \union {n} \subseteq 0..(n + 1) - 1
        BY <1>3, <1>4, <1>5
      <4> QED
        BY <1>3, <1>7, <3>1, <4>1 DEF h
    <3>2. CASE x # c
      <4>1. /\ x \in DOMAIN counters /\ counters'[x] = counters[x] /\ issued'[x] = issued[x]
            /\ issued[x] = <<x, life[x]>> /\ issued[x] \in DOMAIN numbers
            /\ counters[x] \in 1..MaxAcks /\ numbers[issued[x]] \subseteq 0..counters[x] - 1
            /\ x \in Channels
        BY <1>7, <2>1, <3>2 DEF AckSets
      <4>2. issued[x] # h
        BY <1>8, <3>2, <4>1
      <4> QED
        BY <1>3, <1>7, <4>1, <4>2
    <3> QED
      BY <3>1, <3>2
  <2>4. ASSUME NEW x \in Channels, NEW l \in Nat, <<x, l>> \in DOMAIN numbers'
        PROVE  l <= life'[x] /\ (l = life'[x] => x \in DOMAIN counters')
    <3>1. CASE <<x, l>> = h
      BY <1>1, <1>3, <1>7, <1>8, <3>1
    <3>2. CASE <<x, l>> # h
      BY <1>3, <1>7, <2>1, <2>4, <3>2 DEF AckSets
    <3> QED
      BY <3>1, <3>2
  <2> QED
    BY <2>2, <2>3, <2>4 DEF AckSets
<1>10. AcksGiven'
  <2>1. AcksGiven
    BY DEF AcksInv
  <2>2. ASSUME NEW x \in Channels, NEW l \in Nat, <<x, l>> \in DOMAIN numbers',
               NEW id \in numbers'[<<x, l>>]
        PROVE  <<x, l, id>> \in given' /\ <<x, l, id>> \notin answered'
    <3>1. CASE <<x, l>> = h
      <4>1. x = c /\ l = life[c] /\ id \in old \union {n}
        BY <1>7, <1>8, <2>2, <3>1
      <4>2. CASE id \in old
        BY <1>3, <1>5, <4>1, <4>2
      <4>3. CASE id = n
        BY <1>3, <1>6, <2>1, <4>1, <4>3 DEF AcksGiven
      <4> QED
        BY <4>1, <4>2, <4>3
    <3>2. CASE <<x, l>> # h
      BY <1>3, <1>7, <2>1, <2>2, <3>2 DEF AcksGiven
    <3> QED
      BY <3>1, <3>2
  <2>3. ASSUME NEW x \in Channels, NEW l \in Nat, NEW id, <<x, l, id>> \in given'
        PROVE  l <= life'[x] /\ (l = life'[x] => x \in DOMAIN counters' /\ id \in 0..counters'[x] - 1)
    <3>1. CASE <<x, l, id>> = <<c, life[c], n>>
      <4>1. x = c /\ l = life[c] /\ id = n
        BY <3>1
      <4>2. n \in 0..(n + 1) - 1 /\ life[c] <= life[c]
        BY <1>1, <1>4
      <4> QED
        BY <1>3, <1>7, <4>1, <4>2
    <3>2. CASE <<x, l, id>> \in given
      <4>1. l <= life[x] /\ (l = life[x] => x \in DOMAIN counters /\ id \in 0..counters[x] - 1)
        BY <2>1, <3>2 DEF AcksGiven
      <4>2. CASE x = c
        <5>1. x \in DOMAIN counters => counters[x] = n
          BY <1>1, <4>2 DEF n
        <5>2. \A i \in 0..n - 1 : i \in 0..(n + 1) - 1
          BY <1>4
        <5> QED
          BY <1>3, <1>7, <4>1, <4>2, <5>1, <5>2
      <4>3. CASE x # c
        BY <1>3, <1>7, <4>1, <4>3
      <4> QED
        BY <4>2, <4>3
    <3> QED
      BY <1>3, <2>3, <3>1, <3>2
  <2>4. answered' \subseteq given'
    BY <1>3, <2>1 DEF AcksGiven
  <2> QED
    BY <2>2, <2>3, <2>4 DEF AcksGiven
<1>11. PollsInHand'
  BY <1>3 DEF AcksInv, PollsInHand
<1> QED
  BY <1>3, <1>9, <1>10, <1>11 DEF AcksInv

\* A step of a poll that leaves the sets alone.
LEMMA PollStep ==
  ASSUME AcksInv, NEW p \in Pollers, NEW r, r \in PollRecords \cup {None},
         polls' = [polls EXCEPT ![p] = r],
         r # None => /\ r.set = None \/ r.set = <<r.channel, r.life>>
                     /\ r.answer \subseteq r.ids
                     /\ r.set = None => r.answer = {}
                     /\ \A id \in r.answer : <<r.channel, r.life, id>> \in given,
         UNCHANGED given
  PROVE  PollsInHand'
<1>1. /\ polls' \in [Pollers -> PollRecords \cup {None}] /\ polls'[p] = r
      /\ \A x \in Pollers : x # p => polls'[x] = polls[x]
  BY DEF AcksInv, PollsInHand
<1>2. ASSUME NEW x \in Pollers, polls'[x] # None
      PROVE  /\ polls'[x].set = None \/ polls'[x].set = <<polls'[x].channel, polls'[x].life>>
             /\ polls'[x].answer \subseteq polls'[x].ids
             /\ polls'[x].set = None => polls'[x].answer = {}
             /\ \A id \in polls'[x].answer : <<polls'[x].channel, polls'[x].life, id>> \in given'
  <2>1. CASE x = p
    BY <1>1, <1>2, <2>1
  <2>2. CASE x # p
    BY <1>1, <1>2, <2>2 DEF AcksInv, PollsInHand
  <2> QED
    BY <2>1, <2>2
<1> QED
  BY <1>1, <1>2 DEF PollsInHand

LEMMA TakeSetStep ==
  ASSUME AcksInv, NEW p \in Pollers, NEW c \in Channels, NEW ids \in Questions,
         NEW ints \in BOOLEAN, TakeSet(p, c, ids, ints)
  PROVE  AcksInv'
<1> DEFINE at == IF c \in DOMAIN seen THEN "touch" ELSE "answer"
           set == Of(issued, c, None)
           r == [at |-> at, channel |-> c, life |-> life[c], set |-> set, ids |-> ids,
                 ints |-> ints, answer |-> {}]
<1>1. polls' = [polls EXCEPT ![p] = r]
      /\ UNCHANGED <<counters, issued, numbers, seen, life, given, answered, untrue>>
  BY DEF TakeSet
<1>2. /\ life[c] \in Nat /\ set \in {None, <<c, life[c]>>} /\ at \in {"touch", "answer", "forget"}
      /\ set \in (Channels \X Nat) \cup {None}
  BY DEF AcksInv, AckSets, Of
<1> HIDE DEF at, set
<1>3. /\ r \in PollRecords /\ r.set = set /\ r.channel = c /\ r.life = life[c] /\ r.answer = {}
  BY <1>2 DEF PollRecords
<1> HIDE DEF r
<1>4. PollsInHand'
  BY <1>1, <1>2, <1>3, PollStep
<1> QED
  BY <1>1, <1>4 DEF AcksInv, AckSets, AcksGiven

LEMMA TouchChannelStep ==
  ASSUME AcksInv, NEW p \in Pollers, TouchChannel(p)
  PROVE  AcksInv'
<1> DEFINE q == polls[p]
           r == [q EXCEPT !.at = "answer"]
<1>1. q # None /\ q \in PollRecords
  BY DEF TouchChannel, AcksInv, PollsInHand
<1>2. /\ polls' = [polls EXCEPT ![p] = r] /\ seen' = Put(seen, q.channel, now)
      /\ UNCHANGED <<counters, issued, numbers, life, given, answered, untrue>>
  BY DEF TouchChannel
<1>3. /\ q.set = None \/ q.set = <<q.channel, q.life>>
      /\ q.answer \subseteq q.ids
      /\ q.set = None => q.answer = {}
      /\ \A id \in q.answer : <<q.channel, q.life, id>> \in given
  BY <1>1 DEF AcksInv, PollsInHand
<1> HIDE DEF q
<1>4. /\ r \in PollRecords /\ r.set = q.set /\ r.channel = q.channel /\ r.life = q.life
      /\ r.answer = q.answer /\ r.ids = q.ids /\ q.channel \in Channels
  BY <1>1 DEF PollRecords
<1> HIDE DEF r
<1>5. PollsInHand'
  BY <1>2, <1>3, <1>4, PollStep
<1>6. DOMAIN seen' = DOMAIN seen \cup {q.channel}
  BY <1>2 DEF Put
<1>7. AckSets'
  BY <1>2, <1>4, <1>6 DEF AcksInv, AckSets
<1> QED
  BY <1>2, <1>5, <1>7 DEF AcksInv, AcksGiven

\* The answer: what is left in the set was given out in the life the poll
\* found, and no poll that ended was answered it.
LEMMA AnswerStep ==
  ASSUME AcksInv, NEW p \in Pollers, Answer(p)
  PROVE  AcksInv'
<1> DEFINE q == polls[p]
           true == q.ids \intersect Of(numbers, q.set, {})
           r == [q EXCEPT !.at = "forget", !.answer = true]
<1>1. q # None /\ q \in PollRecords
  BY DEF Answer, AcksInv, PollsInHand
<1>2. /\ polls' = [polls EXCEPT ![p] = r]
      /\ untrue' = (untrue \/ ~(Acks(p, true) \subseteq given \ answered))
      /\ UNCHANGED <<counters, issued, numbers, seen, life, given, answered>>
  BY DEF Answer
<1>3. q.set = None \/ q.set = <<q.channel, q.life>>
  BY <1>1 DEF AcksInv, PollsInHand
<1>4. Acks(p, true) = {<<q.channel, q.life, id>> : id \in true}
  BY DEF Acks
<1> HIDE DEF q
<1>5. /\ q.channel \in Channels /\ q.life \in Nat /\ q.ids \in Questions
  BY <1>1 DEF PollRecords
<1>6. /\ q.set = None => true = {}
      /\ \A id \in true : /\ <<q.channel, q.life, id>> \in given
                          /\ <<q.channel, q.life, id>> \notin answered
  <2>1. CASE q.set \notin DOMAIN numbers
    BY <2>1 DEF Of
  <2>2. CASE q.set \in DOMAIN numbers
    <3>1. q.set # None
      BY <2>2, AcksAssumption DEF AcksInv, AckSets
    <3>2. q.set = <<q.channel, q.life>> /\ true = q.ids \intersect numbers[<<q.channel, q.life>>]
      BY <1>3, <2>2, <3>1 DEF Of
    <3>3. \A id \in numbers[<<q.channel, q.life>>] :
            /\ <<q.channel, q.life, id>> \in given /\ <<q.channel, q.life, id>> \notin answered
      BY <1>5, <2>2, <3>2 DEF AcksInv, AcksGiven
    <3> QED
      BY <3>1, <3>2, <3>3
  <2> QED
    BY <2>1, <2>2
<1>7. true \subseteq q.ids /\ true \in SUBSET UNION Questions
  BY <1>5
<1> HIDE DEF true
<1>8. /\ r \in PollRecords /\ r.set = q.set /\ r.channel = q.channel /\ r.life = q.life
      /\ r.answer = true /\ r.ids = q.ids
  BY <1>1, <1>7 DEF PollRecords
<1> HIDE DEF r
<1>9. PollsInHand'
  BY <1>2, <1>3, <1>6, <1>7, <1>8, PollStep
<1>10. ~untrue'
  BY <1>2, <1>4, <1>6 DEF AcksInv
<1> QED
  BY <1>2, <1>9, <1>10 DEF AcksInv, AckSets, AcksGiven

\* The poll ends: what it was answered leaves the set it took.
LEMMA ForgetAnsweredStep ==
  ASSUME AcksInv, NEW p \in Pollers, ForgetAnswered(p)
  PROVE  AcksInv'
<1> DEFINE q == polls[p]
           none == None
<1>1. q # None /\ q \in PollRecords
  BY DEF ForgetAnswered, Ends, AcksInv, PollsInHand
<1>2. /\ polls' = [polls EXCEPT ![p] = none]
      /\ UNCHANGED <<counters, issued, seen, life, given, untrue>>
  BY DEF ForgetAnswered, Ends
<1>3. /\ q.set = None \/ q.set = <<q.channel, q.life>>
      /\ q.answer \subseteq q.ids
      /\ q.set = None => q.answer = {}
      /\ \A id \in q.answer : <<q.channel, q.life, id>> \in given
  BY <1>1 DEF AcksInv, PollsInHand
<1>4. PollsInHand'
  BY <1>2, PollStep
<1>5. CASE ~q.ints
  <2>1. answered' = answered /\ numbers' = numbers
    BY <1>5 DEF ForgetAnswered, Ends
  <2> QED
    BY <1>2, <1>4, <2>1 DEF AcksInv, AckSets, AcksGiven
<1>6. CASE q.ints
  <2>1. answered' = answered \union {<<q.channel, q.life, id>> : id \in q.answer}
    BY <1>6 DEF ForgetAnswered, Ends, Acks
  <2>2. /\ DOMAIN numbers' = DOMAIN numbers
        /\ \A h \in DOMAIN numbers : numbers'[h] = IF h = q.set THEN numbers[h] \ q.ids ELSE numbers[h]
    BY <1>6 DEF ForgetAnswered
  <2> HIDE DEF q
  <2>3. \A h \in DOMAIN numbers : numbers'[h] \subseteq numbers[h]
    BY <2>2
  <2>4. AckSets'
    BY <1>2, <2>2, <2>3 DEF AcksInv, AckSets
  <2>5. ASSUME NEW x \in Channels, NEW l \in Nat, <<x, l>> \in DOMAIN numbers',
               NEW id \in numbers'[<<x, l>>]
        PROVE  <<x, l, id>> \in given' /\ <<x, l, id>> \notin answered'
    <3>1. <<x, l>> \in DOMAIN numbers /\ id \in numbers[<<x, l>>]
      BY <2>2, <2>3, <2>5
    <3>2. <<x, l, id>> \in given /\ <<x, l, id>> \notin answered
      BY <3>1 DEF AcksInv, AcksGiven
    <3>3. ASSUME NEW i \in q.answer, <<x, l, id>> = <<q.channel, q.life, i>> PROVE FALSE
      <4>1. x = q.channel /\ l = q.life /\ id = i
        BY <3>3
      <4>2. q.set = <<x, l>>
        BY <1>3, <3>3, <4>1
      <4>3. id \notin q.ids
        BY <2>2, <2>5, <3>1, <4>2
      <4> QED
        BY <1>3, <3>3, <4>1, <4>3
    <3> QED
      BY <1>2, <2>1, <3>2, <3>3
  <2>6. answered' \subseteq given'
    BY <1>2, <1>3, <2>1 DEF AcksInv, AcksGiven
  <2>7. AcksGiven'
    BY <1>2, <2>5, <2>6 DEF AcksInv, AcksGiven
  <2> QED
    BY <1>2, <1>4, <2>4, <2>7 DEF AcksInv
<1> QED
  BY <1>5, <1>6

LEMMA AcksStep ==
  ASSUME AcksInv, AcksNext
  PROVE  AcksInv'
  BY NextAckStep, TakeSetStep, TouchChannelStep, AnswerStep, ForgetAnsweredStep DEF AcksNext

\* A channel is forgotten whole, its counter, its set and its date, and what
\* it starts with next is of another life.
LEMMA ForgottenStep ==
  ASSUME AcksInv, NEW S, Forgotten(S),
         DOMAIN counters' = DOMAIN counters \ S, DOMAIN issued' = DOMAIN issued \ S,
         DOMAIN seen' = DOMAIN seen \ S,
         \A x \in DOMAIN counters \ S : counters'[x] = counters[x] /\ issued'[x] = issued[x]
  PROVE  AcksInv'
<1>1. UNCHANGED <<numbers, polls, given, answered, untrue>>
  BY DEF Forgotten
<1>2. /\ life' \in [Channels -> Nat]
      /\ \A x \in Channels : x \in S /\ x \in DOMAIN counters => life'[x] = life[x] + 1
      /\ \A x \in Channels : ~(x \in S /\ x \in DOMAIN counters) => life'[x] = life[x]
      /\ \A x \in Channels : life[x] \in Nat
  BY DEF Forgotten, AcksInv, AckSets
<1>3. AckSets'
  <2>1. AckSets
    BY DEF AcksInv
  <2>2. \A x \in DOMAIN counters' : x \in DOMAIN counters \ S /\ x \in Channels /\ life'[x] = life[x]
    BY <1>2, <2>1 DEF AckSets
  <2>3. ASSUME NEW x \in Channels, NEW l \in Nat, <<x, l>> \in DOMAIN numbers'
        PROVE  l <= life'[x] /\ (l = life'[x] => x \in DOMAIN counters')
    <3>1. l <= life[x] /\ (l = life[x] => x \in DOMAIN counters)
      BY <1>1, <2>1, <2>3 DEF AckSets
    <3> QED
      BY <1>2, <3>1
  <2>4. /\ DOMAIN counters' = DOMAIN issued' /\ DOMAIN counters' \subseteq DOMAIN seen'
        /\ DOMAIN seen' \subseteq Channels /\ DOMAIN numbers' \subseteq Channels \X Nat
    BY <1>1, <2>1 DEF AckSets
  <2>5. \A x \in DOMAIN counters' :
          /\ counters'[x] \in 1..MaxAcks /\ issued'[x] = <<x, life'[x]>>
          /\ issued'[x] \in DOMAIN numbers' /\ numbers'[issued'[x]] \subseteq 0..counters'[x] - 1
    BY <1>1, <2>1, <2>2 DEF AckSets
  <2> QED
    BY <1>2, <2>3, <2>4, <2>5 DEF AckSets
<1>4. AcksGiven'
  <2>1. AcksGiven
    BY DEF AcksInv
  <2>2. ASSUME NEW x \in Channels, NEW l \in Nat, NEW id, <<x, l, id>> \in given'
        PROVE  l <= life'[x] /\ (l = life'[x] => x \in DOMAIN counters' /\ id \in 0..counters'[x] - 1)
    <3>1. l <= life[x] /\ (l = life[x] => x \in DOMAIN counters /\ id \in 0..counters[x] - 1)
      BY <1>1, <2>1, <2>2 DEF AcksGiven
    <3> QED
      BY <1>2, <3>1
  <2> QED
    BY <1>1, <2>1, <2>2 DEF AcksGiven
<1>5. PollsInHand'
  BY <1>1 DEF AcksInv, PollsInHand
<1> QED
  BY <1>1, <1>3, <1>4, <1>5 DEF AcksInv

LEMMA AcksSweepStep ==
  ASSUME AcksInv, ReapIdleChannels
  PROVE  AcksInv'
<1>1. /\ DOMAIN counters' = DOMAIN counters \ Idle /\ DOMAIN issued' = DOMAIN issued \ Idle
      /\ DOMAIN seen' = DOMAIN seen \ Idle
      /\ \A x \in DOMAIN counters \ Idle : counters'[x] = counters[x]
      /\ \A x \in DOMAIN issued \ Idle : issued'[x] = issued[x]
  BY DEF ReapIdleChannels, Pop, Restrict
<1>2. DOMAIN issued = DOMAIN counters /\ Forgotten(Idle)
  BY DEF AcksInv, AckSets, ReapIdleChannels
<1> HIDE DEF Idle
<1> QED
  BY <1>1, <1>2, ForgottenStep

LEMMA AcksResetStep ==
  ASSUME AcksInv, ResetAckState
  PROVE  AcksInv'
<1>1. /\ DOMAIN counters' = {} /\ DOMAIN issued' = {} /\ DOMAIN seen' = {} /\ Forgotten(Channels)
      /\ DOMAIN counters \ Channels = {} /\ DOMAIN issued \ Channels = {} /\ DOMAIN seen \ Channels = {}
  BY EmptyEntries DEF ResetAckState, AcksInv, AckSets
<1> QED
  BY <1>1, ForgottenStep

LEMMA AcksHold == ASSUME AcksInv PROVE AcksTypeOK /\ AcksAreTruthful
  BY DEF AcksInv, AckSets, AcksTypeOK, AcksAreTruthful

-----------------------------------------------------------------------------
(* Documents, when no two writes overlap                                   *)

Entries == [count : Nat, seq : Nat]
DocRecords == [seq : Nat, pending : BOOLEAN, deleted : BOOLEAN]

\* The calls a write may have left, by what they are about to do.
Asking == {<<"get">>}
Making == {<<"read", "seq", "put", "read", "count+">>, <<"seq", "put", "read", "count+">>,
           <<"put", "read", "count+">>}
Made == {<<"read", "count+">>, <<"count+">>}
Replacing == {<<"read", "seq", "put">>, <<"seq", "put">>, <<"put">>}
Taking == {<<"drop", "read", "count-", "read", "seq">>, <<"drop", "read", "count-">>}
Taken == {<<"read", "count-", "read", "seq">>, <<"count-", "read", "seq">>,
          <<"read", "count-">>, <<"count-">>}
Marking == {<<"mark">>}
Numbering == {<<"read", "seq">>, <<"seq">>}
CallsLeft == Asking \cup Making \cup Made \cup Replacing \cup Taking \cup Taken \cup Marking
               \cup Numbering \cup {<<>>}

\* The next call saves the entry that was read; is the put; a number is still
\* to be taken.
SavesEntry == {<<"seq", "put", "read", "count+">>, <<"count+">>, <<"seq", "put">>,
               <<"count-", "read", "seq">>, <<"count-">>, <<"seq">>}
Puts == {<<"put", "read", "count+">>, <<"put">>}
WillNumber == {<<"get">>, <<"read", "seq", "put", "read", "count+">>,
               <<"seq", "put", "read", "count+">>, <<"read", "seq", "put">>, <<"seq", "put">>,
               <<"drop", "read", "count-", "read", "seq">>,
               <<"read", "count-", "read", "seq">>, <<"count-", "read", "seq">>,
               <<"read", "seq">>, <<"seq">>}

Busy == [op : Ops, calls : CallsLeft, id : DocIds, cond : 0..MaxWrites - 1 \union {Nothing},
         visible : BOOLEAN, held : Entries \cup DocRecords \cup {Nothing}, seq : Nat]

DataShape ==
  /\ DOMAIN docs \subseteq DocIds /\ IsFiniteSet(DOMAIN docs)
  /\ \A id \in DOMAIN docs : docs[id] \in DocRecords
  /\ entry \in Entries \cup {Nothing} /\ writes \in 0..MaxWrites
  /\ dropped \in Nat /\ lost \in BOOLEAN

WriterShape ==
  /\ DOMAIN writer = Writers
  /\ \A w \in Writers : writer[w] # Resting => writer[w] \in Busy /\ writer[w].calls # <<>>

OneWriter == \A v, w \in Writers : writer[v] # Resting /\ writer[w] # Resting => v = w

\* The documents and the entry, as a write with the calls cs left has them:
\* unless the cap has dropped the entry, the count is the number of records and
\* of those the cap has dropped, but for the record it has made or taken and
\* not yet counted, and every number is below the next.
Counted(cs) ==
  ~lost => EntryOr(entry).count + (IF cs \in Made THEN 1 ELSE 0)
             = Cardinality(DOMAIN docs) + dropped + (IF cs \in Taken THEN 1 ELSE 0)
Numbered ==
  ~lost => /\ \A i \in DOMAIN docs : docs[i].seq < EntryOr(entry).seq
           /\ \A i, j \in DOMAIN docs : docs[i].seq = docs[j].seq => i = j
Bounded(cs) ==
  /\ EntryOr(entry).count <= writes /\ EntryOr(entry).seq <= writes
  /\ \A i \in DOMAIN docs : docs[i].seq <= writes
  /\ cs \in Asking \cup Making \cup Made => EntryOr(entry).count < writes
  /\ cs \in WillNumber => EntryOr(entry).seq < writes
\* What the write has read is still so.
UpToDate(cs, id, held, seq) ==
  /\ cs \in Making => id \notin DOMAIN docs
  /\ cs \in Replacing \cup Taking \cup Marking => id \in DOMAIN docs
  /\ cs \in Marking => held = docs[id]
  /\ cs \in SavesEntry => held = EntryOr(entry)
  /\ cs \in Puts => /\ seq <= writes
                    /\ ~lost => seq < EntryOr(entry).seq /\ \A i \in DOMAIN docs : docs[i].seq < seq

Good(cs, id, held, seq) ==
  Counted(cs) /\ Numbered /\ Bounded(cs) /\ UpToDate(cs, id, held, seq)

DocsInv ==
  /\ DataShape /\ WriterShape /\ OneWriter
  /\ DocsQuiet => Good(<<>>, Nothing, Nothing, 0)
  /\ \A w \in Writers : writer[w] # Resting =>
       Good(writer[w].calls, writer[w].id, writer[w].held, writer[w].seq)

\* The calls left, one by one: which comes next, and what is left after it.
LEMMA EveryCall ==
  ASSUME NEW cs \in CallsLeft, cs # <<>>
  PROVE  \/ cs = <<"get">> /\ Head(cs) = "get" /\ Tail(cs) = <<>>
         \/ cs = <<"read", "seq", "put", "read", "count+">> /\ Head(cs) = "read" /\ Tail(cs) = <<"seq", "put", "read", "count+">>
         \/ cs = <<"seq", "put", "read", "count+">> /\ Head(cs) = "seq" /\ Tail(cs) = <<"put", "read", "count+">>
         \/ cs = <<"put", "read", "count+">> /\ Head(cs) = "put" /\ Tail(cs) = <<"read", "count+">>
         \/ cs = <<"read", "count+">> /\ Head(cs) = "read" /\ Tail(cs) = <<"count+">>
         \/ cs = <<"count+">> /\ Head(cs) = "count+" /\ Tail(cs) = <<>>
         \/ cs = <<"read", "seq", "put">> /\ Head(cs) = "read" /\ Tail(cs) = <<"seq", "put">>
         \/ cs = <<"seq", "put">> /\ Head(cs) = "seq" /\ Tail(cs) = <<"put">>
         \/ cs = <<"put">> /\ Head(cs) = "put" /\ Tail(cs) = <<>>
         \/ cs = <<"drop", "read", "count-", "read", "seq">> /\ Head(cs) = "drop" /\ Tail(cs) = <<"read", "count-", "read", "seq">>
         \/ cs = <<"drop", "read", "count-">> /\ Head(cs) = "drop" /\ Tail(cs) = <<"read", "count-">>
         \/ cs = <<"read", "count-", "read", "seq">> /\ Head(cs) = "read" /\ Tail(cs) = <<"count-", "read", "seq">>
         \/ cs = <<"count-", "read", "seq">> /\ Head(cs) = "count-" /\ Tail(cs) = <<"read", "seq">>
         \/ cs = <<"read", "count-">> /\ Head(cs) = "read" /\ Tail(cs) = <<"count-">>
         \/ cs = <<"count-">> /\ Head(cs) = "count-" /\ Tail(cs) = <<>>
         \/ cs = <<"mark">> /\ Head(cs) = "mark" /\ Tail(cs) = <<>>
         \/ cs = <<"read", "seq">> /\ Head(cs) = "read" /\ Tail(cs) = <<"seq">>
         \/ cs = <<"seq">> /\ Head(cs) = "seq" /\ Tail(cs) = <<>>
<1>1. CASE cs = <<"get">>
  BY <1>1
<1>2. CASE cs = <<"read", "seq", "put", "read", "count+">>
  BY <1>2
<1>3. CASE cs = <<"seq", "put", "read", "count+">>
  BY <1>3
<1>4. CASE cs = <<"put", "read", "count+">>
  BY <1>4
<1>5. CASE cs = <<"read", "count+">>
  BY <1>5
<1>6. CASE cs = <<"count+">>
  BY <1>6
<1>7. CASE cs = <<"read", "seq", "put">>
  BY <1>7
<1>8. CASE cs = <<"seq", "put">>
  BY <1>8
<1>9. CASE cs = <<"put">>
  BY <1>9
<1>10. CASE cs = <<"drop", "read", "count-", "read", "seq">>
  BY <1>10
<1>11. CASE cs = <<"drop", "read", "count-">>
  BY <1>11
<1>12. CASE cs = <<"read", "count-", "read", "seq">>
  BY <1>12
<1>13. CASE cs = <<"count-", "read", "seq">>
  BY <1>13
<1>14. CASE cs = <<"read", "count-">>
  BY <1>14
<1>15. CASE cs = <<"count-">>
  BY <1>15
<1>16. CASE cs = <<"mark">>
  BY <1>16
<1>17. CASE cs = <<"read", "seq">>
  BY <1>17
<1>18. CASE cs = <<"seq">>
  BY <1>18
<1> QED
  BY <1>1, <1>2, <1>3, <1>4, <1>5, <1>6, <1>7, <1>8, <1>9, <1>10, <1>11, <1>12, <1>13, <1>14, <1>15, <1>16, <1>17, <1>18
     DEF CallsLeft, Asking, Making, Made, Replacing, Taking, Taken, Marking, Numbering

LEMMA AfterRead ==
  ASSUME NEW cs \in CallsLeft, cs # <<>>, Head(cs) = "read", NEW t, t = Tail(cs)
  PROVE  /\ t \in CallsLeft /\ t \notin Asking \cup Taking \cup Marking \cup Puts
         /\ (t \in Made <=> cs \in Made) /\ (t \in Taken <=> cs \in Taken)
         /\ (t \in Making => cs \in Making) /\ (t \in Replacing => cs \in Replacing)
         /\ (t \in WillNumber => cs \in WillNumber)
<1>1. \/ cs = <<"read", "seq", "put", "read", "count+">> /\ t = <<"seq", "put", "read", "count+">>
      \/ cs = <<"read", "count+">> /\ t = <<"count+">>
      \/ cs = <<"read", "seq", "put">> /\ t = <<"seq", "put">>
      \/ cs = <<"read", "count-", "read", "seq">> /\ t = <<"count-", "read", "seq">>
      \/ cs = <<"read", "count-">> /\ t = <<"count-">>
      \/ cs = <<"read", "seq">> /\ t = <<"seq">>
  BY EveryCall
<1>2. CASE cs = <<"read", "seq", "put", "read", "count+">> /\ t = <<"seq", "put", "read", "count+">>
  BY <1>2 DEF Asking, Making, Made, Replacing, Taking, Taken, Marking, Numbering,
             SavesEntry, Puts, WillNumber, CallsLeft
<1>3. CASE cs = <<"read", "count+">> /\ t = <<"count+">>
  BY <1>3 DEF Asking, Making, Made, Replacing, Taking, Taken, Marking, Numbering,
             SavesEntry, Puts, WillNumber, CallsLeft
<1>4. CASE cs = <<"read", "seq", "put">> /\ t = <<"seq", "put">>
  BY <1>4 DEF Asking, Making, Made, Replacing, Taking, Taken, Marking, Numbering,
             SavesEntry, Puts, WillNumber, CallsLeft
<1>5. CASE cs = <<"read", "count-", "read", "seq">> /\ t = <<"count-", "read", "seq">>
  BY <1>5 DEF Asking, Making, Made, Replacing, Taking, Taken, Marking, Numbering,
             SavesEntry, Puts, WillNumber, CallsLeft
<1>6. CASE cs = <<"read", "count-">> /\ t = <<"count-">>
  BY <1>6 DEF Asking, Making, Made, Replacing, Taking, Taken, Marking, Numbering,
             SavesEntry, Puts, WillNumber, CallsLeft
<1>7. CASE cs = <<"read", "seq">> /\ t = <<"seq">>
  BY <1>7 DEF Asking, Making, Made, Replacing, Taking, Taken, Marking, Numbering,
             SavesEntry, Puts, WillNumber, CallsLeft
<1> QED
  BY <1>1, <1>2, <1>3, <1>4, <1>5, <1>6, <1>7

LEMMA AfterSeq ==
  ASSUME NEW cs \in CallsLeft, cs # <<>>, Head(cs) = "seq", NEW t, t = Tail(cs)
  PROVE  /\ t \in CallsLeft /\ cs \in SavesEntry /\ cs \in WillNumber
         /\ t \notin Asking \cup Taking \cup Marking \cup SavesEntry \cup WillNumber
         /\ t \notin Made \cup Taken /\ cs \notin Made \cup Taken
         /\ (t \in Making => cs \in Making) /\ (t \in Replacing => cs \in Replacing)
<1>1. \/ cs = <<"seq", "put", "read", "count+">> /\ t = <<"put", "read", "count+">>
      \/ cs = <<"seq", "put">> /\ t = <<"put">>
      \/ cs = <<"seq">> /\ t = <<>>
  BY EveryCall
<1>2. CASE cs = <<"seq", "put", "read", "count+">> /\ t = <<"put", "read", "count+">>
  BY <1>2 DEF Asking, Making, Made, Replacing, Taking, Taken, Marking, Numbering,
             SavesEntry, Puts, WillNumber, CallsLeft
<1>3. CASE cs = <<"seq", "put">> /\ t = <<"put">>
  BY <1>3 DEF Asking, Making, Made, Replacing, Taking, Taken, Marking, Numbering,
             SavesEntry, Puts, WillNumber, CallsLeft
<1>4. CASE cs = <<"seq">> /\ t = <<>>
  BY <1>4 DEF Asking, Making, Made, Replacing, Taking, Taken, Marking, Numbering,
             SavesEntry, Puts, WillNumber, CallsLeft
<1> QED
  BY <1>1, <1>2, <1>3, <1>4

LEMMA AfterPut ==
  ASSUME NEW cs \in CallsLeft, cs # <<>>, Head(cs) = "put", NEW t, t = Tail(cs)
  PROVE  /\ t \in CallsLeft /\ cs \in Puts /\ cs \notin Made \cup Taken
         /\ \/ cs \in Making /\ t \in Made
            \/ cs \in Replacing /\ t \notin Made
         /\ t \notin Asking \cup Making \cup Replacing \cup Taking \cup Taken \cup Marking
                     \cup SavesEntry \cup Puts \cup WillNumber
<1>1. \/ cs = <<"put", "read", "count+">> /\ t = <<"read", "count+">>
      \/ cs = <<"put">> /\ t = <<>>
  BY EveryCall
<1>2. CASE cs = <<"put", "read", "count+">> /\ t = <<"read", "count+">>
  BY <1>2 DEF Asking, Making, Made, Replacing, Taking, Taken, Marking, Numbering,
             SavesEntry, Puts, WillNumber, CallsLeft
<1>3. CASE cs = <<"put">> /\ t = <<>>
  BY <1>3 DEF Asking, Making, Made, Replacing, Taking, Taken, Marking, Numbering,
             SavesEntry, Puts, WillNumber, CallsLeft
<1> QED
  BY <1>1, <1>2, <1>3

LEMMA AfterMark ==
  ASSUME NEW cs \in CallsLeft, cs # <<>>, Head(cs) = "mark", NEW t, t = Tail(cs)
  PROVE  t = <<>> /\ cs \in Marking /\ cs \notin Made \cup Taken
<1>1. \/ cs = <<"mark">> /\ t = <<>>
  BY EveryCall
<1>2. CASE cs = <<"mark">> /\ t = <<>>
  BY <1>2 DEF Asking, Making, Made, Replacing, Taking, Taken, Marking, Numbering,
             SavesEntry, Puts, WillNumber, CallsLeft
<1> QED
  BY <1>1, <1>2

LEMMA AfterDrop ==
  ASSUME NEW cs \in CallsLeft, cs # <<>>, Head(cs) = "drop", NEW t, t = Tail(cs)
  PROVE  /\ t \in CallsLeft /\ cs \in Taking /\ cs \notin Made \cup Taken /\ t \in Taken
         /\ t \notin Asking \cup Making \cup Made \cup Replacing \cup Taking \cup Marking
                     \cup SavesEntry \cup Puts
         /\ (t \in WillNumber => cs \in WillNumber)
<1>1. \/ cs = <<"drop", "read", "count-", "read", "seq">> /\ t = <<"read", "count-", "read", "seq">>
      \/ cs = <<"drop", "read", "count-">> /\ t = <<"read", "count-">>
  BY EveryCall
<1>2. CASE cs = <<"drop", "read", "count-", "read", "seq">> /\ t = <<"read", "count-", "read", "seq">>
  BY <1>2 DEF Asking, Making, Made, Replacing, Taking, Taken, Marking, Numbering,
             SavesEntry, Puts, WillNumber, CallsLeft
<1>3. CASE cs = <<"drop", "read", "count-">> /\ t = <<"read", "count-">>
  BY <1>3 DEF Asking, Making, Made, Replacing, Taking, Taken, Marking, Numbering,
             SavesEntry, Puts, WillNumber, CallsLeft
<1> QED
  BY <1>1, <1>2, <1>3

LEMMA AfterCountUp ==
  ASSUME NEW cs \in CallsLeft, cs # <<>>, Head(cs) = "count+", NEW t, t = Tail(cs)
  PROVE  t = <<>> /\ cs \in Made /\ cs \notin Taken /\ cs \in SavesEntry
<1>1. \/ cs = <<"count+">> /\ t = <<>>
  BY EveryCall
<1>2. CASE cs = <<"count+">> /\ t = <<>>
  BY <1>2 DEF Asking, Making, Made, Replacing, Taking, Taken, Marking, Numbering,
             SavesEntry, Puts, WillNumber, CallsLeft
<1> QED
  BY <1>1, <1>2

LEMMA AfterCountDown ==
  ASSUME NEW cs \in CallsLeft, cs # <<>>, Head(cs) = "count-", NEW t, t = Tail(cs)
  PROVE  /\ t \in CallsLeft /\ cs \in Taken /\ cs \notin Made /\ cs \in SavesEntry
         /\ t \notin Asking \cup Making \cup Made \cup Replacing \cup Taking \cup Taken
                     \cup Marking \cup SavesEntry \cup Puts
         /\ (t \in WillNumber => cs \in WillNumber)
<1>1. \/ cs = <<"count-", "read", "seq">> /\ t = <<"read", "seq">>
      \/ cs = <<"count-">> /\ t = <<>>
  BY EveryCall
<1>2. CASE cs = <<"count-", "read", "seq">> /\ t = <<"read", "seq">>
  BY <1>2 DEF Asking, Making, Made, Replacing, Taking, Taken, Marking, Numbering,
             SavesEntry, Puts, WillNumber, CallsLeft
<1>3. CASE cs = <<"count-">> /\ t = <<>>
  BY <1>3 DEF Asking, Making, Made, Replacing, Taking, Taken, Marking, Numbering,
             SavesEntry, Puts, WillNumber, CallsLeft
<1> QED
  BY <1>1, <1>2, <1>3

LEMMA NothingLeft ==
  <<>> \notin Asking \cup Making \cup Made \cup Replacing \cup Taking \cup Taken \cup Marking
              \cup SavesEntry \cup Puts \cup WillNumber
  BY DEF Asking, Making, Made, Replacing, Taking, Taken, Marking, SavesEntry, Puts, WillNumber

LEMMA DataNumbers ==
  ASSUME DataShape
  PROVE  /\ EntryOr(entry) \in Entries /\ EntryOr(entry).count \in Nat /\ EntryOr(entry).seq \in Nat
         /\ Cardinality(DOMAIN docs) \in Nat /\ writes \in Nat /\ IsFiniteSet(DOMAIN docs)
         /\ dropped \in Nat /\ lost \in BOOLEAN
         /\ \A i \in DOMAIN docs : docs[i].seq \in Nat
<1>1. EntryOr(entry) \in Entries
  BY DEF DataShape, EntryOr, NewEntry, Entries
<1>2. Cardinality(DOMAIN docs) \in Nat /\ IsFiniteSet(DOMAIN docs)
  BY FS_CardinalityType DEF DataShape
<1>3. writes \in Nat
  BY DocumentsAssumption DEF DataShape
<1>4. /\ dropped \in Nat /\ lost \in BOOLEAN
      /\ \A i \in DOMAIN docs : docs[i].seq \in Nat
  BY DEF DataShape, DocRecords
<1> QED
  BY <1>1, <1>2, <1>3, <1>4 DEF Entries

\* An entry that was saved is an entry.
LEMMA SavedEntry ==
  ASSUME NEW e \in Entries
  PROVE  EntryOr(e) = e
  BY DocumentsAssumption DEF EntryOr, Entries

-----------------------------------------------------------------------------
(* Each call, for the write that makes it                                  *)

LEMMA ReadGood ==
  ASSUME DataShape, NEW cs \in CallsLeft, cs # <<>>, Head(cs) = "read", NEW t, t = Tail(cs),
         NEW id, NEW held, NEW seq, Good(cs, id, held, seq), UNCHANGED <<docs, entry, writes, dropped, lost>>,
         NEW e, e = EntryOr(entry)
  PROVE  DataShape' /\ Good(t, id, e, seq)'
<1>1. DataShape' /\ Numbered'
  BY DEF DataShape, Good, Numbered
<1>2. Counted(t)' /\ Bounded(t)' /\ UpToDate(t, id, e, seq)'
  BY AfterRead DEF Good, Counted, Bounded, UpToDate
<1> QED
  BY <1>1, <1>2 DEF Good

LEMMA SeqGood ==
  ASSUME DataShape, NEW cs \in CallsLeft, cs # <<>>, Head(cs) = "seq", NEW t, t = Tail(cs),
         NEW id, NEW held, NEW seq, Good(cs, id, held, seq),
         NEW e, e = [held EXCEPT !.seq = @ + 1], entry' = e, UNCHANGED <<docs, writes, dropped, lost>>
  PROVE  held \in Entries /\ DataShape' /\ Good(t, id, held, held.seq)'
<1>1. /\ cs \in SavesEntry /\ cs \in WillNumber /\ cs \notin Made \cup Taken
      /\ t \notin Asking \cup Taking \cup Marking \cup SavesEntry \cup WillNumber
      /\ t \notin Made \cup Taken
      /\ t \in Making => cs \in Making
      /\ t \in Replacing => cs \in Replacing
  BY AfterSeq
<1>2. held = EntryOr(entry) /\ held \in Entries
  BY <1>1, DataNumbers DEF Good, UpToDate
<1>3. held.seq < writes /\ held.seq \in Nat /\ held.count \in Nat /\ writes \in Nat
  BY <1>1, <1>2, DataNumbers DEF Good, Bounded
<1>4. e \in Entries /\ e.count = held.count /\ e.seq = held.seq + 1
  BY <1>2 DEF Entries
<1>5. EntryOr(entry') = e
  BY <1>4, SavedEntry
<1> SUFFICES ASSUME NEW q \in Nat, q = held.seq, NEW f, f = EntryOr(entry'), f.seq = q + 1,
                    f.count = held.count
             PROVE  held \in Entries /\ DataShape' /\ Good(t, id, held, q)'
  BY <1>3, <1>4, <1>5
<1>6. DataShape'
  BY <1>4 DEF DataShape
<1>7. \A i \in DOMAIN docs : (~lost => docs[i].seq < q) /\ docs[i].seq \in Nat
  BY <1>2, DataNumbers DEF Good, Numbered
<1>8. Numbered'
  BY <1>7 DEF Good, Numbered
<1>9. Counted(t)'
  BY <1>1, <1>2 DEF Good, Counted
<1>10. Bounded(t)'
  <2>1. q + 1 <= writes
    BY <1>3
  <2> QED
    BY <1>1, <1>2, <2>1 DEF Good, Bounded
<1>11. UpToDate(t, id, held, q)'
  <2>1. q < q + 1 /\ q <= writes
    BY <1>3
  <2> QED
    BY <1>1, <1>7, <2>1 DEF Good, UpToDate
<1> QED
  BY <1>2, <1>6, <1>8, <1>9, <1>10, <1>11 DEF Good

LEMMA PutGood ==
  ASSUME DataShape, NEW cs \in CallsLeft, cs # <<>>, Head(cs) = "put", NEW t, t = Tail(cs),
         NEW id \in DocIds, NEW held, NEW seq \in Nat, Good(cs, id, held, seq),
         NEW d \in DocRecords, d.seq = seq, NEW drop \in Droppable(id),
         docs' = Put(Pop(docs, drop), id, d), dropped' = dropped + Cardinality(drop),
         UNCHANGED <<entry, writes, lost>>
  PROVE  DataShape' /\ Good(t, id, held, seq)'
<1>1. /\ DOMAIN docs' = (DOMAIN docs \ drop) \cup {id} /\ docs'[id] = d
      /\ \A x \in DOMAIN docs' : x # id => x \in DOMAIN docs /\ docs'[x] = docs[x]
  BY DEF Put, Pop, Restrict
<1>2. drop = {} \/ (id \notin DOMAIN docs /\ \E x \in DOMAIN docs : drop = {x})
  BY DEF Droppable, Present
<1>n. /\ EntryOr(entry).count \in Nat /\ EntryOr(entry).seq \in Nat /\ writes \in Nat
      /\ Cardinality(DOMAIN docs) \in Nat /\ dropped \in Nat /\ IsFiniteSet(DOMAIN docs)
      /\ \A i \in DOMAIN docs : docs[i].seq \in Nat
  BY DataNumbers
<1>3. /\ IsFiniteSet(DOMAIN docs') /\ dropped' \in Nat /\ Cardinality(DOMAIN docs') \in Nat
      /\ Cardinality(DOMAIN docs') + dropped'
           = Cardinality(DOMAIN docs) + dropped + (IF id \in DOMAIN docs THEN 0 ELSE 1)
  <2>1. CASE drop = {}
    <3>1. DOMAIN docs' = DOMAIN docs \cup {id}
      BY <1>1, <2>1
    <3>2. dropped' = dropped
      BY <1>n, <2>1, FS_EmptySet
    <3>3. IsFiniteSet(DOMAIN docs)
      BY <1>n
    <3>4. IsFiniteSet(DOMAIN docs') /\ Cardinality(DOMAIN docs')
            = IF id \in DOMAIN docs THEN Cardinality(DOMAIN docs) ELSE Cardinality(DOMAIN docs) + 1
      BY <3>1, <3>3, FS_AddElement
    <3> QED
      BY <1>n, <3>2, <3>4
  <2>2. CASE id \notin DOMAIN docs /\ \E x \in DOMAIN docs : drop = {x}
    <3>1. PICK x \in DOMAIN docs : drop = {x}
      BY <2>2
    <3> DEFINE kept == DOMAIN docs \ {x}
    <3>2. IsFiniteSet(kept) /\ Cardinality(kept) = Cardinality(DOMAIN docs) - 1
      BY <1>n, FS_RemoveElement
    <3>3. id \notin kept /\ DOMAIN docs' = kept \cup {id}
      BY <1>1, <2>2, <3>1
    <3> HIDE DEF kept
    <3>4. /\ IsFiniteSet(DOMAIN docs') /\ Cardinality(DOMAIN docs') = Cardinality(kept) + 1
          /\ Cardinality(kept) \in Nat
      BY <3>2, <3>3, FS_AddElement, FS_CardinalityType
    <3>5. dropped' = dropped + 1
      BY <3>1, FS_Singleton
    <3>6. Cardinality(DOMAIN docs') = Cardinality(DOMAIN docs)
      BY <1>n, <3>2, <3>4
    <3>7. IsFiniteSet(DOMAIN docs')
      BY <3>4
    <3>8. id \notin DOMAIN docs /\ Cardinality(DOMAIN docs) \in Nat /\ dropped \in Nat
      BY <1>n, <2>2
    <3>9. dropped' \in Nat /\ Cardinality(DOMAIN docs') \in Nat
      BY <3>5, <3>6, <3>8
    <3>10. Cardinality(DOMAIN docs') + dropped' = Cardinality(DOMAIN docs) + dropped + 1
      BY <3>5, <3>6, <3>8
    <3> QED
      BY <3>7, <3>8, <3>9, <3>10
  <2> QED
    BY <1>2, <2>1, <2>2
<1>4. DataShape'
  BY <1>1, <1>3 DEF DataShape
<1>5. seq <= writes /\ (~lost => seq < EntryOr(entry).seq /\ \A i \in DOMAIN docs : docs[i].seq < seq)
  BY AfterPut DEF Good, UpToDate
<1>6. Numbered'
  <2> SUFFICES ASSUME ~lost
               PROVE  /\ \A i \in DOMAIN docs' : docs'[i].seq < EntryOr(entry).seq
                      /\ \A i, j \in DOMAIN docs' : docs'[i].seq = docs'[j].seq => i = j
    BY DEF Numbered
  <2>1. /\ \A i \in DOMAIN docs : docs[i].seq < EntryOr(entry).seq
        /\ \A i, j \in DOMAIN docs : docs[i].seq = docs[j].seq => i = j
    BY DEF Good, Numbered
  <2> QED
    BY <1>1, <1>5, <1>n, <2>1
<1>7. \A i \in DOMAIN docs' : docs'[i].seq <= writes
  BY <1>1, <1>5 DEF Good, Bounded
<1>a. /\ cs \notin Made \cup Taken
      /\ t \notin Asking \cup Making \cup Replacing \cup Taking \cup Taken \cup Marking
                  \cup SavesEntry \cup Puts \cup WillNumber
  BY AfterPut
<1>8. UpToDate(t, id, held, seq)'
  BY <1>a DEF UpToDate
<1>9. CASE cs \in Making /\ t \in Made
  <2>1. id \notin DOMAIN docs
    BY <1>9 DEF Good, UpToDate
  <2>2. Counted(t)'
    BY <1>9, <1>n, <1>a, <1>3, <2>1 DEF Good, Counted
  <2>3. Bounded(t)'
    BY <1>7, <1>9, <1>n, <1>a DEF Good, Bounded
  <2> QED
    BY <1>4, <1>6, <1>8, <2>2, <2>3 DEF Good
<1>10. CASE cs \in Replacing /\ t \notin Made
  <2>1. id \in DOMAIN docs
    BY <1>10 DEF Good, UpToDate
  <2>2. Counted(t)'
    BY <1>10, <1>n, <1>a, <1>3, <2>1 DEF Good, Counted
  <2>3. Bounded(t)'
    BY <1>7, <1>10, <1>a DEF Good, Bounded
  <2> QED
    BY <1>4, <1>6, <1>8, <2>2, <2>3 DEF Good
<1> QED
  BY <1>9, <1>10, AfterPut

LEMMA MarkGood ==
  ASSUME DataShape, NEW cs \in CallsLeft, cs # <<>>, Head(cs) = "mark", NEW t, t = Tail(cs),
         NEW id \in DocIds, NEW held, NEW seq, Good(cs, id, held, seq),
         NEW d, d = [held EXCEPT !.deleted = TRUE], docs' = Put(docs, id, d),
         UNCHANGED <<entry, writes, dropped, lost>>
  PROVE  DataShape' /\ Good(t, id, held, seq)'
<1>1. t = <<>> /\ id \in DOMAIN docs /\ held = docs[id] /\ cs \notin Made \cup Taken
  BY AfterMark DEF Good, UpToDate
<1>2. d \in DocRecords /\ d.seq = docs[id].seq
  BY <1>1 DEF DataShape, DocRecords
<1>3. /\ DOMAIN docs' = DOMAIN docs /\ docs'[id] = d
      /\ \A x \in DOMAIN docs : x # id => docs'[x] = docs[x]
  BY <1>1 DEF Put
<1>4. DataShape'
  BY <1>2, <1>3 DEF DataShape
<1>5. \A x \in DOMAIN docs : docs'[x].seq = docs[x].seq
  BY <1>2, <1>3
<1>6. Numbered'
  <2> SUFFICES ASSUME ~lost PROVE Numbered'
    BY DEF Numbered
  <2>1. \A i \in DOMAIN docs' : docs'[i].seq < EntryOr(entry').seq
    BY <1>3, <1>5 DEF Good, Numbered
  <2>2. ASSUME NEW i \in DOMAIN docs', NEW j \in DOMAIN docs', docs'[i].seq = docs'[j].seq
        PROVE  i = j
    <3>1. docs[i].seq = docs[j].seq /\ i \in DOMAIN docs /\ j \in DOMAIN docs
      BY <1>3, <1>5, <2>2
    <3> QED
      BY <3>1 DEF Good, Numbered
  <2> QED
    BY <2>1, <2>2 DEF Numbered
<1>7. Counted(t)' /\ Bounded(t)' /\ UpToDate(t, id, held, seq)'
  BY <1>1, <1>3, <1>5, NothingLeft DEF Good, Counted, Bounded, UpToDate
<1> QED
  BY <1>4, <1>6, <1>7 DEF Good

LEMMA DropGood ==
  ASSUME DataShape, NEW cs \in CallsLeft, cs # <<>>, Head(cs) = "drop", NEW t, t = Tail(cs),
         NEW id, NEW held, NEW seq, Good(cs, id, held, seq),
         docs' = Pop(docs, {id}), UNCHANGED <<entry, writes, dropped, lost>>
  PROVE  DataShape' /\ Good(t, id, held, seq)'
<1>1. id \in DOMAIN docs
  BY AfterDrop DEF Good, UpToDate
<1>2. DOMAIN docs' = DOMAIN docs \ {id} /\ \A x \in DOMAIN docs' : docs'[x] = docs[x]
  BY DEF Pop, Restrict
<1>3. IsFiniteSet(DOMAIN docs') /\ Cardinality(DOMAIN docs') = Cardinality(DOMAIN docs) - 1
  BY <1>1, <1>2, DataNumbers, FS_RemoveElement
<1>n. /\ EntryOr(entry).count \in Nat /\ EntryOr(entry).seq \in Nat /\ writes \in Nat
      /\ Cardinality(DOMAIN docs) \in Nat /\ dropped \in Nat /\ lost \in BOOLEAN
  BY DataNumbers
<1>a. /\ cs \notin Made \cup Taken /\ t \in Taken
      /\ t \notin Asking \cup Making \cup Made \cup Replacing \cup Taking \cup Marking
                  \cup SavesEntry \cup Puts
      /\ t \in WillNumber => cs \in WillNumber
  BY AfterDrop
<1>4. DataShape'
  BY <1>2, <1>3 DEF DataShape
<1>5. Numbered'
  BY <1>2 DEF Good, Numbered
<1>6. Counted(t)'
  BY <1>3, <1>n, <1>a DEF Good, Counted
<1>7. Bounded(t)'
  BY <1>2, <1>a DEF Good, Bounded
<1>8. UpToDate(t, id, held, seq)'
  BY <1>a DEF UpToDate
<1> QED
  BY <1>4, <1>5, <1>6, <1>7, <1>8 DEF Good

LEMMA CountGood ==
  ASSUME DataShape, NEW cs \in CallsLeft, cs # <<>>, NEW t, t = Tail(cs),
         NEW id, NEW held, NEW seq, Good(cs, id, held, seq), UNCHANGED <<docs, writes, dropped, lost>>,
         \/ Head(cs) = "count+" /\ entry' = [held EXCEPT !.count = @ + 1]
         \/ Head(cs) = "count-" /\ entry' = [held EXCEPT !.count = Less(@, 1)]
  PROVE  DataShape' /\ Good(t, id, held, seq)'
<1>1. held = EntryOr(entry) /\ held \in Entries
  BY AfterCountUp, AfterCountDown, DataNumbers DEF Good, UpToDate
<1>2. held.count \in Nat /\ held.seq \in Nat
  BY <1>1 DEF Entries
<1>n. /\ EntryOr(entry).count \in Nat /\ EntryOr(entry).seq \in Nat /\ writes \in Nat
      /\ Cardinality(DOMAIN docs) \in Nat /\ dropped \in Nat /\ lost \in BOOLEAN
  BY DataNumbers
<1>3. /\ entry' \in Entries /\ entry'.seq = held.seq /\ entry'.count \in Nat
      /\ entry'.count <= writes
      /\ ~lost => entry'.count = Cardinality(DOMAIN docs) + dropped
  <2>1. CASE Head(cs) = "count+" /\ entry' = [held EXCEPT !.count = @ + 1]
    <3>a. cs \in Made /\ cs \notin Taken
      BY <2>1, AfterCountUp
    <3>1. /\ held.count < writes
          /\ ~lost => held.count + 1 = Cardinality(DOMAIN docs) + dropped
      BY <1>1, <1>2, <1>n, <3>a DEF Good, Counted, Bounded
    <3>2. entry' \in Entries /\ entry'.seq = held.seq /\ entry'.count = held.count + 1
      BY <1>1, <1>2, <2>1 DEF Entries
    <3> QED
      BY <1>2, <1>n, <3>1, <3>2
  <2>2. CASE Head(cs) = "count-" /\ entry' = [held EXCEPT !.count = Less(@, 1)]
    <3>a. cs \notin Made /\ cs \in Taken
      BY <2>2, AfterCountDown
    <3>1. /\ held.count <= writes
          /\ ~lost => held.count = Cardinality(DOMAIN docs) + dropped + 1
      BY <1>1, <1>2, <1>n, <3>a DEF Good, Counted, Bounded
    <3>2. Less(held.count, 1) \in Nat /\ Less(held.count, 1) <= held.count
      BY <1>2 DEF Less
    <3>3. ASSUME ~lost PROVE Less(held.count, 1) = Cardinality(DOMAIN docs) + dropped
      <4>1. held.count = Cardinality(DOMAIN docs) + dropped + 1
        BY <3>1, <3>3
      <4>2. held.count - 1 = Cardinality(DOMAIN docs) + dropped
        BY <1>n, <4>1
      <4> QED
        BY <1>n, <4>1, <4>2 DEF Less
    <3>4. entry' \in Entries /\ entry'.seq = held.seq /\ entry'.count = Less(held.count, 1)
      BY <1>1, <1>2, <2>2, <3>2 DEF Entries
    <3> QED
      BY <1>2, <1>n, <3>1, <3>2, <3>3, <3>4
  <2> QED
    BY <2>1, <2>2
<1>4. EntryOr(entry') = entry'
  BY <1>3, SavedEntry
<1>5. DataShape'
  BY <1>3 DEF DataShape
<1>6. Numbered'
  BY <1>1, <1>3, <1>4 DEF Good, Numbered
<1>7. /\ t \notin Asking \cup Making \cup Made \cup Replacing \cup Taking \cup Taken \cup Marking
                  \cup SavesEntry \cup Puts
      /\ t \in WillNumber => cs \in WillNumber
  BY AfterCountUp, AfterCountDown, NothingLeft
<1>8. Counted(t)'
  BY <1>3, <1>4, <1>7, <1>n DEF Counted
<1>9. Bounded(t)'
  BY <1>1, <1>3, <1>4, <1>7, <1>n DEF Good, Bounded
<1>10. UpToDate(t, id, held, seq)'
  BY <1>7 DEF UpToDate
<1> QED
  BY <1>5, <1>6, <1>8, <1>9, <1>10 DEF Good

-----------------------------------------------------------------------------
(* Every step of the documents                                             *)

LEMMA DocsInitially == DocsInit => DocsInv
<1> SUFFICES ASSUME DocsInit PROVE DocsInv
  OBVIOUS
<1>1. /\ DOMAIN docs = {} /\ entry = Nothing /\ writes = 0 /\ dropped = 0 /\ lost = FALSE
      /\ writer = [w \in Writers |-> Resting]
  BY EmptyEntries DEF DocsInit
<1>2. IsFiniteSet({}) /\ Cardinality({}) = 0
  BY FS_EmptySet
<1>a. lost \in BOOLEAN
  BY <1>1
<1>b. dropped \in Nat /\ writes \in 0..MaxWrites
  <2>1. MaxWrites \in Nat
    BY DocumentsAssumption
  <2>2. dropped = 0 /\ writes = 0
    BY <1>1
  <2> QED
    BY <2>1, <2>2
<1>c. DataShape
  BY <1>1, <1>2, <1>a, <1>b DEF DataShape
<1>3. DataShape /\ WriterShape /\ OneWriter /\ \A w \in Writers : writer[w] = Resting
  BY <1>1, <1>c DEF WriterShape, OneWriter
<1>4. EntryOr(entry).count = 0 /\ EntryOr(entry).seq = 0
  BY <1>1 DEF EntryOr, NewEntry
<1>5. Good(<<>>, Nothing, Nothing, 0)
  BY <1>1, <1>2, <1>4, NothingLeft DEF Good, Counted, Numbered, Bounded, UpToDate
<1> QED
  BY <1>3, <1>5 DEF DocsInv

LEMMA DocsUntouched ==
  ASSUME DocsInv, UNCHANGED docVars
  PROVE  DocsInv'
  BY DEF DocsInv, docVars, DataShape, WriterShape, OneWriter, DocsQuiet, Good, Counted, Numbered,
         Bounded, UpToDate

\* With nothing left to do, what was read does not matter.
LEMMA GoodAtRest ==
  ASSUME NEW id, NEW held, NEW seq, Good(<<>>, id, held, seq)
  PROVE  Good(<<>>, Nothing, Nothing, 0)
  BY NothingLeft DEF Good, UpToDate

LEMMA GoodAtRestNext ==
  ASSUME NEW id, NEW held, NEW seq, Good(<<>>, id, held, seq)'
  PROVE  Good(<<>>, Nothing, Nothing, 0)'
  BY NothingLeft DEF Good, UpToDate

LEMMA BusyIsNotResting ==
  ASSUME NEW m, m.calls # <<>>
  PROVE  m # Resting
  BY DEF Resting

\* One write is under way, and moves on.
LEMMA OneMoves ==
  ASSUME DocsInv, NEW w \in Writers, writer[w] # Resting \/ DocsQuiet,
         NEW m, m = Resting \/ (m \in Busy /\ m.calls # <<>>),
         writer' = [writer EXCEPT ![w] = m], DataShape',
         m = Resting => Good(<<>>, Nothing, Nothing, 0)',
         m # Resting => Good(m.calls, m.id, m.held, m.seq)'
  PROVE  DocsInv'
<1>1. DOMAIN writer = Writers /\ OneWriter
  BY DEF DocsInv, WriterShape
<1>2. DOMAIN writer' = Writers /\ writer'[w] = m /\ \A v \in Writers : v # w => writer'[v] = writer[v]
  BY <1>1
<1>3. \A v \in Writers : v # w => writer[v] = Resting
  BY <1>1 DEF OneWriter, DocsQuiet
<1>4. WriterShape' /\ OneWriter'
  BY <1>2, <1>3 DEF WriterShape, OneWriter
<1>5. DocsQuiet' => m = Resting
  BY <1>2 DEF DocsQuiet
<1>6. ASSUME NEW v \in Writers, writer'[v] # Resting
      PROVE  writer'[v] = m /\ Good(m.calls, m.id, m.held, m.seq)'
  BY <1>2, <1>3, <1>6
<1> QED
  BY <1>4, <1>5, <1>6 DEF DocsInv

\* The same for a call of a write that goes on to what is left after it.
LEMMA GoesStep ==
  ASSUME DocsInv, NEW w \in Writers, writer[w] # Resting, NEW cs, cs = writer[w].calls,
         NEW t, t = Tail(cs), t \in CallsLeft, NEW moved \in Busy, moved.calls = cs,
         Goes(w, moved), DataShape', Good(t, moved.id, moved.held, moved.seq)'
  PROVE  DocsInv'
<1> DEFINE m == IF t = <<>> THEN Resting ELSE [moved EXCEPT !.calls = t]
<1>1. writer' = [writer EXCEPT ![w] = m]
  BY DEF Goes
<1>2. CASE t = <<>>
  <2>1. m = Resting
    BY <1>2
  <2>2. Good(<<>>, Nothing, Nothing, 0)'
    BY <1>2, GoodAtRestNext
  <2> HIDE DEF m
  <2> QED
    BY <1>1, <2>1, <2>2, OneMoves
<1>3. CASE t # <<>>
  <2> SUFFICES ASSUME NEW k, k = [moved EXCEPT !.calls = t], writer' = [writer EXCEPT ![w] = k]
               PROVE  DocsInv'
    BY <1>1, <1>3
  <2>1. /\ k \in Busy /\ k.calls = t /\ k.id = moved.id /\ k.held = moved.held
        /\ k.seq = moved.seq
    BY DEF Busy
  <2>2. k # Resting
    BY <1>3, <2>1, BusyIsNotResting
  <2>3. Good(k.calls, k.id, k.held, k.seq)'
    BY <2>1
  <2> QED
    BY <1>3, <2>1, <2>2, <2>3, OneMoves
<1> QED
  BY <1>2, <1>3

\* What is known of a write under way when it makes its next call.
LEMMA AtCall ==
  ASSUME DocsInv, NEW w \in Writers, NEW call, At(w, call), NEW me, me = writer[w]
  PROVE  /\ writer[w] # Resting /\ me \in Busy /\ DataShape
         /\ me.calls \in CallsLeft /\ me.calls # <<>> /\ Head(me.calls) = call
         /\ me.id \in DocIds /\ me.seq \in Nat /\ me.visible \in BOOLEAN
         /\ me.held \in Entries \cup DocRecords \cup {Nothing}
         /\ Good(me.calls, me.id, me.held, me.seq)
<1>1. me.calls # <<>> /\ Head(me.calls) = call
  BY DEF At
<1>2. writer[w] # Resting
  BY <1>1, BusyIsNotResting
<1>3. me \in Busy /\ DataShape /\ Good(me.calls, me.id, me.held, me.seq)
  BY <1>2 DEF DocsInv, WriterShape
<1>4. /\ me.id \in DocIds /\ me.seq \in Nat /\ me.visible \in BOOLEAN /\ me.calls \in CallsLeft
      /\ me.held \in Entries \cup DocRecords \cup {Nothing}
  BY <1>3 DEF Busy
<1> QED
  BY <1>1, <1>2, <1>3, <1>4

LEMMA ReadStep ==
  ASSUME DocsInv, NEW w \in Writers, ReadEntry(w)
  PROVE  DocsInv'
<1> SUFFICES ASSUME NEW me, me = writer[w], NEW cs, cs = me.calls, NEW t, t = Tail(cs),
                    NEW e, e = EntryOr(entry), NEW moved, moved = [me EXCEPT !.held = e]
             PROVE  DocsInv'
  OBVIOUS
<1>1. At(w, "read") /\ Goes(w, moved) /\ UNCHANGED <<docs, entry, writes, dropped, lost>>
  BY DEF ReadEntry, Goes
<1>2. /\ writer[w] # Resting /\ me \in Busy /\ DataShape /\ cs \in CallsLeft /\ cs # <<>>
      /\ Head(cs) = "read" /\ Good(cs, me.id, me.held, me.seq)
  BY <1>1, AtCall
<1>3. t \in CallsLeft
  BY <1>2, AfterRead
<1>4. e \in Entries
  BY <1>2, DataNumbers
<1>5. moved \in Busy /\ moved.calls = cs /\ moved.id = me.id /\ moved.held = e /\ moved.seq = me.seq
  BY <1>2, <1>4 DEF Busy
<1>6. DataShape' /\ Good(t, me.id, e, me.seq)'
  BY <1>1, <1>2, ReadGood
<1> QED
  BY <1>1, <1>2, <1>3, <1>5, <1>6, GoesStep

LEMMA SeqStep ==
  ASSUME DocsInv, NEW w \in Writers, TakeSeqNo(w)
  PROVE  DocsInv'
<1> SUFFICES ASSUME NEW me, me = writer[w], NEW cs, cs = me.calls, NEW t, t = Tail(cs),
                    NEW q, q = me.held.seq, NEW moved, moved = [me EXCEPT !.seq = q]
             PROVE  DocsInv'
  OBVIOUS
<1>1. /\ At(w, "seq") /\ Goes(w, moved) /\ UNCHANGED <<docs, writes, dropped, lost>>
      /\ entry' = [me.held EXCEPT !.seq = @ + 1]
  BY DEF TakeSeqNo, Goes
<1>2. /\ writer[w] # Resting /\ me \in Busy /\ DataShape /\ cs \in CallsLeft /\ cs # <<>>
      /\ Head(cs) = "seq" /\ Good(cs, me.id, me.held, me.seq)
  BY <1>1, AtCall
<1>3. t \in CallsLeft
  BY <1>2, AfterSeq
<1>4. me.held \in Entries /\ DataShape' /\ Good(t, me.id, me.held, q)'
  BY <1>1, <1>2, SeqGood
<1>5. /\ moved \in Busy /\ moved.calls = cs /\ moved.id = me.id /\ moved.held = me.held
      /\ moved.seq = q
  BY <1>2, <1>4 DEF Busy, Entries
<1> QED
  BY <1>1, <1>2, <1>3, <1>4, <1>5, GoesStep

LEMMA PutStep ==
  ASSUME DocsInv, NEW w \in Writers, NEW drop, PutDocument(w, drop)
  PROVE  DocsInv'
<1> SUFFICES ASSUME NEW me, me = writer[w], NEW cs, cs = me.calls, NEW t, t = Tail(cs),
                    NEW d, d = [seq |-> me.seq, deleted |-> FALSE,
                                pending |-> me.op # "update" /\ ~me.visible]
             PROVE  DocsInv'
  OBVIOUS
<1>1. /\ At(w, "put") /\ Goes(w, me) /\ UNCHANGED <<entry, writes, lost>>
      /\ drop \in Droppable(me.id) /\ docs' = Put(Pop(docs, drop), me.id, d)
      /\ dropped' = dropped + Cardinality(drop)
  BY DEF PutDocument, Goes
<1>2. /\ writer[w] # Resting /\ me \in Busy /\ DataShape /\ cs \in CallsLeft /\ cs # <<>>
      /\ Head(cs) = "put" /\ Good(cs, me.id, me.held, me.seq) /\ me.id \in DocIds /\ me.seq \in Nat
  BY <1>1, AtCall
<1>3. t \in CallsLeft
  BY <1>2, AfterPut
<1>4. d \in DocRecords /\ d.seq = me.seq
  BY <1>2 DEF DocRecords
<1>5. DataShape' /\ Good(t, me.id, me.held, me.seq)'
  BY <1>1, <1>2, <1>4, PutGood
<1> QED
  BY <1>1, <1>2, <1>3, <1>5, GoesStep

LEMMA MarkStep ==
  ASSUME DocsInv, NEW w \in Writers, MarkDeleted(w)
  PROVE  DocsInv'
<1> SUFFICES ASSUME NEW me, me = writer[w], NEW cs, cs = me.calls, NEW t, t = Tail(cs),
                    NEW d, d = [me.held EXCEPT !.deleted = TRUE]
             PROVE  DocsInv'
  OBVIOUS
<1>1. /\ At(w, "mark") /\ Goes(w, me) /\ UNCHANGED <<entry, writes, dropped, lost>>
      /\ docs' = Put(docs, me.id, d)
  BY DEF MarkDeleted, Goes
<1>2. /\ writer[w] # Resting /\ me \in Busy /\ DataShape /\ cs \in CallsLeft /\ cs # <<>>
      /\ Head(cs) = "mark" /\ Good(cs, me.id, me.held, me.seq) /\ me.id \in DocIds
  BY <1>1, AtCall
<1>3. t \in CallsLeft
  BY <1>2, AfterMark DEF CallsLeft
<1>4. DataShape' /\ Good(t, me.id, me.held, me.seq)'
  BY <1>1, <1>2, MarkGood
<1> QED
  BY <1>1, <1>2, <1>3, <1>4, GoesStep

LEMMA DropStep ==
  ASSUME DocsInv, NEW w \in Writers, DropDocument(w)
  PROVE  DocsInv'
<1> SUFFICES ASSUME NEW me, me = writer[w], NEW cs, cs = me.calls, NEW t, t = Tail(cs)
             PROVE  DocsInv'
  OBVIOUS
<1>1. /\ At(w, "drop") /\ Goes(w, me) /\ UNCHANGED <<entry, writes, dropped, lost>>
      /\ docs' = Pop(docs, {me.id})
  BY DEF DropDocument, Goes
<1>2. /\ writer[w] # Resting /\ me \in Busy /\ DataShape /\ cs \in CallsLeft /\ cs # <<>>
      /\ Head(cs) = "drop" /\ Good(cs, me.id, me.held, me.seq)
  BY <1>1, AtCall
<1>3. t \in CallsLeft
  BY <1>2, AfterDrop
<1>4. DataShape' /\ Good(t, me.id, me.held, me.seq)'
  BY <1>1, <1>2, DropGood
<1> QED
  BY <1>1, <1>2, <1>3, <1>4, GoesStep

LEMMA CountStep ==
  ASSUME DocsInv, NEW w \in Writers, CountDocument(w)
  PROVE  DocsInv'
<1> SUFFICES ASSUME NEW me, me = writer[w], NEW cs, cs = me.calls, NEW t, t = Tail(cs)
             PROVE  DocsInv'
  OBVIOUS
<1>1. /\ Goes(w, me) /\ UNCHANGED <<docs, writes, dropped, lost>>
      /\ \/ At(w, "count+") /\ entry' = [me.held EXCEPT !.count = @ + 1]
         \/ At(w, "count-") /\ entry' = [me.held EXCEPT !.count = Less(@, 1)]
  BY DEF CountDocument, Goes
<1>2. /\ writer[w] # Resting /\ me \in Busy /\ DataShape /\ cs \in CallsLeft /\ cs # <<>>
      /\ Good(cs, me.id, me.held, me.seq)
      /\ \/ Head(cs) = "count+" /\ entry' = [me.held EXCEPT !.count = @ + 1]
         \/ Head(cs) = "count-" /\ entry' = [me.held EXCEPT !.count = Less(@, 1)]
  BY <1>1, AtCall
<1>3. t \in CallsLeft
  BY <1>2, AfterCountUp, AfterCountDown DEF CallsLeft
<1>4. DataShape' /\ Good(t, me.id, me.held, me.seq)'
  BY <1>1, <1>2, CountGood
<1> QED
  BY <1>1, <1>2, <1>3, <1>4, GoesStep

\* A write begins only while no other is under way.
LEMMA BeginStep ==
  ASSUME DocsInv, ~Overlap, NEW w \in Writers, NEW op \in Ops, NEW id \in DocIds,
         NEW visible \in BOOLEAN, NEW cond \in 0..MaxWrites - 1 \union {Nothing},
         Begin(w, op, id, cond, visible)
  PROVE  DocsInv'
<1> SUFFICES ASSUME NEW m, m = [op |-> op, calls |-> <<"get">>, id |-> id, cond |-> cond,
                                visible |-> visible, held |-> Nothing, seq |-> 0]
             PROVE  DocsInv'
  OBVIOUS
<1>1. /\ DocsQuiet /\ writes < MaxWrites /\ writes' = writes + 1
      /\ writer' = [writer EXCEPT ![w] = m] /\ UNCHANGED <<docs, entry, dropped, lost>>
  BY DEF Begin
<1>2. DataShape /\ Good(<<>>, Nothing, Nothing, 0)
  BY <1>1 DEF DocsInv
<1>3. /\ EntryOr(entry).count \in Nat /\ EntryOr(entry).seq \in Nat /\ writes \in Nat
      /\ Cardinality(DOMAIN docs) \in Nat /\ dropped \in Nat /\ lost \in BOOLEAN
  BY <1>2, DataNumbers
<1>4. DataShape'
  BY <1>1, <1>2, <1>3, DocumentsAssumption DEF DataShape
<1>5. <<"get">> \in CallsLeft /\ <<"get">> # <<>>
  BY DEF CallsLeft, Asking
<1>6. m \in Busy /\ m.calls = <<"get">> /\ m.id = id /\ m.held = Nothing /\ m.seq = 0
  BY <1>5 DEF Busy
<1>7. <<"get">> \notin Making \cup Made \cup Replacing \cup Taking \cup Taken \cup Marking
                        \cup SavesEntry \cup Puts
  BY DEF Making, Made, Replacing, Taking, Taken, Marking, SavesEntry, Puts
<1>8. Good(<<"get">>, id, Nothing, 0)'
  <2>1. Numbered' /\ Counted(<<"get">>)'
    BY <1>1, <1>2, <1>7, NothingLeft DEF Good, Numbered, Counted
  <2>2. Bounded(<<"get">>)'
    <3>1. \A i \in DOMAIN docs : docs[i].seq \in Nat
      BY <1>2, DataNumbers
    <3> QED
      BY <1>1, <1>2, <1>3, <3>1 DEF Good, Bounded
  <2> QED
    BY <1>7, <2>1, <2>2 DEF Good, UpToDate
<1> QED
  BY <1>1, <1>4, <1>5, <1>6, <1>8, BusyIsNotResting, OneMoves

\* What a write goes on to do, and what it then knows of its document.
LEMMA CallsKnow ==
  ASSUME NEW w \in Writers, writer[w] \in Busy, NEW c, c = Calls(w), NEW id, id = writer[w].id
  PROVE  /\ c \in CallsLeft
         /\ c \in Making => id \notin DOMAIN docs
         /\ c \in Replacing \cup Taking \cup Marking => id \in DOMAIN docs
         /\ c \notin Asking \cup Made \cup Taken \cup SavesEntry \cup Puts
<1>1. writer[w].op \in {"index", "create", "update", "scripted_delete", "delete",
                        "bulk_create", "bulk_delete"}
  BY DocumentsAssumption DEF Busy
<1>2. \/ c = <<"read", "seq", "put">> /\ id \in DOMAIN docs
      \/ c = <<"read", "seq", "put", "read", "count+">> /\ id \notin DOMAIN docs
      \/ c = <<"drop", "read", "count-", "read", "seq">> /\ id \in DOMAIN docs
      \/ c = <<"drop", "read", "count-">> /\ id \in DOMAIN docs
      \/ c = <<"mark">> /\ id \in DOMAIN docs
      \/ c = <<"read", "seq">> \/ c = <<>>
  <2>1. CASE writer[w].op \in {"index", "create", "bulk_create", "update"}
    BY <2>1 DEF Calls, Present
  <2>2. CASE writer[w].op = "scripted_delete"
    BY <2>2 DEF Calls, Present
  <2>3. CASE writer[w].op \in {"delete", "bulk_delete"}
    BY <2>3 DEF Calls, Present, Found
  <2> QED
    BY <1>1, <2>1, <2>2, <2>3
<1>3. CASE c = <<"read", "seq", "put">> /\ id \in DOMAIN docs
  BY <1>3 DEF CallsLeft, Asking, Making, Made, Replacing, Taking, Taken, Marking, SavesEntry, Puts
<1>4. CASE c = <<"read", "seq", "put", "read", "count+">> /\ id \notin DOMAIN docs
  BY <1>4 DEF CallsLeft, Asking, Making, Made, Replacing, Taking, Taken, Marking, SavesEntry, Puts
<1>5. CASE c = <<"drop", "read", "count-", "read", "seq">> /\ id \in DOMAIN docs
  BY <1>5 DEF CallsLeft, Asking, Making, Made, Replacing, Taking, Taken, Marking, SavesEntry, Puts
<1>6. CASE c = <<"drop", "read", "count-">> /\ id \in DOMAIN docs
  BY <1>6 DEF CallsLeft, Asking, Making, Made, Replacing, Taking, Taken, Marking, SavesEntry, Puts
<1>7. CASE c = <<"mark">> /\ id \in DOMAIN docs
  BY <1>7 DEF CallsLeft, Asking, Making, Made, Replacing, Taking, Taken, Marking, SavesEntry, Puts
<1>8. CASE c = <<"read", "seq">>
  BY <1>8 DEF CallsLeft, Asking, Making, Made, Replacing, Taking, Taken, Marking, SavesEntry, Puts,
              Numbering
<1>9. CASE c = <<>>
  BY <1>9, NothingLeft DEF CallsLeft
<1> QED
  BY <1>2, <1>3, <1>4, <1>5, <1>6, <1>7, <1>8, <1>9

LEMMA GetStep ==
  ASSUME DocsInv, NEW w \in Writers, Get(w)
  PROVE  DocsInv'
<1> SUFFICES ASSUME NEW me, me = writer[w], NEW c, c = Calls(w),
                    NEW d, d = (IF Present(me.id) THEN docs[me.id] ELSE Nothing),
                    NEW k, k = [me EXCEPT !.calls = c, !.held = d],
                    NEW m, m = (IF c = <<>> THEN Resting ELSE k)
             PROVE  DocsInv'
  OBVIOUS
<1>1. /\ At(w, "get") /\ UNCHANGED <<docs, entry, writes, dropped, lost>>
      /\ writer' = [writer EXCEPT ![w] = m]
  BY DEF Get, DocsInv, WriterShape
<1>2. /\ writer[w] # Resting /\ me \in Busy /\ DataShape /\ me.calls \in CallsLeft
      /\ me.calls # <<>> /\ Head(me.calls) = "get" /\ Good(me.calls, me.id, me.held, me.seq)
  BY <1>1, AtCall
<1>3. me.calls = <<"get">>
  BY <1>2, EveryCall
<1>4. /\ <<"get">> \notin Made \cup Taken /\ <<"get">> \in Asking /\ <<"get">> \in WillNumber
  BY DEF Made, Taken, Asking, WillNumber
<1>5. /\ c \in CallsLeft
      /\ c \in Making => me.id \notin DOMAIN docs
      /\ c \in Replacing \cup Taking \cup Marking => me.id \in DOMAIN docs
      /\ c \notin Asking \cup Made \cup Taken \cup SavesEntry \cup Puts
  BY <1>2, CallsKnow
<1>6. DataShape' /\ Numbered'
  BY <1>1, <1>2 DEF DataShape, Good, Numbered
<1>7. Counted(c)' /\ Bounded(c)'
  BY <1>1, <1>2, <1>3, <1>4, <1>5 DEF Good, Counted, Bounded
<1>8. UpToDate(c, me.id, d, me.seq)'
  BY <1>1, <1>5 DEF UpToDate, Present
<1>9. Good(c, me.id, d, me.seq)'
  BY <1>6, <1>7, <1>8 DEF Good
<1>10. CASE c = <<>>
  <2>1. Good(<<>>, Nothing, Nothing, 0)'
    BY <1>9, <1>10, GoodAtRestNext
  <2> QED
    BY <1>1, <1>2, <1>6, <1>10, <2>1, OneMoves
<1>11. CASE c # <<>>
  <2>1. d \in Entries \cup DocRecords \cup {Nothing}
    BY <1>2 DEF DataShape, Present
  <2>2. k \in Busy /\ k.calls = c /\ k.id = me.id /\ k.held = d /\ k.seq = me.seq
    BY <1>2, <1>5, <2>1 DEF Busy
  <2>3. k # Resting /\ m = k
    BY <1>11, <2>2, BusyIsNotResting
  <2>4. writer' = [writer EXCEPT ![w] = k] /\ k.calls # <<>>
    BY <1>1, <1>11, <2>2, <2>3
  <2>5. Good(k.calls, k.id, k.held, k.seq)'
    BY <1>9, <2>2
  <2> QED
    BY <1>2, <1>6, <2>2, <2>3, <2>4, <2>5, OneMoves
<1> QED
  BY <1>10, <1>11

\* Between writes, an operation on the whole index leaves no write under way.
LEMMA QuietStep ==
  ASSUME DocsInv, DocsQuiet, UNCHANGED writer, DataShape', Good(<<>>, Nothing, Nothing, 0)'
  PROVE  DocsInv'
  BY DEF DocsInv, DocsQuiet, WriterShape, OneWriter

\* An index that is created, deleted or reset is empty.
LEMMA EmptyStep ==
  ASSUME DocsInv, DocsQuiet, UNCHANGED <<writer, writes>>, DOMAIN docs' = {},
         entry' \in {Nothing, NewEntry}, dropped' = 0, lost' = FALSE
  PROVE  DocsInv'
<1>1. IsFiniteSet({}) /\ Cardinality({}) = 0
  BY FS_EmptySet
<1>2. NewEntry \in Entries
  BY DEF NewEntry, Entries
<1>3. DataShape'
  BY <1>1, <1>2 DEF DocsInv, DataShape
<1>4. EntryOr(entry').count = 0 /\ EntryOr(entry').seq = 0
  BY DEF EntryOr, NewEntry
<1>5. writes' \in Nat
  BY <1>3, DocumentsAssumption DEF DataShape
<1>6. Good(<<>>, Nothing, Nothing, 0)'
  BY <1>1, <1>4, <1>5, NothingLeft DEF Good, Counted, Numbered, Bounded, UpToDate
<1> QED
  BY <1>3, <1>6, QuietStep

LEMMA CreateIndexStep == ASSUME DocsInv, CreateIndex PROVE DocsInv'
<1>1. DataShape /\ Good(<<>>, Nothing, Nothing, 0)
  BY DEF CreateIndex, DocsInv
<1>2. EntryOr(entry') = EntryOr(entry) /\ entry' \in Entries
  BY SavedEntry DEF CreateIndex, EntryOr, NewEntry, Entries
<1>3. DataShape'
  BY <1>1, <1>2 DEF CreateIndex, DataShape
<1>4. Good(<<>>, Nothing, Nothing, 0)'
  BY <1>1, <1>2, NothingLeft DEF CreateIndex, Good, Counted, Numbered, Bounded, UpToDate
<1> QED
  BY <1>3, <1>4, QuietStep DEF CreateIndex

\* What the cap drops between writes is counted as dropped; an index whose
\* entry it drops is promised no more than its bounds.
LEMMA OtherDocumentStep == ASSUME DocsInv, ~Overlap, NEW id, OtherDocument(id) PROVE DocsInv'
<1>1. /\ DocsQuiet /\ id \in DOMAIN docs /\ docs' = Pop(docs, {id}) /\ dropped' = dropped + 1
      /\ UNCHANGED <<entry, writer, writes, lost>>
  BY DEF OtherDocument, Present
<1>2. DataShape /\ Good(<<>>, Nothing, Nothing, 0)
  BY <1>1 DEF DocsInv
<1>3. /\ EntryOr(entry).count \in Nat /\ Cardinality(DOMAIN docs) \in Nat /\ dropped \in Nat
      /\ IsFiniteSet(DOMAIN docs)
  BY <1>2, DataNumbers
<1>4. DOMAIN docs' = DOMAIN docs \ {id} /\ \A x \in DOMAIN docs' : docs'[x] = docs[x]
  BY <1>1 DEF Pop, Restrict
<1>5. IsFiniteSet(DOMAIN docs') /\ Cardinality(DOMAIN docs') = Cardinality(DOMAIN docs) - 1
  BY <1>1, <1>3, <1>4, FS_RemoveElement
<1>a. dropped' \in Nat
  BY <1>1, <1>3
<1>b. \A x \in DOMAIN docs' : docs'[x] \in DocRecords
  BY <1>2, <1>4 DEF DataShape
<1>6. DataShape'
  BY <1>1, <1>2, <1>4, <1>5, <1>a, <1>b DEF DataShape
<1>7. Counted(<<>>)'
  BY <1>1, <1>2, <1>3, <1>5, NothingLeft DEF Good, Counted
<1>8. Numbered' /\ Bounded(<<>>)' /\ UpToDate(<<>>, Nothing, Nothing, 0)'
  BY <1>1, <1>2, <1>4, NothingLeft DEF Good, Numbered, Bounded, UpToDate
<1> QED
  BY <1>1, <1>6, <1>7, <1>8, QuietStep DEF Good

LEMMA OtherIndexStep == ASSUME DocsInv, ~Overlap, OtherIndex PROVE DocsInv'
<1>1. DocsQuiet /\ entry' = Nothing /\ lost' = TRUE /\ UNCHANGED <<docs, writer, writes, dropped>>
  BY DEF OtherIndex
<1>2. DataShape /\ Good(<<>>, Nothing, Nothing, 0)
  BY <1>1 DEF DocsInv
<1>3. EntryOr(entry').count = 0 /\ EntryOr(entry').seq = 0
  BY <1>1 DEF EntryOr, NewEntry
<1>4. writes \in Nat
  BY <1>2, DataNumbers
<1>5. DataShape'
  BY <1>1, <1>2 DEF DataShape
<1>6. Good(<<>>, Nothing, Nothing, 0)'
  BY <1>1, <1>2, <1>3, <1>4, NothingLeft DEF Good, Counted, Numbered, Bounded, UpToDate
<1> QED
  BY <1>1, <1>5, <1>6, QuietStep

LEMMA DeleteIndexStep == ASSUME DocsInv, DeleteIndex PROVE DocsInv'
  BY EmptyStep, EmptyEntries DEF DeleteIndex

LEMMA ResetDocumentsStep == ASSUME DocsInv, ResetDocuments PROVE DocsInv'
  BY EmptyStep, EmptyEntries DEF ResetDocuments

\* Records removed between writes are taken from the count, each once.
LEMMA RemovedStep ==
  ASSUME DocsInv, DocsQuiet, UNCHANGED <<writer, writes, dropped, lost>>, NEW S,
         S \subseteq DOMAIN docs, Removed(S), DOMAIN docs' = DOMAIN docs \ S,
         \A i \in DOMAIN docs' : docs'[i] \in DocRecords /\ docs'[i].seq = docs[i].seq
  PROVE  DocsInv'
<1>1. DataShape /\ Good(<<>>, Nothing, Nothing, 0)
  BY DEF DocsInv
<1>2. /\ EntryOr(entry) \in Entries /\ EntryOr(entry).count \in Nat /\ EntryOr(entry).seq \in Nat
      /\ Cardinality(DOMAIN docs) \in Nat /\ writes \in Nat /\ IsFiniteSet(DOMAIN docs)
      /\ dropped \in Nat /\ \A i \in DOMAIN docs : docs[i].seq \in Nat
  BY <1>1, DataNumbers
<1>3. IsFiniteSet(S) /\ Cardinality(S) \in Nat /\ Cardinality(S) <= Cardinality(DOMAIN docs)
  BY <1>2, FS_Subset, FS_CardinalityType
<1>4. /\ IsFiniteSet(DOMAIN docs')
      /\ Cardinality(DOMAIN docs') = Cardinality(DOMAIN docs) - Cardinality(S)
  <2>1. (DOMAIN docs) \cap S = S
    OBVIOUS
  <2> QED
    BY <1>2, <2>1, FS_Difference
<1>5. ~lost => EntryOr(entry).count = Cardinality(DOMAIN docs) + dropped
  BY <1>1, <1>2, NothingLeft DEF Good, Counted
<1>6. /\ entry' \in Entries \cup {Nothing} /\ EntryOr(entry').seq = EntryOr(entry).seq
      /\ EntryOr(entry').count \in Nat /\ EntryOr(entry').count <= EntryOr(entry).count
      /\ ~lost => EntryOr(entry').count = Cardinality(DOMAIN docs') + dropped
  <2>1. CASE S = {}
    <3>1. entry' = entry /\ Cardinality(S) = 0
      BY <2>1, FS_EmptySet DEF Removed
    <3> QED
      BY <1>1, <1>2, <1>4, <1>5, <3>1 DEF DataShape
  <2>2. CASE S # {}
    <3> SUFFICES ASSUME NEW f, f = EntryOr(entry), NEW n, n = Cardinality(S),
                        NEW e, e = [f EXCEPT !.count = Less(@, n)], entry' = e
                 PROVE  /\ entry' \in Entries \cup {Nothing} /\ EntryOr(entry').seq = f.seq
                        /\ EntryOr(entry').count \in Nat /\ EntryOr(entry').count <= f.count
                        /\ ~lost => EntryOr(entry').count = Cardinality(DOMAIN docs') + dropped
      BY <2>2 DEF Removed
    <3>1. Less(f.count, n) \in Nat /\ Less(f.count, n) <= f.count
      BY <1>2, <1>3 DEF Less
    <3>2. ~lost => Less(f.count, n) = Cardinality(DOMAIN docs') + dropped
      BY <1>2, <1>3, <1>4, <1>5 DEF Less
    <3>3. e \in Entries /\ e.seq = f.seq /\ e.count = Less(f.count, n)
      BY <1>2, <3>1 DEF Entries
    <3>4. EntryOr(e) = e
      BY <3>3, SavedEntry
    <3> QED
      BY <3>1, <3>2, <3>3, <3>4
  <2> QED
    BY <2>1, <2>2
<1>7. DataShape'
  BY <1>1, <1>4, <1>6 DEF DataShape
<1>8. Numbered'
  <2> SUFFICES ASSUME ~lost PROVE Numbered'
    BY DEF Numbered
  <2>1. \A i \in DOMAIN docs' : docs'[i].seq < EntryOr(entry').seq
    BY <1>1, <1>6 DEF Good, Numbered
  <2>2. ASSUME NEW i \in DOMAIN docs', NEW j \in DOMAIN docs', docs'[i].seq = docs'[j].seq
        PROVE  i = j
    <3>1. docs[i].seq = docs[j].seq /\ i \in DOMAIN docs /\ j \in DOMAIN docs
      BY <2>2
    <3> QED
      BY <1>1, <3>1 DEF Good, Numbered
  <2> QED
    BY <2>1, <2>2 DEF Numbered
<1>9. Counted(<<>>)'
  BY <1>2, <1>6, NothingLeft DEF Counted
<1>10. Bounded(<<>>)' /\ UpToDate(<<>>, Nothing, Nothing, 0)'
  <2>1. EntryOr(entry').count <= writes /\ EntryOr(entry').seq <= writes
    BY <1>1, <1>2, <1>6 DEF Good, Bounded
  <2>2. \A i \in DOMAIN docs' : docs'[i].seq <= writes
    BY <1>1 DEF Good, Bounded
  <2> QED
    BY <2>1, <2>2, NothingLeft DEF Bounded, UpToDate
<1> QED
  BY <1>7, <1>8, <1>9, <1>10, QuietStep DEF Good

LEMMA RefreshIndexStep == ASSUME DocsInv, RefreshIndex PROVE DocsInv'
<1> DEFINE gone == {id \in DOMAIN docs : docs[id].deleted}
<1>1. /\ DocsQuiet /\ Removed(gone) /\ UNCHANGED <<writer, writes, dropped, lost>>
      /\ gone \subseteq DOMAIN docs
      /\ docs' = [id \in DOMAIN docs \ gone |-> [docs[id] EXCEPT !.pending = FALSE]]
  BY DEF RefreshIndex
<1> HIDE DEF gone
<1>2. DOMAIN docs' = DOMAIN docs \ gone
  BY <1>1
<1>3. ASSUME NEW i \in DOMAIN docs'
      PROVE  docs'[i] \in DocRecords /\ docs'[i].seq = docs[i].seq
  <2>1. docs[i] \in DocRecords /\ docs'[i] = [docs[i] EXCEPT !.pending = FALSE]
    BY <1>1, <1>2 DEF DocsInv, DataShape
  <2> QED
    BY <2>1 DEF DocRecords
<1> QED
  BY <1>1, <1>2, <1>3, RemovedStep

LEMMA DeleteByQueryStep == ASSUME DocsInv, NEW S, DeleteByQuery(S) PROVE DocsInv'
<1>1. /\ DocsQuiet /\ Removed(S) /\ UNCHANGED <<writer, writes, dropped, lost>>
      /\ S \subseteq DOMAIN docs
      /\ docs' = Pop(docs, S)
  BY DEF DeleteByQuery, Searchable
<1>2. DOMAIN docs' = DOMAIN docs \ S /\ \A i \in DOMAIN docs' : docs'[i] = docs[i]
  BY <1>1 DEF Pop, Restrict
<1>3. \A i \in DOMAIN docs' : docs'[i] \in DocRecords /\ docs'[i].seq = docs[i].seq
  BY <1>2 DEF DocsInv, DataShape
<1> QED
  BY <1>1, <1>2, <1>3, RemovedStep

LEMMA DocsStep ==
  ASSUME DocsInv, ~Overlap, DocsNext
  PROVE  DocsInv'
  BY BeginStep, GetStep, ReadStep, SeqStep, PutStep, MarkStep, DropStep, CountStep,
     CreateIndexStep, DeleteIndexStep, RefreshIndexStep, DeleteByQueryStep, OtherDocumentStep,
     OtherIndexStep DEF DocsNext

LEMMA DocsHold ==
  ASSUME DocsInv
  PROVE  DocsTypeOK /\ SearchAgrees
<1>1. DataShape
  BY DEF DocsInv
<1>2. /\ EntryOr(entry).count \in Nat /\ EntryOr(entry).seq \in Nat /\ writes \in Nat
      /\ Cardinality(DOMAIN docs) \in Nat /\ IsFiniteSet(DOMAIN docs) /\ dropped \in Nat
      /\ \A i \in DOMAIN docs : docs[i].seq \in Nat
  BY <1>1, DataNumbers
<1>3. /\ EntryOr(entry).count <= writes /\ EntryOr(entry).seq <= writes
      /\ \A i \in DOMAIN docs : docs[i].seq <= writes
  BY DEF DocsInv, Good, Bounded, DocsQuiet
<1>4. writes <= MaxWrites /\ MaxWrites \in Nat
  BY <1>1, DocumentsAssumption DEF DataShape
<1>5. DocsTypeOK
  <2>1. EntryOr(entry).count \in 0..MaxWrites /\ EntryOr(entry).seq \in 0..MaxWrites
    BY <1>2, <1>3, <1>4
  <2>2. \A i \in DOMAIN docs : docs[i].seq \in 0..MaxWrites
    BY <1>2, <1>3, <1>4
  <2>3. \A i \in DOMAIN docs : docs[i] \in [seq : 0..MaxWrites, pending : BOOLEAN, deleted : BOOLEAN]
    BY <1>1, <2>2 DEF DataShape, DocRecords
  <2>4. entry \in [count : 0..MaxWrites, seq : 0..MaxWrites] \union {Nothing}
    BY <1>1, <2>1 DEF DataShape, Entries, EntryOr
  <2> QED
    BY <1>1, <2>3, <2>4 DEF DataShape, DocsTypeOK
<1>6. ASSUME DocsQuiet, ~lost
      PROVE  /\ EntryOr(entry).count = Cardinality(DOMAIN docs) + dropped
             /\ Searchable = {id \in DOMAIN docs : ~docs[id].pending}
             /\ \A i, j \in DOMAIN docs : docs[i].seq = docs[j].seq => i = j
  <2>1. Good(<<>>, Nothing, Nothing, 0)
    BY <1>6 DEF DocsInv
  <2>2. EntryOr(entry).count = Cardinality(DOMAIN docs) + dropped
    BY <1>2, <1>6, <2>1, NothingLeft DEF Good, Counted
  <2>3. EntryOr(entry).count = 0 => DOMAIN docs = {}
    <3>1. EntryOr(entry).count = 0 => Cardinality(DOMAIN docs) = 0
      BY <1>2, <2>2
    <3> QED
      BY <1>2, <3>1, FS_EmptySet
  <2>4. entry = Nothing => EntryOr(entry).count = 0
    BY DEF EntryOr, NewEntry
  <2>5. Searchable = {id \in DOMAIN docs : ~docs[id].pending}
    BY <2>3, <2>4 DEF Searchable
  <2> QED
    BY <1>6, <2>1, <2>2, <2>5 DEF Good, Numbered
<1> QED
  BY <1>5, <1>6 DEF SearchAgrees

-----------------------------------------------------------------------------
(* The composition                                                         *)

\* What the components keep, whatever their clients do; the documents are
\* apart because they need writes that do not overlap.
ServInv ==
  /\ now \in Times /\ mount \in Mounts
  /\ CredInv /\ ContextsFollowUse /\ JobsInv /\ AcksInv /\ RateInv

LEMMA CredUntouched == ASSUME CredInv, now' = now, UNCHANGED credVars PROVE CredInv'
  BY TokensUntouched, SessionsUntouched, BearersUntouched DEF CredInv, TokensInv, credVars

LEMMA ServInitially == Init => ServInv
<1>1. ASSUME ClockInit PROVE now \in Times
  BY <1>1, ClockAssumption DEF ClockInit, Times
<1> QED
  BY <1>1, CredInitially, ContextsInitially, JobsInitially, AcksInitially, RateInitially
     DEF Init, ServInv

\* A handler of one component changes no other.
LEMMA ClientStep == ASSUME ServInv, Client PROVE ServInv'
<1>1. now' = now /\ mount' = mount /\ now \in Times /\ mount \in Mounts /\ Others(mount)
  BY DEF Client, Others, ServInv
<1>2. CredInv'
  <2>1. CASE mount \in {"sessions", "tokens", "bearers"}
    BY <1>1, <2>1, SessionsStep, TokensStep, BearersStep DEF Client, ServInv
  <2> QED
    BY <1>1, <2>1, CredUntouched DEF Others, ServInv
<1>3. ContextsFollowUse'
  <2>1. CASE mount = "contexts"
    BY <1>1, <2>1, ContextsStep DEF Client, ServInv
  <2> QED
    BY <1>1, <2>1, ContextsUntouched DEF Others, ServInv
<1>4. JobsInv'
  <2>1. CASE mount = "jobs"
    BY <1>1, <2>1, JobsStep DEF Client, ServInv
  <2> QED
    BY <1>1, <2>1, JobsUntouched DEF Others, ServInv
<1>5. AcksInv'
  <2>1. CASE mount = "hec"
    BY <1>1, <2>1, AcksStep DEF Client, ServInv
  <2> QED
    BY <1>1, <2>1, AcksUntouched DEF Others, ServInv
<1>6. RateInv'
  <2>1. CASE mount = "limiter"
    BY <1>1, <2>1, RateStep DEF Client, ServInv
  <2> QED
    BY <1>1, <2>1, RateUntouched DEF Others, ServInv
<1> QED
  BY <1>1, <1>2, <1>3, <1>4, <1>5, <1>6 DEF ServInv

LEMMA TickStep == ASSUME ServInv, Tick PROVE ServInv'
<1>1. now' \in Times /\ mount' = mount
  BY ClockAssumption DEF Tick, ServInv, Times
<1> QED
  BY <1>1, CredTickStep, ContextsTickStep, JobsTickStep, AcksUntouched, RateTickStep
     DEF Tick, ServInv

LEMMA ServSweepStep ==
  ASSUME ServInv, Sweep
  PROVE  ServInv' /\ Verdicts' = Verdicts
<1>1. ServInv'
  BY SweepStep, ContextsSweepStep, JobsSweepStep, AcksSweepStep, RateUntouched DEF Sweep, ServInv
<1>2. Verdicts' = Verdicts
  BY SweepKeepsVerdicts, ContextsSweepStep, JobsSweepStep DEF Sweep, ServInv, Verdicts
<1> QED
  BY <1>1, <1>2

LEMMA ServResetStep == ASSUME ServInv, Reset PROVE ServInv'
  BY ResetStep, ContextsResetStep, JobsResetStep, AcksResetStep, RateUntouched DEF Reset, ServInv

LEMMA ServStutter == ASSUME ServInv, UNCHANGED vars PROVE ServInv'
  BY CredUntouched, ContextsUntouched, JobsUntouched, AcksUntouched, RateUntouched
     DEF ServInv, vars

\* Every component's invariant holds in every state of the composition: each
\* handler keeps its own, and the clock, the sweep (housekeeping.py) and the
\* reset (dev/commands.py) keep all of them.
THEOREM ServicesInvariance == Spec => []ServInv
<1>1. Init => ServInv
  BY ServInitially
<1>2. ServInv /\ [Next]_vars => ServInv'
  BY ClientStep, TickStep, ServSweepStep, ServResetStep, ServStutter DEF Next
<1> QED
  BY <1>1, <1>2, PTL DEF Spec

\* What a client was given stays usable as long as it was promised, unless as
\* many as its collection holds were issued after it (store.py, CAPS):
\* sessions, bearer tokens, token documents, search contexts and search jobs,
\* for any caps, any lifetimes and any order of uses, sweeps and resets.
THEOREM HandlesStayUsable == Spec => []UsedStaysUsable
<1>1. ServInv => UsedStaysUsable
  BY CredUsable, ContextsUsable, JobsUsable DEF ServInv, UsedStaysUsable
<1> QED
  BY <1>1, ServicesInvariance, PTL

\* No token granted before its user's revocation is accepted again, however
\* often it was refreshed (es_auth.py, _mint, _refresh, _invalidate_all).
THEOREM RevocationHolds == Spec => []RevokedStaysRevoked
<1>1. ServInv => RevokedStaysRevoked
  BY CredRevoked DEF ServInv
<1> QED
  BY <1>1, ServicesInvariance, PTL

\* A refresh token buys one successor at most (es_auth.py, _refresh).
THEOREM OneRefreshEach == Spec => []RefreshedOnce
<1>1. ServInv => RefreshedOnce
  BY DEF ServInv, CredInv
<1> QED
  BY <1>1, ServicesInvariance, PTL

\* The progress a client polls is how long the search has run unpaused
\* (search_job.py, _progress; search.py, pause and unpause).
THEOREM ProgressIsAlwaysRunTime == Spec => []ProgressIsRunTime
<1>1. ServInv => ProgressIsRunTime
  BY JobsUsable DEF ServInv
<1> QED
  BY <1>1, ServicesInvariance, PTL

\* A number is answered true only if the channel gave it out in the life the
\* poll found it in, and never to a poll that answers after another, asked in
\* integers, has ended with it: whatever number of polls, sweeps and resets
\* overlap, each poll four steps of its own (splunk_hec.py, hec_ack,
\* reap_idle_channels and reset_ack_state).
THEOREM AcksAlwaysTruthful == Spec => []AcksAreTruthful
<1>1. ServInv => AcksAreTruthful
  BY AcksHold DEF ServInv
<1> QED
  BY <1>1, ServicesInvariance, PTL

\* While it is on, the limiter lets a token have at most its limit in any
\* window between two reset_counters, over evictions, lookups before a reset
\* and changes of its settings (rate_limit.py; dev.py calls set_config and
\* reset_counters one after the other, with requests between them).
THEOREM LimiterKeepsBudget == Spec => []WindowBudget
<1>1. ServInv => WindowBudget
  BY DEF ServInv, RateInv
<1> QED
  BY <1>1, ServicesInvariance, PTL

\* A sweep changes no answer (housekeeping.py): it takes only what every
\* handler already refuses.
THEOREM SweepIsInvisible == Spec => SweepChangesNoVerdict
<1>1. ServInv /\ [Next]_vars => [Sweep => Verdicts' = Verdicts]_vars
  BY ServSweepStep
<1> QED
  BY <1>1, ServicesInvariance, PTL DEF Spec, SweepChangesNoVerdict

\* With writes that do not overlap, the documents and the entry that counts
\* them keep in step but for what the cap has dropped, until it drops the entry
\* itself (es_search/queries.py; store.py, save).
THEOREM DocumentsInvariance ==
  ASSUME ~Overlap
  PROVE  Spec => []DocsInv
<1>1. Init => DocsInv
  BY DocsInitially DEF Init
<1>2. ASSUME DocsInv, Next PROVE DocsInv'
  <2>1. CASE Client
    <3>1. CASE mount = "documents"
      BY <1>2, <2>1, <3>1, DocsStep DEF Client
    <3> QED
      BY <1>2, <2>1, <3>1, DocsUntouched DEF Client, Others
  <2>2. CASE Tick \/ Sweep
    BY <1>2, <2>2, DocsUntouched DEF Tick, Sweep
  <2>3. CASE Reset
    BY <1>2, <2>3, ResetDocumentsStep DEF Reset
  <2> QED
    BY <1>2, <2>1, <2>2, <2>3 DEF Next
<1>3. ASSUME DocsInv, UNCHANGED vars PROVE DocsInv'
  BY <1>3, DocsUntouched DEF vars
<1>4. DocsInv /\ [Next]_vars => DocsInv'
  BY <1>2, <1>3
<1> QED
  BY <1>1, <1>4, PTL DEF Spec

\* Between writes a search finds exactly what is there and refreshed, the
\* count is the records and those the cap has dropped, and no two documents
\* share a sequence number (_count_document, _next_seq_no, _written_documents):
\* provided writes do not overlap, and while the cap has not dropped the entry.
THEOREM SearchAlwaysAgrees ==
  ASSUME ~Overlap
  PROVE  Spec => []SearchAgrees
<1>1. DocsInv => SearchAgrees
  BY DocsHold
<1> QED
  BY <1>1, DocumentsInvariance, PTL

\* Every component's state keeps its shape, and a paused job knows since when.
THEOREM ServicesTypeCorrect ==
  ASSUME ~Overlap
  PROVE  Spec => []TypeOK
<1>1. ServInv /\ DocsInv => TypeOK
  BY CredTypes, ContextsUsable, JobsUsable, AcksHold, RateTypes, DocsHold DEF ServInv, TypeOK
<1> QED
  BY <1>1, ServicesInvariance, DocumentsInvariance, PTL

=============================================================================
