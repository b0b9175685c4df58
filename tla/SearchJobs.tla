----------------------------- MODULE SearchJobs -----------------------------
(***************************************************************************)
(* Splunk search jobs (backend/domain/splunk/search_job.py, its repository *)
(* and application/splunk).  The search has run when the job is created;   *)
(* the dispatch states a client polls are read off a clock that a pause    *)
(* stops.  Results and messages are data.                                  *)
(***************************************************************************)
EXTENDS Clock, Dicts

CONSTANTS Dispatch,   \* SPLUNK_DISPATCH_SECONDS
          JobTtl,     \* the ttl a job starts with
          Ttls,       \* what setttl is asked for
          SavedTtl,   \* SAVED_TTL
          JobCap,     \* CAPS["splunk_search_jobs"]
          MaxJobs     \* bound on the jobs ever created

ASSUME JobsAssumption ==
  /\ Dispatch \in Nat /\ JobTtl \in Nat /\ Ttls \subseteq Nat /\ SavedTtl \in Nat
  /\ JobCap \in Nat \ {0} /\ MaxJobs \in Nat

VARIABLES
  jobs,     \* splunk_search_jobs
  dispatched,  \* how many were ever created; a sid is its number (history)
  runTime,  \* how long each job has run unpaused (history)
  jobUse    \* sid -> its last use and the ttl it had then (history)

jobVars == <<jobs, dispatched, runTime, jobUse>>

JobsInit == /\ jobs = EmptyDict /\ dispatched = 0
            /\ runTime = EmptyDict /\ jobUse = EmptyDict

Later(a, b) == IF a > b THEN a ELSE b
Sooner(a, b) == IF a < b THEN a ELSE b

\* Every job is created done, so the exemption of a job that is paused and
\* not done is nobody's.
JobExpired(j) ==
  /\ j.ttl > 0 /\ ~(j.paused /\ ~j.done)
  /\ now > Later(j.published + Dispatch, j.touched) + j.ttl

JobAccepted(s) == s \in DOMAIN jobs /\ ~JobExpired(jobs[s])

\* create_search_job.  A search that could not run is FAILED.
NewJob(failed) ==
  [state |-> IF failed THEN "FAILED" ELSE "DONE", failed |-> failed, done |-> TRUE,
   paused |-> FALSE, pausedAt |-> None, settled |-> FALSE, ttl |-> JobTtl,
   published |-> now, touched |-> now]

CreateSearchJob(failed) ==
  LET s == dispatched + 1
  IN  /\ s <= MaxJobs /\ dispatched' = s
      /\ jobs' = Saved(jobs, s, NewJob(failed), JobCap, First(jobs))
      /\ runTime' = Put(runTime, s, 0)
      /\ jobUse' = Put(jobUse, s, [at |-> now, ttl |-> JobTtl])

Remove(s) == jobs' = Pop(jobs, {s}) /\ jobUse' = Pop(jobUse, {s})

\* SearchJobRepository.get: reading a job is viewing it, and restarts its
\* ttl; job is what the caller makes of it before it saves it.
Got(s, job) ==
  /\ s \in DOMAIN jobs
  /\ \/ JobExpired(jobs[s]) /\ jobs' = Pop(jobs, {s}) /\ UNCHANGED jobUse
     \/ LET j == [job EXCEPT !.touched = now]
        IN  /\ ~JobExpired(jobs[s])
            /\ jobs' = [jobs EXCEPT ![s] = j]
            /\ jobUse' = Put(jobUse, s, [at |-> now, ttl |-> j.ttl])
  /\ UNCHANGED <<dispatched, runTime>>

\* Any read, and the touch, unsave and setpriority actions.
View(s) == Got(s, jobs[s])

\* Mutant: pausing a paused job moves the moment it stopped.
PausedAgain(j) == [j EXCEPT !.pausedAt = now, !.paused = TRUE, !.state = "PAUSE"]

Paused(j) == [j EXCEPT !.pausedAt = IF j.paused THEN @ ELSE now, !.paused = TRUE,
                       !.state = "PAUSE"]
Pause(s) == Got(s, Paused(jobs[s]))

Unpaused(j) ==
  [j EXCEPT !.published = IF j.paused /\ j.pausedAt # None THEN @ + (now - j.pausedAt) ELSE @,
            !.pausedAt = None, !.paused = FALSE,
            !.state = IF j.done THEN "DONE" ELSE "RUNNING"]
Unpause(s) == Got(s, Unpaused(jobs[s]))

Finalized(j) == [j EXCEPT !.state = "DONE", !.done = TRUE, !.settled = TRUE]
Finalize(s) == Got(s, Finalized(jobs[s]))

SaveJob(s) == Got(s, [jobs[s] EXCEPT !.ttl = SavedTtl])

SetTtl(s, t) == Got(s, [jobs[s] EXCEPT !.ttl = t])

\* cancel, and DELETE, which does not look whether the job has expired.
CancelJob(s) == s \in DOMAIN jobs /\ Remove(s) /\ UNCHANGED <<dispatched, runTime>>

ReapJobs ==
  /\ jobs' = Pop(jobs, {s \in DOMAIN jobs : JobExpired(jobs[s])})
  /\ UNCHANGED <<dispatched, runTime, jobUse>>

ResetJobs ==
  /\ jobs' = EmptyDict /\ jobUse' = EmptyDict /\ UNCHANGED <<dispatched, runTime>>

JobsNext ==
  \/ \E failed \in BOOLEAN : CreateSearchJob(failed)
  \/ \E s \in 1..dispatched :
       \/ View(s) \/ Pause(s) \/ Unpause(s) \/ Finalize(s) \/ SaveJob(s) \/ CancelJob(s)
       \/ \E t \in Ttls : SetTtl(s, t)

\* The clock moves on: a job that is not paused runs.
JobsTick ==
  /\ runTime' = [s \in DOMAIN runTime |->
       IF s \in DOMAIN jobs /\ ~jobs[s].paused THEN runTime[s] + 1 ELSE runTime[s]]
  /\ UNCHANGED <<jobs, dispatched, jobUse>>

\* _progress of a job the clock decides: how much of the window it has run.
Progress(j) ==
  LET at == IF j.paused /\ j.pausedAt # None THEN j.pausedAt ELSE now
  IN  Sooner(at - j.published, Dispatch)

JobsAccepted == {s \in 1..dispatched : JobAccepted(s)}

JobsTypeOK ==
  /\ DOMAIN jobs \subseteq 1..dispatched /\ dispatched <= MaxJobs
  /\ \A s \in DOMAIN jobs :
       /\ jobs[s].state \in {"DONE", "FAILED", "PAUSE"}
       /\ jobs[s].paused <=> jobs[s].pausedAt # None
       /\ jobs[s].published \in Times /\ jobs[s].touched \in Times

\* A job that is read within its ttl is not removed from underneath
\* (search_job_repo.py, get), until as many were created after it as the
\* collection holds (store.py 292).
JobsStayUsable ==
  \A s \in DOMAIN jobUse :
    /\ dispatched - s < JobCap
    /\ jobUse[s].ttl = 0 \/ now <= jobUse[s].at + jobUse[s].ttl
    => JobAccepted(s)

\* What a client polls is how long the job has run, never counting what it
\* spent paused, however it was paused, held and resumed (search.py, "Resume
\* where the job stopped", "A paused job's clock stops").
ProgressIsRunTime ==
  \A s \in DOMAIN jobs :
    ~jobs[s].settled /\ ~jobs[s].failed => Progress(jobs[s]) = Sooner(runTime[s], Dispatch)

=============================================================================
