------------------------------ MODULE Webhooks ------------------------------
(***************************************************************************)
(* Webhook delivery (backend/application/webhooks): fire_event submits one *)
(* delivery per active subscription to a pool of daemon workers; a worker  *)
(* retries a delivery up to MAX_RETRIES times and records every attempt in *)
(* a bounded delivery log; wait_for_deliveries is a barrier on the pool's  *)
(* open counter; delete_webhook and /_dev/reset interfere.                 *)
(*                                                                         *)
(* Deliveries are numbered in the order they are submitted.  The receiver  *)
(* is external: each attempt is taken (2xx/3xx), rejected (4xx) or fails   *)
(* (5xx, no answer).                                                       *)
(***************************************************************************)
EXTENDS Naturals, Sequences, FiniteSets

CONSTANTS Subs,           \* webhook subscriptions
          Threads,        \* request threads that fire events
          Workers,        \* the pool's workers (8)
          MaxRetries,     \* MAX_RETRIES
          LogSize,        \* _MAX_ENTRIES of the delivery log (100)
          MaxDeliveries,  \* bound on the deliveries ever submitted
          MaxResets,      \* bound on resets
          None            \* an idle worker, no wait under way

ASSUME WebhooksAssumption ==
  /\ MaxRetries \in Nat \ {0} /\ LogSize \in Nat \ {0}
  /\ MaxDeliveries \in Nat /\ MaxResets \in Nat

Deliveries == 1..MaxDeliveries

ASSUME WebhooksSets ==
  IsFiniteSet(Subs) /\ IsFiniteSet(Threads) /\ None \notin Deliveries

VARIABLES
  subs,       \* the store's active subscriptions to the event
  toSubmit,   \* the subscriptions a thread's fire_event has yet to submit
  putting,    \* the delivery a thread counted and has not yet queued
  submitted,  \* deliveries numbered so far
  queue,      \* _queue
  open,       \* _open
  job,        \* the delivery each worker runs, or None
  attempt,    \* ... and its attempt; 0 before the address is checked
  log,        \* the delivery log, newest first: <<delivery, attempt, status>>
  waiting,    \* what was open when wait_for_deliveries was called, or None
  outcomes,   \* the outcomes of each delivery's attempts (history)
  finished,   \* deliveries whose worker is done with them (history)
  era,        \* data sets the store has held before this one
  resetting,  \* a reset has replaced the store and not yet cleared the log
  bornIn      \* the era in which each delivery was submitted (history)

fireVars == <<toSubmit, putting, submitted, bornIn>>
workVars == <<job, attempt, outcomes>>
eraVars == <<era, resetting>>
vars == <<subs, toSubmit, putting, submitted, queue, open, job, attempt, log,
          waiting, outcomes, finished, era, resetting, bornIn>>

Init ==
  /\ subs = {} /\ toSubmit = [t \in Threads |-> {}]
  /\ putting = [t \in Threads |-> None]
  /\ submitted = 0 /\ queue = <<>> /\ open = 0
  /\ job = [w \in Workers |-> None] /\ attempt = [w \in Workers |-> 0]
  /\ log = <<>> /\ waiting = None
  /\ outcomes = [d \in Deliveries |-> <<>>] /\ finished = {}
  /\ era = 0 /\ resetting = FALSE /\ bornIn = [d \in Deliveries |-> 0]

-----------------------------------------------------------------------------
(* Subscriptions, and the reset that clears them.                          *)

CreateWebhook(s) ==
  /\ subs' = subs \cup {s}
  /\ UNCHANGED <<fireVars, queue, open, workVars, log, waiting, finished, eraVars>>

DeleteWebhook(s) ==
  /\ subs' = subs \ {s}
  /\ UNCHANGED <<fireVars, queue, open, workVars, log, waiting, finished, eraVars>>

\* reset replaces the store, whose seed holds no subscription; queued
\* deliveries and busy workers go on.
ResetStore ==
  /\ era < MaxResets /\ ~resetting
  /\ era' = era + 1 /\ resetting' = TRUE /\ subs' = {}
  /\ UNCHANGED <<fireVars, queue, open, workVars, log, waiting, finished>>

\* ... and, after releasing the store's lock, clears the delivery log.
ClearDeliveryLog ==
  /\ resetting /\ resetting' = FALSE
  /\ log' = <<>>
  /\ UNCHANGED <<subs, fireVars, queue, open, workVars, waiting, finished, era>>

-----------------------------------------------------------------------------
(* fire_event and _DeliveryPool.submit, on a request thread.               *)

\* The active subscriptions are read once, before the first submit.
FireEvent(t) ==
  /\ toSubmit[t] = {} /\ putting[t] = None /\ subs # {}
  /\ submitted + Cardinality(subs)
       + Cardinality(UNION {{<<u, s>> : s \in toSubmit[u]} : u \in Threads}) <= MaxDeliveries
  /\ toSubmit' = [toSubmit EXCEPT ![t] = subs]
  /\ UNCHANGED <<subs, putting, submitted, bornIn, queue, open, workVars, log,
                 waiting, finished, eraVars>>

\* submit counts the delivery under _cv ...
CountOpen(t, s) ==
  /\ s \in toSubmit[t] /\ putting[t] = None
  /\ open' = open + 1
  /\ submitted' = submitted + 1
  /\ bornIn' = [bornIn EXCEPT ![submitted + 1] = era]
  /\ putting' = [putting EXCEPT ![t] = submitted + 1]
  /\ toSubmit' = [toSubmit EXCEPT ![t] = @ \ {s}]
  /\ UNCHANGED <<subs, queue, workVars, log, waiting, finished, eraVars>>

\* ... and queues it after releasing _cv.
Enqueue(t) ==
  /\ putting[t] # None
  /\ queue' = Append(queue, putting[t])
  /\ putting' = [putting EXCEPT ![t] = None]
  /\ UNCHANGED <<subs, toSubmit, submitted, bornIn, open, workVars, log, waiting,
                 finished, eraVars>>

-----------------------------------------------------------------------------
(* A worker: _DeliveryPool._run around _deliver_with_retries.              *)

\* The ring buffer: past its size the oldest entry falls off.
Record(d, n, s) ==
  log' = SubSeq(<<<<d, n, s>>>> \o log, 1,
                IF Len(log) < LogSize THEN Len(log) + 1 ELSE LogSize)

Take(w) ==
  /\ job[w] = None /\ queue # <<>>
  /\ job' = [job EXCEPT ![w] = Head(queue)]
  /\ attempt' = [attempt EXCEPT ![w] = 0]
  /\ queue' = Tail(queue)
  /\ UNCHANGED <<subs, fireVars, open, log, waiting, outcomes, finished, eraVars>>

\* The worker's finally clause, whatever way the delivery ended.
Finish(w) ==
  /\ open' = open - 1
  /\ finished' = finished \cup {job[w]}
  /\ job' = [job EXCEPT ![w] = None]
  /\ attempt' = [attempt EXCEPT ![w] = 0]

\* Mutant: the worker's counting is not in a finally clause.
CheckAddressLosesCount(w) ==
  /\ job[w] # None /\ attempt[w] = 0
  /\ \/ /\ attempt' = [attempt EXCEPT ![w] = 1]
        /\ UNCHANGED <<open, finished, job, log>>
     \/ Finish(w) /\ Record(job[w], 1, "failure")
     \/ /\ job' = [job EXCEPT ![w] = None]
        /\ UNCHANGED <<open, finished, attempt, log>>
  /\ UNCHANGED <<subs, fireVars, queue, waiting, outcomes, eraVars>>

\* check_outbound_url at delivery time: passed, refused (one failure entry,
\* no retry), or raising something else, which only the worker's handler
\* catches.
CheckAddress(w) ==
  /\ job[w] # None /\ attempt[w] = 0
  /\ \/ /\ attempt' = [attempt EXCEPT ![w] = 1]
        /\ UNCHANGED <<open, finished, job, log>>
     \/ Finish(w) /\ Record(job[w], 1, "failure")
     \/ Finish(w) /\ UNCHANGED log
  /\ UNCHANGED <<subs, fireVars, queue, waiting, outcomes, eraVars>>

\* Mutant: a 4xx answer is logged as a success.
OutcomeAnyAnswer(w, o) ==
  /\ job[w] # None /\ attempt[w] > 0
  /\ outcomes' = [outcomes EXCEPT ![job[w]] = Append(@, o)]
  /\ Record(job[w], attempt[w], IF o # "error" THEN "success" ELSE "failure")
  /\ UNCHANGED <<subs, fireVars, queue, waiting, eraVars>>

Outcome(w, o) ==
  /\ job[w] # None /\ attempt[w] > 0
  /\ outcomes' = [outcomes EXCEPT ![job[w]] = Append(@, o)]
  /\ Record(job[w], attempt[w], IF o = "taken" THEN "success" ELSE "failure")
  /\ UNCHANGED <<subs, fireVars, queue, waiting, eraVars>>

\* Mutant: a rejected delivery is tried again.
AnsweredRetries(w) ==
  \/ Outcome(w, "taken") /\ Finish(w)
  \/ /\ Outcome(w, "rejected")
     /\ IF attempt[w] < MaxRetries
          THEN /\ attempt' = [attempt EXCEPT ![w] = @ + 1]
               /\ UNCHANGED <<open, finished, job>>
          ELSE Finish(w)

\* Taken or rejected: the delivery is over.
Answered(w) ==
  /\ Outcome(w, "taken") \/ Outcome(w, "rejected")
  /\ Finish(w)

\* Mutant: one attempt too many.
FailedOnceMore(w) ==
  /\ Outcome(w, "error")
  /\ IF attempt[w] <= MaxRetries
       THEN /\ attempt' = [attempt EXCEPT ![w] = @ + 1]
            /\ UNCHANGED <<open, finished, job>>
       ELSE Finish(w)

\* 5xx or no answer: sleep and retry while attempts are left.
Failed(w) ==
  /\ Outcome(w, "error")
  /\ IF attempt[w] < MaxRetries
       THEN /\ attempt' = [attempt EXCEPT ![w] = @ + 1]
            /\ UNCHANGED <<open, finished, job>>
       ELSE Finish(w)

-----------------------------------------------------------------------------
(* wait_for_deliveries.                                                    *)

WaitCall ==
  /\ waiting = None
  /\ waiting' = 1..submitted
  /\ UNCHANGED <<subs, fireVars, queue, open, workVars, log, finished, eraVars>>

\* Mutant: the barrier looks at the queue and not at the counter.
WaitReturnOnEmptyQueue ==
  /\ waiting # None /\ queue = <<>>
  /\ waiting' = None
  /\ UNCHANGED <<subs, fireVars, queue, open, workVars, log, finished, eraVars>>

\* wait_for's predicate holds; giving up at the timeout promises nothing
\* and is left out.
WaitReturn ==
  /\ waiting # None /\ open = 0
  /\ waiting' = None
  /\ UNCHANGED <<subs, fireVars, queue, open, workVars, log, finished, eraVars>>

-----------------------------------------------------------------------------
Fire(t) == (\E s \in Subs : CountOpen(t, s)) \/ Enqueue(t)
Work(w) == Take(w) \/ CheckAddress(w) \/ Answered(w) \/ Failed(w)

Next ==
  \/ \E s \in Subs : CreateWebhook(s) \/ DeleteWebhook(s)
  \/ ResetStore \/ ClearDeliveryLog \/ WaitCall \/ WaitReturn
  \/ \E t \in Threads : FireEvent(t) \/ Fire(t)
  \/ \E w \in Workers : Work(w)

\* Request threads finish their loop and workers run; every httpx.post ends
\* within its timeout, so an attempt always has an outcome.
Fairness ==
  /\ \A t \in Threads : WF_vars(Fire(t))
  /\ \A w \in Workers : WF_vars(Work(w))

Spec == Init /\ [][Next]_vars /\ Fairness

-----------------------------------------------------------------------------
(* Properties.                                                             *)

TypeOK ==
  /\ subs \subseteq Subs /\ toSubmit \in [Threads -> SUBSET Subs]
  /\ putting \in [Threads -> Deliveries \cup {None}]
  /\ submitted \in 0..MaxDeliveries /\ queue \in Seq(Deliveries)
  /\ open \in 0..MaxDeliveries
  /\ job \in [Workers -> Deliveries \cup {None}]
  /\ attempt \in [Workers -> 0..MaxRetries]
  /\ log \in Seq(Deliveries \X (1..MaxRetries) \X {"success", "failure"})
  /\ Len(log) <= LogSize
  /\ waiting = None \/ waiting \in SUBSET Deliveries
  /\ outcomes \in [Deliveries -> Seq({"taken", "rejected", "error"})]
  /\ finished \subseteq Deliveries
  /\ era \in 0..MaxResets /\ resetting \in BOOLEAN /\ bornIn \in [Deliveries -> 0..MaxResets]

\* The open counter is exactly the deliveries counted and not finished, at
\* every point between submit's two steps and whatever way a worker ends:
\* each is being queued, queued, or on one worker.
OpenIsExact ==
  /\ open = Cardinality((1..submitted) \ finished)
  /\ (1..submitted) \ finished =
       {putting[t] : t \in {u \in Threads : putting[u] # None}}
       \cup {queue[i] : i \in DOMAIN queue}
       \cup {job[w] : w \in {v \in Workers : job[v] # None}}

\* wait_for_deliveries returns only when everything submitted before it was
\* called is finished.
WaitIsABarrier == [][waiting # None /\ waiting' = None => waiting \subseteq finished]_vars

\* A delivery is attempted again only after errors, never after the receiver
\* took or rejected it, and at most MaxRetries times, on one worker only.
RetriesOnlyErrors ==
  /\ \A d \in Deliveries :
       /\ Len(outcomes[d]) <= MaxRetries
       /\ \A i \in 1..(Len(outcomes[d]) - 1) : outcomes[d][i] = "error"
  /\ \A v, w \in Workers : job[v] = job[w] /\ job[v] # None => v = w

\* An entry of the log tells what happened to that very attempt.
LogIsTruthful ==
  \A i \in DOMAIN log :
    LET d == log[i][1] n == log[i][2]
    IN log[i][3] = "success" <=> n <= Len(outcomes[d]) /\ outcomes[d][n] = "taken"

\* Every delivery that was counted is eventually finished, however the
\* receivers answer and whatever is deleted or reset meanwhile.
DeliveriesFinish == \A d \in Deliveries : (submitted >= d) ~> (d \in finished)

\* Once a reset has returned, the delivery log tells only of events fired
\* since: it does not hand the caller the previous scenario.
LogIsOfThisEra == ~resetting => \A i \in DOMAIN log : bornIn[log[i][1]] = era
=============================================================================
