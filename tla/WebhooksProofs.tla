--------------------------- MODULE WebhooksProofs ---------------------------
(***************************************************************************)
(* What module Webhooks promises of the delivery pool, for any number of   *)
(* subscriptions, request threads, workers, retries and log entries.  The  *)
(* inductive invariant IInv follows a delivery through the pool: it is     *)
(* counted and being queued, queued, or on one worker, until it is         *)
(* finished, and nobody has tried it before a worker has it.               *)
(***************************************************************************)
EXTENDS Webhooks, FiniteSetTheorems, SequenceTheorems, TLAPS

-----------------------------------------------------------------------------
(* The inductive invariant.                                                *)

BeingPut(d) == \E t \in Threads : putting[t] = d
Queued(d) == \E i \in DOMAIN queue : queue[i] = d
Running(d) == \E w \in Workers : job[w] = d

\* What fire_event calls under way have yet to submit.
PairsOf(f) == UNION {{<<u, s>> : s \in f[u]} : u \in Threads}
Pending == PairsOf(toSubmit)

\* The bound on deliveries leaves room for what is pending.
Budget == submitted + Cardinality(Pending) <= MaxDeliveries

\* A delivery counted and not finished is in exactly one place.
OnePlace ==
  /\ finished \subseteq 1..submitted
  /\ open = Cardinality((1..submitted) \ finished)
  /\ \A d \in Deliveries :
       (d <= submitted /\ d \notin finished) <=> (BeingPut(d) \/ Queued(d) \/ Running(d))
  /\ \A d \in Deliveries :
       ~(BeingPut(d) /\ Queued(d)) /\ ~(BeingPut(d) /\ Running(d)) /\ ~(Queued(d) /\ Running(d))
  /\ \A t, u \in Threads : putting[t] = putting[u] /\ putting[t] # None => t = u
  /\ \A i, j \in DOMAIN queue : queue[i] = queue[j] => i = j
  /\ \A v, w \in Workers : job[v] = job[w] /\ job[v] # None => v = w

\* What a worker has tried so far failed, and it is at the next attempt.
Tries ==
  /\ \A w \in Workers : job[w] # None =>
       /\ Len(outcomes[job[w]]) = IF attempt[w] = 0 THEN 0 ELSE attempt[w] - 1
       /\ \A i \in 1..Len(outcomes[job[w]]) : outcomes[job[w]][i] = "error"
  /\ \A d \in Deliveries : d \notin finished /\ ~Running(d) => outcomes[d] = <<>>
  /\ \A d \in Deliveries :
       /\ Len(outcomes[d]) <= MaxRetries
       /\ \A i \in 1..(Len(outcomes[d]) - 1) : outcomes[d][i] = "error"

\* An entry of the log is of an attempt that has its outcome, or of a
\* delivery that will have no other.
LogIsOfThePast ==
  /\ LogIsTruthful
  /\ \A i \in DOMAIN log : \/ log[i][2] <= Len(outcomes[log[i][1]])
                           \/ log[i][1] \in finished

WaitsForSubmitted == waiting # None => waiting \subseteq 1..submitted

IInv == TypeOK /\ Budget /\ OnePlace /\ Tries /\ LogIsOfThePast /\ WaitsForSubmitted

-----------------------------------------------------------------------------
(* Lemmas on the pool's containers.                                        *)

\* The delivery log's appendleft: every entry afterwards is the new one or
\* one that was there, and there are no more than its size.
LEMMA PushedEntries ==
  ASSUME NEW S, NEW s \in Seq(S), NEW e \in S, NEW n \in Nat \ {0}, Len(s) <= n,
         NEW p, p = SubSeq(<<e>> \o s, 1, IF Len(s) < n THEN Len(s) + 1 ELSE n)
  PROVE  /\ p \in Seq(S) /\ Len(p) <= n
         /\ \A i \in DOMAIN p : p[i] = e \/ \E j \in DOMAIN s : p[i] = s[j]
<1> DEFINE m == IF Len(s) < n THEN Len(s) + 1 ELSE n
           c == <<e>> \o s
<1>1. Len(s) \in Nat /\ DOMAIN s = 1..Len(s)
  BY LenProperties
<1>2. <<e>> \in Seq(S) /\ Len(<<e>>) = 1 /\ <<e>>[1] = e
  OBVIOUS
<1>3. /\ c \in Seq(S) /\ Len(c) = 1 + Len(s)
      /\ \A i \in 1..(1 + Len(s)) : c[i] = IF i <= 1 THEN <<e>>[i] ELSE s[i - 1]
  BY <1>2, ConcatProperties
<1>4. m \in Nat /\ m <= n /\ m <= Len(s) + 1 /\ m >= 1
  BY <1>1
<1> HIDE DEF m, c
<1>5. \A i \in 1..m : c[i] \in S
  BY <1>1, <1>3, <1>4, ElementOfSeq
<1>6. p = SubSeq(c, 1, m)
  BY DEF m, c
<1>7. /\ p \in Seq(S) /\ Len(p) = m
      /\ \A i \in 1..m : p[i] = c[i]
  BY <1>4, <1>5, <1>6, SubSeqProperties
<1>8. DOMAIN p = 1..m
  BY <1>7, LenProperties
<1>9. ASSUME NEW i \in 1..m
      PROVE  p[i] = e \/ \E j \in DOMAIN s : p[i] = s[j]
  <2>1. i \in 1..(1 + Len(s)) /\ p[i] = c[i]
    BY <1>1, <1>4, <1>7
  <2>2. CASE i = 1
    BY <1>2, <1>3, <2>1, <2>2
  <2>3. CASE i # 1
    <3>1. ~(i <= 1) /\ i - 1 \in 1..Len(s)
      BY <1>1, <1>4, <2>1, <2>3
    <3>2. p[i] = s[i - 1]
      BY <1>3, <2>1, <3>1
    <3> QED
      BY <1>1, <3>1, <3>2
  <2> QED
    BY <2>2, <2>3
<1> QED
  BY <1>4, <1>7, <1>8, <1>9

LEMMA PairsFinite ==
  ASSUME NEW f \in [Threads -> SUBSET Subs]
  PROVE  IsFiniteSet(PairsOf(f)) /\ Cardinality(PairsOf(f)) \in Nat
<1>1. IsFiniteSet(Threads \X Subs)
  BY WebhooksSets, FS_Product
<1>2. PairsOf(f) \subseteq Threads \X Subs
  BY DEF PairsOf
<1> QED
  BY <1>1, <1>2, FS_Subset, FS_CardinalityType

\* A call of fire_event adds one pending submit per subscription it read.
LEMMA PairsAdded ==
  ASSUME NEW f \in [Threads -> SUBSET Subs], NEW t \in Threads, f[t] = {},
         NEW S \in SUBSET Subs, NEW g, g = [f EXCEPT ![t] = S]
  PROVE  Cardinality(PairsOf(g)) = Cardinality(PairsOf(f)) + Cardinality(S)
<1>1. PairsOf(g) = PairsOf(f) \cup ({t} \X S)
  BY DEF PairsOf
<1>2. PairsOf(f) \cap ({t} \X S) = {}
  BY DEF PairsOf
<1>3. IsFiniteSet(S) /\ IsFiniteSet({t}) /\ Cardinality({t}) = 1
  BY WebhooksSets, FS_Subset, FS_Singleton
<1>4. /\ IsFiniteSet({t} \X S) /\ Cardinality({t} \X S) = 1 * Cardinality(S)
      /\ Cardinality(S) \in Nat
  BY <1>3, FS_Product, FS_CardinalityType
<1>5. Cardinality(PairsOf(f) \cup ({t} \X S)) =
        Cardinality(PairsOf(f)) + Cardinality({t} \X S) - Cardinality({})
  BY <1>2, <1>4, PairsFinite, FS_Union
<1>6. Cardinality(PairsOf(f)) \in Nat
  BY PairsFinite
<1>7. Cardinality({}) = 0
  BY FS_EmptySet
<1>8. Cardinality({t} \X S) = Cardinality(S)
  BY <1>4
<1>9. Cardinality(PairsOf(g)) = Cardinality(PairsOf(f) \cup ({t} \X S))
  BY <1>1, Zenon
<1> QED
  BY <1>4, <1>5, <1>6, <1>7, <1>8, <1>9

\* A submit takes one of them away.
LEMMA PairsRemoved ==
  ASSUME NEW f \in [Threads -> SUBSET Subs], NEW t \in Threads, NEW s \in f[t],
         NEW g, g = [f EXCEPT ![t] = @ \ {s}]
  PROVE  Cardinality(PairsOf(g)) = Cardinality(PairsOf(f)) - 1
<1>1. PairsOf(g) = PairsOf(f) \ {<<t, s>>}
  BY DEF PairsOf
<1>2. <<t, s>> \in PairsOf(f)
  BY DEF PairsOf
<1>3. IsFiniteSet(PairsOf(f))
  BY PairsFinite
<1> QED
  BY <1>1, <1>2, <1>3, FS_RemoveElement

\* A submit under way has room within the bound.
LEMMA RoomToSubmit ==
  ASSUME TypeOK, Budget, NEW t \in Threads, NEW s \in toSubmit[t]
  PROVE  submitted + 1 \in Deliveries
<1>1. submitted \in Nat /\ MaxDeliveries \in Nat
  BY WebhooksAssumption DEF TypeOK
<1>2. IsFiniteSet(Pending) /\ Cardinality(Pending) \in Nat
  BY PairsFinite DEF TypeOK, Pending
<1>3. <<t, s>> \in Pending
  BY DEF Pending, PairsOf
<1>4. Cardinality(Pending) # 0
  BY <1>2, <1>3, FS_EmptySet
<1> QED
  BY <1>1, <1>2, <1>4 DEF Budget, Deliveries

\* Whatever way a worker ends, what it ran was open.
LEMMA FinishOpen ==
  ASSUME TypeOK, OnePlace, NEW w \in Workers, job[w] # None
  PROVE  /\ job[w] \in Deliveries /\ job[w] \in 1..submitted /\ job[w] \notin finished
         /\ open - 1 = Cardinality((1..submitted) \ (finished \cup {job[w]}))
         /\ open - 1 \in 0..MaxDeliveries
<1> DEFINE O == (1..submitted) \ finished
<1>1. job[w] \in Deliveries /\ Running(job[w])
  BY DEF TypeOK, Running
<1>2. submitted \in Nat /\ MaxDeliveries \in Nat
  BY WebhooksAssumption DEF TypeOK
<1>3. job[w] \in O
  BY <1>1, <1>2 DEF OnePlace, Deliveries
<1>4. IsFiniteSet(O) /\ open = Cardinality(O) /\ open \in 0..MaxDeliveries
  <2>1. IsFiniteSet(1..submitted)
    BY <1>2, FS_Interval
  <2> QED
    BY <2>1, FS_Difference DEF OnePlace, TypeOK
<1>5. IsFiniteSet(O \ {job[w]}) /\ Cardinality(O \ {job[w]}) = open - 1
  BY <1>3, <1>4, FS_RemoveElement
<1>6. Cardinality(O \ {job[w]}) \in Nat
  BY <1>5, FS_CardinalityType
<1>7. O \ {job[w]} = (1..submitted) \ (finished \cup {job[w]})
  OBVIOUS
<1>8. open - 1 \in 0..MaxDeliveries
  BY <1>2, <1>4, <1>5, <1>6
<1> QED
  BY <1>1, <1>3, <1>5, <1>7, <1>8

-----------------------------------------------------------------------------
(* Every initial state, and every step.                                    *)

LEMMA InitIInv == Init => IInv
<1> SUFFICES ASSUME Init PROVE IInv
  OBVIOUS
<1> USE WebhooksAssumption, WebhooksSets
<1>1. TypeOK
  <2>1. outcomes \in [Deliveries -> Seq({"taken", "rejected", "error"})]
    BY EmptySeq DEF Init
  <2>2. log \in Seq(Deliveries \X (1..MaxRetries) \X {"success", "failure"}) /\ Len(log) <= LogSize
    BY EmptySeq DEF Init
  <2>3. queue \in Seq(Deliveries)
    BY EmptySeq DEF Init
  <2>4. /\ submitted \in 0..MaxDeliveries /\ open \in 0..MaxDeliveries /\ era \in 0..MaxResets
        /\ attempt \in [Workers -> 0..MaxRetries] /\ bornIn \in [Deliveries -> 0..MaxResets]
    BY DEF Init
  <2>5. /\ subs \subseteq Subs /\ toSubmit \in [Threads -> SUBSET Subs]
        /\ putting \in [Threads -> Deliveries \cup {None}]
        /\ job \in [Workers -> Deliveries \cup {None}]
        /\ waiting = None /\ finished \subseteq Deliveries /\ resetting \in BOOLEAN
    BY DEF Init
  <2> QED
    BY <2>1, <2>2, <2>3, <2>4, <2>5 DEF TypeOK
<1>2. Budget
  <2>1. Pending = {}
    BY DEF Init, Pending, PairsOf
  <2> QED
    BY <2>1, FS_EmptySet DEF Init, Budget
<1>3. OnePlace
  <2>1. open = Cardinality((1..submitted) \ finished)
    BY FS_EmptySet DEF Init
  <2> QED
    BY <2>1 DEF Init, OnePlace, BeingPut, Queued, Running, Deliveries
<1>4. Tries
  BY DEF Init, Tries
<1>5. LogIsOfThePast /\ WaitsForSubmitted
  BY DEF Init, LogIsOfThePast, LogIsTruthful, WaitsForSubmitted
<1> QED
  BY <1>1, <1>2, <1>3, <1>4, <1>5 DEF IInv

\* The bound on deliveries is kept by fire_event and by submit.
LEMMA BudgetStep == TypeOK /\ Budget /\ Next => Budget'
<1> SUFFICES ASSUME TypeOK, Budget, Next PROVE Budget'
  OBVIOUS
<1> USE WebhooksAssumption DEF Budget, Pending
<1>1. toSubmit \in [Threads -> SUBSET Subs] /\ submitted \in Nat /\ subs \in SUBSET Subs
  BY DEF TypeOK
<1>2. ASSUME NEW t \in Threads, FireEvent(t) PROVE Budget'
  <2>1. Cardinality(PairsOf(toSubmit')) = Cardinality(PairsOf(toSubmit)) + Cardinality(subs)
    BY <1>1, <1>2, PairsAdded DEF FireEvent
  <2>2. Cardinality(subs) \in Nat
    BY <1>1, WebhooksSets, FS_Subset, FS_CardinalityType
  <2> QED
    BY <1>1, <1>2, <2>1, <2>2, PairsFinite DEF FireEvent, PairsOf
<1>3. ASSUME NEW t \in Threads, NEW s \in Subs, CountOpen(t, s) PROVE Budget'
  <2>1. Cardinality(PairsOf(toSubmit')) = Cardinality(PairsOf(toSubmit)) - 1
    BY <1>1, <1>3, PairsRemoved DEF CountOpen
  <2> QED
    BY <1>1, <1>3, <2>1, PairsFinite DEF CountOpen, PairsOf
<1>4. CASE UNCHANGED <<toSubmit, submitted>>
  BY <1>4 DEF PairsOf
<1> QED
  BY <1>2, <1>3, <1>4 DEF Next, CreateWebhook, DeleteWebhook, ResetStore, ClearDeliveryLog,
     WaitCall, WaitReturn, Fire, Enqueue, Work, Take, CheckAddress, Answered, Failed,
     Outcome, fireVars

\* Deliveries keep to their place.
LEMMA OnePlaceStep == TypeOK /\ Budget /\ OnePlace /\ Next => OnePlace'
<1> SUFFICES ASSUME TypeOK, Budget, OnePlace, Next PROVE OnePlace'
  OBVIOUS
<1> USE WebhooksAssumption, WebhooksSets
<1>1. /\ submitted \in Nat /\ MaxDeliveries \in Nat /\ finished \subseteq Deliveries
      /\ putting \in [Threads -> Deliveries \cup {None}]
      /\ job \in [Workers -> Deliveries \cup {None}]
      /\ queue \in Seq(Deliveries) /\ DOMAIN queue = 1..Len(queue) /\ Len(queue) \in Nat
  BY LenProperties DEF TypeOK
<1>2. ASSUME NEW t \in Threads, NEW s \in Subs, CountOpen(t, s) PROVE OnePlace'
  <2> DEFINE d0 == submitted + 1
  <2>1. d0 \in Deliveries
    BY <1>2, RoomToSubmit DEF CountOpen
  <2>2. /\ putting' = [putting EXCEPT ![t] = d0] /\ putting[t] = None
        /\ submitted' = d0 /\ open' = open + 1
        /\ queue' = queue /\ job' = job /\ finished' = finished
    BY <1>2 DEF CountOpen, workVars
  <2>3. d0 \notin finished /\ ~BeingPut(d0) /\ ~Queued(d0) /\ ~Running(d0)
    BY <1>1, <2>1 DEF OnePlace
  <2>4. open' = Cardinality((1..submitted') \ finished')
    <3>1. (1..d0) \ finished = ((1..submitted) \ finished) \cup {d0}
      BY <1>1, <2>3
    <3>2. IsFiniteSet((1..submitted) \ finished) /\ d0 \notin (1..submitted) \ finished
      <4>1. IsFiniteSet(1..submitted)
        BY <1>1, FS_Interval
      <4>2. IsFiniteSet((1..submitted) \ finished)
        BY <4>1, FS_Difference
      <4> QED
        BY <1>1, <4>2
    <3>3. Cardinality(((1..submitted) \ finished) \cup {d0}) = Cardinality((1..submitted) \ finished) + 1
      BY <3>2, FS_AddElement
    <3> QED
      BY <2>2, <3>1, <3>3 DEF OnePlace
  <2>5. \A d \in Deliveries : /\ BeingPut(d)' <=> (BeingPut(d) \/ d = d0)
                              /\ Queued(d)' <=> Queued(d)
                              /\ Running(d)' <=> Running(d)
    BY <1>1, <2>2 DEF BeingPut, Queued, Running
  <2>6. \A d \in Deliveries : d <= submitted' <=> d <= submitted \/ d = d0
    BY <1>1, <2>2 DEF Deliveries
  <2>7. \A u, v \in Threads : putting'[u] = putting'[v] /\ putting'[u] # None => u = v
    BY <1>1, <2>2, <2>3 DEF OnePlace, BeingPut
  <2>8. finished' \subseteq 1..submitted'
    BY <1>1, <2>2 DEF OnePlace
  <2> HIDE DEF d0
  <2>9. \A d \in Deliveries :
          (d <= submitted' /\ d \notin finished') <=> (BeingPut(d)' \/ Queued(d)' \/ Running(d)')
    BY <2>2, <2>3, <2>5, <2>6 DEF OnePlace
  <2>10. \A d \in Deliveries :
           ~(BeingPut(d)' /\ Queued(d)') /\ ~(BeingPut(d)' /\ Running(d)') /\ ~(Queued(d)' /\ Running(d)')
    BY <2>3, <2>5 DEF OnePlace
  <2> QED
    BY <2>2, <2>4, <2>7, <2>8, <2>9, <2>10 DEF OnePlace
<1>3. ASSUME NEW t \in Threads, Enqueue(t) PROVE OnePlace'
  <2> DEFINE d0 == putting[t]
  <2>1. d0 \in Deliveries /\ d0 # None /\ BeingPut(d0)
    BY <1>1, <1>3 DEF Enqueue, BeingPut
  <2>2. /\ putting' = [putting EXCEPT ![t] = None]
        /\ queue' = Append(queue, d0) /\ job' = job
        /\ submitted' = submitted /\ finished' = finished /\ open' = open
    BY <1>3 DEF Enqueue, workVars
  <2>3. /\ Len(queue') = Len(queue) + 1 /\ DOMAIN queue' = 1..(Len(queue) + 1)
        /\ \A i \in 1..Len(queue) : queue'[i] = queue[i]
        /\ queue'[Len(queue) + 1] = d0
    BY <1>1, <2>1, <2>2, AppendProperties, LenProperties
  <2>4. ~Queued(d0) /\ ~Running(d0)
    BY <2>1 DEF OnePlace
  <2>5. \A u \in Threads : putting'[u] = IF u = t THEN None ELSE putting[u]
    BY <1>1, <2>2
  <2>6. \A d \in Deliveries : BeingPut(d)' <=> (BeingPut(d) /\ d # d0)
    <3> SUFFICES ASSUME NEW d \in Deliveries
                 PROVE  (\E u \in Threads : putting'[u] = d) <=> (\E u \in Threads : putting[u] = d) /\ d # d0
      BY DEF BeingPut
    <3>1. d # None
      OBVIOUS
    <3> QED
      BY <2>1, <2>5, <3>1 DEF OnePlace
  <2> HIDE DEF d0
  <2>7. \A d \in Deliveries : Queued(d)' <=> (Queued(d) \/ d = d0)
    <3>1. DOMAIN queue' = 1..Len(queue) \cup {Len(queue) + 1}
      BY <1>1, <2>3
    <3> QED
      BY <1>1, <2>3, <3>1 DEF Queued
  <2>8. \A d \in Deliveries : Running(d)' <=> Running(d)
    BY <2>2 DEF Running
  <2>9. \A i, j \in DOMAIN queue' : queue'[i] = queue'[j] => i = j
    <3>1. \A i \in 1..Len(queue) : queue[i] # d0
      BY <1>1, <2>4 DEF Queued
    <3>2. DOMAIN queue' = 1..Len(queue) \cup {Len(queue) + 1}
      BY <1>1, <2>3
    <3> QED
      BY <1>1, <2>3, <3>1, <3>2 DEF OnePlace
  <2>10. \A u, v \in Threads : putting'[u] = putting'[v] /\ putting'[u] # None => u = v
    BY <2>5 DEF OnePlace
  <2> QED
    BY <2>1, <2>2, <2>4, <2>6, <2>7, <2>8, <2>9, <2>10 DEF OnePlace
<1>4. ASSUME NEW w \in Workers, Take(w) PROVE OnePlace'
  <2> DEFINE d0 == Head(queue)
  <2>1. /\ queue # <<>> /\ job[w] = None
        /\ job' = [job EXCEPT ![w] = d0] /\ queue' = Tail(queue)
        /\ putting' = putting /\ submitted' = submitted /\ finished' = finished /\ open' = open
    BY <1>4 DEF Take, fireVars
  <2>2. /\ d0 \in Deliveries /\ d0 = queue[1] /\ Tail(queue) \in Seq(Deliveries)
        /\ Len(queue') = Len(queue) - 1 /\ DOMAIN queue' = 1..(Len(queue) - 1)
        /\ \A i \in 1..(Len(queue) - 1) : queue'[i] = queue[i + 1]
        /\ Len(queue) # 0
    BY <1>1, <2>1, HeadTailProperties, LenProperties, EmptySeq
  <2>3. Queued(d0) /\ ~BeingPut(d0) /\ ~Running(d0)
    <3>1. 1 \in DOMAIN queue
      BY <1>1, <2>2
    <3> QED
      BY <2>2, <3>1 DEF OnePlace, Queued
  <2>4. \A v \in Workers : job'[v] = IF v = w THEN d0 ELSE job[v]
    BY <1>1, <2>1
  <2>5. d0 # None
    BY <2>2
  <2> HIDE DEF d0
  <2>6. \A d \in Deliveries : Running(d)' <=> (Running(d) \/ d = d0)
    BY <2>1, <2>4 DEF Running
  <2>7. \A d \in Deliveries : Queued(d)' <=> (Queued(d) /\ d # d0)
    <3> SUFFICES ASSUME NEW d \in Deliveries PROVE Queued(d)' <=> (Queued(d) /\ d # d0)
      OBVIOUS
    <3>1. ASSUME NEW i \in 1..(Len(queue) - 1), queue'[i] = d PROVE Queued(d) /\ d # d0
      <4>1. i + 1 \in DOMAIN queue /\ queue[i + 1] = d /\ 1 \in DOMAIN queue /\ i + 1 # 1
        BY <1>1, <2>2, <3>1
      <4> QED
        BY <2>2, <4>1 DEF Queued, OnePlace
    <3>2. ASSUME NEW i \in 1..Len(queue), queue[i] = d, d # d0 PROVE Queued(d)'
      <4>1. i # 1
        BY <2>2, <3>2
      <4>2. i - 1 \in 1..(Len(queue) - 1) /\ (i - 1) + 1 = i
        BY <1>1, <4>1
      <4>3. i - 1 \in DOMAIN queue' /\ queue'[i - 1] = d
        BY <2>2, <3>2, <4>2
      <4> QED
        BY <4>3 DEF Queued
    <3> QED
      BY <1>1, <2>2, <3>1, <3>2 DEF Queued
  <2>8. \A d \in Deliveries : BeingPut(d)' <=> BeingPut(d)
    BY <2>1 DEF BeingPut
  <2>9. \A i, j \in DOMAIN queue' : queue'[i] = queue'[j] => i = j
    <3> SUFFICES ASSUME NEW i \in 1..(Len(queue) - 1), NEW j \in 1..(Len(queue) - 1), queue'[i] = queue'[j]
                 PROVE  i = j
      BY <2>2
    <3>1. i + 1 \in DOMAIN queue /\ j + 1 \in DOMAIN queue /\ queue[i + 1] = queue[j + 1]
      BY <1>1, <2>2
    <3>2. i + 1 = j + 1
      BY <3>1 DEF OnePlace
    <3> QED
      BY <1>1, <3>2
  <2>10. \A u, v \in Workers : job'[u] = job'[v] /\ job'[u] # None => u = v
    BY <1>1, <2>3, <2>4 DEF OnePlace, Running
  <2> QED
    BY <2>1, <2>3, <2>6, <2>7, <2>8, <2>9, <2>10 DEF OnePlace
<1>5. ASSUME NEW w \in Workers, job[w] # None, Finish(w),
             UNCHANGED <<putting, queue, submitted>>
      PROVE  OnePlace'
  <2> DEFINE d0 == job[w]
  <2>1. /\ d0 \in Deliveries /\ d0 \in 1..submitted /\ d0 \notin finished
        /\ open - 1 = Cardinality((1..submitted) \ (finished \cup {d0}))
    BY <1>5, FinishOpen
  <2>2. /\ open' = open - 1 /\ finished' = finished \cup {d0}
        /\ \A v \in Workers : job'[v] = IF v = w THEN None ELSE job[v]
    BY <1>1, <1>5 DEF Finish
  <2>3. Running(d0) /\ ~BeingPut(d0) /\ ~Queued(d0) /\ d0 # None
    BY <2>1 DEF OnePlace, Running
  <2>4. \A d \in Deliveries : Running(d)' <=> (Running(d) /\ d # d0)
    <3> SUFFICES ASSUME NEW d \in Deliveries
                 PROVE  (\E v \in Workers : job'[v] = d) <=> (\E v \in Workers : job[v] = d) /\ d # d0
      BY DEF Running
    <3>1. d # None
      OBVIOUS
    <3> QED
      BY <2>2, <2>3, <3>1 DEF OnePlace
  <2> HIDE DEF d0
  <2>5. \A d \in Deliveries : (BeingPut(d)' <=> BeingPut(d)) /\ (Queued(d)' <=> Queued(d))
    BY <1>5 DEF BeingPut, Queued
  <2>6. \A u, v \in Workers : job'[u] = job'[v] /\ job'[u] # None => u = v
    BY <2>2 DEF OnePlace
  <2>7. finished' \subseteq 1..submitted' /\ open' = Cardinality((1..submitted') \ finished')
    BY <1>5, <2>1, <2>2 DEF OnePlace
  <2>8. \A d \in Deliveries :
          (d <= submitted' /\ d \notin finished') <=> (BeingPut(d)' \/ Queued(d)' \/ Running(d)')
    BY <1>5, <2>2, <2>3, <2>4, <2>5 DEF OnePlace
  <2> QED
    BY <1>5, <2>4, <2>5, <2>6, <2>7, <2>8 DEF OnePlace
<1>6. CASE UNCHANGED <<putting, queue, job, submitted, finished, open>>
  BY <1>6 DEF OnePlace, BeingPut, Queued, Running
<1>7. ASSUME NEW w \in Workers, CheckAddress(w) \/ Answered(w) \/ Failed(w) PROVE OnePlace'
  <2>1. job[w] # None /\ UNCHANGED <<putting, queue, submitted>>
    BY <1>7 DEF CheckAddress, Answered, Failed, Outcome, fireVars
  <2>2. Finish(w) \/ UNCHANGED <<open, finished, job>>
    BY <1>7 DEF CheckAddress, Answered, Failed
  <2> QED
    BY <1>5, <1>6, <2>1, <2>2
<1> QED
  BY <1>2, <1>3, <1>4, <1>6, <1>7 DEF Next, CreateWebhook, DeleteWebhook, ResetStore,
     ClearDeliveryLog, WaitCall, WaitReturn, FireEvent, Fire, Work, fireVars, workVars

\* The types, and with them the bounds on the counters, the log and the
\* attempts.
LEMMA TypesStep == IInv /\ Next => TypeOK'
<1> SUFFICES ASSUME TypeOK, Budget, OnePlace, Next PROVE TypeOK'
  BY DEF IInv
<1> USE WebhooksAssumption, WebhooksSets
<1> DEFINE Entries == Deliveries \X (1..MaxRetries) \X {"success", "failure"}
<1>1. /\ submitted \in Nat /\ open \in Nat /\ MaxDeliveries \in Nat /\ LogSize \in Nat \ {0}
      /\ log \in Seq(Entries) /\ Len(log) <= LogSize
  BY DEF TypeOK
<1>2. ASSUME NEW d \in Deliveries, NEW n \in 1..MaxRetries, NEW s \in {"success", "failure"},
             Record(d, n, s)
      PROVE  log' \in Seq(Entries) /\ Len(log') <= LogSize
  <2>1. <<d, n, s>> \in Entries
    OBVIOUS
  <2> HIDE DEF Entries
  <2> QED
    BY <1>1, <1>2, <2>1, PushedEntries DEF Record
<1>3. ASSUME NEW s \in Subs, CreateWebhook(s) \/ DeleteWebhook(s) PROVE TypeOK'
  BY <1>3 DEF CreateWebhook, DeleteWebhook, TypeOK, fireVars, workVars, eraVars
<1>4. CASE ResetStore
  BY <1>4 DEF ResetStore, TypeOK, fireVars, workVars
<1>5. CASE ClearDeliveryLog
  <2>1. log' \in Seq(Entries) /\ Len(log') <= LogSize
    BY <1>1, <1>5, EmptySeq DEF ClearDeliveryLog
  <2> QED
    BY <1>5, <2>1 DEF ClearDeliveryLog, TypeOK, fireVars, workVars
<1>6. CASE WaitCall \/ WaitReturn
  <2>1. 1..submitted \subseteq Deliveries
    BY <1>1 DEF TypeOK, Deliveries
  <2> QED
    BY <1>6, <2>1 DEF WaitCall, WaitReturn, TypeOK, fireVars, workVars, eraVars
<1>7. ASSUME NEW t \in Threads, FireEvent(t) PROVE TypeOK'
  BY <1>7 DEF FireEvent, TypeOK, workVars, eraVars
<1>8. ASSUME NEW t \in Threads, NEW s \in Subs, CountOpen(t, s) PROVE TypeOK'
  <2>1. submitted + 1 \in Deliveries
    BY <1>8, RoomToSubmit DEF CountOpen
  <2>2. OnePlace' /\ submitted' = submitted + 1 /\ open' = open + 1
    BY <1>8, OnePlaceStep DEF Next, Fire, CountOpen
  <2>3. open' <= submitted'
    <3>1. IsFiniteSet(1..submitted') /\ Cardinality(1..submitted') = submitted'
      BY <1>1, <2>2, FS_Interval
    <3>2. Cardinality((1..submitted') \ finished') <= Cardinality(1..submitted')
      BY <3>1, FS_Subset
    <3>3. open' = Cardinality((1..submitted') \ finished')
      BY <2>2 DEF OnePlace
    <3> QED
      BY <3>1, <3>2, <3>3
  <2>4. submitted' \in 0..MaxDeliveries /\ open' \in 0..MaxDeliveries
    BY <1>1, <2>1, <2>2, <2>3 DEF Deliveries
  <2> QED
    BY <1>8, <2>1, <2>4 DEF CountOpen, TypeOK, workVars, eraVars
<1>9. ASSUME NEW t \in Threads, Enqueue(t) PROVE TypeOK'
  <2>1. queue' \in Seq(Deliveries)
    BY <1>9, AppendProperties DEF Enqueue, TypeOK
  <2> QED
    BY <1>9, <2>1 DEF Enqueue, TypeOK, workVars, eraVars
<1>10. ASSUME NEW w \in Workers, Take(w) PROVE TypeOK'
  <2>1. queue' \in Seq(Deliveries) /\ Head(queue) \in Deliveries
    BY <1>10, HeadTailProperties DEF Take, TypeOK
  <2> QED
    BY <1>10, <2>1 DEF Take, TypeOK, fireVars, eraVars
<1>11. ASSUME NEW w \in Workers, job[w] # None, Finish(w)
       PROVE  /\ open' \in 0..MaxDeliveries /\ finished' \subseteq Deliveries
              /\ job' \in [Workers -> Deliveries \cup {None}]
              /\ attempt' \in [Workers -> 0..MaxRetries]
  <2>1. job[w] \in Deliveries /\ open - 1 \in 0..MaxDeliveries
    BY <1>11, FinishOpen
  <2>2. attempt' \in [Workers -> 0..MaxRetries]
    BY <1>11 DEF Finish, TypeOK
  <2> QED
    BY <1>11, <2>1, <2>2 DEF Finish, TypeOK
<1>12. ASSUME NEW w \in Workers, CheckAddress(w) PROVE TypeOK'
  <2>1. /\ open' \in 0..MaxDeliveries /\ finished' \subseteq Deliveries
        /\ job' \in [Workers -> Deliveries \cup {None}]
        /\ attempt' \in [Workers -> 0..MaxRetries]
    <3>1. job[w] # None
      BY <1>12 DEF CheckAddress
    <3>2. CASE Finish(w)
      BY <1>11, <3>1, <3>2
    <3>3. CASE attempt' = [attempt EXCEPT ![w] = 1] /\ UNCHANGED <<open, finished, job>>
      BY <3>3 DEF TypeOK
    <3> QED
      BY <1>12, <3>2, <3>3 DEF CheckAddress
  <2>2. job[w] \in Deliveries /\ 1 \in 1..MaxRetries
    BY <1>12 DEF CheckAddress, TypeOK
  <2>3. log' \in Seq(Entries) /\ Len(log') <= LogSize
    BY <1>1, <1>2, <1>12, <2>2 DEF CheckAddress
  <2> QED
    BY <1>12, <2>1, <2>3 DEF CheckAddress, TypeOK, fireVars, eraVars
<1>13. ASSUME NEW w \in Workers, Answered(w) \/ Failed(w) PROVE TypeOK'
  <2>1. PICK o \in {"taken", "rejected", "error"} : Outcome(w, o)
    BY <1>13 DEF Answered, Failed
  <2>2. /\ open' \in 0..MaxDeliveries /\ finished' \subseteq Deliveries
        /\ job' \in [Workers -> Deliveries \cup {None}]
        /\ attempt' \in [Workers -> 0..MaxRetries]
    <3>1. CASE Finish(w)
      BY <1>11, <2>1, <3>1 DEF Outcome
    <3>2. CASE /\ attempt[w] < MaxRetries /\ attempt' = [attempt EXCEPT ![w] = @ + 1]
               /\ UNCHANGED <<open, finished, job>>
      BY <3>2 DEF TypeOK
    <3> QED
      BY <1>13, <3>1, <3>2 DEF Answered, Failed
  <2>3. job[w] \in Deliveries /\ attempt[w] \in 1..MaxRetries
    BY <2>1 DEF Outcome, TypeOK
  <2>4. log' \in Seq(Entries) /\ Len(log') <= LogSize
    BY <1>2, <2>1, <2>3 DEF Outcome
  <2>5. outcomes' \in [Deliveries -> Seq({"taken", "rejected", "error"})]
    <3>1. Append(outcomes[job[w]], o) \in Seq({"taken", "rejected", "error"})
      BY <2>1, <2>3, AppendProperties DEF TypeOK
    <3> QED
      BY <2>1, <2>3, <3>1 DEF Outcome, TypeOK
  <2> QED
    BY <2>1, <2>2, <2>4, <2>5 DEF Outcome, TypeOK, fireVars, eraVars
<1> QED
  BY <1>3, <1>4, <1>5, <1>6, <1>7, <1>8, <1>9, <1>10, <1>12, <1>13 DEF Next, Fire, Work

\* What a worker has in hand, when it ends an attempt: the attempts so far
\* all failed, this one is the next, and no other worker has the delivery.
LEMMA OutcomeFacts ==
  ASSUME TypeOK, OnePlace, Tries, NEW w \in Workers, NEW o \in {"taken", "rejected", "error"},
         Outcome(w, o)
  PROVE  /\ job[w] # None /\ job[w] \in Deliveries /\ job[w] \notin finished
         /\ attempt[w] \in 1..MaxRetries
         /\ \A d \in Deliveries : d # job[w] => outcomes'[d] = outcomes[d]
         /\ Len(outcomes[job[w]]) = attempt[w] - 1
         /\ Len(outcomes'[job[w]]) = attempt[w]
         /\ \A i \in 1..(attempt[w] - 1) : /\ outcomes[job[w]][i] = "error"
                                          /\ outcomes'[job[w]][i] = "error"
         /\ outcomes'[job[w]][attempt[w]] = o
<1> DEFINE d == job[w]  out == outcomes[d]
<1>1. d # None /\ d \in Deliveries /\ attempt[w] \in 1..MaxRetries
  BY WebhooksAssumption DEF Outcome, TypeOK
<1>2. d \notin finished
  BY <1>1 DEF OnePlace, Running
<1>3. out \in Seq({"taken", "rejected", "error"}) /\ Len(out) = attempt[w] - 1
  <2>1. outcomes[d] \in Seq({"taken", "rejected", "error"})
    BY <1>1 DEF TypeOK
  <2>2. Len(outcomes[d]) = attempt[w] - 1
    BY <1>1 DEF Tries
  <2> QED
    BY <2>1, <2>2
<1>4. outcomes' = [outcomes EXCEPT ![d] = Append(out, o)]
  BY DEF Outcome
<1>5. outcomes'[d] = Append(out, o) /\ \A e \in Deliveries : e # d => outcomes'[e] = outcomes[e]
  BY <1>1, <1>4 DEF TypeOK
<1>6. /\ Len(Append(out, o)) = Len(out) + 1 /\ Append(out, o)[Len(out) + 1] = o
      /\ \A i \in 1..Len(out) : Append(out, o)[i] = out[i]
  BY <1>3, AppendProperties
<1>7. \A i \in 1..Len(out) : out[i] = "error"
  BY <1>1 DEF Tries
<1> HIDE DEF d, out
<1>8. Len(out) + 1 = attempt[w]
  BY <1>1, <1>3, WebhooksAssumption
<1> QED
  BY <1>1, <1>2, <1>3, <1>5, <1>6, <1>7, <1>8 DEF d, out

LEMMA TriesStep == IInv /\ Next => Tries'
<1> SUFFICES ASSUME TypeOK, OnePlace, Tries, Next PROVE Tries'
  BY DEF IInv
<1> USE WebhooksAssumption, WebhooksSets
<1>1. job \in [Workers -> Deliveries \cup {None}] /\ attempt \in [Workers -> 0..MaxRetries]
  BY DEF TypeOK
<1>2. ASSUME NEW w \in Workers, Take(w) PROVE Tries'
  <2>1. /\ queue # <<>> /\ job[w] = None
        /\ job' = [job EXCEPT ![w] = Head(queue)] /\ attempt' = [attempt EXCEPT ![w] = 0]
        /\ outcomes' = outcomes /\ finished' = finished
    BY <1>2 DEF Take
  <2>2. Head(queue) \in Deliveries /\ Queued(Head(queue))
    <3>1. Len(queue) \in Nat \ {0} /\ DOMAIN queue = 1..Len(queue) /\ Head(queue) = queue[1]
      BY <2>1, EmptySeq, LenProperties DEF TypeOK
    <3>2. Head(queue) \in Deliveries
      BY <2>1, HeadTailProperties DEF TypeOK
    <3> QED
      BY <3>1, <3>2 DEF Queued
  <2>3. outcomes[Head(queue)] = <<>>
    BY <2>2 DEF OnePlace, Tries
  <2>4. \A v \in Workers : /\ job'[v] = IF v = w THEN Head(queue) ELSE job[v]
                           /\ attempt'[v] = IF v = w THEN 0 ELSE attempt[v]
    BY <1>1, <2>1
  <2>5. \A d \in Deliveries : Running(d) => Running(d)'
    BY <2>1, <2>4 DEF Running
  <2> QED
    BY <2>1, <2>3, <2>4, <2>5 DEF Tries
<1>3. ASSUME NEW w \in Workers, job[w] # None, Finish(w), UNCHANGED outcomes PROVE Tries'
  <2>1. job[w] \in Deliveries /\ finished' = finished \cup {job[w]}
    BY <1>1, <1>3 DEF Finish
  <2>2. \A v \in Workers : /\ job'[v] = IF v = w THEN None ELSE job[v]
                           /\ attempt'[v] = IF v = w THEN 0 ELSE attempt[v]
    BY <1>1, <1>3 DEF Finish
  <2>3. \A d \in Deliveries : Running(d) => Running(d)' \/ d = job[w]
    BY <2>2 DEF Running
  <2> QED
    BY <1>3, <2>1, <2>2, <2>3 DEF Tries
<1>4. ASSUME NEW w \in Workers, CheckAddress(w) PROVE Tries'
  <2>1. UNCHANGED outcomes /\ job[w] # None /\ attempt[w] = 0
    BY <1>4 DEF CheckAddress
  <2>2. CASE attempt' = [attempt EXCEPT ![w] = 1] /\ UNCHANGED <<finished, job>>
    <3>1. \A v \in Workers : attempt'[v] = IF v = w THEN 1 ELSE attempt[v]
      BY <1>1, <2>2
    <3> QED
      BY <2>1, <2>2, <3>1 DEF Tries, Running
  <2> QED
    BY <1>3, <1>4, <2>1, <2>2 DEF CheckAddress
<1>5. ASSUME NEW w \in Workers, NEW o \in {"taken", "rejected", "error"}, Outcome(w, o),
             \/ Finish(w)
             \/ /\ o = "error" /\ attempt[w] < MaxRetries
                /\ attempt' = [attempt EXCEPT ![w] = @ + 1] /\ UNCHANGED <<finished, job>>
      PROVE  Tries'
  <2> DEFINE d0 == job[w]  n == attempt[w]
  <2>1. /\ d0 # None /\ d0 \in Deliveries /\ d0 \notin finished /\ n \in 1..MaxRetries
        /\ \A d \in Deliveries : d # d0 => outcomes'[d] = outcomes[d]
        /\ Len(outcomes'[d0]) = n
        /\ \A i \in 1..(n - 1) : outcomes'[d0][i] = "error"
        /\ outcomes'[d0][n] = o
    BY <1>5, OutcomeFacts
  <2>2. \A v \in Workers : v # w /\ job[v] # None => job[v] \in Deliveries /\ job[v] # d0
    BY <1>1, <2>1 DEF OnePlace
  <2>3. \A d \in Deliveries :
          /\ Len(outcomes'[d]) <= MaxRetries
          /\ \A i \in 1..(Len(outcomes'[d]) - 1) : outcomes'[d][i] = "error"
    BY <2>1 DEF Tries
  <2>4. \A v \in Workers : v # w => job'[v] = job[v] /\ attempt'[v] = attempt[v]
    BY <1>1, <1>5 DEF Finish
  <2>5. \A v \in Workers : v # w /\ job'[v] # None =>
          /\ Len(outcomes'[job'[v]]) = IF attempt'[v] = 0 THEN 0 ELSE attempt'[v] - 1
          /\ \A i \in 1..Len(outcomes'[job'[v]]) : outcomes'[job'[v]][i] = "error"
    BY <2>1, <2>2, <2>4 DEF Tries
  <2>6. \A d \in Deliveries : d # d0 /\ Running(d) => Running(d)'
    BY <2>1, <2>4 DEF Running
  <2>7. CASE Finish(w)
    <3>1. job'[w] = None /\ finished' = finished \cup {d0}
      BY <1>1, <2>7 DEF Finish
    <3> QED
      BY <2>1, <2>3, <2>5, <2>6, <3>1 DEF Tries
  <2>8. CASE /\ o = "error" /\ n < MaxRetries
             /\ attempt' = [attempt EXCEPT ![w] = @ + 1] /\ UNCHANGED <<finished, job>>
    <3>1. job'[w] = d0 /\ attempt'[w] = n + 1 /\ finished' = finished
      BY <1>1, <2>8
    <3>2. Running(d0)'
      BY <3>1 DEF Running
    <3>3. \A i \in 1..n : outcomes'[d0][i] = "error"
      <4>1. \A i \in 1..n : i = n \/ i \in 1..(n - 1)
        BY <2>1
      <4> QED
        BY <2>1, <2>8, <4>1
    <3>4. /\ Len(outcomes'[job'[w]]) = IF attempt'[w] = 0 THEN 0 ELSE attempt'[w] - 1
          /\ \A i \in 1..Len(outcomes'[job'[w]]) : outcomes'[job'[w]][i] = "error"
      BY <2>1, <3>1, <3>3
    <3> QED
      BY <2>1, <2>3, <2>5, <2>6, <3>1, <3>2, <3>4 DEF Tries
  <2> QED
    BY <1>5, <2>7, <2>8
<1>6. ASSUME NEW w \in Workers, Answered(w) \/ Failed(w) PROVE Tries'
  BY <1>5, <1>6 DEF Answered, Failed
<1>7. CASE UNCHANGED <<job, attempt, outcomes, finished>>
  BY <1>7 DEF Tries, Running
<1> QED
  BY <1>2, <1>4, <1>6, <1>7 DEF Next, CreateWebhook, DeleteWebhook, ResetStore,
     ClearDeliveryLog, WaitCall, WaitReturn, FireEvent, Fire, CountOpen, Enqueue, Work, workVars

\* The log and the outcomes grow together.
LEMMA LogStep == IInv /\ Next => LogIsOfThePast'
<1> SUFFICES ASSUME TypeOK, OnePlace, Tries, LogIsOfThePast, Next PROVE LogIsOfThePast'
  BY DEF IInv
<1> USE WebhooksAssumption, WebhooksSets
<1> DEFINE Entries == Deliveries \X (1..MaxRetries) \X {"success", "failure"}
           True(e, out, fin) ==
             /\ e[3] = "success" <=> e[2] <= Len(out[e[1]]) /\ out[e[1]][e[2]] = "taken"
             /\ e[2] <= Len(out[e[1]]) \/ e[1] \in fin
<1>1. log \in Seq(Entries) /\ Len(log) <= LogSize /\ DOMAIN log = 1..Len(log)
  BY LenProperties DEF TypeOK
<1>2. \A i \in DOMAIN log : log[i] \in Entries
  BY <1>1, ElementOfSeq
<1>3. \A i \in DOMAIN log : True(log[i], outcomes, finished)
  BY DEF LogIsOfThePast, LogIsTruthful
<1>4. SUFFICES \A i \in DOMAIN log' : True(log'[i], outcomes', finished')
  BY DEF LogIsOfThePast, LogIsTruthful
<1>5. ASSUME NEW e \in Entries, Record(e[1], e[2], e[3]), NEW i \in DOMAIN log'
      PROVE  log'[i] = e \/ \E j \in DOMAIN log : log'[i] = log[j]
  <2>1. e = <<e[1], e[2], e[3]>>
    OBVIOUS
  <2>2. log' = SubSeq(<<e>> \o log, 1, IF Len(log) < LogSize THEN Len(log) + 1 ELSE LogSize)
    BY <1>5, <2>1, Zenon DEF Record
  <2> HIDE DEF Entries
  <2>3. \A k \in DOMAIN log' : log'[k] = e \/ \E j \in DOMAIN log : log'[k] = log[j]
    BY <1>1, <2>2, PushedEntries
  <2> QED
    BY <2>3
<1>6. ASSUME NEW w \in Workers, CheckAddress(w)
      PROVE  \A i \in DOMAIN log' : True(log'[i], outcomes', finished')
  <2> DEFINE e == <<job[w], 1, "failure">>
  <2>1. /\ job[w] \in Deliveries /\ e \in Entries /\ outcomes' = outcomes
        /\ outcomes[job[w]] \in Seq({"taken", "rejected", "error"}) /\ Len(outcomes[job[w]]) = 0
        /\ finished \subseteq finished'
    BY <1>6 DEF CheckAddress, Finish, TypeOK, Tries
  <2>2. \A i \in DOMAIN log : True(log[i], outcomes', finished')
    BY <1>2, <1>3, <2>1
  <2>3. CASE UNCHANGED log
    BY <2>2, <2>3
  <2>4. CASE Finish(w) /\ Record(job[w], 1, "failure")
    <3>1. job[w] \in finished'
      BY <2>4 DEF Finish
    <3>2. e[1] = job[w] /\ e[2] = 1 /\ e[3] = "failure"
      OBVIOUS
    <3>3. True(e, outcomes', finished')
      BY <2>1, <3>1, <3>2
    <3> HIDE DEF e, Entries, True
    <3> QED
      BY <1>5, <2>1, <2>2, <2>4, <3>2, <3>3
  <2> QED
    BY <1>6, <2>3, <2>4 DEF CheckAddress
<1>7. ASSUME NEW w \in Workers, NEW o \in {"taken", "rejected", "error"}, Outcome(w, o),
             finished \subseteq finished'
      PROVE  \A i \in DOMAIN log' : True(log'[i], outcomes', finished')
  <2> DEFINE s == IF o = "taken" THEN "success" ELSE "failure"
             e == <<job[w], attempt[w], s>>
  <2>1. /\ job[w] \in Deliveries /\ job[w] \notin finished /\ attempt[w] \in 1..MaxRetries
        /\ \A d \in Deliveries : d # job[w] => outcomes'[d] = outcomes[d]
        /\ Len(outcomes[job[w]]) = attempt[w] - 1 /\ Len(outcomes'[job[w]]) = attempt[w]
        /\ \A i \in 1..(attempt[w] - 1) : /\ outcomes[job[w]][i] = "error"
                                         /\ outcomes'[job[w]][i] = "error"
        /\ outcomes'[job[w]][attempt[w]] = o
    BY <1>7, OutcomeFacts
  <2>2. ASSUME NEW f \in Entries, True(f, outcomes, finished)
        PROVE  True(f, outcomes', finished')
    <3>1. f[1] \in Deliveries /\ f[2] \in 1..MaxRetries
      OBVIOUS
    <3>2. CASE f[1] = job[w]
      <4>1. f[2] \in 1..(attempt[w] - 1)
        BY <2>1, <2>2, <3>1, <3>2
      <4> QED
        BY <2>1, <2>2, <3>2, <4>1
    <3>3. CASE f[1] # job[w]
      BY <1>7, <2>1, <2>2, <3>1, <3>3
    <3> QED
      BY <3>2, <3>3
  <2>3. e \in Entries /\ e[1] = job[w] /\ e[2] = attempt[w] /\ e[3] = s
    BY <2>1
  <2>4. True(e, outcomes', finished')
    BY <2>1, <2>3
  <2>5. Record(e[1], e[2], e[3])
    BY <1>7, <2>3 DEF Outcome
  <2> HIDE DEF e, Entries, True
  <2> QED
    BY <1>2, <1>3, <1>5, <2>2, <2>3, <2>4, <2>5
<1>8. ASSUME NEW w \in Workers, Answered(w) \/ Failed(w)
      PROVE  \A i \in DOMAIN log' : True(log'[i], outcomes', finished')
  <2>1. PICK o \in {"taken", "rejected", "error"} : Outcome(w, o)
    BY <1>8 DEF Answered, Failed
  <2>2. finished \subseteq finished'
    BY <1>8 DEF Answered, Failed, Finish
  <2> HIDE DEF True
  <2> QED
    BY <1>7, <2>1, <2>2
<1>9. CASE UNCHANGED <<log, outcomes, finished>>
  BY <1>3, <1>9
<1>10. CASE ClearDeliveryLog
  BY <1>10 DEF ClearDeliveryLog
<1> HIDE DEF True
<1> QED
  BY <1>6, <1>8, <1>9, <1>10 DEF Next, CreateWebhook, DeleteWebhook, ResetStore,
     WaitCall, WaitReturn, FireEvent, Fire, CountOpen, Enqueue, Work, Take, workVars

\* wait_for_deliveries waits for what was submitted, and submitted grows.
LEMMA WaitStep == IInv /\ Next => WaitsForSubmitted'
<1> SUFFICES ASSUME TypeOK, WaitsForSubmitted, Next PROVE WaitsForSubmitted'
  BY DEF IInv
<1>1. submitted \in Nat
  BY WebhooksAssumption DEF TypeOK
<1>2. CASE WaitCall \/ WaitReturn
  BY <1>2 DEF WaitCall, WaitReturn, WaitsForSubmitted, fireVars
<1>3. ASSUME UNCHANGED waiting, submitted' \in {submitted, submitted + 1} PROVE WaitsForSubmitted'
  <2>1. 1..submitted \subseteq 1..submitted'
    BY <1>1, <1>3
  <2> QED
    BY <1>3, <2>1 DEF WaitsForSubmitted
<1> QED
  BY <1>2, <1>3 DEF Next, CreateWebhook, DeleteWebhook, ResetStore, ClearDeliveryLog,
     FireEvent, Fire, CountOpen, Enqueue, Work, Take, CheckAddress, Answered, Failed, Outcome, fireVars

-----------------------------------------------------------------------------
(* The theorems.                                                           *)

\* IInv holds in every reachable state.
THEOREM Invariance == Spec => []IInv
<1>1. IInv /\ UNCHANGED vars => IInv'
  BY DEF IInv, vars, TypeOK, Budget, Pending, PairsOf, OnePlace, BeingPut, Queued, Running,
         Tries, LogIsOfThePast, LogIsTruthful, WaitsForSubmitted
<1>2. IInv /\ [Next]_vars => IInv'
  BY <1>1, TypesStep, BudgetStep, OnePlaceStep, TriesStep, LogStep, WaitStep DEF IInv
<1> QED
  BY <1>2, InitIInv, PTL DEF Spec

\* The counters, the log and the attempts keep their bounds: the log never
\* outgrows _MAX_ENTRIES and no delivery gets more than MAX_RETRIES attempts.
THEOREM TypeCorrect == Spec => []TypeOK
<1>1. IInv => TypeOK
  BY DEF IInv
<1> QED
  BY <1>1, Invariance, PTL

\* The open counter the barrier waits on is exactly the deliveries that are
\* being queued, queued or on a worker, between any two steps of submit and
\* of the workers, and whatever way a delivery ends.
THEOREM OpenAlwaysExact == Spec => []OpenIsExact
<1>1. IInv => OpenIsExact
  <2> SUFFICES ASSUME TypeOK, OnePlace PROVE OpenIsExact
    BY DEF IInv
  <2> DEFINE P == {putting[t] : t \in {u \in Threads : putting[u] # None}}
             Q == {queue[i] : i \in DOMAIN queue}
             J == {job[w] : w \in {v \in Workers : job[v] # None}}
  <2>1. /\ P \subseteq Deliveries /\ Q \subseteq Deliveries /\ J \subseteq Deliveries
    BY LenProperties, ElementOfSeq DEF TypeOK
  <2>2. \A d \in Deliveries : /\ d \in P <=> BeingPut(d)
                              /\ d \in Q <=> Queued(d)
                              /\ d \in J <=> Running(d)
    BY WebhooksSets DEF BeingPut, Queued, Running
  <2>3. (1..submitted) \ finished \subseteq Deliveries
    BY WebhooksAssumption DEF TypeOK, Deliveries
  <2> HIDE DEF P, Q, J
  <2>4. \A d \in Deliveries : d \in (1..submitted) \ finished <=> d \in P \cup Q \cup J
    <3>1. \A d \in Deliveries : d \in 1..submitted <=> d <= submitted
      BY WebhooksAssumption DEF TypeOK, Deliveries
    <3> QED
      BY <2>2, <3>1 DEF OnePlace
  <2>5. (1..submitted) \ finished = P \cup Q \cup J
    BY <2>1, <2>3, <2>4
  <2> QED
    BY <2>5 DEF OpenIsExact, OnePlace, P, Q, J
<1> QED
  BY <1>1, Invariance, PTL

\* A delivery is tried again only after errors, and by one worker.
THEOREM OnlyErrorsAreRetried == Spec => []RetriesOnlyErrors
<1>1. IInv => RetriesOnlyErrors
  BY DEF IInv, Tries, OnePlace, RetriesOnlyErrors
<1> QED
  BY <1>1, Invariance, PTL

\* Every entry of the delivery log tells the outcome of its own attempt,
\* however the workers interleave and whatever has fallen off.
THEOREM LogAlwaysTruthful == Spec => []LogIsTruthful
<1>1. IInv => LogIsTruthful
  BY DEF IInv, LogIsOfThePast
<1> QED
  BY <1>1, Invariance, PTL

\* wait_for_deliveries is a barrier: it returns only once everything that
\* was submitted before the call is finished.
THEOREM WaitingIsABarrier == Spec => WaitIsABarrier
<1>1. IInv /\ [Next]_vars => [waiting # None /\ waiting' = None => waiting \subseteq finished]_vars
  <2> SUFFICES ASSUME IInv, Next, waiting # None, waiting' = None
               PROVE  waiting \subseteq finished
    BY DEF vars
  <2>1. WaitReturn
    BY DEF Next, CreateWebhook, DeleteWebhook, ResetStore, ClearDeliveryLog, WaitCall,
           FireEvent, Fire, CountOpen, Enqueue, Work, Take, CheckAddress, Answered, Failed, Outcome
  <2>2. IsFiniteSet(1..submitted)
    <3>1. submitted \in Int
      BY WebhooksAssumption DEF IInv, TypeOK
    <3> QED
      BY <3>1, FS_Interval
  <2>3. IsFiniteSet((1..submitted) \ finished) /\ Cardinality((1..submitted) \ finished) = 0
    BY <2>1, <2>2, FS_Difference DEF WaitReturn, IInv, OnePlace
  <2>4. (1..submitted) \ finished = {}
    BY <2>3, FS_EmptySet
  <2> QED
    BY <2>4 DEF IInv, WaitsForSubmitted
<1> QED
  BY <1>1, Invariance, PTL DEF Spec, WaitIsABarrier
=============================================================================
