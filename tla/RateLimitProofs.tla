-------------------------- MODULE RateLimitProofs ---------------------------
(***************************************************************************)
(* What module RateLimit promises, for every window, limit and set of      *)
(* tokens.  The invariant compares what the limiter remembers of a token   *)
(* with what it let through, counted from the newest request: within the   *)
(* window the two agree, so the length the limiter looks at is never less  *)
(* than what was admitted.                                                 *)
(***************************************************************************)
EXTENDS RateLimit, WellFoundedInduction, TLAPS

-----------------------------------------------------------------------------
(* The inductive invariant                                                 *)

Keys == Tokens \cup {"unauthenticated"}

Sorted(times) ==
  \A i, j \in 1..Len(times) : i < j => times[i] <= times[j]

\* The requests remembered are past ones, oldest first.
BucketsInOrder ==
  /\ limiter \in [enabled : BOOLEAN, limit : Nat]
  /\ DOMAIN buckets \subseteq Keys
  /\ \A k \in DOMAIN buckets :
       /\ buckets[k] \in Seq(Times) /\ Sorted(buckets[k])
       /\ \A i \in 1..Len(buckets[k]) : buckets[k][i] <= now

\* What was let through was counted in the past, oldest first, and every limit
\* that may still judge a request is one of those in force.
Noted ==
  /\ admitted \in [Tokens -> Seq(Times)]
  /\ \A t \in Tokens : Sorted(admitted[t]) /\ \A i \in 1..Len(admitted[t]) : admitted[t][i] <= now
  /\ highest \in Nat /\ limiter.limit <= highest
  /\ configuring \in 0..MaxConfigs

\* A request under way has its deque in hand.
UnderWay ==
  request # None =>
    /\ request.key \in Keys /\ request.falcon \in BOOLEAN
    /\ ~request.falcon => request.key \in Tokens
    /\ request.live => request.key \in DOMAIN buckets
    /\ request.live /\ request.limit # None => request.limit \in Nat /\ request.limit <= highest

\* The m-th latest request let through, if it is in the window, is no later
\* than the m-th latest the limiter remembers: it remembers as many.
Remembers(b, a) ==
  \A m \in 0..(Len(a) - 1) :
    a[Len(a) - m] >= WindowStart => m < Len(b) /\ b[Len(b) - m] >= a[Len(a) - m]

AdmittedIsRemembered ==
  \A t \in Tokens :
    /\ t \in DOMAIN buckets => Remembers(buckets[t], admitted[t])
    /\ t \notin DOMAIN buckets => Remembers(<<>>, admitted[t])

RateInv == BucketsInOrder /\ Noted /\ UnderWay /\ AdmittedIsRemembered /\ WindowBudget

-----------------------------------------------------------------------------
(* popleft                                                                 *)

\* A set of numbers has a least one.
LEMMA LeastNumber ==
  ASSUME NEW S, S \subseteq Nat, S # {}
  PROVE  \E x \in S : \A y \in S : x <= y
<1>1. PICK x \in S : \A y \in S : ~(<<y, x>> \in OpToRel(<, Nat))
  BY NatLessThanWellFounded, WFMin
<1>2. \A y \in S : ~(y < x)
  BY <1>1 DEF OpToRel
<1> QED
  BY <1>2

\* popleft leaves the end of the sequence: all of it that is not older than
\* the window, and what remains keeps its distance from the end.
LEMMA DropBeforeEntries ==
  ASSUME NEW times, times \in Seq(Times), NEW start \in Nat, NEW d, d = DropBefore(times, start)
  PROVE  \E n \in 0..Len(times) :
           /\ \A i \in 1..n : times[i] < start
           /\ n < Len(times) => times[n + 1] >= start
           /\ d \in Seq(Times) /\ Len(d) = Len(times) - n
           /\ \A i \in 1..Len(d) : d[i] = times[i + n]
<1> DEFINE Good(k) == /\ \A i \in 1..k : times[i] < start
                      /\ k < Len(times) => times[k + 1] >= start
<1>1. Len(times) \in Nat /\ \A i \in 1..Len(times) : times[i] \in Nat /\ times[i] \in Times
  BY ClockAssumption DEF Times
<1>2. \E k \in 0..Len(times) : Good(k)
  <2>1. CASE \A i \in 1..Len(times) : times[i] < start
    BY <1>1, <2>1
  <2>2. CASE \E i \in 1..Len(times) : ~(times[i] < start)
    <3> DEFINE S == {i \in 1..Len(times) : ~(times[i] < start)}
    <3>1. S \subseteq Nat /\ S # {}
      BY <1>1, <2>2
    <3>2. PICK x \in S : \A y \in S : x <= y
      BY <3>1, LeastNumber
    <3>3. /\ x \in 1..Len(times) /\ times[x] >= start
          /\ \A i \in 1..Len(times) : i < x => times[i] < start
      BY <1>1, <3>2
    <3>4. x - 1 \in 0..Len(times) /\ (x - 1) + 1 = x
      BY <1>1, <3>3
    <3>5. \A i \in 1..(x - 1) : times[i] < start
      BY <1>1, <3>3
    <3>6. Good(x - 1)
      BY <3>3, <3>4, <3>5
    <3> QED
      BY <3>4, <3>6
  <2> QED
    BY <2>1, <2>2
<1> DEFINE n == CHOOSE k \in 0..Len(times) : Good(k)
<1>3. n \in 0..Len(times) /\ Good(n)
  BY <1>2
<1>4. d = [i \in 1..(Len(times) - n) |-> times[i + n]]
  BY DEF DropBefore
<1> HIDE DEF n
<1>5. Len(times) - n \in Nat /\ \A i \in 1..(Len(times) - n) : times[i + n] \in Times
  BY <1>1, <1>3
<1>6. d \in Seq(Times) /\ Len(d) = Len(times) - n /\ \A i \in 1..Len(d) : d[i] = times[i + n]
  BY <1>4, <1>5
<1> QED
  BY <1>3, <1>6

\* What is in the window is left, at the same distance from the end.
LEMMA DropKeepsWindow ==
  ASSUME NEW times, times \in Seq(Times), NEW start \in Nat, NEW d, d = DropBefore(times, start)
  PROVE  /\ d \in Seq(Times) /\ Len(d) \in Nat /\ Len(d) <= Len(times)
         /\ \A m \in 0..(Len(d) - 1) : d[Len(d) - m] = times[Len(times) - m]
         /\ \A m \in 0..(Len(times) - 1) : times[Len(times) - m] >= start => m < Len(d)
         /\ d # <<>> => d[1] >= start
<1>1. Len(times) \in Nat /\ \A i \in 1..Len(times) : times[i] \in Nat
  BY ClockAssumption DEF Times
<1>2. PICK n \in 0..Len(times) :
           /\ \A i \in 1..n : times[i] < start
           /\ n < Len(times) => times[n + 1] >= start
           /\ d \in Seq(Times) /\ Len(d) = Len(times) - n
           /\ \A i \in 1..Len(d) : d[i] = times[i + n]
  BY DropBeforeEntries
<1>3. Len(d) \in Nat /\ Len(d) <= Len(times)
  BY <1>1, <1>2
<1>4. \A m \in 0..(Len(d) - 1) : d[Len(d) - m] = times[Len(times) - m]
  <2> SUFFICES ASSUME NEW m \in 0..(Len(d) - 1) PROVE d[Len(d) - m] = times[Len(times) - m]
    OBVIOUS
  <2>1. Len(d) - m \in 1..Len(d) /\ (Len(d) - m) + n = Len(times) - m
    BY <1>1, <1>2, <1>3
  <2>2. d[Len(d) - m] = times[(Len(d) - m) + n]
    BY <1>2, <2>1
  <2> QED
    BY <2>1, <2>2
<1>5. \A m \in 0..(Len(times) - 1) : times[Len(times) - m] >= start => m < Len(d)
  <2> SUFFICES ASSUME NEW m \in 0..(Len(times) - 1), times[Len(times) - m] >= start
               PROVE  m < Len(d)
    OBVIOUS
  <2>1. Len(times) - m \in 1..Len(times)
    BY <1>1
  <2>2. ~(Len(times) - m \in 1..n)
    <3>1. times[Len(times) - m] \in Nat /\ ~(times[Len(times) - m] < start)
      BY <1>1, <2>1
    <3> QED
      BY <1>2, <3>1
  <2> QED
    BY <1>1, <1>2, <2>1, <2>2
<1>6. d # <<>> => d[1] >= start
  <2> SUFFICES ASSUME d # <<>> PROVE d[1] >= start
    OBVIOUS
  <2>1. 1 \in 1..Len(d) /\ 1 + n = n + 1 /\ n < Len(times)
    BY <1>1, <1>2, <1>3
  <2> QED
    BY <1>2, <2>1
<1> QED
  BY <1>2, <1>3, <1>4, <1>5, <1>6

\* A later window leaves no more.
LEMMA LaterWindowIsShorter ==
  ASSUME NEW times, times \in Seq(Times), NEW start \in Nat, NEW later \in Nat, start <= later
  PROVE  Len(DropBefore(times, later)) <= Len(DropBefore(times, start))
<1>1. Len(times) \in Nat /\ \A i \in 1..Len(times) : times[i] \in Nat
  BY ClockAssumption DEF Times
<1>2. PICK n \in 0..Len(times) :
           /\ n < Len(times) => times[n + 1] >= start
           /\ \A i \in 1..n : times[i] < start
           /\ Len(DropBefore(times, start)) = Len(times) - n
  BY DropBeforeEntries
<1>3. PICK k \in 0..Len(times) :
           /\ k < Len(times) => times[k + 1] >= later
           /\ Len(DropBefore(times, later)) = Len(times) - k
  BY DropBeforeEntries
<1>4. ~(k < n)
  <2> SUFFICES ASSUME k < n PROVE FALSE
    OBVIOUS
  <2>1. k + 1 \in 1..n /\ k < Len(times) /\ k + 1 \in 1..Len(times)
    BY <1>1
  <2>2. times[k + 1] < start /\ times[k + 1] >= later /\ times[k + 1] \in Nat
    BY <1>1, <1>2, <1>3, <2>1
  <2> QED
    BY <2>2
<1> QED
  BY <1>1, <1>2, <1>3, <1>4

-----------------------------------------------------------------------------
(* What _bucket answers                                                    *)

LEMMA StartOfWindow ==
  ASSUME now \in Times PROVE WindowStart \in Nat /\ now \in Nat /\ WindowStart <= now
  BY ClockAssumption, RateAssumption DEF WindowStart, Times

\* popleft leaves a sequence in order.
LEMMA DropKeepsOrder ==
  ASSUME NEW times, times \in Seq(Times), Sorted(times), NEW last,
         \A i \in 1..Len(times) : times[i] <= last,
         NEW start \in Nat, NEW d, d = DropBefore(times, start)
  PROVE  d \in Seq(Times) /\ Sorted(d) /\ \A i \in 1..Len(d) : d[i] <= last
<1>1. PICK n \in 0..Len(times) :
           /\ d \in Seq(Times) /\ Len(d) = Len(times) - n
           /\ \A i \in 1..Len(d) : d[i] = times[i + n]
  BY DropBeforeEntries
<1>2. \A i \in 1..Len(d) : i + n \in 1..Len(times)
  BY <1>1
<1>3. \A i, j \in 1..Len(d) : i < j => i + n < j + n
  BY <1>1
<1> QED
  BY <1>1, <1>2, <1>3 DEF Sorted

\* The bucket asked for is in order, and no older than the window.
LEMMA BucketInOrder ==
  ASSUME RateInv, now \in Times, NEW k
  PROVE  /\ Bucket(k) \in Seq(Times) /\ Sorted(Bucket(k))
         /\ \A i \in 1..Len(Bucket(k)) : Bucket(k)[i] <= now
<1>1. CASE k \in DOMAIN buckets
  <2>1. buckets[k] \in Seq(Times) /\ Sorted(buckets[k])
    BY <1>1 DEF RateInv, BucketsInOrder
  <2>2. \A i \in 1..Len(buckets[k]) : buckets[k][i] <= now
    BY <1>1 DEF RateInv, BucketsInOrder
  <2>3. WindowStart \in Nat /\ Bucket(k) = DropBefore(buckets[k], WindowStart)
    BY <1>1, StartOfWindow DEF Bucket, Recent
  <2> QED
    BY <2>1, <2>2, <2>3, DropKeepsOrder
<1>2. CASE k \notin DOMAIN buckets
  BY <1>2 DEF Bucket, Sorted
<1> QED
  BY <1>1, <1>2

\* A bucket is evicted only when nothing let through is in the window.
LEMMA EvictedIsStale ==
  ASSUME RateInv, now \in Times, NEW t \in Tokens, t \in Stale
  PROVE  Remembers(<<>>, admitted[t])
<1>1. /\ t \in DOMAIN buckets /\ Remembers(buckets[t], admitted[t]) /\ Sorted(buckets[t])
      /\ Len(buckets[t]) \in Nat /\ \A i \in 1..Len(buckets[t]) : buckets[t][i] \in Nat
      /\ Len(admitted[t]) \in Nat /\ \A i \in 1..Len(admitted[t]) : admitted[t][i] \in Nat
  <2>1. t \in DOMAIN buckets
    BY DEF Stale
  <2>2. Remembers(buckets[t], admitted[t])
    BY <2>1 DEF RateInv, AdmittedIsRemembered
  <2>3. buckets[t] \in Seq(Times) /\ Sorted(buckets[t])
    BY <2>1 DEF RateInv, BucketsInOrder
  <2>4. admitted[t] \in Seq(Times)
    BY DEF RateInv, Noted
  <2> QED
    BY <2>1, <2>2, <2>3, <2>4, ClockAssumption DEF Times
<1>2. WindowStart \in Nat
  BY StartOfWindow
<1>3. ASSUME NEW m \in 0..(Len(admitted[t]) - 1), admitted[t][Len(admitted[t]) - m] >= WindowStart
      PROVE  FALSE
  <2>0. /\ m < Len(buckets[t])
        /\ buckets[t][Len(buckets[t]) - m] >= admitted[t][Len(admitted[t]) - m]
        /\ Len(admitted[t]) - m \in 1..Len(admitted[t])
    BY <1>1, <1>3 DEF Remembers
  <2>1. m < Len(buckets[t]) /\ buckets[t][Len(buckets[t]) - m] >= WindowStart
    <3>1. Len(buckets[t]) - m \in 1..Len(buckets[t])
      BY <1>1, <2>0
    <3>2. buckets[t][Len(buckets[t]) - m] \in Nat /\ admitted[t][Len(admitted[t]) - m] \in Nat
      BY <1>1, <2>0, <3>1
    <3> QED
      BY <1>2, <1>3, <2>0, <3>2
  <2>2. Len(buckets[t]) \in 1..Len(buckets[t]) /\ Len(buckets[t]) - m \in 1..Len(buckets[t])
    BY <1>1, <2>1
  <2>3. buckets[t][Len(buckets[t]) - m] <= buckets[t][Len(buckets[t])]
    <3>1. CASE m = 0
      BY <1>1, <2>2, <3>1
    <3>2. CASE m > 0
      BY <1>1, <2>2, <3>2 DEF Sorted
    <3> QED
      BY <3>1, <3>2
  <2>4. buckets[t] # <<>>
    BY <2>1
  <2>5. buckets[t][Len(buckets[t])] < WindowStart
    BY <2>4 DEF Stale
  <2> QED
    BY <1>1, <1>2, <2>1, <2>2, <2>3, <2>5
<1> QED
  BY <1>3 DEF Remembers

\* What is cut off a bucket is not in the window either.
LEMMA BucketRemembers ==
  ASSUME RateInv, now \in Times, NEW t \in Tokens
  PROVE  Remembers(Bucket(t), admitted[t])
<1>1. CASE t \in DOMAIN buckets
  <2> DEFINE a == admitted[t]
             b == buckets[t]
             d == Bucket(t)
  <2>1. /\ b \in Seq(Times) /\ Remembers(b, a) /\ a \in Seq(Times)
        /\ Len(a) \in Nat /\ Len(b) \in Nat /\ WindowStart \in Nat
    BY <1>1, StartOfWindow DEF RateInv, BucketsInOrder, Noted, AdmittedIsRemembered
  <2>2. /\ Len(d) \in Nat
        /\ \A m \in 0..(Len(d) - 1) : d[Len(d) - m] = b[Len(b) - m]
        /\ \A m \in 0..(Len(b) - 1) : b[Len(b) - m] >= WindowStart => m < Len(d)
    BY <1>1, <2>1, StartOfWindow, DropKeepsWindow DEF Bucket, Recent
  <2> HIDE DEF a, b, d
  <2>3. ASSUME NEW m \in 0..(Len(a) - 1), a[Len(a) - m] >= WindowStart
        PROVE  m < Len(d) /\ d[Len(d) - m] >= a[Len(a) - m]
    <3>1. m < Len(b) /\ b[Len(b) - m] >= a[Len(a) - m]
      BY <2>1, <2>3 DEF Remembers
    <3>2. m \in 0..(Len(b) - 1) /\ Len(b) - m \in 1..Len(b) /\ Len(a) - m \in 1..Len(a)
      BY <2>1, <3>1
    <3>3. b[Len(b) - m] \in Nat /\ a[Len(a) - m] \in Nat
      <4>1. (\A i \in 1..Len(b) : b[i] \in Nat) /\ (\A i \in 1..Len(a) : a[i] \in Nat)
        BY <2>1, ClockAssumption DEF Times
      <4> QED
        BY <3>2, <4>1
    <3>4. b[Len(b) - m] >= WindowStart
      BY <2>1, <2>3, <3>1, <3>3
    <3>5. m < Len(d)
      BY <2>2, <3>2, <3>4
    <3>6. m \in 0..(Len(d) - 1)
      BY <2>2, <3>5
    <3> QED
      BY <2>2, <3>1, <3>5, <3>6
  <2>4. Remembers(d, a)
    BY <2>3 DEF Remembers
  <2> QED
    BY <2>4 DEF a, d
<1>2. CASE t \notin DOMAIN buckets
  BY <1>2 DEF RateInv, AdmittedIsRemembered, Bucket
<1> QED
  BY <1>1, <1>2

\* So the limiter never sees less than was let through in the window.
LEMMA RememberedCounts ==
  ASSUME now \in Times, NEW a \in Seq(Times), NEW b \in Seq(Times), Remembers(b, a)
  PROVE  Len(InWindow(a)) <= Len(b) /\ Len(InWindow(a)) \in Nat
<1> DEFINE w == InWindow(a)
<1>1. Len(a) \in Nat /\ Len(b) \in Nat /\ WindowStart \in Nat
  BY StartOfWindow
<1>2. /\ w \in Seq(Times) /\ Len(w) \in Nat /\ Len(w) <= Len(a)
      /\ \A m \in 0..(Len(w) - 1) : w[Len(w) - m] = a[Len(a) - m]
      /\ w # <<>> => w[1] >= WindowStart
  <2>1. w = DropBefore(a, WindowStart)
    BY DEF InWindow
  <2> HIDE DEF w
  <2> QED
    BY <1>1, <2>1, DropKeepsWindow
<1> HIDE DEF w
<1>3. CASE w = <<>>
  BY <1>1, <1>2, <1>3 DEF w
<1>4. CASE w # <<>>
  <2> DEFINE m == Len(w) - 1
  <2>1. m \in 0..(Len(w) - 1) /\ m \in 0..(Len(a) - 1) /\ Len(w) - m = 1
    BY <1>1, <1>2, <1>4
  <2>2. a[Len(a) - m] >= WindowStart
    BY <1>2, <1>4, <2>1
  <2>3. m < Len(b)
    BY <1>1, <2>1, <2>2 DEF Remembers
  <2>4. Len(w) <= Len(b)
    BY <1>1, <1>2, <2>3
  <2> QED
    BY <1>2, <2>4 DEF w
<1> QED
  BY <1>3, <1>4

\* One more request in the deque, noted or not, and nothing is forgotten.
LEMMA OneMoreRemembered ==
  ASSUME now \in Times, NEW b \in Seq(Times), NEW a \in Seq(Times), Remembers(b, a), Sorted(a),
         \A i \in 1..Len(a) : a[i] <= now,
         NEW v, v = Append(b, now)
  PROVE  Remembers(v, a)
<1>1. /\ Len(a) \in Nat /\ Len(b) \in Nat /\ now \in Nat /\ Len(v) = Len(b) + 1
      /\ v[Len(b) + 1] = now /\ \A i \in 1..Len(b) : v[i] = b[i]
  BY ClockAssumption DEF Times
<1>2. \A i \in 1..Len(a) : a[i] \in Nat
  BY ClockAssumption DEF Times
<1>3. \A i \in 1..Len(b) : b[i] \in Nat
  BY ClockAssumption DEF Times
<1> SUFFICES ASSUME NEW m \in 0..(Len(a) - 1), a[Len(a) - m] >= WindowStart
             PROVE  m < Len(v) /\ v[Len(v) - m] >= a[Len(a) - m]
  BY DEF Remembers
<1>4. CASE m = 0
  <2>1. Len(a) \in 1..Len(a) /\ Len(v) - m = Len(b) + 1 /\ Len(a) - m = Len(a)
    BY <1>1, <1>4
  <2>2. a[Len(a)] <= now
    BY <2>1
  <2> QED
    BY <1>1, <1>2, <1>4, <2>1, <2>2
<1>5. CASE m > 0
  <2> DEFINE p == m - 1
  <2>1. /\ p \in 0..(Len(a) - 1) /\ Len(a) - p \in 1..Len(a) /\ Len(a) - m \in 1..Len(a)
        /\ Len(a) - m < Len(a) - p
    BY <1>1, <1>5
  <2>2. a[Len(a) - m] <= a[Len(a) - p] /\ a[Len(a) - m] \in Nat /\ a[Len(a) - p] \in Nat
    BY <1>2, <2>1 DEF Sorted
  <2>3. WindowStart \in Nat
    BY StartOfWindow
  <2>4. a[Len(a) - p] >= WindowStart
    BY <2>2, <2>3
  <2>5. p < Len(b) /\ b[Len(b) - p] >= a[Len(a) - p]
    BY <2>1, <2>4 DEF Remembers
  <2>6. Len(b) - p \in 1..Len(b) /\ Len(v) - m = Len(b) - p /\ m < Len(v)
    BY <1>1, <1>5, <2>1, <2>5
  <2>7. v[Len(v) - m] = b[Len(b) - p] /\ b[Len(b) - p] \in Nat
    BY <1>1, <1>3, <2>6
  <2> QED
    BY <2>2, <2>5, <2>6, <2>7
<1> QED
  BY <1>4, <1>5

\* ... and a request noted as well.
LEMMA OneMoreNoted ==
  ASSUME now \in Times, NEW b \in Seq(Times), NEW a \in Seq(Times), Remembers(b, a), Sorted(a),
         \A i \in 1..Len(a) : a[i] <= now,
         NEW v, v = Append(b, now), NEW n, n = Append(InWindow(a), now)
  PROVE  /\ Remembers(v, n) /\ n \in Seq(Times) /\ Sorted(n) /\ Len(n) = Len(InWindow(a)) + 1
         /\ \A i \in 1..Len(n) : n[i] <= now
<1> DEFINE w == InWindow(a)
<1>1. Len(a) \in Nat /\ Len(b) \in Nat /\ now \in Nat /\ WindowStart \in Nat
  BY StartOfWindow
<1>2. PICK k \in 0..Len(a) :
           /\ w \in Seq(Times) /\ Len(w) = Len(a) - k
           /\ \A i \in 1..Len(w) : w[i] = a[i + k]
  BY <1>1, DropBeforeEntries DEF InWindow
<1> HIDE DEF w
<1>3. /\ Len(w) \in Nat /\ n = Append(w, now) /\ n \in Seq(Times) /\ Len(n) = Len(w) + 1
      /\ n[Len(w) + 1] = now /\ \A i \in 1..Len(w) : n[i] = w[i]
  BY <1>1, <1>2 DEF w
<1>4. 1..Len(n) = 1..Len(w) \cup {Len(w) + 1}
  BY <1>3
<1>5. \A i \in 1..Len(w) : i + k \in 1..Len(a)
  BY <1>1, <1>2, <1>3
<1>6. \A i \in 1..Len(w) : n[i] = a[i + k] /\ n[i] <= now /\ n[i] \in Nat
  <2>1. \A i \in 1..Len(a) : a[i] \in Nat
    BY ClockAssumption DEF Times
  <2>2. \A i \in 1..Len(w) : n[i] = a[i + k]
    BY <1>2, <1>3
  <2> QED
    BY <1>5, <2>1, <2>2
<1>7. \A i \in 1..Len(n) : n[i] <= now
  BY <1>1, <1>3, <1>4, <1>6
<1>8. Sorted(n)
  <2>1. ASSUME NEW i \in 1..Len(w), NEW j \in 1..Len(w), i < j PROVE n[i] <= n[j]
    <3>1. i + k < j + k /\ i + k \in 1..Len(a) /\ j + k \in 1..Len(a)
      BY <1>1, <1>2, <1>3, <1>5, <2>1
    <3> QED
      BY <1>6, <3>1 DEF Sorted
  <2>2. ASSUME NEW i \in 1..Len(n), NEW j \in 1..Len(n), i < j PROVE n[i] <= n[j]
    <3>1. i \in 1..Len(w)
      BY <1>3, <2>2
    <3>2. CASE j \in 1..Len(w)
      BY <2>1, <2>2, <3>1, <3>2
    <3>3. CASE j = Len(w) + 1
      BY <1>3, <1>6, <3>1, <3>3
    <3> QED
      BY <1>4, <3>2, <3>3
  <2> QED
    BY <2>2 DEF Sorted
<1>9. Remembers(v, n)
  <2>1. Len(v) = Len(b) + 1 /\ v[Len(b) + 1] = now /\ \A i \in 1..Len(b) : v[i] = b[i]
    BY <1>1
  <2> SUFFICES ASSUME NEW m \in 0..(Len(n) - 1), n[Len(n) - m] >= WindowStart
               PROVE  m < Len(v) /\ v[Len(v) - m] >= n[Len(n) - m]
    BY DEF Remembers
  <2>2. CASE m = 0
    <3>1. Len(v) - m = Len(b) + 1 /\ Len(n) - m = Len(w) + 1
      BY <1>1, <1>3, <2>1, <2>2
    <3> QED
      BY <1>1, <1>3, <2>1, <2>2, <3>1
  <2>3. CASE m > 0
    <3> DEFINE p == m - 1
    <3>1. /\ p \in 0..(Len(a) - 1) /\ Len(n) - m = Len(w) - p /\ Len(w) - p \in 1..Len(w)
          /\ (Len(w) - p) + k = Len(a) - p
      BY <1>1, <1>2, <1>3, <2>3
    <3>2. n[Len(n) - m] = a[Len(a) - p]
      BY <1>6, <3>1
    <3>3. p < Len(b) /\ b[Len(b) - p] >= a[Len(a) - p]
      BY <3>1, <3>2 DEF Remembers
    <3>4. Len(b) - p \in 1..Len(b) /\ Len(v) - m = Len(b) - p /\ m < Len(v)
      BY <1>1, <2>1, <2>3, <3>1, <3>3
    <3>5. v[Len(v) - m] = b[Len(b) - p]
      BY <2>1, <3>4
    <3> QED
      BY <3>2, <3>3, <3>4, <3>5
  <2> QED
    BY <2>2, <2>3
<1> QED
  BY <1>3, <1>7, <1>8, <1>9 DEF w

-----------------------------------------------------------------------------
(* Every step                                                              *)

LEMMA NothingInWindow == ASSUME now \in Times PROVE Len(InWindow(<<>>)) = 0
<1>1. <<>> \in Seq(Times) /\ Len(<<>>) = 0 /\ WindowStart \in Nat
  BY StartOfWindow
<1>2. Len(DropBefore(<<>>, WindowStart)) \in Nat /\ Len(DropBefore(<<>>, WindowStart)) <= 0
  BY <1>1, DropKeepsWindow
<1> QED
  BY <1>2 DEF InWindow

\* With nothing remembered and nothing noted.
LEMMA Blank ==
  ASSUME NEW t, admitted[t] = <<>>
  PROVE  Remembers(<<>>, admitted[t]) /\ Sorted(admitted[t]) /\ Len(admitted[t]) = 0
  BY DEF Remembers, Sorted

LEMMA RateInitially == RateInit /\ ClockInit => RateInv
<1> SUFFICES ASSUME RateInit, ClockInit PROVE RateInv
  OBVIOUS
<1>1. DOMAIN buckets = {} /\ now \in Times
  BY ClockAssumption DEF RateInit, EmptyDict, ClockInit, Times
<1>2. \A t \in Tokens : admitted[t] = <<>>
  BY DEF RateInit
<1>3. BucketsInOrder
  BY <1>1 DEF RateInit, BucketsInOrder
<1>4. Noted /\ UnderWay
  <2>1. admitted \in [Tokens -> Seq(Times)]
    BY DEF RateInit
  <2>2. \A t \in Tokens : Sorted(admitted[t]) /\ \A i \in 1..Len(admitted[t]) : admitted[t][i] <= now
    BY <1>2, Blank
  <2>3. highest \in Nat /\ limiter.limit <= highest /\ configuring \in 0..MaxConfigs
    BY RateAssumption DEF RateInit
  <2> QED
    BY <2>1, <2>2, <2>3 DEF RateInit, Noted, UnderWay
<1>5. AdmittedIsRemembered
  BY <1>1, <1>2, Blank DEF AdmittedIsRemembered
<1>6. WindowBudget
  BY <1>1, <1>2, NothingInWindow DEF RateInit, WindowBudget
<1> QED
  BY <1>3, <1>4, <1>5, <1>6 DEF RateInv

\* The lookup drops the deques nothing recent is in, and cuts its own.
LEMMA LookUpStep ==
  ASSUME RateInv, now \in Times, now' = now, NEW k \in Keys, NEW falcon \in BOOLEAN,
         LookUp(k, falcon)
  PROVE  RateInv'
<1> DEFINE v == Bucket(k)
<1>0. WindowStart' = WindowStart
  BY DEF WindowStart
<1>1. /\ DOMAIN buckets' = (DOMAIN buckets \ Stale) \cup {k} /\ buckets'[k] = v
      /\ \A x \in DOMAIN buckets' : x # k => x \in DOMAIN buckets /\ buckets'[x] = buckets[x]
  BY DEF LookUp, Put, Pop, Restrict
<1>2. UNCHANGED <<limiter, configuring, admitted, highest>>
  BY DEF LookUp
<1>3. /\ v \in Seq(Times) /\ Sorted(v) /\ \A i \in 1..Len(v) : v[i] <= now
      /\ k \in Tokens => Remembers(v, admitted[k])
  BY BucketInOrder, BucketRemembers
<1> HIDE DEF v
<1>4. BucketsInOrder'
  <2>1. BucketsInOrder
    BY DEF RateInv
  <2>2. DOMAIN buckets' \subseteq Keys
    BY <1>1, <2>1 DEF BucketsInOrder
  <2>3. \A x \in DOMAIN buckets' :
          /\ buckets'[x] \in Seq(Times) /\ Sorted(buckets'[x])
          /\ \A i \in 1..Len(buckets'[x]) : buckets'[x][i] <= now
    BY <1>1, <1>3, <2>1 DEF BucketsInOrder
  <2> QED
    BY <1>2, <2>1, <2>2, <2>3 DEF BucketsInOrder, Sorted
<1>5. Noted' /\ WindowBudget'
  BY <1>0, <1>2 DEF RateInv, Noted, WindowBudget, InWindow, Sorted
<1>6. UnderWay'
  <2>1. /\ request'.key = k /\ request'.falcon = falcon
        /\ request'.limit = IF limiter.enabled THEN limiter.limit ELSE None
    BY DEF LookUp
  <2>2. ~falcon => k \in Tokens
    BY DEF LookUp
  <2>3. limiter.limit \in Nat /\ limiter.limit <= highest
    BY DEF RateInv, BucketsInOrder, Noted
  <2> QED
    BY <1>1, <1>2, <2>1, <2>2, <2>3 DEF UnderWay
<1>7. ASSUME NEW t \in Tokens
      PROVE  /\ t \in DOMAIN buckets' => Remembers(buckets'[t], admitted[t])
             /\ t \notin DOMAIN buckets' => Remembers(<<>>, admitted[t])
  <2>1. CASE t = k
    BY <1>1, <1>3, <2>1
  <2>2. CASE t # k /\ t \in DOMAIN buckets'
    BY <1>1, <2>2 DEF RateInv, AdmittedIsRemembered
  <2>3. CASE t # k /\ t \notin DOMAIN buckets'
    <3>1. t \in Stale \/ t \notin DOMAIN buckets
      BY <1>1, <2>3
    <3>2. Remembers(<<>>, admitted[t])
      BY <3>1, EvictedIsStale DEF RateInv, AdmittedIsRemembered
    <3> QED
      BY <2>3, <3>2
  <2> QED
    BY <2>1, <2>2, <2>3
<1>8. AdmittedIsRemembered'
  BY <1>0, <1>2, <1>7 DEF AdmittedIsRemembered, Remembers
<1> QED
  BY <1>4, <1>5, <1>6, <1>8 DEF RateInv

\* A request refused, or counted where nobody looks, changes nothing.
LEMMA NothingCounted ==
  ASSUME RateInv, now' = now, request' = None,
         UNCHANGED <<limiter, buckets, configuring, admitted, highest>>
  PROVE  RateInv'
  BY DEF RateInv, BucketsInOrder, Noted, UnderWay, AdmittedIsRemembered, WindowBudget,
         Sorted, Remembers, InWindow, WindowStart

\* A request let through is remembered; if a limit judged it, it is noted, and
\* it was let through because fewer than that limit were remembered.
LEMMA AdmitStep ==
  ASSUME RateInv, now \in Times, now' = now, Admit
  PROVE  RateInv'
<1> DEFINE k == request.key
           b == buckets[k]
           v == Append(b, now)
<1>1. WindowStart' = WindowStart /\ WindowStart \in Nat /\ now \in Nat /\ WindowStart <= now
  BY StartOfWindow DEF WindowStart
<1>2. /\ request # None /\ request.live /\ request' = None /\ k \in DOMAIN buckets /\ k \in Keys
      /\ UNCHANGED <<limiter, configuring, highest>>
  BY DEF Admit, RateInv, UnderWay
<1>3. b \in Seq(Times) /\ Sorted(b) /\ (\A i \in 1..Len(b) : b[i] <= now) /\ Len(b) \in Nat
  BY <1>2 DEF RateInv, BucketsInOrder
<1>4. /\ buckets' = [buckets EXCEPT ![k] = v]
      /\ DOMAIN buckets' = DOMAIN buckets /\ buckets'[k] = v
      /\ \A x \in DOMAIN buckets : x # k => buckets'[x] = buckets[x]
  BY <1>2 DEF Admit
<1>5. Judged => Len(b) < Limit /\ k \in Tokens /\ Limit \in Nat /\ Limit <= highest
  <2>1. Judged => Len(b) < Limit
    BY DEF Admit
  <2>2. UnderWay /\ limiter.limit \in Nat /\ limiter.limit <= highest
    BY DEF RateInv, BucketsInOrder, Noted
  <2> QED
    BY <1>2, <2>1, <2>2 DEF UnderWay, Judged, Limit, Keys
<1>6. /\ Judged => admitted' = [admitted EXCEPT ![k] = Append(InWindow(admitted[k]), now)]
      /\ ~Judged => admitted' = admitted
  BY DEF Admit
<1> HIDE DEF k, b
<1>7. v \in Seq(Times) /\ Sorted(v) /\ \A i \in 1..Len(v) : v[i] <= now
  <2>1. /\ v \in Seq(Times) /\ Len(v) = Len(b) + 1 /\ v[Len(b) + 1] = now
        /\ \A i \in 1..Len(b) : v[i] = b[i]
    BY <1>3
  <2>2. 1..(Len(b) + 1) = 1..Len(b) \cup {Len(b) + 1}
    BY <1>3
  <2> QED
    BY <1>1, <1>3, <2>1, <2>2 DEF Sorted
<1>8. BucketsInOrder'
  <2>1. BucketsInOrder
    BY DEF RateInv
  <2>2. \A x \in DOMAIN buckets' :
          /\ buckets'[x] \in Seq(Times) /\ Sorted(buckets'[x])
          /\ \A i \in 1..Len(buckets'[x]) : buckets'[x][i] <= now
    BY <1>4, <1>7, <2>1 DEF BucketsInOrder
  <2> QED
    BY <1>2, <1>4, <2>1, <2>2 DEF BucketsInOrder, Sorted
<1>9. UnderWay'
  BY <1>2 DEF UnderWay
<1>10. ASSUME NEW t \in Tokens
       PROVE  /\ admitted[t] \in Seq(Times) /\ Sorted(admitted[t])
              /\ \A i \in 1..Len(admitted[t]) : admitted[t][i] <= now
              /\ t \in DOMAIN buckets => Remembers(buckets[t], admitted[t])
              /\ t \notin DOMAIN buckets => Remembers(<<>>, admitted[t])
              /\ Len(InWindow(admitted[t])) <= highest
  BY DEF RateInv, Noted, AdmittedIsRemembered, WindowBudget
<1>11. ASSUME NEW t \in Tokens
       PROVE  /\ admitted'[t] \in Seq(Times) /\ Sorted(admitted'[t])
              /\ \A i \in 1..Len(admitted'[t]) : admitted'[t][i] <= now
              /\ t \in DOMAIN buckets => Remembers(buckets'[t], admitted'[t])
              /\ t \notin DOMAIN buckets => Remembers(<<>>, admitted'[t])
              /\ Len(InWindow(admitted'[t])) <= highest
  <2>0. admitted \in [Tokens -> Seq(Times)] /\ highest \in Nat
    BY DEF RateInv, Noted
  <2>1. CASE t # k
    BY <1>4, <1>6, <1>10, <2>0, <2>1
  <2>2. CASE t = k /\ ~Judged
    <3>1. Remembers(b, admitted[t])
      BY <1>2, <1>10, <2>2 DEF b, k
    <3>2. Remembers(v, admitted[t])
      BY <1>3, <1>10, <3>1, OneMoreRemembered
    <3> QED
      BY <1>4, <1>6, <1>10, <1>2, <2>2, <3>2
  <2>3. CASE t = k /\ Judged
    <3> DEFINE n == Append(InWindow(admitted[t]), now)
    <3>1. Remembers(b, admitted[t])
      BY <1>2, <1>10, <2>3 DEF b, k
    <3>2. /\ Remembers(v, n) /\ n \in Seq(Times) /\ Sorted(n)
          /\ Len(n) = Len(InWindow(admitted[t])) + 1 /\ \A i \in 1..Len(n) : n[i] <= now
      BY <1>3, <1>10, <3>1, OneMoreNoted
    <3>3. admitted'[t] = n
      BY <1>6, <2>0, <2>3
    <3> HIDE DEF n
    <3>4. Len(InWindow(admitted[t])) <= Len(b) /\ Len(InWindow(admitted[t])) \in Nat
      BY <1>3, <1>10, <3>1, RememberedCounts
    <3>5. Len(n) <= highest /\ Len(n) \in Nat
      BY <1>3, <1>5, <2>0, <2>3, <3>2, <3>4
    <3>6. Len(InWindow(n)) <= Len(n) /\ Len(InWindow(n)) \in Nat
      BY <1>1, <3>2, DropKeepsWindow DEF InWindow
    <3>7. Len(InWindow(n)) <= highest
      BY <2>0, <3>5, <3>6
    <3> QED
      BY <1>2, <1>4, <2>3, <3>2, <3>3, <3>7
  <2> QED
    BY <2>1, <2>2, <2>3
<1>12. admitted' \in [Tokens -> Seq(Times)]
  <2>1. admitted \in [Tokens -> Seq(Times)]
    BY DEF RateInv, Noted
  <2>2. DOMAIN admitted' = Tokens /\ admitted' = [t \in Tokens |-> admitted'[t]]
    BY <1>6, <2>1
  <2> QED
    BY <1>11, <2>2
<1>13. Noted'
  BY <1>2, <1>11, <1>12 DEF RateInv, Noted, Sorted
<1>14. AdmittedIsRemembered'
  BY <1>1, <1>4, <1>11 DEF AdmittedIsRemembered, Remembers
<1>15. WindowBudget'
  BY <1>1, <1>2, <1>11 DEF RateInv, WindowBudget, InWindow
<1> QED
  BY <1>8, <1>9, <1>13, <1>14, <1>15 DEF RateInv

\* set_config: a limit more in force, and a POST half done.
LEMMA SetConfigStep ==
  ASSUME RateInv, now \in Times, now' = now, NEW on \in BOOLEAN, NEW l \in Limits,
         SetConfig(on, l)
  PROVE  RateInv'
<1>0. WindowStart' = WindowStart
  BY DEF WindowStart
<1>1. /\ limiter' = [enabled |-> on, limit |-> l] /\ limiter'.limit = l /\ l \in Nat
      /\ UNCHANGED <<buckets, request, admitted>> /\ highest \in Nat
      /\ configuring \in 0..MaxConfigs /\ configuring' = configuring + 1
      /\ configuring < MaxConfigs /\ MaxConfigs \in Nat
      /\ highest' = IF l > highest THEN l ELSE highest
  BY RateAssumption DEF SetConfig, RateInv, Noted
<1>2. highest' \in Nat /\ highest <= highest' /\ l <= highest' /\ configuring' \in 0..MaxConfigs
      /\ configuring' # 0
  BY <1>1
<1>3. BucketsInOrder' /\ AdmittedIsRemembered'
  BY <1>0, <1>1 DEF RateInv, BucketsInOrder, Sorted, AdmittedIsRemembered, Remembers
<1>4. Noted'
  BY <1>1, <1>2 DEF RateInv, Noted, Sorted
<1>5. UnderWay'
  BY <1>1, <1>2 DEF RateInv, UnderWay
<1>6. WindowBudget'
  <2>1. \A t \in Tokens : Len(InWindow(admitted[t])) <= highest'
    <3> SUFFICES ASSUME NEW t \in Tokens PROVE Len(InWindow(admitted[t])) <= highest'
      OBVIOUS
    <3>1. admitted[t] \in Seq(Times) /\ Len(InWindow(admitted[t])) <= highest
      BY DEF RateInv, Noted, WindowBudget
    <3>2. Len(InWindow(admitted[t])) \in Nat
      BY <3>1, StartOfWindow, DropKeepsWindow DEF InWindow
    <3> QED
      BY <1>1, <1>2, <3>1, <3>2
  <2> QED
    BY <1>0, <1>1, <1>2, <2>1 DEF WindowBudget, InWindow
<1> QED
  BY <1>3, <1>4, <1>5, <1>6 DEF RateInv

\* reset_counters starts a new count, under the one limit now in force.
LEMMA ResetCountersStep ==
  ASSUME RateInv, now \in Times, now' = now, ResetCounters
  PROVE  RateInv'
<1>1. /\ DOMAIN buckets' = {} /\ UNCHANGED limiter /\ highest' = limiter.limit
      /\ admitted' = [t \in Tokens |-> <<>>]
      /\ configuring' = configuring - 1 /\ configuring > 0
  BY DEF ResetCounters, EmptyDict
<1>2. /\ limiter \in [enabled : BOOLEAN, limit : Nat] /\ limiter.limit \in Nat
      /\ configuring \in 0..MaxConfigs /\ MaxConfigs \in Nat
  BY RateAssumption DEF RateInv, BucketsInOrder, Noted
<1>3. \A t \in Tokens : admitted'[t] = <<>>
  BY <1>1
<1>4. BucketsInOrder'
  BY <1>1, <1>2 DEF BucketsInOrder
<1>5. Noted'
  <2>1. configuring' \in 0..MaxConfigs /\ limiter.limit <= limiter.limit
    BY <1>1, <1>2
  <2>2. \A t \in Tokens : Sorted(admitted'[t]) /\ \A i \in 1..Len(admitted'[t]) : admitted'[t][i] <= now
    BY <1>3 DEF Sorted
  <2>3. admitted' \in [Tokens -> Seq(Times)]
    BY <1>1
  <2> QED
    BY <1>1, <1>2, <2>1, <2>2, <2>3 DEF Noted, Sorted
<1>6. UnderWay'
  <2>1. CASE request = None
    BY <2>1 DEF ResetCounters, UnderWay
  <2>2. CASE request # None
    <3>1. request' = [request EXCEPT !.live = FALSE]
      BY <2>2 DEF ResetCounters
    <3>2. UnderWay
      BY DEF RateInv
    <3> QED
      BY <2>2, <3>1, <3>2 DEF UnderWay
  <2> QED
    BY <2>1, <2>2
<1>7. AdmittedIsRemembered'
  BY <1>1, <1>3 DEF AdmittedIsRemembered, Remembers
<1>8. WindowBudget'
  <2>1. Len(InWindow(<<>>)) = 0 /\ WindowStart' = WindowStart
    BY NothingInWindow DEF WindowStart
  <2> QED
    BY <1>1, <1>2, <1>3, <2>1 DEF WindowBudget, InWindow
<1> QED
  BY <1>4, <1>5, <1>6, <1>7, <1>8 DEF RateInv

\* A request of any mount, or a step of a change of the configuration.
LEMMA RateStep ==
  ASSUME RateInv, now \in Times, now' = now, RateNext
  PROVE  RateInv'
<1>1. ASSUME NEW k \in Tokens \union {"unauthenticated"}, NEW falcon \in BOOLEAN,
             LookUp(k, falcon)
      PROVE  RateInv'
  BY <1>1, LookUpStep DEF Keys
<1>2. CASE CountApart
  BY <1>2, NothingCounted DEF CountApart
<1>3. CASE Refuse
  BY <1>3, NothingCounted DEF Refuse
<1> QED
  BY <1>1, <1>2, <1>3, AdmitStep, SetConfigStep, ResetCountersStep DEF RateNext

\* Time passes: the window moves on, and less is in it.
LEMMA RateTickStep ==
  ASSUME RateInv, now \in Times, now' = now + 1, UNCHANGED rateVars
  PROVE  RateInv'
<1>1. WindowStart \in Nat /\ WindowStart' \in Nat /\ WindowStart <= WindowStart' /\ now \in Nat
  BY ClockAssumption, RateAssumption DEF WindowStart, Times
<1>2. BucketsInOrder'
  <2>1. \A k \in DOMAIN buckets : \A i \in 1..Len(buckets[k]) : buckets[k][i] <= now + 1
    <3>1. \A k \in DOMAIN buckets : \A i \in 1..Len(buckets[k]) :
            buckets[k][i] \in Nat /\ buckets[k][i] <= now
      BY ClockAssumption DEF RateInv, BucketsInOrder, Times
    <3> QED
      BY <1>1, <3>1
  <2> QED
    BY <2>1 DEF RateInv, BucketsInOrder, Sorted, rateVars
<1>3. Noted' /\ UnderWay'
  <2>1. \A t \in Tokens : \A i \in 1..Len(admitted[t]) : admitted[t][i] <= now + 1
    <3>1. \A t \in Tokens : \A i \in 1..Len(admitted[t]) :
            admitted[t][i] \in Nat /\ admitted[t][i] <= now
      BY ClockAssumption DEF RateInv, Noted, Times
    <3> QED
      BY <1>1, <3>1
  <2> QED
    BY <2>1 DEF RateInv, Noted, UnderWay, Sorted, rateVars
<1>4. AdmittedIsRemembered'
  <2>1. \A t \in Tokens : \A m \in 0..(Len(admitted[t]) - 1) :
          admitted[t][Len(admitted[t]) - m] >= WindowStart' =>
            admitted[t][Len(admitted[t]) - m] >= WindowStart
    <3> SUFFICES ASSUME NEW t \in Tokens, NEW m \in 0..(Len(admitted[t]) - 1),
                        admitted[t][Len(admitted[t]) - m] >= WindowStart'
                 PROVE  admitted[t][Len(admitted[t]) - m] >= WindowStart
      OBVIOUS
    <3>1. admitted[t] \in Seq(Times) /\ Len(admitted[t]) - m \in 1..Len(admitted[t])
      BY DEF RateInv, Noted
    <3>2. admitted[t][Len(admitted[t]) - m] \in Nat
      BY <3>1, ClockAssumption DEF Times
    <3> QED
      BY <1>1, <3>2
  <2> QED
    BY <2>1 DEF RateInv, AdmittedIsRemembered, Remembers, rateVars
<1>5. WindowBudget'
  <2>0. highest' = highest /\ (configuring' = 0 => highest' = limiter'.limit)
    BY DEF RateInv, WindowBudget, rateVars
  <2> SUFFICES ASSUME NEW t \in Tokens
               PROVE  Len(DropBefore(admitted[t], WindowStart')) <= highest
    BY <2>0 DEF WindowBudget, InWindow, rateVars
  <2>1. admitted[t] \in Seq(Times) /\ highest \in Nat
    BY DEF RateInv, Noted
  <2>2. Len(DropBefore(admitted[t], WindowStart')) <= Len(DropBefore(admitted[t], WindowStart))
    BY <1>1, <2>1, LaterWindowIsShorter
  <2>3. Len(DropBefore(admitted[t], WindowStart)) <= highest
    BY DEF RateInv, WindowBudget, InWindow
  <2>4. /\ Len(DropBefore(admitted[t], WindowStart')) \in Nat
        /\ Len(DropBefore(admitted[t], WindowStart)) \in Nat
    BY <1>1, <2>1, DropKeepsWindow
  <2> QED
    BY <2>1, <2>2, <2>3, <2>4
<1> QED
  BY <1>2, <1>3, <1>4, <1>5 DEF RateInv

LEMMA RateUntouched ==
  ASSUME RateInv, now' = now, UNCHANGED rateVars
  PROVE  RateInv'
  BY DEF RateInv, rateVars, BucketsInOrder, Noted, UnderWay, AdmittedIsRemembered, WindowBudget,
         Sorted, Remembers, InWindow, WindowStart

LEMMA RateTypes == ASSUME RateInv PROVE RateTypeOK
<1>1. /\ limiter.enabled \in BOOLEAN /\ DOMAIN buckets \subseteq Tokens \union {"unauthenticated"}
      /\ configuring \in 0..MaxConfigs
  BY DEF RateInv, BucketsInOrder, Noted, Keys
<1>2. ASSUME NEW k \in DOMAIN buckets, NEW i \in DOMAIN buckets[k], NEW j \in DOMAIN buckets[k]
      PROVE  buckets[k][i] \in Times /\ (i < j => buckets[k][i] <= buckets[k][j])
  <2>1. buckets[k] \in Seq(Times) /\ Sorted(buckets[k])
    BY DEF RateInv, BucketsInOrder
  <2> QED
    BY <1>2, <2>1 DEF Sorted
<1> QED
  BY <1>1, <1>2 DEF RateTypeOK

=============================================================================
