---------------------------- MODULE StoreProofs -----------------------------
(***************************************************************************)
(* What module Store promises, for every set of ids and records and every  *)
(* cap.  The lemmas say what the operators of Dicts do to the members, the *)
(* order and the bound of a sequence or a dict; the theorems rest on the   *)
(* inductive invariant IInv.                                               *)
(***************************************************************************)
EXTENDS Store, SequenceTheorems, TLAPS

-----------------------------------------------------------------------------
(* Sequences without repetition.                                           *)

\* A function on 1..n is a sequence of length n.
LEMMA SeqOf ==
  ASSUME NEW S, NEW n \in Nat, NEW f \in [1..n -> S]
  PROVE  f \in Seq(S) /\ Len(f) = n /\ DOMAIN f = 1..n
<1>1. f \in Seq(S)
  BY SeqDef
<1> QED
  BY <1>1, LenProperties

\* The deque's appendleft (append_activity, and the trimmed logs): entry by
\* entry, and never longer than maxlen.
LEMMA PushFrontEntries ==
  ASSUME NEW S, NEW s \in Seq(S), NEW e \in S, NEW maxlen \in Nat \ {0},
         Len(s) <= maxlen, NEW p, p = PushFront(s, e, maxlen)
  PROVE  /\ p \in Seq(S) /\ Len(p) <= maxlen
         /\ Len(p) \in Nat \ {0} /\ Len(p) <= Len(s) + 1
         /\ Len(s) < maxlen => Len(p) = Len(s) + 1
         /\ Len(s) = maxlen => Len(p) = maxlen
         /\ p[1] = e
<1> DEFINE n == IF Len(s) < maxlen THEN Len(s) + 1 ELSE maxlen
<1>1. Len(s) \in Nat /\ DOMAIN s = 1..Len(s) /\ \A i \in 1..Len(s) : s[i] \in S
  BY LenProperties, ElementOfSeq
<1>2. n \in Nat /\ n <= maxlen /\ n <= Len(s) + 1
  BY <1>1
<1>3. p = [i \in 1..n |-> IF i = 1 THEN e ELSE s[i - 1]]
  BY DEF PushFront
<1>4. \A i \in 1..n : (IF i = 1 THEN e ELSE s[i - 1]) \in S
  <2> TAKE i \in 1..n
  <2>1. i # 1 => i - 1 \in 1..Len(s)
    BY <1>1, <1>2
  <2> QED
    BY <1>1, <2>1
<1> HIDE DEF n
<1>5. p \in [1..n -> S]
  BY <1>3, <1>4
<1>6. p \in Seq(S) /\ Len(p) = n
  BY <1>2, <1>5, SeqOf
<1> QED
  BY <1>2, <1>3, <1>6 DEF n

\* ... and what was there moves one place back.
LEMMA PushFrontShifts ==
  ASSUME NEW S, NEW s \in Seq(S), NEW e \in S, NEW maxlen \in Nat \ {0},
         Len(s) <= maxlen, NEW p, p = PushFront(s, e, maxlen), NEW i \in 2..Len(p)
  PROVE  p[i] = s[i - 1] /\ i - 1 \in DOMAIN s /\ i - 1 \in Nat
<1>1. Len(s) \in Nat /\ DOMAIN s = 1..Len(s)
  BY LenProperties
<1>2. Len(p) \in Nat /\ DOMAIN p = 1..Len(p) /\ Len(p) <= Len(s) + 1
  BY PushFrontEntries, LenProperties
<1>3. i \in DOMAIN p /\ i # 1 /\ i - 1 \in 1..Len(s)
  BY <1>1, <1>2
<1>4. p[i] = s[i - 1]
  BY <1>3 DEF PushFront
<1> QED
  BY <1>1, <1>3, <1>4

\* Pushing a fresh id lists it once, and what is listed after the push is
\* what was listed before, without the id that fell off a full deque.
LEMMA PushFrontFresh ==
  ASSUME NEW S, NEW s \in Seq(S), NEW e \in S, NEW maxlen \in Nat \ {0},
         Len(s) <= maxlen, IsInjective(s), e \notin Range(s),
         NEW p, p = PushFront(s, e, maxlen)
  PROVE  /\ IsInjective(p)
         /\ Len(s) < maxlen => Range(p) = Range(s) \cup {e}
         /\ Len(s) = maxlen => Range(p) = (Range(s) \cup {e}) \ {s[maxlen]}
<1>1. Len(s) \in Nat /\ DOMAIN s = 1..Len(s)
  BY LenProperties
<1>2. /\ Len(s) < maxlen => Len(p) = Len(s) + 1
      /\ Len(s) = maxlen => Len(p) = maxlen
      /\ p[1] = e
  BY PushFrontEntries
<1>3. DOMAIN p = 1..Len(p) /\ Len(p) \in Nat \ {0} /\ Len(p) <= Len(s) + 1
  BY PushFrontEntries, LenProperties
<1>4. \A i \in 1..Len(s) : s[i] # e
  BY <1>1 DEF Range
<1>5. ASSUME NEW i \in 2..Len(p)
      PROVE  p[i] = s[i - 1] /\ i - 1 \in 1..Len(s)
  BY <1>1, PushFrontShifts
<1>6. \A i \in 1..Len(p) : i = 1 \/ i \in 2..Len(p)
  BY <1>3
<1>7. IsInjective(p)
  <2> SUFFICES ASSUME NEW i \in 1..Len(p), NEW j \in 1..Len(p), p[i] = p[j]
               PROVE  i = j
    BY <1>3 DEF IsInjective
  <2>1. CASE i = 1 \/ j = 1
    BY <1>2, <1>4, <1>5, <1>6, <2>1
  <2>2. CASE i # 1 /\ j # 1
    <3>1. s[i - 1] = s[j - 1] /\ i - 1 \in 1..Len(s) /\ j - 1 \in 1..Len(s)
      BY <1>5, <1>6, <2>2
    <3>2. i - 1 = j - 1
      BY <1>1, <3>1 DEF IsInjective
    <3> QED
      BY <3>2
  <2> QED
    BY <2>1, <2>2
<1>8. ASSUME NEW x \in Range(p)
      PROVE  x = e \/ \E i \in 1..Len(s) : i < Len(p) /\ x = s[i]
  <2>1. PICK i \in 1..Len(p) : x = p[i]
    BY <1>3 DEF Range
  <2>2. CASE i = 1
    BY <1>2, <2>1, <2>2
  <2>3. CASE i # 1
    <3>1. x = s[i - 1] /\ i - 1 \in 1..Len(s) /\ i - 1 < Len(p)
      BY <1>3, <1>5, <1>6, <2>1, <2>3
    <3> QED
      BY <3>1
  <2> QED
    BY <2>2, <2>3
<1>9. e \in Range(p)
  <2>1. 1 \in DOMAIN p
    BY <1>3
  <2> QED
    BY <1>2, <2>1 DEF Range
<1>10. ASSUME NEW i \in 1..Len(s), i < Len(p)
       PROVE  s[i] \in Range(p)
  <2>1. i + 1 \in 2..Len(p) /\ i + 1 \in DOMAIN p /\ (i + 1) - 1 = i
    BY <1>1, <1>3, <1>10
  <2>2. p[i + 1] = s[i]
    BY <1>5, <2>1
  <2> QED
    BY <2>1, <2>2 DEF Range
<1>11. Range(s) = {s[i] : i \in 1..Len(s)}
  BY <1>1 DEF Range
<1>12. ASSUME Len(s) < maxlen
       PROVE  Range(p) = Range(s) \cup {e}
  <2>1. Len(p) = Len(s) + 1
    BY <1>2, <1>12
  <2>2. \A i \in 1..Len(s) : i < Len(p)
    BY <1>1, <2>1
  <2> QED
    BY <1>8, <1>9, <1>10, <1>11, <2>2
<1>13. ASSUME Len(s) = maxlen
       PROVE  Range(p) = (Range(s) \cup {e}) \ {s[maxlen]}
  <2>1. Len(p) = maxlen /\ maxlen \in 1..Len(s)
    BY <1>1, <1>2, <1>13
  <2>2. \A i \in 1..Len(s) : i < maxlen <=> s[i] # s[maxlen]
    BY <1>1, <1>13, <2>1 DEF IsInjective
  <2>3. e # s[maxlen]
    BY <1>4, <2>1
  <2> QED
    BY <1>8, <1>9, <1>10, <1>11, <2>1, <2>2, <2>3
<1> QED
  BY <1>7, <1>12, <1>13

\* The key order after a deletion: everything but the deleted key, in place.
LEMMA DropAtEntries ==
  ASSUME NEW S, NEW s \in Seq(S), IsInjective(s), NEW k \in DOMAIN s,
         NEW d, d = DropAt(s, k)
  PROVE  /\ d \in Seq(S) /\ Len(d) = Len(s) - 1
         /\ IsInjective(d)
         /\ Range(d) = Range(s) \ {s[k]}
<1>1. /\ Len(s) \in Nat /\ DOMAIN s = 1..Len(s)
      /\ \A i \in 1..Len(s) : s[i] \in S
  BY LenProperties, ElementOfSeq
<1>2. k \in 1..Len(s) /\ Len(s) - 1 \in Nat
  BY <1>1
<1>3. d = [j \in 1..(Len(s) - 1) |-> IF j < k THEN s[j] ELSE s[j + 1]]
  BY DEF DropAt
<1>4. \A j \in 1..(Len(s) - 1) : j \in 1..Len(s) /\ j + 1 \in 1..Len(s)
  BY <1>1
<1>5. d \in [1..(Len(s) - 1) -> S]
  BY <1>1, <1>3, <1>4
<1>6. d \in Seq(S) /\ Len(d) = Len(s) - 1 /\ DOMAIN d = 1..(Len(s) - 1)
  BY <1>2, <1>5, SeqOf
<1>7. IsInjective(d)
  <2> SUFFICES ASSUME NEW i \in 1..(Len(s) - 1), NEW j \in 1..(Len(s) - 1),
                      d[i] = d[j]
               PROVE  i = j
    BY <1>6 DEF IsInjective
  <2> DEFINE at(x) == IF x < k THEN x ELSE x + 1
  <2>1. d[i] = s[at(i)] /\ d[j] = s[at(j)]
    BY <1>3
  <2>2. at(i) \in 1..Len(s) /\ at(j) \in 1..Len(s)
    BY <1>4
  <2>3. at(i) = at(j)
    BY <1>1, <2>1, <2>2 DEF IsInjective
  <2> QED
    BY <1>1, <1>2, <2>3
<1>8. Range(d) \subseteq Range(s) \ {s[k]}
  <2> SUFFICES ASSUME NEW j \in 1..(Len(s) - 1)
               PROVE  d[j] \in Range(s) /\ d[j] # s[k]
    BY <1>6 DEF Range
  <2> DEFINE a == IF j < k THEN j ELSE j + 1
  <2>1. a \in 1..Len(s) /\ a # k
    BY <1>1, <1>2, <1>4
  <2>2. d[j] = s[a]
    BY <1>3
  <2> HIDE DEF a
  <2> QED
    BY <1>1, <1>2, <2>1, <2>2 DEF IsInjective, Range
<1>9. Range(s) \ {s[k]} \subseteq Range(d)
  <2> SUFFICES ASSUME NEW i \in 1..Len(s), s[i] # s[k]
               PROVE  \E j \in 1..(Len(s) - 1) : d[j] = s[i]
    BY <1>1, <1>6 DEF Range
  <2>1. CASE i < k
    <3>1. i \in 1..(Len(s) - 1)
      BY <1>1, <1>2, <2>1
    <3> QED
      BY <1>3, <2>1, <3>1
  <2>2. CASE i > k
    <3>1. i - 1 \in 1..(Len(s) - 1) /\ ~(i - 1 < k) /\ (i - 1) + 1 = i
      BY <1>1, <1>2, <2>2
    <3> QED
      BY <1>3, <3>1
  <2> QED
    BY <1>1, <1>2, <2>1, <2>2
<1> QED
  BY <1>6, <1>7, <1>8, <1>9

\* A new key goes to the back of the key order.
LEMMA AppendFresh ==
  ASSUME NEW S, NEW s \in Seq(S), NEW e \in S, IsInjective(s), e \notin Range(s)
  PROVE  /\ Append(s, e) \in Seq(S) /\ Len(Append(s, e)) = Len(s) + 1
         /\ IsInjective(Append(s, e))
         /\ Range(Append(s, e)) = Range(s) \cup {e}
<1> DEFINE a == Append(s, e)
<1>1. Len(s) \in Nat /\ DOMAIN s = 1..Len(s)
  BY LenProperties
<1>2. /\ a \in Seq(S) /\ Len(a) = Len(s) + 1
      /\ \A i \in 1..Len(s) : a[i] = s[i]
      /\ a[Len(s) + 1] = e
  BY AppendProperties
<1>3. DOMAIN a = 1..(Len(s) + 1)
  BY <1>2, LenProperties
<1> HIDE DEF a
<1>4. \A i \in 1..Len(s) : s[i] # e
  BY <1>1 DEF Range
<1>5. 1..(Len(s) + 1) = (1..Len(s)) \cup {Len(s) + 1}
  BY <1>1
<1>6. IsInjective(a)
  BY <1>1, <1>2, <1>3, <1>4, <1>5 DEF IsInjective
<1>7. Range(a) = Range(s) \cup {e}
  BY <1>1, <1>2, <1>3, <1>5 DEF Range
<1> QED
  BY <1>2, <1>6, <1>7 DEF a

\* Dropping the oldest key is deleting the first one.
LEMMA TailIsDropFirst ==
  ASSUME NEW S, NEW s \in Seq(S), IsInjective(s), s # <<>>
  PROVE  /\ 1 \in DOMAIN s
         /\ Tail(s) \in Seq(S) /\ Len(Tail(s)) = Len(s) - 1
         /\ IsInjective(Tail(s))
         /\ Range(Tail(s)) = Range(s) \ {s[1]}
<1>1. /\ Len(s) \in Nat \ {0} /\ DOMAIN s = 1..Len(s)
      /\ Tail(s) \in Seq(S) /\ Len(Tail(s)) = Len(s) - 1
      /\ \A i \in 1..Len(Tail(s)) : Tail(s)[i] = s[i + 1]
  BY LenProperties, HeadTailProperties, EmptySeq
<1>2. 1 \in DOMAIN s
  BY <1>1
<1>3. DropAt(s, 1) = [j \in 1..(Len(s) - 1) |-> s[j + 1]]
  BY <1>1 DEF DropAt
<1>4. Tail(s) = [j \in 1..(Len(s) - 1) |-> s[j + 1]]
  <2>1. Tail(s) \in [1..(Len(s) - 1) -> S]
    BY <1>1, LenProperties
  <2> QED
    BY <1>1, <2>1
<1>5. Tail(s) = DropAt(s, 1)
  BY <1>3, <1>4
<1>6. IsInjective(Tail(s)) /\ Range(Tail(s)) = Range(s) \ {s[1]}
  BY <1>2, <1>5, DropAtEntries
<1> QED
  BY <1>1, <1>2, <1>6

-----------------------------------------------------------------------------
(* Dicts.                                                                  *)

\* A dict is a function from some of the ids to records.
LEMMA DictDef ==
  ASSUME NEW S, NEW d
  PROVE  d \in Dict(S) <=> DOMAIN d \subseteq S /\ d \in [DOMAIN d -> Records]
<1>1. ASSUME d \in Dict(S)
      PROVE  DOMAIN d \subseteq S /\ d \in [DOMAIN d -> Records]
  <2>1. PICK D \in SUBSET S : d \in [D -> Records]
    BY <1>1 DEF Dict
  <2> QED
    BY <2>1
<1>2. ASSUME DOMAIN d \subseteq S, d \in [DOMAIN d -> Records]
      PROVE  d \in Dict(S)
  BY <1>2 DEF Dict
<1> QED
  BY <1>1, <1>2

\* What clear leaves: a dict without keys.
LEMMA EmptyDictFacts ==
  ASSUME NEW S
  PROVE  EmptyDict \in Dict(S) /\ DOMAIN EmptyDict = {}
<1>1. DOMAIN EmptyDict = {} /\ EmptyDict \in [DOMAIN EmptyDict -> Records]
  BY DEF EmptyDict
<1> QED
  BY <1>1, DictDef

\* records[id] = record adds one key and changes no other entry.
LEMMA PutFacts ==
  ASSUME NEW S, NEW d \in Dict(S), NEW k \in S, NEW v \in Records
  PROVE  /\ Put(d, k, v) \in Dict(S)
         /\ DOMAIN Put(d, k, v) = DOMAIN d \cup {k}
<1>1. DOMAIN d \subseteq S /\ d \in [DOMAIN d -> Records]
  BY DictDef
<1>2. /\ DOMAIN Put(d, k, v) = DOMAIN d \cup {k}
      /\ Put(d, k, v) \in [DOMAIN d \cup {k} -> Records]
  BY <1>1 DEF Put
<1>3. DOMAIN d \cup {k} \subseteq S
  BY <1>1
<1> QED
  BY <1>2, <1>3, DictDef

\* pop(k, None) removes the keys and changes no other entry.
LEMMA PopFacts ==
  ASSUME NEW S, NEW d \in Dict(S), NEW K
  PROVE  Pop(d, K) \in Dict(S) /\ DOMAIN Pop(d, K) = DOMAIN d \ K
<1>1. DOMAIN d \subseteq S /\ d \in [DOMAIN d -> Records]
  BY DictDef
<1>2. /\ DOMAIN Pop(d, K) = DOMAIN d \ K
      /\ Pop(d, K) \in [DOMAIN d \ K -> Records]
  BY <1>1 DEF Pop, Restrict
<1>3. DOMAIN d \ K \subseteq S
  BY <1>1
<1> QED
  BY <1>2, <1>3, DictDef

\* The empty order lists nothing.
LEMMA EmptyOrder ==
  ASSUME NEW S
  PROVE  <<>> \in Seq(S) /\ Len(<<>>) = 0 /\ IsInjective(<<>>) /\ Range(<<>>) = {}
BY EmptySeq DEF IsInjective, Range

-----------------------------------------------------------------------------
(* The inductive invariant, one part per kind of collection.               *)

CappedInv ==
  /\ keys \in Seq(Ids) /\ Len(keys) <= Cap /\ rec \in Dict(Ids)
  /\ IsInjective(keys) /\ Range(keys) = DOMAIN rec

ActivityInv ==
  /\ activityOrder \in Seq(Ids) /\ Len(activityOrder) <= ActivityCap
  /\ activities \in Dict(Ids)
  /\ IsInjective(activityOrder) /\ Range(activityOrder) = DOMAIN activities

LogInv ==
  /\ logs \in [Logs -> Dict(Ids)] /\ logOrder \in [Logs -> Seq(Ids)]
  /\ \A n \in Logs :
       /\ Len(logOrder[n]) <= LogCap
       /\ IsInjective(logOrder[n]) /\ DOMAIN logs[n] \subseteq Range(logOrder[n])

\* While an import saves the snapshot's records, nothing is listed yet.
LoadInv == activityOrder = <<>> /\ activities \in Dict(Ids)

\* An import notified when it cleared the store, and holds the lock since.
IInv ==
  /\ CappedInv /\ LogInv
  /\ IF load = "records" THEN LoadInv ELSE ActivityInv
  /\ notified \in BOOLEAN /\ load \in {"free", "records", "ordered"}
  /\ load # "free" => notified

\* The invariant gives what the runs check: TypeOK and the three agreements.
LEMMA IInvMeaning ==
  IInv => TypeOK /\ CappedOrderAgrees /\ ActivitiesAgree /\ LogsAgree
<1> SUFFICES ASSUME IInv PROVE TypeOK /\ CappedOrderAgrees /\ ActivitiesAgree /\ LogsAgree
  OBVIOUS
<1>1. activityOrder \in Seq(Ids) /\ Len(activityOrder) <= ActivityCap /\ activities \in Dict(Ids)
  <2>1. CASE load = "records"
    <3>1. <<>> \in Seq(Ids) /\ Len(<<>>) = 0
      BY EmptyOrder
    <3> QED
      BY <2>1, <3>1, CapsAssumption DEF IInv, LoadInv
  <2>2. CASE load # "records"
    BY <2>2 DEF IInv, ActivityInv
  <2> QED
    BY <2>1, <2>2
<1> QED
  BY <1>1 DEF IInv, CappedInv, ActivityInv, LogInv, TypeOK, CappedOrderAgrees,
              ActivitiesAgree, LogsAgree

\* save: the evicted key is the first of the order and loses its record.
LEMMA SaveKeepsCapped ==
  ASSUME NEW id \in Ids, NEW r \in Records, CappedInv, Save(id, r)
  PROVE  CappedInv'
<1>1. Len(keys) \in Nat
  BY LenProperties DEF CappedInv
<1>2. CASE id \in DOMAIN rec
  <2>1. keys' = keys /\ rec' = Put(rec, id, r)
    BY <1>2 DEF Save
  <2>2. rec' \in Dict(Ids)
    BY <2>1, PutFacts DEF CappedInv
  <2>3. DOMAIN rec' = DOMAIN rec \cup {id}
    BY <2>1 DEF Put
  <2> QED
    BY <1>2, <2>1, <2>2, <2>3 DEF CappedInv
<1>3. CASE id \notin DOMAIN rec /\ Len(keys) < Cap
  <2>1. keys' = Append(keys, id) /\ rec' = Put(rec, id, r)
    BY <1>1, <1>3, CapsAssumption DEF Save
  <2>2. rec' \in Dict(Ids)
    BY <2>1, PutFacts DEF CappedInv
  <2>3. DOMAIN rec' = DOMAIN rec \cup {id}
    BY <2>1 DEF Put
  <2>4. id \notin Range(keys)
    BY <1>3 DEF CappedInv
  <2>5. keys' \in Seq(Ids) /\ Len(keys') = Len(keys) + 1
    BY <2>1, <2>4, AppendFresh DEF CappedInv
  <2>6. IsInjective(keys')
    BY <2>1, <2>4, AppendFresh DEF CappedInv
  <2>7. Range(keys') = Range(keys) \cup {id}
    BY <2>1, <2>4, AppendFresh DEF CappedInv
  <2>8. Len(keys') <= Cap
    BY <1>1, <1>3, <2>5, CapsAssumption
  <2> QED
    BY <2>2, <2>3, <2>5, <2>6, <2>7, <2>8 DEF CappedInv
<1>4. CASE id \notin DOMAIN rec /\ Len(keys) = Cap
  <2> DEFINE kept == Tail(keys)
             left == Pop(rec, {keys[1]})
  <2>1. keys' = Append(kept, id) /\ rec' = Put(left, id, r)
    BY <1>1, <1>4 DEF Save
  <2>2. keys # <<>>
    BY <1>4, EmptySeq, CapsAssumption
  <2>3. /\ kept \in Seq(Ids) /\ Len(kept) = Len(keys) - 1 /\ IsInjective(kept)
        /\ Range(kept) = Range(keys) \ {keys[1]}
    BY <2>2, TailIsDropFirst DEF CappedInv
  <2>4. left \in Dict(Ids) /\ DOMAIN left = DOMAIN rec \ {keys[1]}
    BY PopFacts DEF CappedInv
  <2> HIDE DEF kept, left
  <2>5. id \notin Range(kept)
    BY <1>4, <2>3 DEF CappedInv
  <2>6. keys' \in Seq(Ids) /\ Len(keys') = Len(kept) + 1
    BY <2>1, <2>3, <2>5, AppendFresh
  <2>7. IsInjective(keys')
    BY <2>1, <2>3, <2>5, AppendFresh
  <2>8. Range(keys') = Range(kept) \cup {id}
    BY <2>1, <2>3, <2>5, AppendFresh
  <2>9. Len(keys') <= Cap
    BY <1>1, <1>4, <2>3, <2>6
  <2>10. rec' \in Dict(Ids)
    BY <2>1, <2>4, PutFacts
  <2>11. DOMAIN rec' = DOMAIN left \cup {id}
    BY <2>1 DEF Put
  <2> QED
    BY <2>3, <2>4, <2>6, <2>7, <2>8, <2>9, <2>10, <2>11 DEF CappedInv
<1>5. Len(keys) <= Cap /\ Cap \in Nat
  BY CapsAssumption DEF CappedInv
<1>6. Len(keys) < Cap \/ Len(keys) = Cap
  BY <1>1, <1>5
<1> QED
  BY <1>2, <1>3, <1>4, <1>6

\* delete: the key leaves the order and the dict together.
LEMMA DeleteKeepsCapped ==
  ASSUME NEW id \in Ids, CappedInv, Delete(id)
  PROVE  CappedInv'
<1>1. PICK i \in DOMAIN keys : keys[i] = id /\ keys' = DropAt(keys, i)
  BY DEF Delete
<1>2. keys' \in Seq(Ids) /\ Len(keys') = Len(keys) - 1
  BY <1>1, DropAtEntries DEF CappedInv
<1>3. IsInjective(keys')
  BY <1>1, DropAtEntries DEF CappedInv
<1>4. Range(keys') = Range(keys) \ {id}
  BY <1>1, DropAtEntries DEF CappedInv
<1>5. rec' \in Dict(Ids)
  BY PopFacts DEF Delete, CappedInv
<1>6. DOMAIN rec' = DOMAIN rec \ {id}
  BY PopFacts DEF Delete, CappedInv
<1>7. Len(keys) \in Nat
  BY LenProperties DEF CappedInv
<1>8. Len(keys') <= Cap
  BY <1>2, <1>7, CapsAssumption DEF CappedInv
<1> QED
  BY <1>2, <1>3, <1>4, <1>5, <1>6, <1>8 DEF CappedInv

\* append_activity of a fresh id: the id that falls off the full deque is
\* the one whose record is deleted.
LEMMA AppendActivityKeepsActivity ==
  ASSUME NEW id \in Ids, NEW r \in Records, ActivityInv,
         id \notin DOMAIN activities, AppendActivity(id, r)
  PROVE  ActivityInv'
<1> DEFINE order == activityOrder
           put == Put(activities, id, r)
<1>1. ActivityCap \in Nat \ {0}
  BY CapsAssumption
<1>2. order \in Seq(Ids) /\ Len(order) <= ActivityCap /\ IsInjective(order)
  BY DEF ActivityInv
<1>3. Range(order) = DOMAIN activities
  BY DEF ActivityInv
<1>4. id \notin Range(order)
  BY <1>3
<1>5. activityOrder' = PushFront(order, id, ActivityCap)
  BY DEF AppendActivity
<1>6. put \in Dict(Ids)
  BY PutFacts DEF ActivityInv
<1>7. DOMAIN put = DOMAIN activities \cup {id}
  BY DEF Put
<1>8. Len(order) \in Nat
  BY <1>2, LenProperties
<1>9. activityOrder' \in Seq(Ids) /\ Len(activityOrder') <= ActivityCap
  BY <1>1, <1>2, <1>5, PushFrontEntries
<1>10. IsInjective(activityOrder')
  BY <1>1, <1>2, <1>4, <1>5, PushFrontFresh
<1>11. CASE Len(order) < ActivityCap
  <2>1. activities' = Pop(put, {})
    BY <1>1, <1>8, <1>11 DEF AppendActivity
  <2>2. activities' \in Dict(Ids)
    BY <1>6, <2>1, PopFacts
  <2>3. DOMAIN activities' = DOMAIN put
    BY <2>1 DEF Pop, Restrict
  <2>4. Range(activityOrder') = Range(order) \cup {id}
    BY <1>1, <1>2, <1>4, <1>5, <1>11, PushFrontFresh
  <2> QED
    BY <1>3, <1>7, <1>9, <1>10, <2>2, <2>3, <2>4 DEF ActivityInv
<1>12. CASE Len(order) = ActivityCap
  <2>1. Len(order) \in DOMAIN order
    BY <1>1, <1>2, <1>12, LenProperties
  <2>2. order[Len(order)] # id
    BY <1>4, <2>1 DEF Range
  <2>3. activities' = Pop(put, {order[Len(order)]} \ {id})
    BY <1>12 DEF AppendActivity
  <2>4. activities' \in Dict(Ids)
    BY <1>6, <2>3, PopFacts
  <2>5. DOMAIN activities' = DOMAIN put \ {order[Len(order)]}
    BY <2>2, <2>3 DEF Pop, Restrict
  <2>6. Range(activityOrder') = (Range(order) \cup {id}) \ {order[ActivityCap]}
    BY <1>1, <1>2, <1>4, <1>5, <1>12, PushFrontFresh
  <2> QED
    BY <1>3, <1>7, <1>9, <1>10, <1>12, <2>4, <2>5, <2>6 DEF ActivityInv
<1>13. Len(order) < ActivityCap \/ Len(order) = ActivityCap
  BY <1>1, <1>2, <1>8
<1> QED
  BY <1>11, <1>12, <1>13

\* append_request_log and append_webhook_sink of an id that is not listed:
\* the trimmed ids are those that leave the order.
LEMMA AppendLogKeepsLogs ==
  ASSUME NEW m \in Logs, NEW id \in Ids, NEW r \in Records, LogInv,
         id \notin Range(logOrder[m]), AppendLog(m, id, r)
  PROVE  LogInv'
<1> DEFINE order == logOrder[m]
           pushed == PushFront(order, id, LogCap)
           trimmed == IF Len(order) >= LogCap
                        THEN {order[i] : i \in LogCap..Len(order)} ELSE {}
           put == Put(logs[m], id, r)
           left == Pop(put, trimmed)
<1>1. LogCap \in Nat \ {0}
  BY CapsAssumption
<1>2. order \in Seq(Ids) /\ Len(order) <= LogCap /\ IsInjective(order)
  BY DEF LogInv
<1>3. logs[m] \in Dict(Ids) /\ DOMAIN logs[m] \subseteq Range(order)
  BY DEF LogInv
<1>4. /\ logs' = [logs EXCEPT ![m] = left]
      /\ logOrder' = [logOrder EXCEPT ![m] = pushed]
  BY DEF AppendLog
<1>5. put \in Dict(Ids)
  BY <1>3, PutFacts
<1>6. DOMAIN put = DOMAIN logs[m] \cup {id}
  BY DEF Put
<1>7. left \in Dict(Ids)
  BY <1>5, PopFacts
<1>8. DOMAIN left = DOMAIN put \ trimmed
  BY DEF Pop, Restrict
<1>9. Len(order) \in Nat
  BY <1>2, LenProperties
<1>10. pushed \in Seq(Ids) /\ Len(pushed) <= LogCap
  BY <1>1, <1>2, PushFrontEntries
<1>11. IsInjective(pushed)
  BY <1>1, <1>2, PushFrontFresh
<1>12. DOMAIN left \subseteq Range(pushed)
  <2>1. CASE Len(order) < LogCap
    <3>1. Range(pushed) = Range(order) \cup {id}
      BY <1>1, <1>2, <2>1, PushFrontFresh
    <3> HIDE DEF pushed, trimmed
    <3> QED
      BY <1>3, <1>6, <1>8, <3>1
  <2>2. CASE Len(order) = LogCap
    <3>1. Range(pushed) = (Range(order) \cup {id}) \ {order[LogCap]}
      BY <1>1, <1>2, <2>2, PushFrontFresh
    <3>2. LogCap \in LogCap..Len(order) /\ Len(order) >= LogCap
      BY <1>1, <2>2
    <3>3. order[LogCap] \in trimmed
      BY <3>2
    <3> HIDE DEF pushed, trimmed
    <3> QED
      BY <1>3, <1>6, <1>8, <3>1, <3>3
  <2>3. Len(order) < LogCap \/ Len(order) = LogCap
    BY <1>1, <1>2, <1>9
  <2> QED
    BY <2>1, <2>2, <2>3
<1> HIDE DEF left, pushed
<1>13. logs' \in [Logs -> Dict(Ids)] /\ logOrder' \in [Logs -> Seq(Ids)]
  BY <1>4, <1>7, <1>10 DEF LogInv
<1>14. ASSUME NEW n \in Logs
       PROVE  /\ Len(logOrder'[n]) <= LogCap
              /\ IsInjective(logOrder'[n]) /\ DOMAIN logs'[n] \subseteq Range(logOrder'[n])
  <2>1. CASE n = m
    <3>1. logOrder'[n] = pushed /\ logs'[n] = left
      BY <1>4, <2>1 DEF LogInv
    <3> QED
      BY <1>10, <1>11, <1>12, <3>1
  <2>2. CASE n # m
    <3>1. logOrder'[n] = logOrder[n] /\ logs'[n] = logs[n]
      BY <1>4, <2>2 DEF LogInv
    <3> QED
      BY <3>1 DEF LogInv
  <2> QED
    BY <2>1, <2>2
<1> QED
  BY <1>13, <1>14 DEF LogInv

\* clear_request_logs, clear_webhook_sink, and clear() of a trimmed log.
LEMMA ClearLogKeepsLogs ==
  ASSUME NEW m \in Logs, LogInv, ClearLog(m) \/ ClearLogRecords(m)
  PROVE  LogInv'
<1>1. EmptyDict \in Dict(Ids) /\ DOMAIN EmptyDict = {}
  BY EmptyDictFacts
<1>2. <<>> \in Seq(Ids) /\ Len(<<>>) = 0 /\ IsInjective(<<>>)
  BY EmptyOrder
<1>3. LogCap \in Nat
  BY CapsAssumption
<1>4. logs' = [logs EXCEPT ![m] = EmptyDict]
  BY DEF ClearLog, ClearLogRecords
<1>5. logOrder' = [logOrder EXCEPT ![m] = <<>>] \/ logOrder' = logOrder
  BY DEF ClearLog, ClearLogRecords
<1>6. logs' \in [Logs -> Dict(Ids)]
  BY <1>1, <1>4 DEF LogInv
<1>7. logOrder' \in [Logs -> Seq(Ids)]
  BY <1>2, <1>5 DEF LogInv
<1>8. ASSUME NEW n \in Logs
      PROVE  /\ Len(logOrder'[n]) <= LogCap
             /\ IsInjective(logOrder'[n]) /\ DOMAIN logs'[n] \subseteq Range(logOrder'[n])
  <2>1. CASE n = m
    <3>1. DOMAIN logs'[n] = {}
      BY <1>1, <1>4, <2>1 DEF LogInv
    <3>2. logOrder'[n] = <<>> \/ logOrder'[n] = logOrder[n]
      BY <1>5, <2>1 DEF LogInv
    <3>3. Len(logOrder'[n]) <= LogCap /\ IsInjective(logOrder'[n])
      BY <1>2, <1>3, <3>2 DEF LogInv
    <3> QED
      BY <3>1, <3>3
  <2>2. CASE n # m
    <3>1. logOrder'[n] = logOrder[n] /\ logs'[n] = logs[n]
      BY <1>4, <1>5, <2>2 DEF LogInv
    <3> QED
      BY <3>1 DEF LogInv
  <2> QED
    BY <2>1, <2>2
<1> QED
  BY <1>6, <1>7, <1>8 DEF LogInv

\* What an emptied collection satisfies.
LEMMA EmptyCollections ==
  /\ keys = <<>> /\ rec = EmptyDict => CappedInv
  /\ activities = EmptyDict /\ activityOrder = <<>> => ActivityInv
  /\ logs = [n \in Logs |-> EmptyDict] /\ logOrder = [n \in Logs |-> <<>>] => LogInv
<1>1. EmptyDict \in Dict(Ids) /\ DOMAIN EmptyDict = {}
  BY EmptyDictFacts
<1>2. <<>> \in Seq(Ids) /\ Len(<<>>) = 0 /\ IsInjective(<<>>) /\ Range(<<>>) = {}
  BY EmptyOrder
<1>3. Cap \in Nat /\ ActivityCap \in Nat /\ LogCap \in Nat
  BY CapsAssumption
<1>4. keys = <<>> /\ rec = EmptyDict => CappedInv
  BY <1>1, <1>2, <1>3 DEF CappedInv
<1>5. activities = EmptyDict /\ activityOrder = <<>> => ActivityInv
  BY <1>1, <1>2, <1>3 DEF ActivityInv
<1>6. logs = [n \in Logs |-> EmptyDict] /\ logOrder = [n \in Logs |-> <<>>] => LogInv
  BY <1>1, <1>2, <1>3 DEF LogInv
<1> QED
  BY <1>4, <1>5, <1>6

\* The same of a collection that a clear leaves empty.
LEMMA ClearedCollections ==
  /\ keys' = <<>> /\ rec' = EmptyDict => CappedInv'
  /\ activities' = EmptyDict /\ activityOrder' = <<>> => ActivityInv'
  /\ logs' = [n \in Logs |-> EmptyDict] /\ logOrder' = [n \in Logs |-> <<>>] => LogInv'
<1>1. EmptyDict \in Dict(Ids) /\ DOMAIN EmptyDict = {}
  BY EmptyDictFacts
<1>2. <<>> \in Seq(Ids) /\ Len(<<>>) = 0 /\ IsInjective(<<>>) /\ Range(<<>>) = {}
  BY EmptyOrder
<1>3. Cap \in Nat /\ ActivityCap \in Nat /\ LogCap \in Nat
  BY CapsAssumption
<1>4. keys' = <<>> /\ rec' = EmptyDict => CappedInv'
  BY <1>1, <1>2, <1>3 DEF CappedInv
<1>5. activities' = EmptyDict /\ activityOrder' = <<>> => ActivityInv'
  BY <1>1, <1>2, <1>3 DEF ActivityInv
<1>6. logs' = [n \in Logs |-> EmptyDict] /\ logOrder' = [n \in Logs |-> <<>>] => LogInv'
  BY <1>1, <1>2, <1>3 DEF LogInv
<1> QED
  BY <1>4, <1>5, <1>6

\* The store starts empty.
LEMMA InitIInv == Init => IInv
BY EmptyCollections DEF Init, IInv

\* Every operation of the store keeps the invariant: an operation on one kind
\* of collection by the lemma on it, the other kinds because it leaves them.
LEMMA OperationIInv ==
  ASSUME IInv, Operation
  PROVE  IInv'
<1>0. CappedInv /\ ActivityInv /\ LogInv /\ load = "free" /\ load' = "free"
  BY DEF IInv, Operation
<1>a. ASSUME UNCHANGED capped PROVE CappedInv'
  BY <1>0, <1>a DEF capped, CappedInv
<1>b. ASSUME UNCHANGED activityVars PROVE ActivityInv'
  BY <1>0, <1>b DEF activityVars, ActivityInv
<1>c. ASSUME UNCHANGED logVars PROVE LogInv'
  BY <1>0, <1>c DEF logVars, LogInv
<1>d. ASSUME CappedInv', ActivityInv', LogInv', notified' = TRUE PROVE IInv'
  BY <1>0, <1>d DEF IInv
<1>2. ASSUME NEW id \in Ids, Delete(id) PROVE IInv'
  BY <1>0, <1>2, <1>b, <1>c, <1>d, DeleteKeepsCapped DEF Delete, Notify
<1>3. ASSUME NEW id \in Ids, NEW r \in Records,
             id \notin DOMAIN activities, AppendActivity(id, r)
      PROVE  IInv'
  BY <1>0, <1>3, <1>a, <1>c, <1>d, AppendActivityKeepsActivity DEF AppendActivity, Notify
<1>4. ASSUME NEW id \in Ids, NEW r \in Records, NEW n \in Logs,
             id \notin Range(logOrder[n]), AppendLog(n, id, r)
      PROVE  IInv'
  BY <1>0, <1>4, <1>a, <1>b, <1>d, AppendLogKeepsLogs DEF AppendLog, Notify
<1>5. ASSUME NEW n \in Logs, ClearLog(n) \/ ClearLogRecords(n) PROVE IInv'
  <2>1. UNCHANGED <<capped, activityVars>> /\ notified' = TRUE
    BY <1>5 DEF ClearLog, ClearLogRecords, Notify
  <2> QED
    BY <1>0, <1>5, <2>1, <1>a, <1>b, <1>d, ClearLogKeepsLogs
<1>6. ASSUME ClearActivities PROVE IInv'
  <2>1. ActivityInv'
    BY <1>6, ClearedCollections DEF ClearActivities
  <2> QED
    BY <1>6, <2>1, <1>a, <1>c, <1>d DEF ClearActivities, Notify
<1>7. ASSUME ClearCapped PROVE IInv'
  BY <1>7, <1>b, <1>c, <1>d, ClearedCollections DEF ClearCapped, Notify
<1>8. ASSUME ClearAll PROVE IInv'
  BY <1>8, <1>d, ClearedCollections DEF ClearAll, Notify
<1> QED
  BY <1>2, <1>3, <1>4, <1>5, <1>6, <1>7, <1>8 DEF Operation, Clears

\* ... and so do the steps of an import: what clear_all leaves is an empty
\* order, and the order it sets lists the records it saved.
LEMMA ImportIInv ==
  ASSUME IInv,
         \/ BeginImport \/ EndImport
         \/ \E id \in Ids, r \in Records : ImportActivity(id, r)
         \/ \E order \in Orders : SetActivityOrder(order)
  PROVE  IInv'
<1>0. CappedInv /\ LogInv /\ notified \in BOOLEAN /\ (load # "free" => notified)
  BY DEF IInv
<1>a. ASSUME UNCHANGED capped PROVE CappedInv'
  BY <1>0, <1>a DEF capped, CappedInv
<1>c. ASSUME UNCHANGED logVars PROVE LogInv'
  BY <1>0, <1>c DEF logVars, LogInv
<1>1. ASSUME BeginImport PROVE IInv'
  <2>1. /\ activities' = EmptyDict /\ activityOrder' = <<>>
        /\ load' = "records" /\ notified' = TRUE
    BY <1>1 DEF BeginImport, ClearAll, Notify
  <2>2. CappedInv' /\ LogInv'
    BY <1>1, ClearedCollections DEF BeginImport, ClearAll
  <2>3. LoadInv'
    BY <2>1, EmptyDictFacts DEF LoadInv
  <2> QED
    BY <2>1, <2>2, <2>3 DEF IInv
<1>2. ASSUME NEW id \in Ids, NEW r \in Records, ImportActivity(id, r) PROVE IInv'
  <2>1. /\ load = "records" /\ load' = "records" /\ notified' = TRUE
        /\ activities' = Put(activities, id, r) /\ activityOrder' = activityOrder
        /\ UNCHANGED <<capped, logVars>>
    BY <1>2 DEF ImportActivity, Notify
  <2>2. LoadInv
    BY <2>1 DEF IInv
  <2>3. LoadInv'
    BY <2>1, <2>2, PutFacts DEF LoadInv
  <2> QED
    BY <1>a, <1>c, <2>1, <2>3 DEF IInv
<1>3. ASSUME NEW order \in Orders, SetActivityOrder(order) PROVE IInv'
  <2>1. /\ load = "records" /\ load' = "ordered"
        /\ IsInjective(order) /\ Range(order) = DOMAIN activities
        /\ activityOrder' = order /\ activities' = activities /\ notified' = notified
        /\ UNCHANGED <<capped, logVars>>
    BY <1>3 DEF SetActivityOrder
  <2>2. LoadInv
    BY <2>1 DEF IInv
  <2>3. PICK n \in 0..ActivityCap : order \in [1..n -> Ids]
    BY DEF Orders
  <2>4. order \in Seq(Ids) /\ Len(order) <= ActivityCap
    BY <2>3, SeqOf, CapsAssumption
  <2>5. ActivityInv'
    BY <2>1, <2>2, <2>4 DEF ActivityInv, LoadInv
  <2> QED
    BY <1>0, <1>a, <1>c, <2>1, <2>5 DEF IInv
<1>4. ASSUME EndImport PROVE IInv'
  <2>1. ActivityInv /\ load' = "free"
    BY <1>4 DEF EndImport, IInv
  <2>2. ActivityInv'
    BY <1>4, <2>1 DEF EndImport, data, ActivityInv
  <2>3. UNCHANGED <<capped, logVars, notified>>
    BY <1>4 DEF EndImport, data, capped, logVars
  <2> QED
    BY <1>0, <1>a, <1>c, <2>1, <2>2, <2>3 DEF IInv
<1> QED
  BY <1>1, <1>2, <1>3, <1>4

\* Every step keeps the invariant.
LEMMA NextIInv == IInv /\ [Next]_vars => IInv'
<1> SUFFICES ASSUME IInv, [Next]_vars PROVE IInv'
  OBVIOUS
<1>a. ASSUME UNCHANGED <<capped, logVars>> PROVE CappedInv' /\ LogInv'
  BY <1>a DEF capped, CappedInv, logVars, LogInv, IInv
<1>b. ASSUME UNCHANGED <<activityVars, load>>
      PROVE  IF load' = "records" THEN LoadInv' ELSE ActivityInv'
  BY <1>b DEF activityVars, ActivityInv, LoadInv, IInv
<1>1. ASSUME NEW id \in Ids, NEW r \in Records, Save(id, r), UNCHANGED load PROVE IInv'
  <2>1. CappedInv'
    BY <1>1, SaveKeepsCapped DEF IInv
  <2>2. UNCHANGED <<activityVars, logVars>> /\ notified' = TRUE
    BY <1>1 DEF Save, Notify
  <2>3. LogInv'
    BY <2>2 DEF logVars, LogInv, IInv
  <2> QED
    BY <1>1, <1>b, <2>1, <2>2, <2>3 DEF IInv
<1>2. ASSUME Observed PROVE IInv'
  <2>1. UNCHANGED <<capped, logVars, activityVars, load>> /\ load = "free" /\ notified' = FALSE
    BY <1>2 DEF Observed, data, capped, activityVars, logVars
  <2> QED
    BY <1>a, <1>b, <2>1 DEF IInv
<1>3. ASSUME UNCHANGED vars PROVE IInv'
  <2>1. UNCHANGED <<capped, logVars, activityVars, load, notified>>
    BY <1>3 DEF vars, capped, activityVars, logVars
  <2> QED
    BY <1>a, <1>b, <2>1 DEF IInv
<1> QED
  BY <1>1, <1>2, <1>3, OperationIInv, ImportIInv DEF Next

\* The inductive invariant holds in every reachable state of the store.
THEOREM Invariance == Spec => []IInv
BY InitIInv, NextIInv, PTL DEF Spec

\* Collections map ids to records and no order outgrows its cap (CAPS, the
\* deque's maxlen, the 500 of the logs), whatever the caps are.
THEOREM TypeCorrect == Spec => []TypeOK
<1>1. IInv => TypeOK
  BY IInvMeaning
<1> QED
  BY <1>1, Invariance, PTL

\* append_activity's promise: count("activities") and list_activities() agree
\* in every reachable state, as long as appended ids are fresh.
THEOREM ActivitiesAlwaysAgree == Spec => []ActivitiesAgree
<1>1. IInv => ActivitiesAgree
  BY IInvMeaning
<1> QED
  BY <1>1, Invariance, PTL

\* No record of the request log or the webhook sink is unlisted or listed
\* twice, in every reachable state.
THEOREM LogsAlwaysAgree == Spec => []LogsAgree
<1>1. IInv => LogsAgree
  BY IInvMeaning
<1> QED
  BY <1>1, Invariance, PTL

-----------------------------------------------------------------------------
(* Action properties.                                                      *)

\* What a step may do to the capped collection: leave it, save one record,
\* delete one, or clear it.
LEMMA CappedSteps ==
  ASSUME [Next]_vars
  PROVE  \/ UNCHANGED capped
         \/ \E id \in Ids, r \in Records : Save(id, r)
         \/ \E id \in Ids : Delete(id)
         \/ keys' = <<>> /\ rec' = EmptyDict
BY DEF Next, Operation, Clears, vars, data, capped, AppendActivity, AppendLog,
       ClearActivities, ClearCapped, ClearAll, ClearLog, ClearLogRecords, Observed,
       BeginImport, ImportActivity, SetActivityOrder, EndImport

\* Every change of the store reaches the saver's next snapshot:
\* set_activity_order, which tells nobody, runs while the import's own
\* notification is pending, because the saver cannot export meanwhile.
THEOREM EveryChangeNotifies == Spec => ChangesNotify
<1>1. IInv /\ [Next]_vars => [data' # data => notified']_vars
  <2> SUFFICES ASSUME IInv, [Next]_vars, data' # data PROVE notified'
    BY DEF vars, data
  <2>1. ASSUME NEW order, SetActivityOrder(order) PROVE notified'
    BY <2>1 DEF SetActivityOrder, IInv
  <2>2. ASSUME Operation PROVE notified'
    BY <2>2 DEF Operation, Clears, Notify, Delete, AppendActivity, AppendLog,
                ClearActivities, ClearCapped, ClearAll, ClearLog, ClearLogRecords
  <2>3. ASSUME BeginImport PROVE notified'
    BY <2>3 DEF BeginImport, ClearAll, Notify
  <2>4. ASSUME NEW id, NEW r, Save(id, r) \/ ImportActivity(id, r) PROVE notified'
    BY <2>4 DEF Save, ImportActivity, Notify
  <2>5. ~(UNCHANGED vars) /\ ~Observed /\ ~EndImport
    BY DEF vars, data, Observed, EndImport
  <2> QED
    BY <2>1, <2>2, <2>3, <2>4, <2>5 DEF Next
<1> QED
  BY <1>1, Invariance, PTL DEF Spec, ChangesNotify

\* save of an existing id changes neither the order nor who is there, however
\* full the collection is; every other step changes no record in place.
THEOREM UpdatesNeverEvict == Spec => UpdateEvictsNobody
<1> DEFINE A == (\E id \in DOMAIN rec \cap DOMAIN rec' : rec'[id] # rec[id]) =>
                  keys' = keys /\ DOMAIN rec' = DOMAIN rec
<1>1. [Next]_vars => [A]_vars
  <2> SUFFICES ASSUME [Next]_vars PROVE A
    OBVIOUS
  <2>1. CASE UNCHANGED capped
    BY <2>1 DEF capped
  <2>2. ASSUME NEW id \in Ids, NEW r \in Records, Save(id, r) PROVE A
    <3>1. CASE id \in DOMAIN rec
      <4>1. keys' = keys /\ rec' = Put(rec, id, r)
        BY <2>2, <3>1 DEF Save
      <4>2. DOMAIN rec' = DOMAIN rec \cup {id}
        BY <4>1 DEF Put
      <4> QED
        BY <3>1, <4>1, <4>2
    <3>2. CASE id \notin DOMAIN rec
      <4>1. rec' = Put(rec, id, r) \/ rec' = Put(Pop(rec, {keys[1]}), id, r)
        BY <2>2 DEF Save
      <4>2. \A x \in DOMAIN rec \cap DOMAIN rec' : rec'[x] = rec[x]
        BY <3>2, <4>1 DEF Put, Pop, Restrict
      <4> QED
        BY <4>2
    <3> QED
      BY <3>1, <3>2
  <2>3. ASSUME NEW id \in Ids, Delete(id) PROVE A
    <3>1. rec' = Pop(rec, {id})
      BY <2>3 DEF Delete
    <3>2. \A x \in DOMAIN rec \cap DOMAIN rec' : rec'[x] = rec[x]
      BY <3>1 DEF Pop, Restrict
    <3> QED
      BY <3>2
  <2>4. CASE rec' = EmptyDict
    <3>1. DOMAIN rec' = {}
      BY <2>4, EmptyDictFacts
    <3> QED
      BY <3>1
  <2> QED
    BY <2>1, <2>2, <2>3, <2>4, CappedSteps
<1> QED
  BY <1>1, PTL DEF Spec, UpdateEvictsNobody

\* A save that makes room forgets the oldest key and no other.
THEOREM EvictionIsOldestFirst == Spec => EvictsOldestFirst
<1> DEFINE A == DOMAIN rec' \ DOMAIN rec # {} =>
                  \A i, j \in DOMAIN keys :
                    i < j /\ keys[j] \notin DOMAIN rec' => keys[i] \notin DOMAIN rec'
<1>1. IInv /\ [Next]_vars => [A]_vars
  <2> SUFFICES ASSUME IInv, [Next]_vars PROVE A
    OBVIOUS
  <2>1. CASE UNCHANGED capped
    BY <2>1 DEF capped
  <2>2. ASSUME NEW id \in Ids, NEW r \in Records, Save(id, r) PROVE A
    <3> SUFFICES ASSUME NEW i \in DOMAIN keys, NEW j \in DOMAIN keys,
                        i < j, keys[j] \notin DOMAIN rec'
                 PROVE  FALSE
      OBVIOUS
    <3>1. IsInjective(keys) /\ keys[j] \in DOMAIN rec
      BY DEF IInv, CappedInv, Range
    <3>2. rec' = Put(rec, id, r) \/ rec' = Put(Pop(rec, {keys[1]}), id, r)
      BY <2>2 DEF Save
    <3>3. keys[j] = keys[1]
      BY <3>1, <3>2 DEF Put, Pop, Restrict
    <3>4. Len(keys) \in Nat /\ DOMAIN keys = 1..Len(keys)
      BY LenProperties DEF IInv, CappedInv
    <3>5. 1 \in DOMAIN keys
      BY <3>4
    <3>6. j = 1
      BY <3>1, <3>3, <3>5 DEF IsInjective
    <3> QED
      BY <3>4, <3>6
  <2>3. ASSUME NEW id \in Ids, Delete(id) PROVE A
    <3>1. rec' = Pop(rec, {id})
      BY <2>3 DEF Delete
    <3>2. DOMAIN rec' \subseteq DOMAIN rec
      BY <3>1 DEF Pop, Restrict
    <3> QED
      BY <3>2
  <2>4. CASE rec' = EmptyDict
    <3>1. DOMAIN rec' = {}
      BY <2>4, EmptyDictFacts
    <3> QED
      BY <3>1
  <2> QED
    BY <2>1, <2>2, <2>3, <2>4, CappedSteps
<1> QED
  BY <1>1, Invariance, PTL DEF Spec, EvictsOldestFirst

-----------------------------------------------------------------------------
(* The activity pair implements the bounded log.                           *)

\* A fresh append is a push of the abstract log.
LEMMA AppendActivityIsPush ==
  ASSUME NEW id \in Ids, NEW r \in Records, ActivityInv, ActivityInv',
         id \notin DOMAIN activities, AppendActivity(id, r)
  PROVE  ActivityLog' = PushFront(ActivityLog, r, ActivityCap)
<1> DEFINE order == activityOrder
           n == IF Len(order) < ActivityCap THEN Len(order) + 1 ELSE ActivityCap
<1>1. ActivityCap \in Nat \ {0} /\ Len(order) \in Nat /\ Len(order) <= ActivityCap
  BY CapsAssumption, LenProperties DEF ActivityInv
<1>2. order \in Seq(Ids) /\ DOMAIN order = 1..Len(order)
  BY LenProperties DEF ActivityInv
<1>3. activityOrder' = [i \in 1..n |-> IF i = 1 THEN id ELSE order[i - 1]]
  BY DEF AppendActivity, PushFront
<1>4. \A i \in DOMAIN activityOrder' : activityOrder'[i] \in DOMAIN activities'
  BY DEF ActivityInv, Range
<1>5. \A x \in DOMAIN activities' :
        activities'[x] = IF x = id THEN r ELSE activities[x]
  BY DEF AppendActivity, Put, Pop, Restrict
<1>6. Len(ActivityLog) = Len(order)
  <2>1. \A i \in 1..Len(order) : activities[order[i]] \in Records
    BY <1>2, DictDef DEF ActivityInv, Range
  <2>2. ActivityLog \in [1..Len(order) -> Records]
    BY <1>2, <2>1 DEF ActivityLog
  <2> QED
    BY <1>1, <2>2, SeqOf
<1>7. \A i \in 1..n : i # 1 => i - 1 \in DOMAIN order /\ order[i - 1] # id
  BY <1>1, <1>2 DEF ActivityInv, Range
<1>8. ActivityLog' = [i \in 1..n |-> activities'[activityOrder'[i]]]
  BY <1>3 DEF ActivityLog
<1>9. \A i \in 1..n :
        activities'[activityOrder'[i]] = IF i = 1 THEN r ELSE ActivityLog[i - 1]
  BY <1>3, <1>4, <1>5, <1>7 DEF ActivityLog
<1>10. PushFront(ActivityLog, r, ActivityCap) =
         [i \in 1..n |-> IF i = 1 THEN r ELSE ActivityLog[i - 1]]
  BY <1>6 DEF PushFront
<1> QED
  BY <1>8, <1>9, <1>10

\* An empty order reads as an empty log.
LEMMA EmptyActivityLog ==
  ASSUME activityOrder = <<>>
  PROVE  ActivityLog = <<>>
<1>1. DOMAIN activityOrder = {}
  BY SMT
<1> QED
  BY <1>1, SMT DEF ActivityLog

\* Its copy for the state after a step.
LEMMA EmptyActivityLogNext ==
  ASSUME activityOrder' = <<>>
  PROVE  ActivityLog' = <<>>
<1>1. DOMAIN activityOrder' = {}
  BY SMT
<1> QED
  BY <1>1, SMT DEF ActivityLog

\* The order an import sets reads as a log of at most maxlen records.
LEMMA SetActivityOrderLoads ==
  ASSUME NEW order \in Orders, LoadInv, SetActivityOrder(order)
  PROVE  \E n \in 0..ActivityCap : ActivityLog' \in [1..n -> Records]
<1>1. PICK n \in 0..ActivityCap : order \in [1..n -> Ids]
  BY DEF Orders
<1>2. activityOrder' = order /\ activities' = activities /\ Range(order) = DOMAIN activities
  BY DEF SetActivityOrder
<1>3. \A i \in 1..n : activities[order[i]] \in Records
  BY <1>1, <1>2, DictDef DEF LoadInv, Range
<1>4. ActivityLog' = [i \in 1..n |-> activities[order[i]]]
  BY <1>1, <1>2 DEF ActivityLog
<1> QED
  BY <1>3, <1>4

\* The deque and the dict of append_activity behave as one bounded log:
\* every store step is a push, a clear or no step at all of that log, and an
\* import takes it out of use and replaces it once.
THEOREM ActivitiesImplementABoundedLog == Spec => ActivitiesAreABoundedLog
<1> DEFINE loading == load = "records"
           log == <<ActivityLog, loading>>
<1>1. Init => BL!Init
  BY EmptyActivityLog DEF Init, BL!Init
<1>2. IInv /\ IInv' /\ [Next]_vars => [BL!Next]_log
  <2> SUFFICES ASSUME IInv, IInv', [Next]_vars PROVE [BL!Next]_log
    OBVIOUS
  <2>1. ASSUME NEW id \in Ids, NEW r \in Records, load = "free", load' = "free",
               id \notin DOMAIN activities, AppendActivity(id, r)
        PROVE  BL!Next
    <3>1. ActivityInv /\ ActivityInv'
      BY <2>1 DEF IInv
    <3>2. ActivityLog' = PushFront(ActivityLog, r, ActivityCap)
      BY <2>1, <3>1, AppendActivityIsPush
    <3>3. BL!Push(r)
      BY <2>1, <3>2 DEF BL!Push, BL!PushFront, PushFront
    <3> QED
      BY <2>1, <3>3 DEF BL!Next
  <2>2. ASSUME activityOrder' = <<>>, load = "free", load' \in {"free", "records"}
        PROVE  BL!Next
    <3>1. ActivityLog' = <<>>
      BY <2>2, EmptyActivityLogNext
    <3> QED
      BY <2>2, <3>1 DEF BL!Next, BL!Empty, BL!Begin
  <2>3. ASSUME activityOrder' = <<>>, load = "records", load' = "records"
        PROVE  UNCHANGED log
    <3>1. activityOrder = <<>>
      BY <2>3 DEF IInv, LoadInv
    <3> QED
      BY <2>3, <3>1, EmptyActivityLog, EmptyActivityLogNext
  <2>4. ASSUME NEW order \in Orders, SetActivityOrder(order) PROVE BL!Next
    <3>1. load = "records" /\ load' = "ordered"
      BY <2>4 DEF SetActivityOrder
    <3>2. LoadInv
      BY <3>1 DEF IInv
    <3>3. BL!Loaded
      BY <2>4, <3>1, <3>2, SetActivityOrderLoads DEF BL!Loaded
    <3> QED
      BY <3>1, <3>3 DEF BL!Next
  <2>5. ASSUME UNCHANGED activityVars, loading' = loading PROVE UNCHANGED log
    BY <2>5 DEF activityVars, ActivityLog
  <2>6. ASSUME Operation PROVE [BL!Next]_log
    <3>1. load = "free" /\ load' = "free"
      BY <2>6 DEF Operation
    <3>2. \/ \E id \in Ids, r \in Records :
                id \notin DOMAIN activities /\ AppendActivity(id, r)
          \/ activityOrder' = <<>>
          \/ UNCHANGED activityVars
      BY <2>6 DEF Operation, Delete, AppendLog, Clears, ClearActivities,
                  ClearCapped, ClearAll, ClearLog, ClearLogRecords, activityVars
    <3> QED
      BY <2>1, <2>2, <2>5, <3>1, <3>2
  <2>7. ASSUME BeginImport PROVE BL!Next
    BY <2>2, <2>7 DEF BeginImport, ClearAll
  <2>8. ASSUME NEW id \in Ids, NEW r \in Records, ImportActivity(id, r)
        PROVE  UNCHANGED log
    <3>1. load = "records" /\ load' = "records" /\ activityOrder' = activityOrder
      BY <2>8 DEF ImportActivity
    <3>2. activityOrder = <<>>
      BY <3>1 DEF IInv, LoadInv
    <3> QED
      BY <2>3, <3>1, <3>2
  <2>9. ASSUME \/ \E id \in Ids, r \in Records : Save(id, r) /\ UNCHANGED load
               \/ EndImport \/ Observed \/ UNCHANGED vars
        PROVE  UNCHANGED log
    <3>1. UNCHANGED activityVars /\ loading' = loading
      BY <2>9 DEF Save, EndImport, Observed, vars, data, activityVars
    <3> QED
      BY <2>5, <3>1
  <2> QED
    BY <2>4, <2>6, <2>7, <2>8, <2>9 DEF Next
<1> QED
  BY <1>1, <1>2, Invariance, PTL DEF Spec, ActivitiesAreABoundedLog, BL!Spec
=============================================================================
