------------------------------- MODULE Dicts --------------------------------
(***************************************************************************)
(* The Python containers the store is built from: a dict as a function on  *)
(* its keys, the key order of a dict and a bounded deque as sequences.     *)
(* The operators are written index by index, not with SelectSeq or SubSeq, *)
(* so that the proofs about them are first-order.                          *)
(***************************************************************************)
EXTENDS Naturals, Sequences, FiniteSets, Functions

\* d[k] = v
Put(d, k, v) == [x \in DOMAIN d \cup {k} |-> IF x = k THEN v ELSE d[x]]

\* d.pop(k, None) for every k in S
Pop(d, S) == Restrict(d, DOMAIN d \ S)

\* The first key of a dict whose keys are numbered as they were added.
First(d) == CHOOSE k \in DOMAIN d : \A x \in DOMAIN d : k <= x

\* store.save to a collection of CAPS: at the cap a new key drops the oldest
\* record, in use or not; a key that is there keeps its place.
Saved(d, k, v, cap, oldest) ==
  Put(IF k \notin DOMAIN d /\ Cardinality(DOMAIN d) >= cap THEN Pop(d, {oldest}) ELSE d, k, v)

\* The front push of a deque with maxlen: past it the last entry falls off.
PushFront(s, e, maxlen) ==
  [i \in 1..(IF Len(s) < maxlen THEN Len(s) + 1 ELSE maxlen) |->
     IF i = 1 THEN e ELSE s[i - 1]]

\* The sequence without its i-th entry (the key order after a deletion).
DropAt(s, i) ==
  [j \in 1..(Len(s) - 1) |-> IF j < i THEN s[j] ELSE s[j + 1]]

EmptyDict == [x \in {} |-> x]
=============================================================================
