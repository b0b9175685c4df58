----------------------------- MODULE RateLimit ------------------------------
(***************************************************************************)
(* The rate-limit middleware (backend/api/middleware/rate_limit.py): a     *)
(* deque of request times per token, cut to the last minute when it is     *)
(* read, and a limit set at run time.                                      *)
(*                                                                         *)
(* The middleware runs on the event loop and does not await between        *)
(* looking up a deque and counting the request in it: one request is       *)
(* judged at a time.  POST /_dev/rate-limit runs on a thread beside it and *)
(* is two steps, set_config and reset_counters, either of which may come   *)
(* between the lookup and the count.  A lookup that meets reset_counters   *)
(* in its loop over the deques may raise; the request is then answered 500 *)
(* and what it had dropped is gone anyway.                                 *)
(***************************************************************************)
EXTENDS Clock, Dicts

CONSTANTS Tokens,
          Window,      \* sixty seconds
          Limits,      \* the requests_per_minute set_config is given
          MaxConfigs,  \* bound on the configurations under way at once
          MaxRequests  \* bound on the requests in one window

ASSUME RateAssumption ==
  /\ Window \in Nat /\ Limits \subseteq Nat /\ MaxRequests \in Nat /\ MaxConfigs \in Nat
  /\ "unauthenticated" \notin Tokens

VARIABLES
  limiter,      \* _config
  buckets,      \* _counters: key -> its request times, oldest first
  request,      \* the request the loop is judging: its key, whether it is the
                \* Falcon mount's and the limit that read (None for Falcon's own,
                \* which is never reached here), and whether its deque is still
                \* the one in buckets; or None
  configuring,  \* POST /_dev/rate-limit calls between their two steps
  admitted,     \* per token, the times of the requests let through by a limit
                \* and counted since the last reset_counters (history)
  highest       \* the highest limit in force since then (history)

rateVars == <<limiter, buckets, request, configuring, admitted, highest>>

RateInit ==
  /\ limiter = [enabled |-> FALSE, limit |-> 0] /\ buckets = EmptyDict
  /\ request = None /\ configuring = 0
  /\ admitted = [t \in Tokens |-> <<>>] /\ highest = 0

WindowStart == IF now > Window THEN now - Window ELSE 0

\* popleft while the first time is before the window.
DropBefore(times, start) ==
  LET n == CHOOSE k \in 0..Len(times) :
             /\ \A i \in 1..k : times[i] < start
             /\ k < Len(times) => times[k + 1] >= start
  IN  [i \in 1..(Len(times) - n) |-> times[i + n]]

\* Mutant: a request exactly a window old is no longer counted.
RecentOpen(times) == DropBefore(times, WindowStart + 1)

Recent(times) == DropBefore(times, WindowStart)

\* The window itself, as the property counts it: both ends belong to it.
InWindow(times) == DropBefore(times, WindowStart)

Stale ==
  {k \in DOMAIN buckets :
     buckets[k] = <<>> \/ buckets[k][Len(buckets[k])] < WindowStart}

\* _bucket drops the keys whose last request is stale, and what is stale of
\* the one it was asked for.
Bucket(k) == IF k \in DOMAIN buckets THEN Recent(buckets[k]) ELSE <<>>

\* The path and the header say which mount and token a request is of.  Other
\* mounts count nothing while the limiter is off, and nothing without a token.
LookUp(k, falcon) ==
  /\ request = None
  /\ falcon \/ (limiter.enabled /\ k \in Tokens)
  /\ Len(Bucket(k)) < MaxRequests
  /\ buckets' = Put(Pop(buckets, Stale), k, Bucket(k))
  /\ request' = [key |-> k, falcon |-> falcon, live |-> TRUE,
                 limit |-> IF limiter.enabled THEN limiter.limit ELSE None]
  /\ UNCHANGED <<limiter, configuring, admitted, highest>>

\* The limit a request is judged by, if any: the Falcon mount refuses only
\* while the limiter is on, and by the limit it read before the lookup; the
\* others read it after.
Judged ==
  request.falcon => limiter.enabled /\ request.key # "unauthenticated" /\ request.limit # None

Limit == IF request.falcon THEN request.limit ELSE limiter.limit

\* A request whose deque was cleared away under it is judged and counted in
\* one nobody looks at again.
CountApart ==
  /\ request # None /\ ~request.live /\ request' = None
  /\ UNCHANGED <<limiter, buckets, configuring, admitted, highest>>

Admit ==
  /\ request # None /\ request.live /\ request' = None
  /\ Judged => Len(buckets[request.key]) < Limit
  /\ buckets' = [buckets EXCEPT ![request.key] = Append(@, now)]
  /\ admitted' = IF Judged THEN [admitted EXCEPT ![request.key] = Append(InWindow(@), now)]
                           ELSE admitted
  /\ UNCHANGED <<limiter, configuring, highest>>

Refuse ==
  /\ request # None /\ request.live /\ request' = None
  /\ Judged /\ Len(buckets[request.key]) >= Limit
  /\ UNCHANGED <<limiter, buckets, configuring, admitted, highest>>

SetConfig(on, limit) ==
  /\ configuring < MaxConfigs /\ configuring' = configuring + 1
  /\ limiter' = [enabled |-> on, limit |-> limit]
  /\ highest' = IF limit > highest THEN limit ELSE highest
  /\ UNCHANGED <<buckets, request, admitted>>

\* ... and then, in the same POST.
ResetCounters ==
  /\ configuring > 0 /\ configuring' = configuring - 1
  /\ buckets' = EmptyDict
  /\ request' = IF request = None THEN None ELSE [request EXCEPT !.live = FALSE]
  /\ admitted' = [t \in Tokens |-> <<>>] /\ highest' = limiter.limit
  /\ UNCHANGED limiter

RateNext ==
  \/ \E k \in Tokens \union {"unauthenticated"}, falcon \in BOOLEAN : LookUp(k, falcon)
  \/ CountApart \/ Admit \/ Refuse
  \/ \E on \in BOOLEAN, l \in Limits : SetConfig(on, l)
  \/ ResetCounters

RateTypeOK ==
  /\ limiter.enabled \in BOOLEAN /\ configuring \in 0..MaxConfigs
  /\ DOMAIN buckets \subseteq Tokens \union {"unauthenticated"}
  /\ \A k \in DOMAIN buckets : \A i, j \in DOMAIN buckets[k] :
       buckets[k][i] \in Times /\ (i < j => buckets[k][i] <= buckets[k][j])

\* From one reset_counters to the next, however its requests are spaced, the
\* limit is changed and idle deques are dropped, no token gets more through in
\* any window than the highest limit in force; and with no POST half done
\* that is the configured one (rate_limit.py, "Maximum requests per token per
\* 60-second window").  What a reset_counters forgets is outside it.
WindowBudget ==
  /\ \A t \in Tokens : Len(InWindow(admitted[t])) <= highest
  /\ configuring = 0 => highest = limiter.limit

=============================================================================
