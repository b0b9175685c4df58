------------------------------ MODULE HecAcks -------------------------------
(***************************************************************************)
(* Indexer acknowledgement of the HTTP event collector                     *)
(* (backend/api/routers/splunk/splunk_hec.py).  A channel numbers the      *)
(* events it is sent; a client asks which numbers were indexed, and a      *)
(* number is forgotten once it has been answered true.  Idle channels are  *)
(* reaped.  The three dicts are plain module variables, not the store's,   *)
(* and no lock protects them.                                              *)
(*                                                                         *)
(* Events and the sweep run on the loop, a poll on a thread of its own:    *)
(* it is four steps, beside other polls, events, the sweep and a reset.    *)
(* The set it works on is an object: a channel forgotten meanwhile starts  *)
(* another.  A poll asks for numbers as integers or as other values equal  *)
(* to them (JSON's 0.0): line 211 answers the second, 216 deletes only the *)
(* first.                                                                  *)
(***************************************************************************)
EXTENDS Clock, Dicts

CONSTANTS Channels, Pollers,
          Questions,  \* the sets of numbers polls ask for
          MaxIdle,  \* _CHANNEL_MAX_IDLE_SECONDS
          MaxAcks,  \* bound on the numbers of a channel
          MaxLives  \* bound on how often a channel starts again

ASSUME AcksAssumption ==
  MaxIdle \in Nat /\ MaxAcks \in Nat /\ MaxLives \in Nat /\ None \notin Channels \X Nat

VARIABLES
  counters,   \* _ACK_COUNTERS: channel -> the next number
  issued,     \* _ISSUED_ACKS: channel -> its set
  numbers,    \* each set: the numbers not yet answered true
  seen,       \* _CHANNEL_SEEN
  polls,      \* per poller: the steps it has left, its channel, the set it took,
              \* what it asks for, as integers or not, and what it answers; or None
  life,       \* how often each channel was forgotten (history)
  given,      \* <<channel, life, number>> of every number given out (history)
  answered,   \* ... of those a poll that has ended answered, to integers (history)
  untrue      \* a poll answered true what was not given out in its channel's
              \* life, or what an earlier poll had been answered (history)

ackVars == <<counters, issued, numbers, seen, polls, life, given, answered, untrue>>

AcksInit ==
  /\ counters = EmptyDict /\ issued = EmptyDict /\ numbers = EmptyDict /\ seen = EmptyDict
  /\ polls = [p \in Pollers |-> None] /\ life = [c \in Channels |-> 0]
  /\ given = {} /\ answered = {} /\ untrue = FALSE

Of(d, c, default) == IF c \in DOMAIN d THEN d[c] ELSE default

\* _next_ack, at the end of hec_event and hec_raw with acknowledgement on.
NextAck(c) ==
  LET id == Of(counters, c, 0)
      set == Of(issued, c, <<c, life[c]>>)
  IN  /\ id < MaxAcks /\ life[c] <= MaxLives
      /\ counters' = Put(counters, c, id + 1)
      /\ issued' = Put(issued, c, set)
      /\ numbers' = Put(numbers, set, Of(numbers, set, {}) \union {id})
      /\ seen' = Put(seen, c, now)
      /\ given' = given \union {<<c, life[c], id>>}
      /\ UNCHANGED <<polls, life, answered, untrue>>

\* hec_ack takes the channel's set, if there is one, and looks whether the
\* channel is known ...
TakeSet(p, c, ids, ints) ==
  /\ polls[p] = None /\ (c \in DOMAIN issued \/ c \in DOMAIN seen)
  /\ polls' = [polls EXCEPT ![p] =
       [at |-> IF c \in DOMAIN seen THEN "touch" ELSE "answer", channel |-> c, life |-> life[c],
        set |-> Of(issued, c, None), ids |-> ids, ints |-> ints, answer |-> {}]]
  /\ UNCHANGED <<counters, issued, numbers, seen, life, given, answered, untrue>>

\* ... marks it used ...
TouchChannel(p) ==
  /\ polls[p] # None /\ polls[p].at = "touch"
  /\ polls' = [polls EXCEPT ![p].at = "answer"]
  /\ seen' = Put(seen, polls[p].channel, now)
  /\ UNCHANGED <<counters, issued, numbers, life, given, answered, untrue>>

\* ... answers, by equality ...
Acks(p, ids) == {<<polls[p].channel, polls[p].life, id>> : id \in ids}

Answer(p) ==
  LET true == polls[p].ids \intersect Of(numbers, polls[p].set, {})
  IN  /\ polls[p] # None /\ polls[p].at = "answer"
      /\ polls' = [polls EXCEPT ![p].at = "forget", ![p].answer = true]
      /\ untrue' = (untrue \/ ~(Acks(p, true) \subseteq given \ answered))
      /\ UNCHANGED <<counters, issued, numbers, seen, life, given, answered>>

\* The poll ends; what it was asked for as integers is not to be answered again.
Ends(p) ==
  /\ polls[p] # None /\ polls[p].at = "forget" /\ polls' = [polls EXCEPT ![p] = None]
  /\ answered' = IF polls[p].ints THEN answered \union Acks(p, polls[p].answer) ELSE answered

\* Mutant: what was answered true is kept.
ForgetNothing(p) ==
  Ends(p) /\ UNCHANGED <<counters, issued, numbers, seen, life, given, untrue>>

\* ... and deletes what it was asked for as integers, from the set it took.
ForgetAnswered(p) ==
  /\ Ends(p)
  /\ numbers' = IF polls[p].ints /\ polls[p].set \in DOMAIN numbers
                THEN [numbers EXCEPT ![polls[p].set] = @ \ polls[p].ids] ELSE numbers
  /\ UNCHANGED <<counters, issued, seen, life, given, untrue>>

Forgotten(S) ==
  /\ life' = [c \in Channels |-> IF c \in S /\ c \in DOMAIN counters THEN life[c] + 1 ELSE life[c]]
  /\ UNCHANGED <<numbers, polls, given, answered, untrue>>

Idle == {c \in DOMAIN seen : now - seen[c] > MaxIdle}

\* Mutant: an idle channel's counter is forgotten, its numbers are not.
ReapCountersOnly ==
  /\ seen' = Pop(seen, Idle) /\ counters' = Pop(counters, Idle) /\ UNCHANGED issued
  /\ Forgotten(Idle)

ReapIdleChannels ==
  /\ seen' = Pop(seen, Idle) /\ counters' = Pop(counters, Idle)
  /\ issued' = Pop(issued, Idle)
  /\ Forgotten(Idle)

ResetAckState ==
  /\ counters' = EmptyDict /\ issued' = EmptyDict /\ seen' = EmptyDict
  /\ Forgotten(Channels)

AcksNext ==
  \/ \E c \in Channels : NextAck(c)
  \/ \E p \in Pollers :
       \/ \E c \in Channels, ids \in Questions, ints \in BOOLEAN : TakeSet(p, c, ids, ints)
       \/ TouchChannel(p) \/ Answer(p) \/ ForgetAnswered(p)

AcksTypeOK ==
  /\ DOMAIN counters = DOMAIN issued /\ DOMAIN counters \subseteq DOMAIN seen
  /\ DOMAIN seen \subseteq Channels
  /\ \A c \in DOMAIN counters :
       /\ counters[c] \in 1..MaxAcks
       /\ issued[c] \in DOMAIN numbers /\ numbers[issued[c]] \subseteq 0..counters[c] - 1

\* A number is answered true only if the channel gave it out in the life the
\* poll found it in, not for one issued before a reap or a reset nor for one a
\* restarted counter has yet to reach; and never again once a poll that asked
\* for it as an integer has its answer, whatever polls, sweeps and resets
\* overlap (splunk_hec.py, "Only ids this channel was actually given", "so
\* asking again answers false").  Two polls at once may both be told, and one
\* asked for as 0.0 stays.
AcksAreTruthful == ~untrue

=============================================================================
