--------------------------- MODULE SettlingProofs ---------------------------
(***************************************************************************)
(* What module Settling promises for any clients, any settling time and    *)
(* any bounds: the dates, the SIEM's view and the last command's word for  *)
(* the mounts that keep the state on the device, when no command or export *)
(* overlaps the settling of its device; and the action records of the      *)
(* other two, which need no such promise.                                  *)
(***************************************************************************)
EXTENDS Settling, FiniteSetTheorems, SequenceTheorems, TLAPS

-----------------------------------------------------------------------------
(* The inductive invariant                                                 *)

Requests == [at : Times, stamp : Times]
XdrActions == Directions \X {"pending", "completed"}
CommandRecs == [pc : {"idle", "stamp", "request", "date", "announce", "act", "create"},
                want : Directions, began : Times]
SettlerRecs(v) ==
  [pc : {"idle", "judge", "drop", "apply", "announce"}, rec : Nat,
   target : Directions \union {None},
   read : (IF v = "s1" THEN Requests ELSE Times) \union {None}, forced : BOOLEAN]
SiemViews == [state : States, at : 0..MaxTime + Second, answer : BOOLEAN]
Asks == [want : Directions \union {None}, at : Times]

\* What the typed collections of mount v hold, in the store or in an export.
DataOK(v, r, a, m, l) ==
  /\ r \in Seq(Records) /\ a \in Seq(XdrActions) /\ m \in SiemViews /\ l \in Asks
  /\ v \in DeviceVendors => Len(r) = 1
  /\ v # "cortex" => a = <<>> /\ \A i \in 1..Len(r) : r[i].asked \in Times

Types ==
  /\ vendor \in Vendors /\ now \in Times
  /\ DataOK(vendor, recs, actions, siem, last) /\ request \in Requests \union {None}
  /\ cmd \in [Commanders -> CommandRecs] /\ settler \in [Settlers -> SettlerRecs(vendor)]
  /\ export # None => DataOK(vendor, export.recs, export.actions, export.siem, export.last)
  /\ snapshot # None =>
       /\ DataOK(vendor, snapshot.data.recs, snapshot.data.actions, snapshot.data.siem,
                 snapshot.data.last)
       /\ snapshot.request \in Requests \union {None}

\* Which program points each mount has.
CommandPoints(v) == CASE v = "s1" -> {"stamp", "request", "announce"}
                      [] v = "falcon" -> {"stamp"}
                      [] v = "cortex" -> {"date", "announce", "act"}
                      [] v = "defender" -> {"create"}
                      [] v = "elastic" -> {}
SettlerPoints(v) == CASE v = "s1" -> {"judge", "drop", "apply", "announce"}
                      [] v = "falcon" -> {"judge", "apply"}
                      [] v = "cortex" -> {"judge", "apply", "announce"}
                      [] v \in {"defender", "elastic"} -> {"apply"}
Points ==
  /\ \A c \in Commanders : cmd[c] = IdleCommand \/ cmd[c].pc \in CommandPoints(vendor)
  /\ \A s \in Settlers : settler[s] = IdleSettler \/
       (settler[s].pc \in SettlerPoints(vendor) /\ settler[s].rec \in 1..Len(recs))

\* On a device, one command at a time, and neither settling nor an export
\* beside it; no export beside a settling.
Turns ==
  Shared =>
    /\ \A c, d \in Commanders : cmd[c] # IdleCommand /\ cmd[d] # IdleCommand => c = d
    /\ CommandsIdle \/ (SettlersIdle /\ export = None)
    /\ SettlersIdle \/ export = None
    /\ vendor = "cortex" => \A s, t \in Settlers :
         settler[s] # IdleSettler /\ settler[t] # IdleSettler => s = t
    /\ export # None => /\ export.recs = recs /\ export.actions = actions
                        /\ export.siem = siem /\ export.last = last

\* A command takes less time than the device.
InTime == \A c \in Commanders :
  cmd[c] # IdleCommand => cmd[c].began <= now /\ now <= cmd[c].began + Second

\* An action record that is complete is dated.
Dated(r) == \A i \in 1..Len(r) :
  r[i].state \in Directions => r[i].done = r[i].asked + Second
ActionsDated ==
  vendor \in ActionVendors =>
    /\ Dated(recs)
    /\ export # None => Dated(export.recs)
    /\ snapshot # None => Dated(snapshot.data.recs)

\* Every action record was paid for by a command.
Creating == {c \in Commanders : cmd[c].pc = "create"}
Counted ==
  /\ commands \in 0..MaxCommands
  /\ vendor \in ActionVendors =>
       /\ Len(recs) + Cardinality(Creating) <= commands
       /\ export # None => Len(export.recs) <= commands
       /\ snapshot # None => Len(snapshot.data.recs) <= commands

-----------------------------------------------------------------------------

\* The SIEM shows the change, or still shows the device on its way: because
\* the change is about to be announced, or because another action announced the
\* device after it had answered.
Shown(m, l, announcing) ==
  \/ m.state = l.want
  \/ m.state = Pending(l.want) /\ (announcing \/ m.at > l.at + Second)

\* SentinelOne.  What was asked last is under way, with its request, or a
\* settling has taken the request and is about to apply it; or it is done, and
\* shown or about to be.
AgentWith(r, q, m, l, applying, announcing) ==
  IF l.want = None THEN q = None /\ m.state = r.state /\ ~m.answer
  ELSE \/ /\ r.state = Pending(l.want) /\ m.state = r.state /\ ~m.answer
          /\ q = [at |-> l.at, stamp |-> r.asked] \/ applying
       \/ /\ r.state = l.want /\ q = None /\ Shown(m, l, announcing)
          /\ m.answer => m.state = l.want /\ m.at = l.at + Second

AgentCommands ==
  \A c \in Commanders : cmd[c] # IdleCommand =>
    /\ last.want = cmd[c].want /\ recs[1].state = Pending(cmd[c].want)
    /\ cmd[c].pc \in {"request", "announce"} => recs[1].asked = Stamp(cmd[c].began)
    /\ cmd[c].pc = "announce" =>
         /\ request = [at |-> last.at, stamp |-> recs[1].asked]
         /\ cmd[c].began <= last.at /\ last.at <= now

AgentSettlers ==
  \A s \in Settlers : settler[s] # IdleSettler =>
    /\ last.want # None /\ settler[s].read = [at |-> last.at, stamp |-> recs[1].asked]
    /\ settler[s].pc = "judge" => settler[s].target = None
    /\ settler[s].pc = "drop" => \/ settler[s].target = None /\ recs[1].state = last.want
                                 \/ settler[s].target = last.want /\ now > last.at + Second
    /\ settler[s].pc = "apply" =>
         settler[s].target = last.want /\ request = None /\ now > last.at + Second
    /\ settler[s].pc = "announce" => recs[1].state = last.want /\ now > last.at + Second

At(pc) == \E s \in Settlers : settler[s].pc = pc

AgentInv ==
  vendor = "s1" =>
    /\ siem.at <= now
    /\ CommandsIdle => AgentWith(recs[1], request, siem, last, At("apply"), At("announce"))
    /\ AgentCommands /\ AgentSettlers
    /\ snapshot # None =>
         /\ snapshot.data.siem.at <= now
         /\ AgentWith(snapshot.data.recs[1], snapshot.request, snapshot.data.siem,
                      snapshot.data.last, FALSE, FALSE)
         /\ last.want = None => snapshot.data.last.want = None /\ snapshot.data.recs = recs

-----------------------------------------------------------------------------

\* Falcon.  The host is in the state asked for last, or on its way to it.
HostWith(r, l) == l.want # None => r.state \in {l.want, Pending(l.want)}

HostInv ==
  vendor = "falcon" =>
    /\ HostWith(recs[1], last)
    /\ \A s \in Settlers : settler[s] # IdleSettler =>
         settler[s].target \in Directions /\ (last.want # None => settler[s].target = last.want)
    /\ snapshot # None => HostWith(snapshot.data.recs[1], snapshot.data.last)

-----------------------------------------------------------------------------

\* Cortex.  The same, with the announcement that follows, and the action that
\* was created last.
EndpointWith(r, m, l, announcing) ==
  IF l.want = None THEN r.state \in Directions /\ m.state = r.state /\ ~m.answer
  ELSE /\ l.at <= now
       /\ \/ /\ r.state = Pending(l.want) /\ r.asked = l.at
             /\ m.state = r.state /\ ~m.answer
          \/ /\ r.state = l.want /\ Shown(m, l, announcing)
             /\ m.answer => m.state = l.want /\ l.at <= m.at /\ m.at <= l.at + Second

LastAction(r, a, settling) ==
  a # <<>> =>
    /\ r.state \in {a[Len(a)][1], Pending(a[Len(a)][1])}
    /\ a[Len(a)][2] = "completed" => r.state = a[Len(a)][1] \/ settling

EndpointCommands ==
  \A c \in Commanders : cmd[c] # IdleCommand =>
    /\ cmd[c].pc \in {"date", "announce"} =>
         last.want = cmd[c].want /\ recs[1].state = Pending(cmd[c].want)
    /\ cmd[c].pc = "announce" =>
         recs[1].asked = last.at /\ cmd[c].began <= last.at /\ last.at <= now
    /\ cmd[c].pc = "act" =>
         /\ recs[1].state \in {cmd[c].want, Pending(cmd[c].want)}
         /\ EndpointWith(recs[1], siem, last, FALSE)

EndpointSettlers ==
  \A s \in Settlers : settler[s] # IdleSettler =>
    /\ last.want # None /\ settler[s].target = last.want
    /\ settler[s].pc \in {"judge", "apply"} => recs[1].state = Pending(last.want)
    /\ settler[s].pc \in {"apply", "announce"} => settler[s].read = last.at
    /\ settler[s].pc = "announce" => recs[1].state = last.want

WillApply == \E s \in Settlers :
  settler[s].pc = "apply" \/ (settler[s].pc = "judge" /\ settler[s].forced)

EndpointInv ==
  vendor = "cortex" =>
    /\ siem.at <= now
    /\ CommandsIdle => /\ EndpointWith(recs[1], siem, last, At("announce"))
                       /\ LastAction(recs[1], actions, WillApply)
    /\ EndpointCommands /\ EndpointSettlers
    /\ snapshot # None =>
         /\ snapshot.data.siem.at <= now
         /\ EndpointWith(snapshot.data.recs[1], snapshot.data.siem, snapshot.data.last, FALSE)
         /\ LastAction(snapshot.data.recs[1], snapshot.data.actions, FALSE)

-----------------------------------------------------------------------------

Common == Types /\ Points /\ Turns /\ InTime
IInv == Common /\ Counted /\ ActionsDated /\ AgentInv /\ HostInv /\ EndpointInv

-----------------------------------------------------------------------------
(* The parts every mount shares                                            *)

\* A record written over another, in place.
LEMMA OneOverwritten ==
  ASSUME NEW S, NEW r \in Seq(S), Len(r) = 1, NEW e \in S, NEW q,
         q = [r EXCEPT ![1] = e]
  PROVE  q \in Seq(S) /\ Len(q) = 1 /\ q[1] = e
<1>1. q \in [1..1 -> S]
  OBVIOUS
<1>2. q \in Seq(S)
  BY <1>1, SeqDef
<1>3. DOMAIN q = 1..1 /\ q[1] = e
  BY <1>1
<1> QED
  BY <1>2, <1>3

USE SettlingAssumption

\* Whole seconds: a stamp is a moment of the past.
LEMMA StampIsTime ==
  ASSUME NEW t \in Times
  PROVE  Stamp(t) \in Times /\ Stamp(t) <= t
BY DEF Stamp, Times, MaxTime

LEMMA Vocabulary ==
  /\ IdleCommand \in CommandRecs
  /\ \A v : IdleSettler \in SettlerRecs(v)
  /\ \A d \in Directions :
       /\ Pending(d) \in InTransit /\ SettlesInto(Pending(d)) = d
       /\ Pending(d) \notin Directions
  /\ \A x \in InTransit : SettlesInto(x) \in Directions /\ Pending(SettlesInto(x)) = x
  /\ \A x \in States : SettlesInto(x) \in Directions
  /\ \A d, e \in Directions : Pending(d) = Pending(e) => d = e
BY DEF IdleCommand, CommandRecs, IdleSettler, SettlerRecs, Directions, InTransit, Pending,
       SettlesInto, States, Times, MaxTime

LEMMA Overwritten ==
  ASSUME NEW S, NEW r \in Seq(S), NEW i \in 1..Len(r), NEW e \in S, NEW q,
         q = [r EXCEPT ![i] = e]
  PROVE  /\ q \in Seq(S) /\ Len(q) = Len(r) /\ q[i] = e
         /\ \A j \in 1..Len(r) : j # i => q[j] = r[j]
BY ExceptSeq

LEMMA InitCommon ==
  ASSUME Init
  PROVE  Common /\ Counted
<1>1. now \in Times /\ 0 \in Times /\ 0 \in 0..MaxTime + Second
  BY DEF Init, Times, Start, MaxTime
<1>2. DataOK(vendor, recs, actions, siem, last)
  <2>1. CASE vendor \in ActionVendors
    BY <1>1, <2>1, EmptySeq DEF Init, DataOK, SiemViews, States, Directions, InTransit, Asks,
                           ActionVendors, DeviceVendors
  <2>2. CASE vendor \notin ActionVendors
    <3>1. PICK state \in {"off", "turningOff"} :
            /\ recs = <<[state |-> state, done |-> None,
                         asked |-> IF vendor = "cortex" THEN None ELSE 0]>>
            /\ siem = [state |-> state, at |-> 0, answer |-> FALSE]
      BY <2>2 DEF Init
    <3>2. [state |-> state, done |-> None, asked |-> IF vendor = "cortex" THEN None ELSE 0]
            \in Records
      BY <1>1 DEF Records, States, Directions, InTransit
    <3>3. /\ recs \in Seq(Records) /\ Len(recs) = 1
          /\ vendor # "cortex" => \A i \in 1..Len(recs) : recs[i].asked \in Times
      BY <1>1, <3>1, <3>2
    <3>4. siem \in SiemViews
      BY <1>1, <3>1 DEF SiemViews, States, Directions, InTransit
    <3> QED
      <4>1. actions \in Seq(XdrActions) /\ actions = <<>>
        BY EmptySeq DEF Init
      <4>2. last \in Asks
        BY <1>1 DEF Init, Asks
      <4> QED
        BY <3>3, <3>4, <4>1, <4>2 DEF DataOK
  <2> QED
    BY <2>1, <2>2
<1>3. Types
  BY <1>1, <1>2, Vocabulary DEF Init, Types
<1>4. Points /\ Turns /\ InTime
  BY DEF Init, Points, Turns, CommandsIdle, SettlersIdle, InTime
<1>5. Counted
  <2>1. Creating = {}
    BY DEF Init, Creating, IdleCommand
  <2>2. Cardinality(Creating) = 0
    BY <2>1, FS_EmptySet
  <2>3. vendor \in ActionVendors => Len(recs) = 0
    BY DEF Init
  <2> QED
    BY <2>2, <2>3 DEF Init, Counted
<1> QED
  BY <1>3, <1>4, <1>5 DEF Common

\* A command goes one step on: only its own place and the store change.
LEMMA CommandMoves ==
  ASSUME Common, ~Overlap, NEW c \in Commanders, NEW m \in CommandRecs,
         \/ m = IdleCommand
         \/ m.pc \in CommandPoints(vendor) /\ m.began <= now /\ now <= m.began + Second,
         cmd[c] # IdleCommand \/ MayCommand, cmd' = [cmd EXCEPT ![c] = m], CommandFrame,
         DataOK(vendor, recs', actions', siem', last'), Len(recs) <= Len(recs'),
         request' \in Requests \union {None}
  PROVE  Common'
<1>1. cmd' \in [Commanders -> CommandRecs] /\ cmd'[c] = m
      /\ \A x \in Commanders : x # c => cmd'[x] = cmd[x]
  BY DEF Common, Types
<1>2. Types'
  BY <1>1 DEF Common, Types, CommandFrame
<1>3. Points'
  <2>1. Len(recs) \in Nat /\ Len(recs') \in Nat
    BY DEF Common, Types, DataOK
  <2>2. \A s \in Settlers : settler'[s] = IdleSettler \/
          (settler'[s].pc \in SettlerPoints(vendor) /\ settler'[s].rec \in 1..Len(recs'))
    BY <2>1 DEF Common, Points, CommandFrame
  <2> QED
    BY <1>1, <2>2 DEF Common, Points, CommandFrame
<1>4. Turns'
  <2>1. SUFFICES ASSUME Shared PROVE Turns'
    BY DEF Turns, Shared, CommandFrame
  <2>2. SettlersIdle /\ export = None /\ \A x \in Commanders : x # c => cmd[x] = IdleCommand
    BY <2>1 DEF Common, Turns, MayCommand, Quiet, CommandsIdle
  <2> QED
    BY <1>1, <2>2 DEF Turns, SettlersIdle, CommandFrame
<1>5. InTime'
  BY <1>1 DEF Common, InTime, CommandFrame
<1> QED
  BY <1>2, <1>3, <1>4, <1>5 DEF Common

\* A settling goes one step on.
LEMMA SettlerMoves ==
  ASSUME Common, ~Overlap, NEW s \in Settlers, NEW m \in SettlerRecs(vendor),
         m = IdleSettler \/ (m.pc \in SettlerPoints(vendor) /\ m.rec \in 1..Len(recs')),
         settler[s] # IdleSettler \/ MaySettle, settler' = [settler EXCEPT ![s] = m],
         SettleFrame, DataOK(vendor, recs', actions', siem', last'), Len(recs) <= Len(recs'),
         request' \in Requests \union {None}
  PROVE  Common'
<1>1. settler' \in [Settlers -> SettlerRecs(vendor)] /\ settler'[s] = m
      /\ \A x \in Settlers : x # s => settler'[x] = settler[x]
  BY DEF Common, Types
<1>2. Types'
  BY <1>1 DEF Common, Types, SettleFrame
<1>3. Points'
  <2>1. Len(recs) \in Nat /\ Len(recs') \in Nat
    BY DEF Common, Types, DataOK
  <2>2. \A x \in Settlers : settler'[x] = IdleSettler \/
          (settler'[x].pc \in SettlerPoints(vendor) /\ settler'[x].rec \in 1..Len(recs'))
    BY <1>1, <2>1 DEF Common, Points
  <2> QED
    BY <2>2 DEF Common, Points, SettleFrame
<1>4. Turns'
  <2>1. SUFFICES ASSUME Shared PROVE Turns'
    BY DEF Turns, Shared, SettleFrame
  <2>2. CommandsIdle /\ export = None
    BY <2>1 DEF Common, Turns, MaySettle, SettlersIdle
  <2>3. vendor = "cortex" => \A x \in Settlers : x # s => settler[x] = IdleSettler
    BY <2>1 DEF Common, Turns, MaySettle, SettlersIdle
  <2> QED
    BY <1>1, <2>2, <2>3 DEF Turns, CommandsIdle, SettleFrame
<1>5. InTime'
  BY DEF Common, InTime, SettleFrame
<1> QED
  BY <1>2, <1>3, <1>4, <1>5 DEF Common

LEMMA ExportRecordsCommon ==
  ASSUME Common, ExportRecords
  PROVE  Common'
<1>1. export' # None => /\ export'.recs = recs /\ export'.actions = actions
                        /\ export'.siem = siem /\ export'.last = last
  BY DEF ExportRecords
<1>2. Types'
  BY <1>1 DEF Common, Types, ExportRecords
<1>3. Turns'
  <2>1. SUFFICES ASSUME Shared PROVE Turns'
    BY DEF Turns, Shared, ExportRecords
  <2>2. CommandsIdle /\ SettlersIdle
    BY <2>1 DEF ExportRecords, MayExport
  <2>3. recs' = recs /\ actions' = actions /\ siem' = siem /\ last' = last
        /\ cmd' = cmd /\ settler' = settler
    BY DEF ExportRecords
  <2> QED
    BY <1>1, <2>2, <2>3 DEF Turns, CommandsIdle, SettlersIdle
<1>4. Points' /\ InTime'
  BY DEF Common, Points, InTime, ExportRecords
<1> QED
  BY <1>2, <1>3, <1>4 DEF Common

LEMMA ExportRequestsCommon ==
  ASSUME Common, ExportRequests
  PROVE  Common'
<1>1. snapshot'.data = export /\ snapshot'.request = request
  BY DEF ExportRequests
<1>2. Types'
  BY <1>1 DEF Common, Types, ExportRequests
<1>3. Turns'
  BY DEF Common, Turns, Shared, CommandsIdle, SettlersIdle, ExportRequests
<1>4. Points' /\ InTime'
  BY DEF Common, Points, InTime, ExportRequests
<1> QED
  BY <1>2, <1>3, <1>4 DEF Common

LEMMA LoadCommon ==
  ASSUME Common, Load
  PROVE  Common'
<1>1. Types'
  BY Vocabulary DEF Common, Types, Load
<1>2. Points' /\ Turns' /\ InTime'
  BY DEF Points, Turns, CommandsIdle, SettlersIdle, InTime, Load
<1> QED
  BY <1>1, <1>2 DEF Common

LEMMA TickCommon ==
  ASSUME Common, Tick
  PROVE  Common'
<1>1. now \in Nat /\ now' \in Times /\ now <= now' /\ now' = now + 1
  BY DEF Common, Types, Tick, Times, MaxTime
<1>2. Types'
  BY <1>1 DEF Common, Types, Tick
<1>3. Points' /\ Turns'
  BY DEF Common, Points, Turns, Shared, CommandsIdle, SettlersIdle, Tick
<1>4. InTime'
  <2>1. \A c \in Commanders : cmd[c].began \in Nat
    BY DEF Common, Types, CommandRecs, Times, MaxTime
  <2> QED
    BY <1>1, <2>1 DEF Common, InTime, Tick
<1> QED
  BY <1>2, <1>3, <1>4 DEF Common

-----------------------------------------------------------------------------
(* The mounts that keep the state on the device                            *)

\* There is one record; whoever commands the device has it for itself, and
\* whoever settles it shares it with other settlers only.
LEMMA OnDevice ==
  ASSUME Common, ~Overlap, vendor \in DeviceVendors
  PROVE  /\ Len(recs) = 1 /\ recs[1] \in Records /\ last \in Asks /\ siem \in SiemViews
         /\ vendor # "cortex" => recs[1].asked \in Times
         /\ \A c \in Commanders : cmd[c] # IdleCommand \/ (MayCommand /\ Quiet) =>
              /\ SettlersIdle /\ export = None
              /\ \A x \in Commanders : x # c => cmd[x] = IdleCommand
         /\ \A s \in Settlers : settler[s] # IdleSettler \/ MaySettle =>
              CommandsIdle /\ export = None
         /\ MayCommand => Quiet
<1>1. recs \in Seq(Records) /\ Len(recs) = 1 /\ last \in Asks /\ siem \in SiemViews
  BY DEF Common, Types, DataOK
<1>2. vendor # "cortex" => recs[1].asked \in Times
  BY <1>1 DEF Common, Types, DataOK
<1>3. Shared
  BY DEF Shared
<1> QED
  BY <1>1, <1>2, <1>3 DEF Common, Turns, MayCommand, MaySettle, Quiet, CommandsIdle,
                          SettlersIdle

LEMMA DeviceTypes ==
  ASSUME Common, ~Overlap, vendor \in DeviceVendors
  PROVE  /\ now \in Times /\ now \in Nat
         /\ recs \in Seq(Records) /\ Len(recs) = 1 /\ recs[1] \in Records
         /\ recs[1].state \in States
         /\ vendor # "cortex" => recs[1].asked \in Times
         /\ last \in Asks /\ last.at \in Times /\ last.at \in Nat
         /\ last.want \in Directions \union {None}
         /\ siem \in SiemViews /\ siem.at \in Nat /\ siem.state \in States
         /\ request \in Requests \union {None} /\ actions \in Seq(XdrActions)
<1>1. /\ recs[1] \in Records /\ recs \in Seq(Records) /\ Len(recs) = 1
      /\ vendor # "cortex" => recs[1].asked \in Times
  BY OnDevice DEF Common, Types, DataOK
<1>2. last \in Asks /\ siem \in SiemViews /\ actions \in Seq(XdrActions) /\ now \in Times
      /\ request \in Requests \union {None}
  BY DEF Common, Types, DataOK
<1> QED
  BY <1>1, <1>2 DEF Records, Asks, SiemViews, Times, MaxTime

\* A command writes to it,
LEMMA DeviceCommand ==
  ASSUME Common, ~Overlap, vendor \in DeviceVendors, NEW c \in Commanders,
         NEW m \in CommandRecs,
         \/ m = IdleCommand
         \/ m.pc \in CommandPoints(vendor) /\ m.began <= now /\ now <= m.began + Second,
         cmd[c] # IdleCommand \/ MayCommand, cmd' = [cmd EXCEPT ![c] = m], CommandFrame,
         recs' \in Seq(Records), Len(recs') = 1, vendor # "cortex" => recs'[1].asked \in Times,
         request' \in Requests \union {None}, siem' \in SiemViews, last' \in Asks,
         actions' \in Seq(XdrActions), vendor # "cortex" => actions' = actions
  PROVE  /\ Common' /\ cmd'[c] = m /\ \A x \in Commanders : x # c => cmd'[x] = IdleCommand
         /\ SettlersIdle' /\ export' = None
<1>1. DataOK(vendor, recs', actions', siem', last')
  BY DEF Common, Types, DataOK
<1>2. Len(recs) = 1
  BY OnDevice, Zenon
<1>3. Common'
  <2>1. Len(recs) <= Len(recs')
    BY <1>2
  <2> QED
    BY <1>1, <2>1, CommandMoves, Zenon
<1>4. SettlersIdle /\ export = None /\ \A x \in Commanders : x # c => cmd[x] = IdleCommand
  BY OnDevice
<1>5. cmd'[c] = m /\ \A x \in Commanders : x # c => cmd'[x] = IdleCommand
  BY <1>4 DEF Common, Types
<1> QED
  BY <1>3, <1>4, <1>5 DEF SettlersIdle, CommandFrame

\* or a settling.
LEMMA DeviceSettle ==
  ASSUME Common, ~Overlap, vendor \in DeviceVendors, NEW s \in Settlers,
         NEW m \in SettlerRecs(vendor),
         m = IdleSettler \/ (m.pc \in SettlerPoints(vendor) /\ m.rec = 1),
         settler[s] # IdleSettler \/ MaySettle, settler' = [settler EXCEPT ![s] = m],
         SettleFrame,
         recs' \in Seq(Records), Len(recs') = 1, vendor # "cortex" => recs'[1].asked \in Times,
         request' \in Requests \union {None}, siem' \in SiemViews,
         actions' \in Seq(XdrActions), vendor # "cortex" => actions' = actions
  PROVE  /\ Common' /\ settler'[s] = m /\ \A x \in Settlers : x # s => settler'[x] = settler[x]
         /\ CommandsIdle /\ CommandsIdle' /\ export' = None
<1>1. DataOK(vendor, recs', actions', siem', last')
  BY DEF Common, Types, DataOK, SettleFrame
<1>2. Len(recs) <= Len(recs') /\ 1 \in 1..Len(recs')
  <2>1. Len(recs) = 1
    BY OnDevice, Zenon
  <2> QED
    BY <2>1
<1>3. m = IdleSettler \/ (m.pc \in SettlerPoints(vendor) /\ m.rec \in 1..Len(recs'))
  BY <1>2
<1>4. Common'
  BY <1>1, <1>2, <1>3, SettlerMoves, Zenon
<1>5. CommandsIdle /\ export = None
  BY OnDevice
<1>6. settler'[s] = m /\ \A x \in Settlers : x # s => settler'[x] = settler[x]
  BY DEF Common, Types
<1> QED
  BY <1>4, <1>5, <1>6 DEF CommandsIdle, SettleFrame

LEMMA Announcement ==
  ASSUME siem \in SiemViews, NEW state \in States, NEW at \in 0..MaxTime + Second,
         NEW answer \in BOOLEAN
  PROVE  /\ Announced(state, at, answer) \in SiemViews
         /\ siem.at <= at =>
              Announced(state, at, answer) = [state |-> state, at |-> at, answer |-> answer]
         /\ siem.at > at => Announced(state, at, answer) = siem
<1>1. siem.at \in Nat /\ at \in Nat
  BY DEF SiemViews, MaxTime
<1>2. CASE siem.at <= at
  <2>1. at >= siem.at /\ ~(siem.at > at)
    BY <1>1, <1>2
  <2>2. Announced(state, at, answer) = [state |-> state, at |-> at, answer |-> answer]
    BY <2>1 DEF Announced
  <2>3. [state |-> state, at |-> at, answer |-> answer] \in SiemViews
    BY Zenon DEF SiemViews
  <2> QED
    BY <2>1, <2>2, <2>3
<1>3. CASE ~(siem.at <= at)
  <2>1. ~(at >= siem.at)
    BY <1>1, <1>3
  <2> QED
    BY <1>3, <2>1, Zenon DEF Announced
<1> QED
  BY <1>2, <1>3

\* What is announced now is what the SIEM shows.
LEMMA AnnouncedNow ==
  ASSUME Common, ~Overlap, vendor \in DeviceVendors, siem.at <= now,
         siem' = Announced(recs[1].state, now, FALSE)
  PROVE  /\ siem' \in SiemViews /\ siem'.at = now /\ siem'.at <= now
         /\ siem'.state = recs[1].state /\ ~siem'.answer
<1>1. now \in Times /\ now \in Nat /\ siem \in SiemViews /\ recs[1].state \in States
  BY DeviceTypes
<1>2. now \in 0..MaxTime + Second
  BY <1>1 DEF Times, MaxTime
<1>3. siem' = [state |-> recs[1].state, at |-> now, answer |-> FALSE] /\ siem' \in SiemViews
  BY <1>1, <1>2, Announcement
<1>4. siem'.state = recs[1].state /\ siem'.at = now /\ ~siem'.answer
  <2> DEFINE view == [state |-> recs[1].state, at |-> now, answer |-> FALSE]
  <2>1. view.state = recs[1].state /\ view.at = now
    BY Zenon
  <2>2. ~view.answer
    BY Zenon
  <2>3. siem' = view
    BY <1>3, Zenon
  <2> HIDE DEF view
  <2> QED
    BY <2>1, <2>2, <2>3, Zenon
<1>5. now <= now
  BY <1>1
<1>6. siem'.at <= now
  BY <1>4, <1>5, Zenon
<1> QED
  BY <1>3, <1>4, <1>6, Zenon

\* An action that leaves the device as it finds it.
LEMMA ActionLeaves ==
  ASSUME Common, ~Overlap, vendor \in DeviceVendors, siem.at <= now, NEW c \in Commanders,
         Call(c), siem' = Announced(recs[1].state, now, FALSE), CommandFrame,
         UNCHANGED <<recs, request, actions, cmd, last>>
  PROVE  /\ Common' /\ CommandsIdle /\ CommandsIdle' /\ SettlersIdle /\ SettlersIdle'
<1>1. siem' \in SiemViews
  BY AnnouncedNow
<1>2. /\ recs' \in Seq(Records) /\ Len(recs') = 1
      /\ vendor # "cortex" => recs'[1].asked \in Times
      /\ request' \in Requests \union {None} /\ last' \in Asks
      /\ actions' \in Seq(XdrActions) /\ actions' = actions
  BY DeviceTypes
<1>3. cmd' = [cmd EXCEPT ![c] = IdleCommand] /\ IdleCommand \in CommandRecs /\ MayCommand
  BY Vocabulary DEF Call, Common, Types
<1>4. Common' /\ SettlersIdle'
  BY <1>1, <1>2, <1>3, DeviceCommand, Zenon
<1>5. Quiet
  BY <1>3, OnDevice
<1> QED
  BY <1>4, <1>5 DEF Quiet, CommandsIdle

\* A command under way goes to its next point,
LEMMA GotoMoves ==
  ASSUME Common, NEW c \in Commanders, NEW from, NEW to, from # "idle", Goto(c, from, to),
         to \in {"request", "announce", "act"}, NEW m, m = [cmd[c] EXCEPT !.pc = to]
  PROVE  /\ cmd' = [cmd EXCEPT ![c] = m] /\ cmd[c] # IdleCommand /\ m \in CommandRecs
         /\ m.pc = to /\ m.want = cmd[c].want /\ m.began = cmd[c].began /\ m # IdleCommand
         /\ m.began <= now /\ now <= m.began + Second /\ m.want \in Directions
<1>1. cmd[c] \in CommandRecs
  BY DEF Common, Types
<1>2. /\ m \in CommandRecs /\ m.pc = to /\ m.want = cmd[c].want /\ m.began = cmd[c].began
      /\ m.want \in Directions
  BY <1>1 DEF CommandRecs
<1>3. cmd[c] # IdleCommand /\ m # IdleCommand
  BY <1>2 DEF Goto, IdleCommand
<1>4. m.began <= now /\ now <= m.began + Second
  BY <1>2, <1>3 DEF Common, InTime
<1> QED
  BY <1>2, <1>3, <1>4 DEF Goto

\* or returns.
LEMMA ReturnMoves ==
  ASSUME Common, NEW c \in Commanders, NEW from, from # "idle", Return(c, from)
  PROVE  /\ cmd' = [cmd EXCEPT ![c] = IdleCommand] /\ cmd[c] # IdleCommand
         /\ cmd[c] \in CommandRecs /\ cmd[c].want \in Directions
         /\ cmd[c].began <= now /\ now <= cmd[c].began + Second
BY DEF Common, Types, InTime, Return, IdleCommand, CommandRecs

\* A settling under way goes to its next point,
LEMMA StepMoves ==
  ASSUME Common, ~Overlap, vendor \in DeviceVendors, NEW s \in Settlers, NEW from, NEW to,
         from # "idle", Step(s, from, to), to \in SettlerPoints(vendor)
  PROVE  /\ settler[s] # IdleSettler /\ settler[s].pc = from
         /\ \E m \in SettlerRecs(vendor) :
              /\ settler' = [settler EXCEPT ![s] = m] /\ m.pc = to /\ m.rec = 1
              /\ m.target = settler[s].target /\ m.read = settler[s].read /\ m # IdleSettler
<1>1. settler[s] \in SettlerRecs(vendor)
  BY DEF Common, Types
<1>2. to \in {"judge", "drop", "apply", "announce"}
  BY DEF SettlerPoints, DeviceVendors
<1>3. settler[s] # IdleSettler /\ settler[s].pc = from
  BY DEF Step, IdleSettler
<1>4. settler[s].rec = 1
  <2>1. settler[s].rec \in 1..Len(recs) /\ Len(recs) = 1
    BY <1>3, OnDevice DEF Common, Points
  <2> QED
    BY <2>1
<1>5. SUFFICES ASSUME NEW m, m = [settler[s] EXCEPT !.pc = to]
               PROVE  /\ settler' = [settler EXCEPT ![s] = m] /\ m \in SettlerRecs(vendor)
                      /\ m.pc = to /\ m.rec = 1 /\ m.target = settler[s].target
                      /\ m.read = settler[s].read /\ m # IdleSettler
  BY <1>3, Zenon
<1>6. /\ m \in SettlerRecs(vendor) /\ m.pc = to /\ m.rec = settler[s].rec
      /\ m.target = settler[s].target /\ m.read = settler[s].read
  BY <1>1, <1>2, <1>5 DEF SettlerRecs
<1>7. m # IdleSettler
  BY <1>2, <1>6 DEF IdleSettler
<1>8. settler' = [settler EXCEPT ![s] = m]
  BY <1>5 DEF Step
<1> QED
  BY <1>4, <1>6, <1>7, <1>8

\* or is done.
LEMMA LeaveMoves ==
  ASSUME Common, NEW s \in Settlers, NEW from, from # "idle", Leave(s, from)
  PROVE  /\ settler' = [settler EXCEPT ![s] = IdleSettler] /\ settler[s] # IdleSettler
         /\ IdleSettler \in SettlerRecs(vendor) /\ settler[s].pc = from
<1>1. settler[s] # IdleSettler
  BY DEF Leave, IdleSettler
<1> QED
  BY <1>1, Vocabulary DEF Leave

-----------------------------------------------------------------------------
(* SentinelOne                                                             *)

LEMMA AgentTypes ==
  ASSUME Common, ~Overlap, vendor = "s1"
  PROVE  /\ vendor \in DeviceVendors /\ now \in Times /\ now \in Nat
         /\ recs \in Seq(Records) /\ Len(recs) = 1 /\ recs[1] \in Records
         /\ recs[1].state \in States /\ recs[1].asked \in Times
         /\ last \in Asks /\ last.at \in Times /\ last.at \in Nat
         /\ last.want \in Directions \union {None}
         /\ siem \in SiemViews /\ siem.at \in Nat /\ siem.state \in States
         /\ request \in Requests \union {None} /\ actions \in Seq(XdrActions)
<1>1. vendor \in DeviceVendors
  BY DEF DeviceVendors
<1> QED
  BY <1>1, DeviceTypes

LEMMA DisconnectKeeps ==
  ASSUME Common, ~Overlap, AgentInv, NEW c \in Commanders, NEW d \in Directions,
         Disconnect(c, d)
  PROVE  Common' /\ AgentInv'
<1>1. /\ vendor = "s1" /\ vendor' = vendor /\ vendor \in DeviceVendors /\ MayCommand
      /\ now' = now /\ siem' = siem /\ settler' = settler /\ snapshot' = snapshot
      /\ request' = request /\ actions' = actions /\ CommandFrame
  BY DEF Disconnect, Enter, Call, CommandFrame, DeviceVendors
<1>2. /\ recs[1] \in Records /\ recs[1].asked \in Times /\ last \in Asks
      /\ siem' \in SiemViews /\ now \in Times /\ recs \in Seq(Records) /\ Len(recs) = 1
      /\ request' \in Requests \union {None} /\ actions' \in Seq(XdrActions)
  BY <1>1, AgentTypes
<1>3. SUFFICES ASSUME NEW m, m = [pc |-> "stamp", want |-> d, began |-> now],
                      NEW e, e = [recs[1] EXCEPT !.state = Pending(d)],
                      NEW l, l = [last EXCEPT !.want = d]
               PROVE  Common' /\ AgentInv'
  OBVIOUS
<1>4. cmd' = [cmd EXCEPT ![c] = m]
  BY <1>3 DEF Disconnect, Enter
<1>5. last' = l /\ l \in Asks /\ l.want = d
  BY <1>2, <1>3 DEF Disconnect, SetPending, Asks
<1>6. /\ m \in CommandRecs /\ m.pc = "stamp" /\ m.want = d /\ m # IdleCommand
      /\ m.pc \in CommandPoints(vendor) /\ m.began <= now /\ now <= m.began + Second
  BY <1>1, <1>2, <1>3 DEF CommandRecs, CommandPoints, IdleCommand, Times, MaxTime
<1>7. e \in Records /\ e.asked = recs[1].asked /\ e.state = Pending(d)
  BY <1>2, <1>3, Vocabulary DEF Records, States
<1>8. recs' = [recs EXCEPT ![1] = e]
  BY <1>3 DEF Disconnect, SetPending
<1>9. recs' \in Seq(Records) /\ Len(recs') = 1 /\ recs'[1] = e
  BY <1>2, <1>7, <1>8, OneOverwritten
<1>10. /\ Common' /\ cmd'[c] = m /\ \A x \in Commanders : x # c => cmd'[x] = IdleCommand
       /\ SettlersIdle'
  BY <1>1, <1>2, <1>4, <1>5, <1>6, <1>7, <1>9, DeviceCommand, Zenon
<1>11. AgentInv'
  <2>1. ~CommandsIdle'
    BY <1>6, <1>10 DEF CommandsIdle
  <2>2. AgentCommands'
    BY <1>5, <1>6, <1>7, <1>9, <1>10 DEF AgentCommands
  <2>3. AgentSettlers'
    BY <1>10 DEF AgentSettlers, SettlersIdle
  <2>4. last'.want # None
    BY <1>5
  <2> QED
    BY <1>1, <2>1, <2>2, <2>3, <2>4 DEF AgentInv
<1> QED
  BY <1>10, <1>11

LEMMA StampAgentKeeps ==
  ASSUME Common, ~Overlap, AgentInv, NEW c \in Commanders, StampAgent(c)
  PROVE  Common' /\ AgentInv'
<1>1. /\ vendor = "s1" /\ vendor' = vendor /\ Goto(c, "stamp", "request")
      /\ now' = now /\ siem' = siem /\ settler' = settler /\ snapshot' = snapshot
      /\ request' = request /\ actions' = actions /\ last' = last /\ CommandFrame
  BY DEF StampAgent, CommandFrame
<1>2. /\ vendor \in DeviceVendors /\ recs[1] \in Records /\ last' \in Asks
      /\ siem' \in SiemViews /\ recs \in Seq(Records) /\ Len(recs) = 1
      /\ request' \in Requests \union {None} /\ actions' \in Seq(XdrActions)
  BY <1>1, AgentTypes
<1>3. SUFFICES ASSUME NEW m, m = [cmd[c] EXCEPT !.pc = "request"],
                      NEW e, e = [recs[1] EXCEPT !.asked = Stamp(cmd[c].began)]
               PROVE  Common' /\ AgentInv'
  OBVIOUS
<1>4. /\ cmd' = [cmd EXCEPT ![c] = m] /\ cmd[c] # IdleCommand /\ m \in CommandRecs
      /\ m.pc = "request" /\ m.want = cmd[c].want /\ m.began = cmd[c].began
      /\ m # IdleCommand /\ m.began <= now /\ now <= m.began + Second
      /\ m.want \in Directions
  BY <1>1, <1>3, GotoMoves
<1>5. m.pc \in CommandPoints(vendor)
  BY <1>1, <1>4 DEF CommandPoints
<1>6. Stamp(cmd[c].began) \in Times
  <2>1. cmd[c].began \in Times
    BY DEF Common, Types, CommandRecs
  <2> QED
    BY <2>1, StampIsTime
<1>7. /\ e \in Records /\ e.asked = Stamp(cmd[c].began) /\ e.asked \in Times
      /\ e.state = recs[1].state
  BY <1>2, <1>3, <1>6 DEF Records
<1>8. recs' = [recs EXCEPT ![1] = e]
  BY <1>3 DEF StampAgent
<1>9. recs' \in Seq(Records) /\ Len(recs') = 1 /\ recs'[1] = e
  BY <1>2, <1>7, <1>8, OneOverwritten
<1>10. /\ Common' /\ cmd'[c] = m /\ \A x \in Commanders : x # c => cmd'[x] = IdleCommand
       /\ SettlersIdle'
  BY <1>1, <1>2, <1>4, <1>5, <1>7, <1>9, DeviceCommand, Zenon
<1>11. AgentInv'
  <2>1. ~CommandsIdle'
    BY <1>4, <1>10 DEF CommandsIdle
  <2>2. last.want = cmd[c].want /\ recs[1].state = Pending(cmd[c].want)
    BY <1>1, <1>4 DEF AgentInv, AgentCommands
  <2>3. AgentCommands'
    BY <1>1, <1>4, <1>7, <1>9, <1>10, <2>2 DEF AgentCommands
  <2>4. AgentSettlers'
    BY <1>10 DEF AgentSettlers, SettlersIdle
  <2>5. last'.want # None
    BY <1>1, <1>4, <2>2
  <2> QED
    BY <1>1, <2>1, <2>3, <2>4, <2>5 DEF AgentInv
<1> QED
  BY <1>10, <1>11

LEMMA SaveRequestKeeps ==
  ASSUME Common, ~Overlap, AgentInv, NEW c \in Commanders, SaveRequest(c)
  PROVE  Common' /\ AgentInv'
<1>1. /\ vendor = "s1" /\ vendor' = vendor /\ Goto(c, "request", "announce")
      /\ now' = now /\ siem' = siem /\ settler' = settler /\ snapshot' = snapshot
      /\ recs' = recs /\ actions' = actions /\ CommandFrame
      /\ request' = [at |-> now, stamp |-> Stamp(cmd[c].began)]
  BY DEF SaveRequest, CommandFrame
<1>2. /\ vendor \in DeviceVendors /\ last \in Asks /\ now \in Times /\ now \in Nat
      /\ siem' \in SiemViews /\ recs' \in Seq(Records) /\ Len(recs') = 1
      /\ recs'[1].asked \in Times /\ actions' \in Seq(XdrActions)
  BY <1>1, AgentTypes
<1>3. SUFFICES ASSUME NEW m, m = [cmd[c] EXCEPT !.pc = "announce"],
                      NEW l, l = [last EXCEPT !.at = now]
               PROVE  Common' /\ AgentInv'
  OBVIOUS
<1>4. /\ cmd' = [cmd EXCEPT ![c] = m] /\ cmd[c] # IdleCommand /\ m \in CommandRecs
      /\ m.pc = "announce" /\ m.want = cmd[c].want /\ m.began = cmd[c].began
      /\ m # IdleCommand /\ m.began <= now /\ now <= m.began + Second
      /\ m.want \in Directions
  BY <1>1, <1>3, GotoMoves
<1>5. m.pc \in CommandPoints(vendor)
  BY <1>1, <1>4 DEF CommandPoints
<1>6. last' = l /\ l \in Asks /\ l.want = last.want /\ l.at = now
  BY <1>2, <1>3 DEF SaveRequest, Asks
<1>7. request' \in Requests \union {None}
  <2>1. cmd[c].began \in Times
    BY DEF Common, Types, CommandRecs
  <2> QED
    BY <1>1, <1>2, <2>1, StampIsTime DEF Requests
<1>8. /\ Common' /\ cmd'[c] = m /\ \A x \in Commanders : x # c => cmd'[x] = IdleCommand
      /\ SettlersIdle'
  BY <1>1, <1>2, <1>4, <1>5, <1>6, <1>7, DeviceCommand, Zenon
<1>9. AgentInv'
  <2>1. ~CommandsIdle'
    BY <1>4, <1>8 DEF CommandsIdle
  <2>2. last.want = cmd[c].want /\ recs[1].state = Pending(cmd[c].want)
        /\ recs[1].asked = Stamp(cmd[c].began)
    BY <1>1, <1>4 DEF AgentInv, AgentCommands, Goto
  <2>3. AgentCommands'
    BY <1>1, <1>2, <1>4, <1>6, <1>8, <2>2 DEF AgentCommands
  <2>4. AgentSettlers'
    BY <1>8 DEF AgentSettlers, SettlersIdle
  <2>5. last'.want # None
    BY <1>4, <1>6, <2>2
  <2> QED
    BY <1>1, <2>1, <2>3, <2>4, <2>5 DEF AgentInv
<1> QED
  BY <1>8, <1>9

LEMMA AnnounceAgentKeeps ==
  ASSUME Common, ~Overlap, AgentInv, NEW c \in Commanders, AnnounceAgent(c)
  PROVE  Common' /\ AgentInv'
<1>1. /\ vendor = "s1" /\ vendor' = vendor /\ Return(c, "announce") /\ now' = now
      /\ settler' = settler /\ snapshot' = snapshot /\ recs' = recs /\ request' = request
      /\ actions' = actions /\ last' = last /\ CommandFrame
      /\ siem' = Announced(recs[1].state, now, FALSE)
  BY DEF AnnounceAgent, CommandFrame
<1>2. /\ vendor \in DeviceVendors /\ last' \in Asks /\ now \in Times /\ now \in Nat
      /\ siem \in SiemViews /\ siem.at \in Nat /\ recs' \in Seq(Records) /\ Len(recs') = 1
      /\ recs'[1].asked \in Times /\ actions' \in Seq(XdrActions) /\ recs[1].state \in States
      /\ request' \in Requests \union {None} /\ last.at \in Nat
  BY <1>1, AgentTypes
<1>3. /\ cmd' = [cmd EXCEPT ![c] = IdleCommand] /\ cmd[c] # IdleCommand
      /\ cmd[c].began <= now /\ now <= cmd[c].began + Second /\ cmd[c].want \in Directions
  BY <1>1, ReturnMoves
<1>4. /\ last.want = cmd[c].want /\ recs[1].state = Pending(cmd[c].want)
      /\ request = [at |-> last.at, stamp |-> recs[1].asked]
      /\ cmd[c].began <= last.at /\ last.at <= now /\ siem.at <= now
  BY <1>1, <1>3 DEF AgentInv, AgentCommands, Return
<1>5. /\ siem' \in SiemViews /\ siem'.at <= now /\ siem'.state = recs[1].state
      /\ ~siem'.answer
  BY <1>1, <1>2, <1>4, AnnouncedNow
<1>6. IdleCommand \in CommandRecs
  BY Vocabulary
<1>7. /\ Common' /\ \A x \in Commanders : cmd'[x] = IdleCommand
      /\ SettlersIdle'
  BY <1>1, <1>2, <1>3, <1>5, <1>6, DeviceCommand, Zenon
<1>8. AgentInv'
  <2>3. siem'.at <= now' /\ siem'.state = recs'[1].state /\ ~siem'.answer
    BY <1>1, <1>5
  <2>4. last'.want # None /\ recs'[1].state = Pending(last'.want)
    BY <1>1, <1>3, <1>4
  <2>5. \A A, B : AgentWith(recs'[1], request', siem', last', A, B)
    BY <1>1, <1>4, <2>3, <2>4 DEF AgentWith
  <2>6. AgentCommands'
    BY <1>7 DEF AgentCommands
  <2>7. AgentSettlers'
    BY <1>7 DEF AgentSettlers, SettlersIdle
  <2> QED
    BY <1>1, <2>3, <2>4, <2>5, <2>6, <2>7 DEF AgentInv
<1> QED
  BY <1>7, <1>8

\* Another action finds the agent on its way or settled, and shows it so.
LEMMA ActOnAgentKeeps ==
  ASSUME Common, ~Overlap, AgentInv, NEW c \in Commanders, ActOnAgent(c)
  PROVE  Common' /\ AgentInv'
<1>1. /\ vendor = "s1" /\ vendor' = vendor /\ now' = now /\ snapshot' = snapshot
      /\ recs' = recs /\ request' = request /\ actions' = actions /\ last' = last
      /\ cmd' = cmd /\ settler' = settler /\ CommandFrame /\ Call(c)
      /\ siem' = Announced(recs[1].state, now, FALSE)
  BY DEF ActOnAgent, CommandFrame
<1>2. vendor \in DeviceVendors /\ siem.at <= now
  BY <1>1 DEF DeviceVendors, AgentInv
<1>3. Common' /\ CommandsIdle /\ CommandsIdle' /\ SettlersIdle /\ SettlersIdle'
  BY <1>1, <1>2, ActionLeaves
<1>4. siem'.at <= now /\ siem'.state = recs[1].state /\ ~siem'.answer
  BY <1>1, <1>2, AnnouncedNow
<1>5. AgentInv'
  <2>1. ~At("apply") /\ ~At("announce")
    BY <1>3 DEF SettlersIdle, At, IdleSettler
  <2>2. AgentWith(recs[1], request, siem, last, FALSE, FALSE)
    BY <1>1, <1>3, <2>1 DEF AgentInv, AgentWith, Shown
  <2>3. \A A, B : AgentWith(recs'[1], request', siem', last', A, B)
    BY <1>1, <1>4, <2>2 DEF AgentWith, Shown
  <2>4. AgentCommands' /\ AgentSettlers'
    BY <1>3 DEF AgentCommands, AgentSettlers, CommandsIdle, SettlersIdle
  <2> QED
    BY <1>1, <1>4, <2>3, <2>4 DEF AgentInv
<1> QED
  BY <1>3, <1>5

\* A settling that has read the request knows what was asked last.
LEMMA ReadRequestKeeps ==
  ASSUME Common, ~Overlap, AgentInv, NEW s \in Settlers, ReadRequest(s)
  PROVE  Common' /\ AgentInv'
<1>1. /\ vendor = "s1" /\ vendor' = vendor /\ request # None /\ now' = now /\ cmd' = cmd
      /\ snapshot' = snapshot /\ recs' = recs /\ request' = request /\ siem' = siem
      /\ actions' = actions /\ last' = last /\ SettleFrame
      /\ settler[s] = IdleSettler /\ MaySettle
  BY DEF ReadRequest, SettleFrame, Reads
<1>2. /\ vendor \in DeviceVendors /\ last \in Asks /\ siem' \in SiemViews
      /\ recs' \in Seq(Records) /\ Len(recs') = 1 /\ recs'[1].asked \in Times
      /\ actions' \in Seq(XdrActions) /\ request' \in Requests \union {None}
  BY <1>1, AgentTypes
<1>3. SUFFICES ASSUME NEW m, m = [IdleSettler EXCEPT !.pc = "judge", !.read = request]
               PROVE  Common' /\ AgentInv'
  OBVIOUS
<1>4. settler' = [settler EXCEPT ![s] = m]
  BY <1>3 DEF ReadRequest, Reads
<1>5. /\ m \in SettlerRecs(vendor) /\ m.pc = "judge" /\ m.rec = 1 /\ m.target = None
      /\ m.read = request /\ m.pc \in SettlerPoints(vendor)
  BY <1>1, <1>2, <1>3 DEF IdleSettler, SettlerRecs, SettlerPoints
<1>6. /\ Common' /\ settler'[s] = m /\ \A x \in Settlers : x # s => settler'[x] = settler[x]
      /\ CommandsIdle
  BY <1>1, <1>2, <1>4, <1>5, DeviceSettle, Zenon
<1>7. AgentInv'
  <2>1. /\ At("apply")' <=> At("apply")
        /\ At("announce")' <=> At("announce")
    BY <1>1, <1>5, <1>6 DEF At, IdleSettler
  <2>2. ~At("apply")
    BY <1>1 DEF At, AgentInv, AgentSettlers, IdleSettler
  <2>3. last.want # None /\ request = [at |-> last.at, stamp |-> recs[1].asked]
    BY <1>1, <1>6, <2>2 DEF AgentInv, AgentWith
  <2>4. AgentSettlers'
    BY <1>1, <1>5, <1>6, <2>3 DEF AgentInv, AgentSettlers
  <2>5. AgentCommands' /\ CommandsIdle'
    BY <1>1, <1>6 DEF CommandsIdle, AgentCommands
  <2>6. AgentWith(recs'[1], request', siem', last', At("apply")', At("announce")')
    BY <1>1, <1>6, <2>1 DEF AgentInv, AgentWith
  <2> QED
    BY <1>1, <2>4, <2>5, <2>6 DEF AgentInv
<1> QED
  BY <1>6, <1>7

\* What remains of AgentInv when only the settler has moved.
LEMMA AgentSettled ==
  ASSUME Common, AgentInv, vendor = "s1", CommandsIdle, SettleFrame,
         siem'.at <= now, last.want # None, AgentSettlers',
         AgentWith(recs'[1], request', siem', last, At("apply")', At("announce")')
  PROVE  AgentInv'
<1>1. /\ vendor' = vendor /\ now' = now /\ cmd' = cmd /\ snapshot' = snapshot /\ last' = last
  BY DEF SettleFrame
<1>2. AgentCommands'
  BY <1>1 DEF CommandsIdle, AgentCommands
<1>3. snapshot' # None =>
         /\ snapshot'.data.siem.at <= now'
         /\ AgentWith(snapshot'.data.recs[1], snapshot'.request, snapshot'.data.siem,
                      snapshot'.data.last, FALSE, FALSE)
  BY <1>1 DEF AgentInv
<1> QED
  BY <1>1, <1>2, <1>3 DEF AgentInv

LEMMA JudgeRequestKeeps ==
  ASSUME Common, ~Overlap, AgentInv, NEW s \in Settlers, JudgeRequest(s)
  PROVE  Common' /\ AgentInv'
<1>1. /\ vendor = "s1" /\ now' = now /\ recs' = recs /\ request' = request /\ siem' = siem
      /\ actions' = actions /\ last' = last /\ SettleFrame /\ settler[s].pc = "judge"
  BY DEF JudgeRequest, SettleFrame
<1>2. /\ vendor \in DeviceVendors /\ last \in Asks /\ siem' \in SiemViews /\ now \in Nat
      /\ recs' \in Seq(Records) /\ Len(recs') = 1 /\ recs'[1].asked \in Times
      /\ actions' \in Seq(XdrActions) /\ request' \in Requests \union {None}
      /\ last.at \in Nat /\ last.want \in Directions \union {None}
  BY <1>1, AgentTypes
<1>3. settler[s] # IdleSettler /\ CommandsIdle /\ settler[s] \in SettlerRecs(vendor)
  <2>1. settler[s] # IdleSettler
    BY <1>1 DEF IdleSettler
  <2> QED
    BY <1>2, <2>1, OnDevice DEF Common, Types
<1>4. /\ last.want # None /\ settler[s].read = [at |-> last.at, stamp |-> recs[1].asked]
      /\ settler[s].target = None /\ siem.at <= now
      /\ AgentWith(recs[1], request, siem, last, At("apply"), At("announce"))
  BY <1>1, <1>3 DEF AgentInv, AgentSettlers
<1>5. recs[1].state \in {last.want, Pending(last.want)}
  BY <1>4 DEF AgentWith
<1>6. settler[s].rec = 1
  <2>1. settler[s].rec \in 1..Len(recs) /\ Len(recs) = 1
    BY <1>2, <1>3, OnDevice DEF Common, Points
  <2> QED
    BY <2>1
<1>7. PICK m :
        /\ settler' = [settler EXCEPT ![s] = m] /\ m \in SettlerRecs(vendor)
        /\ m = IdleSettler \/ (m.pc = "drop" /\ m.rec = 1)
        /\ m.pc = "drop" =>
             /\ m.read = settler[s].read
             /\ \/ m.target = None /\ recs[1].state = last.want
                \/ m.target = last.want /\ now > last.at + Second
        /\ m.pc \notin {"judge", "apply", "announce"}
  <2>1. CASE ~(recs[1].state \in InTransit /\ recs[1].asked = settler[s].read.stamp)
    <3>1. Step(s, "judge", "drop")
      BY <2>1 DEF JudgeRequest
    <3>2. "drop" \in SettlerPoints(vendor)
      BY <1>1 DEF SettlerPoints
    <3>3. PICK m \in SettlerRecs(vendor) :
            /\ settler' = [settler EXCEPT ![s] = m] /\ m.pc = "drop" /\ m.rec = 1
            /\ m.target = settler[s].target /\ m.read = settler[s].read
      BY <1>2, <3>1, <3>2, StepMoves
    <3>4. recs[1].state = last.want
      BY <1>2, <1>4, <1>5, <2>1, Vocabulary
    <3>5. m.target = None
      BY <1>4, <3>3
    <3> QED
      BY <3>3, <3>4, <3>5
  <2>2. CASE /\ recs[1].state \in InTransit /\ recs[1].asked = settler[s].read.stamp
             /\ HasAnswered(now - settler[s].read.at)
    <3>1. SUFFICES ASSUME NEW m, m = [settler[s] EXCEPT !.pc = "drop",
                                                        !.target = SettlesInto(recs[1].state)]
                   PROVE  /\ settler' = [settler EXCEPT ![s] = m] /\ m \in SettlerRecs(vendor)
                          /\ m.pc = "drop" /\ m.rec = 1 /\ m.read = settler[s].read
                          /\ m.target = last.want /\ now > last.at + Second
      BY Zenon
    <3>2. settler' = [settler EXCEPT ![s] = m]
      BY <2>2, <3>1 DEF JudgeRequest
    <3>3. SettlesInto(recs[1].state) = last.want
      BY <1>2, <1>4, <1>5, <2>2, Vocabulary DEF Directions, InTransit
    <3>4. /\ m \in SettlerRecs(vendor) /\ m.pc = "drop" /\ m.rec = 1
          /\ m.read = settler[s].read /\ m.target = last.want
      BY <1>2, <1>3, <1>6, <3>1, <3>3 DEF SettlerRecs
    <3>5. now > last.at + Second
      BY <1>2, <1>4, <2>2 DEF HasAnswered
    <3> QED
      BY <3>2, <3>4, <3>5
  <2>3. CASE /\ recs[1].state \in InTransit /\ recs[1].asked = settler[s].read.stamp
             /\ ~HasAnswered(now - settler[s].read.at)
    <3>1. Leave(s, "judge")
      BY <2>3 DEF JudgeRequest
    <3>2. settler' = [settler EXCEPT ![s] = IdleSettler] /\ IdleSettler \in SettlerRecs(vendor)
      BY <3>1, LeaveMoves
    <3>3. IdleSettler.pc = "idle"
      BY DEF IdleSettler
    <3> QED
      BY <3>2, <3>3
  <2> QED
    BY <2>1, <2>2, <2>3
<1>8. m = IdleSettler \/ (m.pc \in SettlerPoints(vendor) /\ m.rec = 1)
  BY <1>1, <1>7 DEF SettlerPoints
<1>9. /\ Common' /\ settler'[s] = m /\ \A x \in Settlers : x # s => settler'[x] = settler[x]
  BY <1>1, <1>2, <1>3, <1>7, <1>8, DeviceSettle, Zenon
<1>10. AgentInv'
  <2>1. At("apply") => At("apply")'
    BY <1>1, <1>9 DEF At
  <2>2. At("announce") => At("announce")'
    BY <1>1, <1>9 DEF At
  <2>3. AgentWith(recs'[1], request', siem', last, At("apply")', At("announce")')
    BY <1>1, <1>4, <2>1, <2>2 DEF AgentWith, Shown
  <2>4. m # IdleSettler => m.pc = "drop"
    BY <1>7
  <2>5. AgentSettlers'
    BY <1>1, <1>4, <1>7, <1>9, <2>4 DEF AgentInv, AgentSettlers
  <2> QED
    BY <1>1, <1>3, <1>4, <2>3, <2>5, AgentSettled
<1> QED
  BY <1>9, <1>10

LEMMA DropRequestKeeps ==
  ASSUME Common, ~Overlap, AgentInv, vendor = "s1", NEW s \in Settlers, DropRequest(s)
  PROVE  Common' /\ AgentInv'
<1>1. /\ now' = now /\ recs' = recs /\ request' = None /\ siem' = siem
      /\ actions' = actions /\ last' = last /\ SettleFrame /\ settler[s].pc = "drop"
  BY DEF DropRequest, SettleFrame, Step, Leave
<1>2. /\ vendor \in DeviceVendors /\ last \in Asks /\ siem' \in SiemViews /\ now \in Nat
      /\ recs' \in Seq(Records) /\ Len(recs') = 1 /\ recs'[1].asked \in Times
      /\ actions' \in Seq(XdrActions) /\ request' \in Requests \union {None}
      /\ last.at \in Nat /\ last.want \in Directions \union {None}
  BY <1>1, AgentTypes
<1>3. settler[s] # IdleSettler /\ CommandsIdle
  <2>1. settler[s] # IdleSettler
    BY <1>1 DEF IdleSettler
  <2> QED
    BY <1>2, <2>1, OnDevice
<1>4. /\ last.want # None /\ settler[s].read = [at |-> last.at, stamp |-> recs[1].asked]
      /\ \/ settler[s].target = None /\ recs[1].state = last.want
         \/ settler[s].target = last.want /\ now > last.at + Second
      /\ siem.at <= now
      /\ AgentWith(recs[1], request, siem, last, At("apply"), At("announce"))
  BY <1>1, <1>3 DEF AgentInv, AgentSettlers
<1>5. PICK m \in SettlerRecs(vendor) :
        /\ settler' = [settler EXCEPT ![s] = m]
        /\ \/ m = IdleSettler /\ recs[1].state = last.want
           \/ /\ m.pc = "apply" /\ m.rec = 1 /\ m.read = settler[s].read
              /\ m.target = last.want /\ now > last.at + Second
  <2>1. CASE settler[s].target = None
    <3>1. Leave(s, "drop")
      BY <2>1 DEF DropRequest
    <3>2. settler' = [settler EXCEPT ![s] = IdleSettler] /\ IdleSettler \in SettlerRecs(vendor)
      BY <3>1, LeaveMoves
    <3> QED
      BY <1>4, <2>1, <3>2
  <2>2. CASE settler[s].target # None
    <3>1. Step(s, "drop", "apply")
      BY <2>2 DEF DropRequest
    <3>2. "apply" \in SettlerPoints(vendor)
      BY DEF SettlerPoints
    <3>3. PICK m \in SettlerRecs(vendor) :
            /\ settler' = [settler EXCEPT ![s] = m] /\ m.pc = "apply" /\ m.rec = 1
            /\ m.target = settler[s].target /\ m.read = settler[s].read
      BY <1>2, <3>1, <3>2, StepMoves
    <3> QED
      BY <1>4, <2>2, <3>3
  <2> QED
    BY <2>1, <2>2
<1>6. m = IdleSettler \/ (m.pc \in SettlerPoints(vendor) /\ m.rec = 1)
  BY <1>5 DEF SettlerPoints
<1>7. /\ Common' /\ settler'[s] = m /\ \A x \in Settlers : x # s => settler'[x] = settler[x]
  BY <1>1, <1>2, <1>3, <1>5, <1>6, DeviceSettle, Zenon
<1>8. AgentInv'
  <2>1. At("apply") => At("apply")'
    BY <1>1, <1>7 DEF At
  <2>2. At("announce") => At("announce")'
    BY <1>1, <1>7 DEF At
  <2>3. recs[1].state = last.want \/ At("apply")'
    BY <1>5, <1>7 DEF At
  <2>4. last.want # Pending(last.want)
    BY <1>2, <1>4, Vocabulary
  <2>5. AgentWith(recs'[1], request', siem', last, At("apply")', At("announce")')
    BY <1>1, <1>4, <2>1, <2>2, <2>3, <2>4 DEF AgentWith, Shown
  <2>6. AgentSettlers'
    BY <1>1, <1>4, <1>5, <1>7 DEF AgentInv, AgentSettlers
  <2> QED
    BY <1>1, <1>3, <1>4, <2>5, <2>6, AgentSettled
<1> QED
  BY <1>7, <1>8

LEMMA ApplyToAgentKeeps ==
  ASSUME Common, ~Overlap, AgentInv, NEW s \in Settlers, ApplyToAgent(s)
  PROVE  Common' /\ AgentInv'
<1>1. /\ vendor = "s1" /\ now' = now /\ request' = request /\ siem' = siem
      /\ actions' = actions /\ last' = last /\ SettleFrame /\ Step(s, "apply", "announce")
  BY DEF ApplyToAgent, SettleFrame
<1>2. /\ vendor \in DeviceVendors /\ last \in Asks /\ siem' \in SiemViews /\ now \in Nat
      /\ recs \in Seq(Records) /\ Len(recs) = 1 /\ recs[1].asked \in Times
      /\ recs[1] \in Records /\ actions' \in Seq(XdrActions)
      /\ request' \in Requests \union {None}
      /\ last.at \in Nat /\ last.want \in Directions \union {None}
  BY <1>1, AgentTypes
<1>3. "announce" \in SettlerPoints(vendor)
  BY <1>1 DEF SettlerPoints
<1>4. settler[s] # IdleSettler /\ settler[s].pc = "apply"
  BY <1>1, <1>2, <1>3, StepMoves
<1>5. PICK m \in SettlerRecs(vendor) :
            /\ settler' = [settler EXCEPT ![s] = m] /\ m.pc = "announce" /\ m.rec = 1
            /\ m.target = settler[s].target /\ m.read = settler[s].read
  BY <1>1, <1>2, <1>3, StepMoves
<1>6. CommandsIdle
  BY <1>2, <1>4, OnDevice
<1>7. /\ last.want # None /\ settler[s].read = [at |-> last.at, stamp |-> recs[1].asked]
      /\ settler[s].target = last.want /\ request = None /\ now > last.at + Second
      /\ siem.at <= now
      /\ AgentWith(recs[1], request, siem, last, At("apply"), At("announce"))
  BY <1>1, <1>4, <1>6 DEF AgentInv, AgentSettlers
<1>8. SUFFICES ASSUME NEW e, e = [recs[1] EXCEPT !.state = settler[s].target]
               PROVE  Common' /\ AgentInv'
  OBVIOUS
<1>9. e \in Records /\ e.asked = recs[1].asked /\ e.state = last.want
  BY <1>2, <1>7, <1>8 DEF Records, States
<1>10. recs' = [recs EXCEPT ![1] = e]
  BY <1>8 DEF ApplyToAgent
<1>11. recs' \in Seq(Records) /\ Len(recs') = 1 /\ recs'[1] = e
  BY <1>2, <1>9, <1>10, OneOverwritten
<1>12. recs'[1].asked \in Times
  BY <1>2, <1>9, <1>11
<1>13. /\ Common' /\ settler'[s] = m /\ \A x \in Settlers : x # s => settler'[x] = settler[x]
  BY <1>1, <1>2, <1>3, <1>4, <1>5, <1>11, <1>12, DeviceSettle, Zenon
<1>14. AgentInv'
  <2>1. At("announce")'
    BY <1>5, <1>13 DEF At
  <2>2. /\ siem'.state \in {last.want, Pending(last.want)}
        /\ siem'.answer => siem'.state = last.want /\ siem'.at = last.at + Second
    BY <1>1, <1>7 DEF AgentWith, Shown
  <2>3. AgentWith(recs'[1], request', siem', last, At("apply")', At("announce")')
    BY <1>1, <1>7, <1>9, <1>11, <2>1, <2>2 DEF AgentWith, Shown
  <2>4. AgentSettlers'
    BY <1>1, <1>5, <1>7, <1>9, <1>11, <1>13 DEF AgentInv, AgentSettlers
  <2> QED
    BY <1>1, <1>6, <1>7, <2>3, <2>4, AgentSettled
<1> QED
  BY <1>13, <1>14

\* The announcement of the answer is later than all before it, or the SIEM
\* keeps showing an action made after the answer.
LEMMA AgentAnsweredKeeps ==
  ASSUME Common, ~Overlap, AgentInv, NEW s \in Settlers, AgentAnswered(s)
  PROVE  Common' /\ AgentInv'
<1>1. /\ vendor = "s1" /\ now' = now /\ request' = request /\ recs' = recs
      /\ actions' = actions /\ last' = last /\ SettleFrame /\ Leave(s, "announce")
      /\ siem' = Announced(recs[1].state, AnsweredAt(settler[s].read.at), TRUE)
  BY DEF AgentAnswered, SettleFrame
<1>2. /\ vendor \in DeviceVendors /\ last \in Asks /\ siem \in SiemViews /\ now \in Nat
      /\ recs' \in Seq(Records) /\ Len(recs') = 1 /\ recs'[1].asked \in Times
      /\ recs[1].state \in States /\ actions' \in Seq(XdrActions) /\ siem.at \in Nat
      /\ request' \in Requests \union {None} /\ last.at \in Times
      /\ last.at \in Nat /\ last.want \in Directions \union {None}
  BY <1>1, AgentTypes
<1>3. /\ settler' = [settler EXCEPT ![s] = IdleSettler] /\ settler[s] # IdleSettler
      /\ IdleSettler \in SettlerRecs(vendor) /\ settler[s].pc = "announce"
  BY <1>1, LeaveMoves
<1>4. CommandsIdle
  BY <1>2, <1>3, OnDevice
<1>5. /\ last.want # None /\ settler[s].read = [at |-> last.at, stamp |-> recs[1].asked]
      /\ recs[1].state = last.want /\ now > last.at + Second
      /\ AgentWith(recs[1], request, siem, last, At("apply"), At("announce"))
  BY <1>1, <1>3, <1>4 DEF AgentInv, AgentSettlers
<1>6. last.want # Pending(last.want)
  BY <1>2, <1>5, Vocabulary
<1>7. /\ request = None /\ siem.at <= now
      /\ siem.state \in {last.want, Pending(last.want)}
      /\ siem.answer => siem.state = last.want /\ siem.at = last.at + Second
  BY <1>1, <1>5, <1>6 DEF AgentInv, AgentWith, Shown
<1>8. /\ siem' \in SiemViews
      /\ \/ siem' = [state |-> last.want, at |-> last.at + Second, answer |-> TRUE]
         \/ siem' = siem /\ siem.at > last.at + Second
  <2>1. AnsweredAt(settler[s].read.at) = last.at + Second
    BY <1>5 DEF AnsweredAt
  <2>2. last.at + Second \in 0..MaxTime + Second
    BY <1>2 DEF Times, MaxTime
  <2>3. siem' = Announced(recs[1].state, last.at + Second, TRUE)
    BY <1>1, <2>1
  <2> QED
    <3>1. /\ Announced(recs[1].state, last.at + Second, TRUE) \in SiemViews
          /\ siem.at <= last.at + Second => Announced(recs[1].state, last.at + Second, TRUE)
               = [state |-> recs[1].state, at |-> last.at + Second, answer |-> TRUE]
          /\ siem.at > last.at + Second => Announced(recs[1].state, last.at + Second, TRUE) = siem
      BY <1>2, <2>2, Announcement, Zenon
    <3>2. siem.at <= last.at + Second \/ siem.at > last.at + Second
      BY <1>2
    <3> QED
      BY <1>5, <2>3, <3>1, <3>2, Zenon
<1>9. /\ Common' /\ settler'[s] = IdleSettler
      /\ \A x \in Settlers : x # s => settler'[x] = settler[x]
  BY <1>1, <1>2, <1>3, <1>8, DeviceSettle, Zenon
<1>10. AgentInv'
  <2>1. /\ siem'.at <= now
        /\ siem'.answer => siem'.state = last.want /\ siem'.at = last.at + Second
        /\ Shown(siem', last, FALSE)
    <3>1. CASE siem' = siem /\ siem.at > last.at + Second
      BY <1>7, <3>1 DEF Shown
    <3>2. CASE siem' = [state |-> last.want, at |-> last.at + Second, answer |-> TRUE]
      <4>1. siem'.state = last.want /\ siem'.at = last.at + Second
        BY <3>2
      <4> QED
        BY <1>2, <1>5, <4>1 DEF Shown
    <3> QED
      BY <1>8, <3>1, <3>2
  <2>2. AgentWith(recs'[1], request', siem', last, At("apply")', At("announce")')
    BY <1>1, <1>5, <1>7, <2>1 DEF AgentWith, Shown
  <2>3. AgentSettlers'
    BY <1>1, <1>9 DEF AgentInv, AgentSettlers
  <2> QED
    BY <1>1, <1>4, <1>5, <2>1, <2>2, <2>3, AgentSettled
<1> QED
  BY <1>9, <1>10

\* Export, import, restart and the clock.
World == ExportRecords \/ ExportRequests \/ Load \/ Tick

LEMMA WorldCommon ==
  ASSUME Common, World
  PROVE  Common'
BY ExportRecordsCommon, ExportRequestsCommon, LoadCommon, TickCommon DEF World

\* What an export under way has read of a device is still true of it.
LEMMA ExportIsCurrent ==
  ASSUME Common, ~Overlap, vendor \in DeviceVendors, ExportRequests
  PROVE  /\ CommandsIdle /\ SettlersIdle /\ snapshot'.request = request
         /\ snapshot'.data.recs = recs /\ snapshot'.data.actions = actions
         /\ snapshot'.data.siem = siem /\ snapshot'.data.last = last
<1>1. Shared
  BY DEF Shared
<1>2. snapshot'.data = export /\ snapshot'.request = request /\ export # None
  BY DEF ExportRequests
<1> QED
  BY <1>1, <1>2 DEF Common, Turns

\* Nobody settles in a process that has just started.
LEMMA NobodyThere ==
  ASSUME SettlersIdle, NEW pc \in {"apply", "announce"}
  PROVE  ~At(pc)
BY DEF SettlersIdle, At, IdleSettler

LEMMA AgentWorld ==
  ASSUME Common, ~Overlap, AgentInv, vendor = "s1", World
  PROVE  AgentInv'
<1>1. CASE ExportRecords
  BY <1>1 DEF ExportRecords, AgentInv, AgentCommands, AgentSettlers, CommandsIdle, At
<1>2. CASE ExportRequests
  <2>1. /\ CommandsIdle /\ SettlersIdle /\ snapshot'.request = request
        /\ snapshot'.data.recs = recs /\ snapshot'.data.siem = siem
        /\ snapshot'.data.last = last
    BY <1>2, ExportIsCurrent DEF DeviceVendors
  <2>2. /\ vendor' = vendor /\ now' = now /\ recs' = recs /\ request' = request
        /\ siem' = siem /\ last' = last /\ cmd' = cmd /\ settler' = settler
    BY <1>2 DEF ExportRequests
  <2>3. ~At("apply") /\ ~At("announce")
    BY <2>1, NobodyThere
  <2>4. \A A, B : AgentWith(recs[1], request, siem, last, A, B)
    BY <2>1, <2>3 DEF AgentInv, AgentWith, Shown
  <2>5. AgentCommands' /\ AgentSettlers'
    BY <2>1, <2>2 DEF AgentCommands, AgentSettlers, CommandsIdle, SettlersIdle
  <2> QED
    BY <2>1, <2>2, <2>4, <2>5 DEF AgentInv
<1>3. CASE Load
  <2>1. /\ CommandsIdle' /\ SettlersIdle' /\ snapshot' = snapshot /\ snapshot # None
        /\ vendor' = vendor /\ now' = now /\ recs' = snapshot.data.recs
        /\ siem' = snapshot.data.siem /\ last' = snapshot.data.last
        /\ request' = snapshot.request
    BY <1>3 DEF Load, CommandsIdle, SettlersIdle
  <2>2. AgentCommands' /\ AgentSettlers'
    BY <2>1 DEF AgentCommands, AgentSettlers, CommandsIdle, SettlersIdle
  <2>3. /\ AgentWith(snapshot.data.recs[1], snapshot.request, snapshot.data.siem,
                     snapshot.data.last, FALSE, FALSE)
        /\ snapshot.data.siem.at <= now
    BY <2>1 DEF AgentInv
  <2>4. AgentWith(recs'[1], request', siem', last', At("apply")', At("announce")')
    BY <2>1, <2>3 DEF AgentWith, Shown
  <2> QED
    BY <2>1, <2>2, <2>3, <2>4 DEF AgentInv
<1>4. CASE Tick
  <2>1. /\ vendor' = vendor /\ recs' = recs /\ request' = request /\ snapshot' = snapshot
        /\ siem' = siem /\ last' = last /\ cmd' = cmd /\ settler' = settler
        /\ now' = now + 1
    BY <1>4 DEF Tick
  <2>2. now \in Nat /\ siem.at \in Nat /\ last.at \in Nat
    BY AgentTypes
  <2>3. snapshot # None => snapshot.data.siem.at \in Nat
    BY DEF Common, Types, DataOK, SiemViews, MaxTime
  <2>4. AgentCommands'
    BY <2>1, <2>2 DEF AgentInv, AgentCommands
  <2>5. AgentSettlers'
    BY <2>1, <2>2 DEF AgentInv, AgentSettlers
  <2>6. CommandsIdle' => AgentWith(recs'[1], request', siem', last', At("apply")',
                                   At("announce")')
    BY <2>1 DEF AgentInv, CommandsIdle, At
  <2>7. siem.at <= now /\ (snapshot # None => snapshot.data.siem.at <= now)
    BY DEF AgentInv
  <2>8. siem'.at <= now' /\ (snapshot # None => snapshot.data.siem.at <= now')
    BY <2>1, <2>2, <2>3, <2>7
  <2> QED
    BY <2>1, <2>4, <2>5, <2>6, <2>8 DEF AgentInv
<1> QED
  BY <1>1, <1>2, <1>3, <1>4 DEF World

LEMMA AgentStep ==
  ASSUME Common, ~Overlap, AgentInv, vendor = "s1", [Next]_vars
  PROVE  Common' /\ AgentInv' /\ vendor' = vendor
<1>1. CASE \E c \in Commanders :
             \/ \E d \in Directions : Disconnect(c, d)
             \/ StampAgent(c) \/ SaveRequest(c) \/ AnnounceAgent(c) \/ ActOnAgent(c)
  <2>1. vendor' = vendor
    BY <1>1 DEF Disconnect, StampAgent, SaveRequest, AnnounceAgent, ActOnAgent, CommandFrame
  <2> QED
    BY <1>1, <2>1, DisconnectKeeps, StampAgentKeeps, SaveRequestKeeps, AnnounceAgentKeeps,
       ActOnAgentKeeps
<1>2. CASE \E s \in Settlers :
             \/ ReadRequest(s) \/ JudgeRequest(s) \/ DropRequest(s) \/ ApplyToAgent(s)
             \/ AgentAnswered(s)
  <2>1. vendor' = vendor
    BY <1>2 DEF ReadRequest, JudgeRequest, DropRequest, ApplyToAgent, AgentAnswered, SettleFrame
  <2> QED
    BY <1>2, <2>1, ReadRequestKeeps, JudgeRequestKeeps, DropRequestKeeps, ApplyToAgentKeeps,
       AgentAnsweredKeeps
<1>3. CASE World
  <2>1. vendor' = vendor
    BY <1>3 DEF World, ExportRecords, ExportRequests, Load, Tick
  <2> QED
    BY <1>3, <2>1, WorldCommon, AgentWorld
<1>4. CASE UNCHANGED vars
  BY <1>4 DEF vars, Common, Types, Points, Turns, InTime, AgentInv, AgentCommands,
              AgentSettlers, CommandsIdle, SettlersIdle, Shared, At
<1>5. \/ \E c \in Commanders :
           \/ \E d \in Directions : Disconnect(c, d)
           \/ StampAgent(c) \/ SaveRequest(c) \/ AnnounceAgent(c) \/ ActOnAgent(c)
      \/ \E s \in Settlers :
           \/ ReadRequest(s) \/ JudgeRequest(s) \/ DropRequest(s) \/ ApplyToAgent(s)
           \/ AgentAnswered(s)
      \/ World \/ UNCHANGED vars
  BY DEF Next, CommandStep, Look, SettleStep, World, ActionVendors, Contain, IsolateEndpoint,
         ScanEndpoint, TouchHost, UnisolateMachine, IsolateMachine, CreateEsAction, StampHost, DateEndpoint,
         AnnounceEndpoint, CreateXdrAction, CreateAction, ReadTransit, ReadAction, JudgeHost,
         ApplyToHost, JudgeEndpoint, ApplyToEndpoint, EndpointAnswered, CompleteMdeAction,
         CompleteEsAction, Poll
<1> QED
  BY <1>1, <1>2, <1>3, <1>4, <1>5

-----------------------------------------------------------------------------
(* Falcon                                                                  *)

LEMMA ContainKeeps ==
  ASSUME Common, ~Overlap, HostInv, NEW c \in Commanders, NEW d \in Directions, Contain(c, d)
  PROVE  Common' /\ HostInv'
<1>1. /\ vendor = "falcon" /\ vendor' = vendor /\ vendor \in DeviceVendors /\ MayCommand
      /\ siem' = siem /\ snapshot' = snapshot /\ request' = request /\ actions' = actions
      /\ CommandFrame
  BY DEF Contain, Enter, Call, CommandFrame, DeviceVendors
<1>2. /\ recs[1] \in Records /\ recs[1].asked \in Times /\ last \in Asks
      /\ siem' \in SiemViews /\ now \in Times /\ recs \in Seq(Records) /\ Len(recs) = 1
      /\ request' \in Requests \union {None} /\ actions' \in Seq(XdrActions)
  BY <1>1, DeviceTypes
<1>3. SUFFICES ASSUME NEW m, m = [pc |-> "stamp", want |-> d, began |-> now],
                      NEW e, e = [recs[1] EXCEPT !.state = Pending(d)],
                      NEW l, l = [last EXCEPT !.want = d]
               PROVE  Common' /\ HostInv'
  OBVIOUS
<1>4. cmd' = [cmd EXCEPT ![c] = m]
  BY <1>3 DEF Contain, Enter
<1>5. last' = l /\ l \in Asks /\ l.want = d
  BY <1>2, <1>3 DEF Contain, SetPending, Asks
<1>6. /\ m \in CommandRecs
      /\ m.pc \in CommandPoints(vendor) /\ m.began <= now /\ now <= m.began + Second
  BY <1>1, <1>2, <1>3 DEF CommandRecs, CommandPoints, Times, MaxTime
<1>7. e \in Records /\ e.asked = recs[1].asked /\ e.state = Pending(d)
  BY <1>2, <1>3, Vocabulary DEF Records, States
<1>8. recs' = [recs EXCEPT ![1] = e]
  BY <1>3 DEF Contain, SetPending
<1>9. recs' \in Seq(Records) /\ Len(recs') = 1 /\ recs'[1] = e
  BY <1>2, <1>7, <1>8, OneOverwritten
<1>10. Common' /\ SettlersIdle'
  BY <1>1, <1>2, <1>4, <1>5, <1>6, <1>7, <1>9, DeviceCommand, Zenon
<1>11. HostInv'
  BY <1>1, <1>5, <1>7, <1>9, <1>10 DEF HostInv, HostWith, SettlersIdle
<1> QED
  BY <1>10, <1>11

LEMMA StampHostKeeps ==
  ASSUME Common, ~Overlap, HostInv, NEW c \in Commanders, StampHost(c) \/ TouchHost(c)
  PROVE  Common' /\ HostInv'
<1>1. /\ vendor = "falcon" /\ vendor' = vendor /\ vendor \in DeviceVendors
      /\ siem' = siem /\ snapshot' = snapshot /\ request' = request /\ actions' = actions
      /\ CommandFrame
  BY DEF StampHost, TouchHost, CommandFrame, DeviceVendors
<1>2. /\ recs[1] \in Records /\ last \in Asks /\ siem' \in SiemViews /\ now \in Times
      /\ recs \in Seq(Records) /\ Len(recs) = 1
      /\ request' \in Requests \union {None} /\ actions' \in Seq(XdrActions)
  BY <1>1, DeviceTypes
<1>3. cmd[c] # IdleCommand \/ MayCommand
  BY DEF StampHost, Return, IdleCommand, TouchHost, Call
<1>4. cmd' = [cmd EXCEPT ![c] = IdleCommand] /\ IdleCommand \in CommandRecs
  <2>1. CASE StampHost(c)
    BY <2>1, Vocabulary DEF StampHost, Return
  <2>2. CASE TouchHost(c)
    BY <2>2, Vocabulary DEF TouchHost, Call, Common, Types
  <2> QED
    BY <2>1, <2>2
<1>5. last' \in Asks /\ last'.want = last.want
  BY <1>2 DEF StampHost, TouchHost, Asks
<1>6. SUFFICES ASSUME NEW e, e = [recs[1] EXCEPT !.asked = Stamp(now)]
               PROVE  Common' /\ HostInv'
  OBVIOUS
<1>7. e \in Records /\ e.asked \in Times /\ e.state = recs[1].state
  <2>1. Stamp(now) \in Times
    BY <1>2, StampIsTime
  <2> QED
    BY <1>2, <1>6, <2>1 DEF Records
<1>8. recs' = [recs EXCEPT ![1] = e]
  BY <1>6 DEF StampHost, TouchHost
<1>9. recs' \in Seq(Records) /\ Len(recs') = 1 /\ recs'[1] = e
  BY <1>2, <1>7, <1>8, OneOverwritten
<1>10. Common' /\ SettlersIdle'
  BY <1>1, <1>2, <1>3, <1>4, <1>5, <1>7, <1>9, DeviceCommand, Zenon
<1>11. HostWith(recs'[1], last')
  BY <1>1, <1>5, <1>7, <1>9 DEF HostInv, HostWith
<1>12. HostInv'
  BY <1>1, <1>10, <1>11 DEF HostInv, SettlersIdle
<1> QED
  BY <1>10, <1>12

LEMMA ReadHostKeeps ==
  ASSUME Common, ~Overlap, HostInv, vendor = "falcon", NEW s \in Settlers, ReadTransit(s)
  PROVE  Common' /\ HostInv'
<1>1. /\ vendor' = vendor /\ vendor \in DeviceVendors /\ recs[1].state \in InTransit
      /\ recs' = recs /\ request' = request /\ siem' = siem /\ snapshot' = snapshot
      /\ actions' = actions /\ last' = last /\ SettleFrame /\ MaySettle
  BY DEF ReadTransit, SettleFrame, Reads, DeviceVendors
<1>2. /\ siem' \in SiemViews /\ last.want \in Directions \union {None}
      /\ recs' \in Seq(Records) /\ Len(recs') = 1 /\ recs'[1].asked \in Times
      /\ actions' \in Seq(XdrActions) /\ request' \in Requests \union {None}
  BY <1>1, DeviceTypes
<1>3. SUFFICES ASSUME NEW m, m = [IdleSettler EXCEPT !.pc = "judge",
                                                     !.target = SettlesInto(recs[1].state)]
               PROVE  Common' /\ HostInv'
  OBVIOUS
<1>4. settler' = [settler EXCEPT ![s] = m]
  BY <1>3 DEF ReadTransit, Reads
<1>5. /\ SettlesInto(recs[1].state) \in Directions
      /\ last.want # None => SettlesInto(recs[1].state) = last.want
  BY <1>1, <1>2, Vocabulary DEF HostInv, HostWith, Directions, InTransit
<1>6. /\ m \in SettlerRecs(vendor) /\ m.rec = 1 /\ m.target = SettlesInto(recs[1].state)
      /\ m.pc \in SettlerPoints(vendor)
  BY <1>3, <1>5 DEF IdleSettler, SettlerRecs, SettlerPoints
<1>7. Common' /\ settler'[s] = m /\ \A x \in Settlers : x # s => settler'[x] = settler[x]
  BY <1>1, <1>2, <1>4, <1>6, DeviceSettle, Zenon
<1>8. HostInv'
  BY <1>1, <1>5, <1>6, <1>7 DEF HostInv
<1> QED
  BY <1>7, <1>8

LEMMA JudgeHostKeeps ==
  ASSUME Common, ~Overlap, HostInv, NEW s \in Settlers, JudgeHost(s)
  PROVE  Common' /\ HostInv'
<1>1. /\ vendor = "falcon" /\ vendor' = vendor /\ vendor \in DeviceVendors
      /\ recs' = recs /\ request' = request /\ siem' = siem /\ snapshot' = snapshot
      /\ actions' = actions /\ last' = last /\ SettleFrame
  BY DEF JudgeHost, SettleFrame, DeviceVendors
<1>2. /\ siem' \in SiemViews
      /\ recs' \in Seq(Records) /\ Len(recs') = 1 /\ recs'[1].asked \in Times
      /\ actions' \in Seq(XdrActions) /\ request' \in Requests \union {None}
  BY <1>1, DeviceTypes
<1>3. /\ settler[s] # IdleSettler
      /\ \E m \in SettlerRecs(vendor) :
           /\ settler' = [settler EXCEPT ![s] = m]
           /\ \/ m = IdleSettler
              \/ m.pc = "apply" /\ m.rec = 1 /\ m.target = settler[s].target
  <2>1. CASE Step(s, "judge", "apply")
    <3>1. "apply" \in SettlerPoints(vendor)
      BY <1>1 DEF SettlerPoints
    <3> QED
      BY <1>1, <2>1, <3>1, StepMoves
  <2>2. CASE Leave(s, "judge")
    BY <2>2, LeaveMoves
  <2> QED
    BY <2>1, <2>2 DEF JudgeHost
<1>4. PICK m \in SettlerRecs(vendor) :
           /\ settler' = [settler EXCEPT ![s] = m]
           /\ \/ m = IdleSettler
              \/ m.pc = "apply" /\ m.rec = 1 /\ m.target = settler[s].target
  BY <1>3
<1>5. m = IdleSettler \/ (m.pc \in SettlerPoints(vendor) /\ m.rec = 1)
  BY <1>1, <1>4 DEF SettlerPoints
<1>6. Common' /\ settler'[s] = m /\ \A x \in Settlers : x # s => settler'[x] = settler[x]
  BY <1>1, <1>2, <1>3, <1>4, <1>5, DeviceSettle, Zenon
<1>7. HostInv'
  BY <1>1, <1>3, <1>4, <1>6 DEF HostInv
<1> QED
  BY <1>6, <1>7

LEMMA ApplyToHostKeeps ==
  ASSUME Common, ~Overlap, HostInv, NEW s \in Settlers, ApplyToHost(s)
  PROVE  Common' /\ HostInv'
<1>1. /\ vendor = "falcon" /\ vendor' = vendor /\ vendor \in DeviceVendors
      /\ request' = request /\ siem' = siem /\ snapshot' = snapshot
      /\ actions' = actions /\ last' = last /\ SettleFrame /\ Leave(s, "apply")
  BY DEF ApplyToHost, SettleFrame, DeviceVendors
<1>2. /\ siem' \in SiemViews /\ recs[1] \in Records
      /\ recs \in Seq(Records) /\ Len(recs) = 1 /\ recs[1].asked \in Times
      /\ actions' \in Seq(XdrActions) /\ request' \in Requests \union {None}
  BY <1>1, DeviceTypes
<1>3. /\ settler' = [settler EXCEPT ![s] = IdleSettler] /\ settler[s] # IdleSettler
      /\ IdleSettler \in SettlerRecs(vendor)
  BY <1>1, LeaveMoves
<1>4. /\ settler[s].target \in Directions
      /\ last.want # None => settler[s].target = last.want
  BY <1>1, <1>3 DEF HostInv
<1>5. SUFFICES ASSUME NEW e, e = [recs[1] EXCEPT !.state = settler[s].target]
               PROVE  Common' /\ HostInv'
  OBVIOUS
<1>6. e \in Records /\ e.asked = recs[1].asked /\ e.state = settler[s].target
  BY <1>2, <1>4, <1>5 DEF Records, States
<1>7. recs' = [recs EXCEPT ![1] = e]
  BY <1>5 DEF ApplyToHost
<1>8. recs' \in Seq(Records) /\ Len(recs') = 1 /\ recs'[1] = e
  BY <1>2, <1>6, <1>7, OneOverwritten
<1>9. recs'[1].asked \in Times
  BY <1>2, <1>6, <1>8
<1>10. /\ Common' /\ settler'[s] = IdleSettler
       /\ \A x \in Settlers : x # s => settler'[x] = settler[x]
  BY <1>1, <1>2, <1>3, <1>8, <1>9, DeviceSettle, Zenon
<1>11. HostWith(recs'[1], last')
  BY <1>1, <1>4, <1>6, <1>8 DEF HostWith
<1>12. HostInv'
  BY <1>1, <1>10, <1>11 DEF HostInv
<1> QED
  BY <1>10, <1>12

LEMMA HostWorld ==
  ASSUME Common, ~Overlap, HostInv, vendor = "falcon", World
  PROVE  HostInv'
<1>1. CASE ExportRecords \/ Tick
  BY <1>1 DEF ExportRecords, Tick, HostInv, HostWith
<1>2. CASE ExportRequests
  <2>1. snapshot'.data.recs = recs /\ snapshot'.data.last = last
    BY <1>2, ExportIsCurrent DEF DeviceVendors
  <2>2. vendor' = vendor /\ recs' = recs /\ last' = last /\ settler' = settler
    BY <1>2 DEF ExportRequests
  <2> QED
    BY <2>1, <2>2 DEF HostInv
<1>3. CASE Load
  BY <1>3 DEF Load, HostInv
<1> QED
  BY <1>1, <1>2, <1>3 DEF World

LEMMA HostStep ==
  ASSUME Common, ~Overlap, HostInv, vendor = "falcon", [Next]_vars
  PROVE  Common' /\ HostInv' /\ vendor' = vendor
<1>1. CASE \E c \in Commanders :
             (\E d \in Directions : Contain(c, d)) \/ StampHost(c) \/ TouchHost(c)
  <2>1. vendor' = vendor
    BY <1>1 DEF Contain, StampHost, TouchHost, CommandFrame
  <2> QED
    BY <1>1, <2>1, ContainKeeps, StampHostKeeps
<1>2. CASE \E s \in Settlers : ReadTransit(s) \/ JudgeHost(s) \/ ApplyToHost(s)
  <2>1. vendor' = vendor
    BY <1>2 DEF ReadTransit, JudgeHost, ApplyToHost, SettleFrame
  <2> QED
    BY <1>2, <2>1, ReadHostKeeps, JudgeHostKeeps, ApplyToHostKeeps
<1>3. CASE World
  <2>1. vendor' = vendor
    BY <1>3 DEF World, ExportRecords, ExportRequests, Load, Tick
  <2> QED
    BY <1>3, <2>1, WorldCommon, HostWorld
<1>4. CASE UNCHANGED vars
  BY <1>4 DEF vars, Common, Types, Points, Turns, InTime, HostInv, CommandsIdle, SettlersIdle,
              Shared
<1>5. \A s \in Settlers : settler[s].pc # "drop"
  BY DEF Common, Points, SettlerPoints, IdleSettler
<1>6. \/ \E c \in Commanders :
           (\E d \in Directions : Contain(c, d)) \/ StampHost(c) \/ TouchHost(c)
      \/ \E s \in Settlers : ReadTransit(s) \/ JudgeHost(s) \/ ApplyToHost(s)
      \/ World \/ UNCHANGED vars
  BY <1>5 DEF Next, CommandStep, Look, SettleStep, World, ActionVendors, Disconnect,
         IsolateEndpoint, UnisolateMachine, IsolateMachine, CreateEsAction, StampAgent,
         SaveRequest, AnnounceAgent, ActOnAgent, ScanEndpoint, DateEndpoint, AnnounceEndpoint, CreateXdrAction,
         CreateAction, ReadRequest, ReadAction, JudgeRequest, DropRequest, Step, Leave,
         ApplyToAgent, AgentAnswered, JudgeEndpoint, ApplyToEndpoint, EndpointAnswered,
         CompleteMdeAction, CompleteEsAction, Poll
<1> QED
  BY <1>1, <1>2, <1>3, <1>4, <1>6

-----------------------------------------------------------------------------
(* Cortex                                                                  *)

\* What remains of EndpointInv when a command has moved,
LEMMA EndpointCommanded ==
  ASSUME Common, EndpointInv, vendor = "cortex", CommandFrame, SettlersIdle', siem'.at <= now,
         EndpointCommands', ~CommandsIdle'
  PROVE  EndpointInv'
<1>1. vendor' = vendor /\ now' = now /\ snapshot' = snapshot
  BY DEF CommandFrame
<1>2. EndpointSettlers'
  BY DEF EndpointSettlers, SettlersIdle
<1> QED
  BY <1>1, <1>2 DEF EndpointInv, EndpointWith

\* or a settling.
LEMMA EndpointSettled ==
  ASSUME Common, EndpointInv, vendor = "cortex", CommandsIdle, SettleFrame, siem'.at <= now,
         EndpointSettlers', EndpointWith(recs'[1], siem', last, At("announce")'),
         LastAction(recs'[1], actions', WillApply')
  PROVE  EndpointInv'
<1>1. vendor' = vendor /\ now' = now /\ cmd' = cmd /\ snapshot' = snapshot /\ last' = last
  BY DEF SettleFrame
<1>2. EndpointCommands'
  BY <1>1 DEF CommandsIdle, EndpointCommands
<1>3. EndpointWith(recs[1], siem, last, At("announce"))'
  BY <1>1 DEF EndpointWith
<1> QED
  BY <1>1, <1>2, <1>3 DEF EndpointInv, EndpointWith

\* An endpoint that is there already is left alone.
LEMMA IsolateAgainKeeps ==
  ASSUME Common, ~Overlap, EndpointInv, vendor = "cortex", NEW c \in Commanders,
         NEW d \in Directions, recs[1].state \in {d, Pending(d)}, Enter(c, d, "act"),
         UNCHANGED <<recs, last, request, actions, siem>>, CommandFrame
  PROVE  Common' /\ EndpointInv'
<1>1. /\ vendor' = vendor /\ vendor \in DeviceVendors /\ MayCommand
      /\ siem' = siem /\ request' = request /\ actions' = actions /\ recs' = recs /\ last' = last
  BY DEF Enter, Call, CommandFrame, DeviceVendors
<1>2. /\ last' \in Asks /\ siem' \in SiemViews /\ now \in Times /\ recs' \in Seq(Records)
      /\ Len(recs') = 1
      /\ request' \in Requests \union {None} /\ actions' \in Seq(XdrActions)
  BY <1>1, DeviceTypes
<1>3. SUFFICES ASSUME NEW m, m = [pc |-> "act", want |-> d, began |-> now]
               PROVE  Common' /\ EndpointInv'
  OBVIOUS
<1>4. cmd' = [cmd EXCEPT ![c] = m]
  BY <1>3 DEF Enter
<1>5. /\ m \in CommandRecs /\ m.pc = "act" /\ m.want = d /\ m # IdleCommand
      /\ m.pc \in CommandPoints(vendor) /\ m.began <= now /\ now <= m.began + Second
  BY <1>2, <1>3 DEF CommandRecs, CommandPoints, IdleCommand, Times, MaxTime
<1>6. /\ Common' /\ cmd'[c] = m /\ \A x \in Commanders : x # c => cmd'[x] = IdleCommand
      /\ SettlersIdle'
  BY <1>1, <1>2, <1>4, <1>5, DeviceCommand, Zenon
<1>7. EndpointInv'
  <2>1. Quiet
    BY <1>1, OnDevice
  <2>2. ~At("announce")
    BY <2>1, NobodyThere DEF Quiet
  <2>3. EndpointWith(recs[1], siem, last, FALSE) /\ siem.at <= now
    BY <2>1, <2>2 DEF EndpointInv, EndpointWith, Shown, Quiet
  <2>4. EndpointWith(recs[1], siem, last, FALSE)'
    BY <1>1, <2>3 DEF EndpointWith, CommandFrame
  <2>5. EndpointCommands'
    BY <1>1, <1>5, <1>6, <2>4 DEF EndpointCommands
  <2>6. ~CommandsIdle'
    BY <1>5, <1>6 DEF CommandsIdle
  <2> QED
    BY <1>1, <1>6, <2>3, <2>5, <2>6, EndpointCommanded
<1> QED
  BY <1>6, <1>7

LEMMA IsolateKeeps ==
  ASSUME Common, ~Overlap, EndpointInv, vendor = "cortex", NEW c \in Commanders,
         NEW d \in Directions, Enter(c, d, "date"), SetPending(d),
         UNCHANGED <<request, actions, siem>>, CommandFrame
  PROVE  Common' /\ EndpointInv'
<1>1. /\ vendor' = vendor /\ vendor \in DeviceVendors /\ MayCommand
      /\ siem' = siem /\ request' = request /\ actions' = actions
  BY DEF Enter, Call, CommandFrame, DeviceVendors
<1>2. /\ last \in Asks /\ siem' \in SiemViews /\ now \in Times /\ recs \in Seq(Records)
      /\ Len(recs) = 1 /\ recs[1] \in Records
      /\ request' \in Requests \union {None} /\ actions' \in Seq(XdrActions)
  BY <1>1, DeviceTypes
<1>3. SUFFICES ASSUME NEW m, m = [pc |-> "date", want |-> d, began |-> now],
                      NEW e, e = [recs[1] EXCEPT !.state = Pending(d)],
                      NEW l, l = [last EXCEPT !.want = d]
               PROVE  Common' /\ EndpointInv'
  OBVIOUS
<1>4. cmd' = [cmd EXCEPT ![c] = m]
  BY <1>3 DEF Enter
<1>5. last' = l /\ l \in Asks /\ l.want = d
  BY <1>2, <1>3 DEF SetPending, Asks
<1>6. /\ m \in CommandRecs /\ m.pc = "date" /\ m.want = d /\ m # IdleCommand
      /\ m.pc \in CommandPoints(vendor) /\ m.began <= now /\ now <= m.began + Second
  BY <1>2, <1>3 DEF CommandRecs, CommandPoints, IdleCommand, Times, MaxTime
<1>7. e \in Records /\ e.state = Pending(d)
  BY <1>2, <1>3, Vocabulary DEF Records, States
<1>8. recs' = [recs EXCEPT ![1] = e]
  BY <1>3 DEF SetPending
<1>9. recs' \in Seq(Records) /\ Len(recs') = 1 /\ recs'[1] = e
  BY <1>2, <1>7, <1>8, OneOverwritten
<1>10. /\ Common' /\ cmd'[c] = m /\ \A x \in Commanders : x # c => cmd'[x] = IdleCommand
       /\ SettlersIdle'
  BY <1>1, <1>2, <1>4, <1>5, <1>6, <1>9, DeviceCommand, Zenon
<1>11. EndpointInv'
  <2>1. siem'.at <= now
    BY <1>1 DEF EndpointInv
  <2>2. EndpointCommands'
    BY <1>5, <1>6, <1>7, <1>9, <1>10 DEF EndpointCommands
  <2>3. ~CommandsIdle'
    BY <1>6, <1>10 DEF CommandsIdle
  <2> QED
    BY <1>10, <2>1, <2>2, <2>3, EndpointCommanded
<1> QED
  BY <1>10, <1>11

LEMMA DateEndpointKeeps ==
  ASSUME Common, ~Overlap, EndpointInv, NEW c \in Commanders, DateEndpoint(c)
  PROVE  Common' /\ EndpointInv'
<1>1. /\ vendor = "cortex" /\ vendor' = vendor /\ vendor \in DeviceVendors /\ now' = now
      /\ siem' = siem /\ request' = request /\ actions' = actions /\ CommandFrame
      /\ Goto(c, "date", "announce")
  BY DEF DateEndpoint, CommandFrame, DeviceVendors
<1>2. /\ last \in Asks /\ siem' \in SiemViews /\ now \in Times /\ now \in Nat
      /\ recs \in Seq(Records) /\ Len(recs) = 1 /\ recs[1] \in Records
      /\ request' \in Requests \union {None} /\ actions' \in Seq(XdrActions)
  BY <1>1, DeviceTypes
<1>3. SUFFICES ASSUME NEW m, m = [cmd[c] EXCEPT !.pc = "announce"],
                      NEW e, e = [recs[1] EXCEPT !.asked = now],
                      NEW l, l = [last EXCEPT !.at = now]
               PROVE  Common' /\ EndpointInv'
  OBVIOUS
<1>4. /\ cmd' = [cmd EXCEPT ![c] = m] /\ cmd[c] # IdleCommand /\ m \in CommandRecs
      /\ m.pc = "announce" /\ m.want = cmd[c].want /\ m.began = cmd[c].began
      /\ m # IdleCommand /\ m.began <= now /\ now <= m.began + Second
  BY <1>1, <1>3, GotoMoves
<1>5. m.pc \in CommandPoints(vendor)
  BY <1>1, <1>4 DEF CommandPoints
<1>6. last' = l /\ l \in Asks /\ l.want = last.want /\ l.at = now
  BY <1>2, <1>3 DEF DateEndpoint, Asks
<1>7. e \in Records /\ e.state = recs[1].state /\ e.asked = now
  BY <1>2, <1>3 DEF Records
<1>8. recs' = [recs EXCEPT ![1] = e]
  BY <1>3 DEF DateEndpoint
<1>9. recs' \in Seq(Records) /\ Len(recs') = 1 /\ recs'[1] = e
  BY <1>2, <1>7, <1>8, OneOverwritten
<1>10. /\ Common' /\ cmd'[c] = m /\ \A x \in Commanders : x # c => cmd'[x] = IdleCommand
       /\ SettlersIdle'
  BY <1>1, <1>2, <1>4, <1>5, <1>6, <1>9, DeviceCommand, Zenon
<1>11. EndpointInv'
  <2>1. siem'.at <= now
    BY <1>1 DEF EndpointInv
  <2>2. last.want = cmd[c].want /\ recs[1].state = Pending(cmd[c].want)
    BY <1>1, <1>4 DEF EndpointInv, EndpointCommands, Goto
  <2>3. EndpointCommands'
    <3>1. /\ last'.want = m.want /\ recs'[1].state = Pending(m.want) /\ m.pc = "announce"
          /\ recs'[1].asked = last'.at /\ m.began <= last'.at /\ last'.at <= now'
      BY <1>1, <1>2, <1>4, <1>6, <1>7, <1>9, <2>2
    <3> QED
      BY <1>10, <3>1 DEF EndpointCommands
  <2>4. ~CommandsIdle'
    BY <1>4, <1>10 DEF CommandsIdle
  <2> QED
    BY <1>1, <1>10, <2>1, <2>3, <2>4, EndpointCommanded
<1> QED
  BY <1>10, <1>11

LEMMA AnnounceEndpointKeeps ==
  ASSUME Common, ~Overlap, EndpointInv, NEW c \in Commanders, AnnounceEndpoint(c)
  PROVE  Common' /\ EndpointInv'
<1>1. /\ vendor = "cortex" /\ vendor' = vendor /\ vendor \in DeviceVendors /\ now' = now
      /\ recs' = recs /\ request' = request /\ actions' = actions /\ last' = last
      /\ CommandFrame /\ Goto(c, "announce", "act")
      /\ siem' = Announced(recs[1].state, now, FALSE)
  BY DEF AnnounceEndpoint, CommandFrame, DeviceVendors
<1>2. /\ last' \in Asks /\ siem \in SiemViews /\ now \in Times /\ now \in Nat
      /\ recs' \in Seq(Records) /\ Len(recs') = 1 /\ recs[1].state \in States
      /\ request' \in Requests \union {None} /\ actions' \in Seq(XdrActions)
      /\ last.at \in Nat /\ siem.at \in Nat
  BY <1>1, DeviceTypes
<1>3. SUFFICES ASSUME NEW m, m = [cmd[c] EXCEPT !.pc = "act"]
               PROVE  Common' /\ EndpointInv'
  OBVIOUS
<1>4. /\ cmd' = [cmd EXCEPT ![c] = m] /\ cmd[c] # IdleCommand /\ m \in CommandRecs
      /\ m.pc = "act" /\ m.want = cmd[c].want /\ m.began = cmd[c].began
      /\ m # IdleCommand /\ m.began <= now /\ now <= m.began + Second /\ m.want \in Directions
  BY <1>1, <1>3, GotoMoves
<1>5. m.pc \in CommandPoints(vendor)
  BY <1>1, <1>4 DEF CommandPoints
<1>6. /\ last.want = cmd[c].want /\ recs[1].state = Pending(cmd[c].want)
      /\ recs[1].asked = last.at /\ cmd[c].began <= last.at /\ last.at <= now
      /\ siem.at <= now
  BY <1>1, <1>4 DEF EndpointInv, EndpointCommands, Goto
<1>7. /\ siem' \in SiemViews /\ siem'.at <= now /\ siem'.state = recs[1].state
      /\ ~siem'.answer
  BY <1>1, <1>6, AnnouncedNow
<1>8. /\ Common' /\ cmd'[c] = m /\ \A x \in Commanders : x # c => cmd'[x] = IdleCommand
      /\ SettlersIdle'
  BY <1>1, <1>2, <1>4, <1>5, <1>7, DeviceCommand, Zenon
<1>9. EndpointInv'
  <2>3. EndpointWith(recs[1], siem, last, FALSE)'
    BY <1>1, <1>4, <1>6, <1>7 DEF EndpointWith
  <2>4. EndpointCommands'
    BY <1>1, <1>4, <1>6, <1>8, <2>3 DEF EndpointCommands
  <2>5. ~CommandsIdle'
    BY <1>4, <1>8 DEF CommandsIdle
  <2> QED
    BY <1>1, <1>7, <1>8, <2>4, <2>5, EndpointCommanded
<1> QED
  BY <1>8, <1>9

\* A scan finds the endpoint on its way or settled, and shows it so.
LEMMA ScanEndpointKeeps ==
  ASSUME Common, ~Overlap, EndpointInv, NEW c \in Commanders, ScanEndpoint(c)
  PROVE  Common' /\ EndpointInv'
<1>1. /\ vendor = "cortex" /\ vendor' = vendor /\ now' = now /\ snapshot' = snapshot
      /\ recs' = recs /\ request' = request /\ actions' = actions /\ last' = last
      /\ cmd' = cmd /\ settler' = settler /\ CommandFrame /\ Call(c)
      /\ siem' = Announced(recs[1].state, now, FALSE)
  BY DEF ScanEndpoint, CommandFrame
<1>2. vendor \in DeviceVendors /\ siem.at <= now
  BY <1>1 DEF DeviceVendors, EndpointInv
<1>3. Common' /\ CommandsIdle /\ CommandsIdle' /\ SettlersIdle /\ SettlersIdle'
  BY <1>1, <1>2, ActionLeaves
<1>4. siem'.at <= now /\ siem'.state = recs[1].state /\ ~siem'.answer
  BY <1>1, <1>2, AnnouncedNow
<1>5. EndpointInv'
  <2>1. ~At("announce") /\ ~WillApply
    BY <1>3 DEF SettlersIdle, At, WillApply, IdleSettler
  <2>2. EndpointWith(recs[1], siem, last, FALSE) /\ LastAction(recs[1], actions, FALSE)
    BY <1>1, <1>3, <2>1 DEF EndpointInv, EndpointWith, Shown, LastAction
  <2>3. EndpointWith(recs[1], siem, last, At("announce"))'
    BY <1>1, <1>4, <2>2 DEF EndpointWith, Shown
  <2>4. LastAction(recs[1], actions, WillApply)'
    BY <1>1, <2>2 DEF LastAction
  <2>5. EndpointCommands' /\ EndpointSettlers'
    BY <1>3 DEF EndpointCommands, EndpointSettlers, CommandsIdle, SettlersIdle
  <2> QED
    BY <1>1, <1>4, <2>3, <2>4, <2>5 DEF EndpointInv, EndpointWith
<1> QED
  BY <1>3, <1>5

LEMMA CreateXdrActionKeeps ==
  ASSUME Common, ~Overlap, EndpointInv, NEW c \in Commanders, CreateXdrAction(c)
  PROVE  Common' /\ EndpointInv'
<1>1. /\ vendor = "cortex" /\ vendor' = vendor /\ vendor \in DeviceVendors /\ now' = now
      /\ recs' = recs /\ request' = request /\ siem' = siem /\ last' = last
      /\ CommandFrame /\ Return(c, "act") /\ snapshot' = snapshot
  BY DEF CreateXdrAction, CommandFrame, DeviceVendors
<1>2. /\ last' \in Asks /\ siem' \in SiemViews /\ actions \in Seq(XdrActions)
      /\ recs' \in Seq(Records) /\ Len(recs') = 1
      /\ request' \in Requests \union {None}
  BY <1>1, DeviceTypes
<1>3. /\ cmd' = [cmd EXCEPT ![c] = IdleCommand] /\ cmd[c] # IdleCommand
      /\ cmd[c].want \in Directions /\ IdleCommand \in CommandRecs
  BY <1>1, ReturnMoves, Vocabulary
<1>4. /\ recs[1].state \in {cmd[c].want, Pending(cmd[c].want)}
      /\ EndpointWith(recs[1], siem, last, FALSE) /\ siem.at <= now
  BY <1>1, <1>3 DEF EndpointInv, EndpointCommands, Return
<1>5. SUFFICES ASSUME NEW a, a = <<cmd[c].want, "pending">>
               PROVE  Common' /\ EndpointInv'
  OBVIOUS
<1>6. a \in XdrActions /\ a[1] = cmd[c].want /\ a[2] = "pending"
  BY <1>3, <1>5 DEF XdrActions
<1>7. actions' = Append(actions, a)
  BY <1>5 DEF CreateXdrAction
<1>8. actions' \in Seq(XdrActions) /\ actions'[Len(actions')] = a
  <2>1. /\ Append(actions, a) \in Seq(XdrActions) /\ Len(Append(actions, a)) = Len(actions) + 1
        /\ Append(actions, a)[Len(actions) + 1] = a
    BY <1>2, <1>6, AppendProperties
  <2> QED
    BY <1>7, <2>1
<1>9. Common' /\ (\A x \in Commanders : cmd'[x] = IdleCommand) /\ SettlersIdle'
  BY <1>1, <1>2, <1>3, <1>8, DeviceCommand, Zenon
<1>10. EndpointInv'
  <2>1. \A B : LastAction(recs'[1], actions', B)
    BY <1>1, <1>4, <1>6, <1>8 DEF LastAction
  <2>2. EndpointWith(recs[1], siem, last, At("announce"))'
    BY <1>1, <1>4 DEF EndpointWith, Shown
  <2>3. EndpointCommands'
    BY <1>9 DEF EndpointCommands
  <2>4. EndpointSettlers'
    BY <1>9 DEF EndpointSettlers, SettlersIdle
  <2> QED
    BY <1>1, <1>4, <2>1, <2>2, <2>3, <2>4 DEF EndpointInv, EndpointWith
<1> QED
  BY <1>9, <1>10

LEMMA ReadEndpointKeeps ==
  ASSUME Common, ~Overlap, EndpointInv, vendor = "cortex", NEW s \in Settlers, ReadTransit(s)
  PROVE  Common' /\ EndpointInv'
<1>1. /\ vendor' = vendor /\ vendor \in DeviceVendors /\ recs[1].state \in InTransit
      /\ recs' = recs /\ request' = request /\ siem' = siem
      /\ actions' = actions /\ last' = last /\ SettleFrame /\ MaySettle
  BY DEF ReadTransit, SettleFrame, Reads, DeviceVendors
<1>2. /\ siem' \in SiemViews /\ last.want \in Directions \union {None}
      /\ recs' \in Seq(Records) /\ Len(recs') = 1
      /\ actions' \in Seq(XdrActions) /\ request' \in Requests \union {None}
  BY <1>1, DeviceTypes
<1>3. CommandsIdle /\ SettlersIdle
  BY <1>1 DEF MaySettle, Shared
<1>4. /\ EndpointWith(recs[1], siem, last, At("announce")) /\ siem.at <= now
      /\ LastAction(recs[1], actions, WillApply)
  BY <1>3 DEF EndpointInv
<1>5. last.want # None /\ recs[1].state = Pending(last.want)
      /\ SettlesInto(recs[1].state) = last.want
  BY <1>1, <1>2, <1>4, Vocabulary DEF EndpointWith, Directions, InTransit
<1>6. SUFFICES ASSUME NEW m, m = [IdleSettler EXCEPT !.pc = "judge",
                                                     !.target = SettlesInto(recs[1].state)]
               PROVE  Common' /\ EndpointInv'
  OBVIOUS
<1>7. settler' = [settler EXCEPT ![s] = m]
  BY <1>6 DEF ReadTransit, Reads
<1>8. /\ m \in SettlerRecs(vendor) /\ m.rec = 1 /\ m.target = last.want
      /\ m.pc \in SettlerPoints(vendor) /\ m.pc = "judge"
  BY <1>2, <1>5, <1>6 DEF IdleSettler, SettlerRecs, SettlerPoints
<1>9. Common' /\ settler'[s] = m /\ \A x \in Settlers : x # s => settler'[x] = settler[x]
  BY <1>1, <1>2, <1>7, <1>8, DeviceSettle, Zenon
<1>10. EndpointInv'
  <2>1. ~At("announce")
    BY <1>3, NobodyThere
  <2>2. ~WillApply
    BY <1>3 DEF WillApply, SettlersIdle, IdleSettler
  <2>3. EndpointWith(recs'[1], siem', last, At("announce")')
    BY <1>1, <1>4, <2>1 DEF EndpointWith, Shown
  <2>4. LastAction(recs'[1], actions', WillApply')
    BY <1>1, <1>4, <2>2 DEF LastAction
  <2>5. EndpointSettlers'
    BY <1>1, <1>3, <1>5, <1>8, <1>9 DEF EndpointSettlers, SettlersIdle
  <2> QED
    BY <1>1, <1>3, <1>4, <2>3, <2>4, <2>5, EndpointSettled
<1> QED
  BY <1>9, <1>10

\* Polling an action completes it and settles the endpoint at once.
LEMMA PollKeeps ==
  ASSUME Common, ~Overlap, EndpointInv, NEW s \in Settlers, Poll(s)
  PROVE  Common' /\ EndpointInv'
<1>1. /\ vendor = "cortex" /\ vendor' = vendor /\ vendor \in DeviceVendors
      /\ recs' = recs /\ request' = request /\ siem' = siem /\ last' = last
      /\ SettleFrame /\ MaySettle
  BY DEF Poll, SettleFrame, Reads, DeviceVendors
<1>2. /\ siem' \in SiemViews /\ last.want \in Directions \union {None}
      /\ recs' \in Seq(Records) /\ Len(recs') = 1 /\ actions \in Seq(XdrActions)
      /\ request' \in Requests \union {None} /\ recs[1].state \in States
  BY <1>1, DeviceTypes
<1>3. CommandsIdle /\ SettlersIdle
  BY <1>1 DEF MaySettle, Shared
<1>4. /\ EndpointWith(recs[1], siem, last, At("announce")) /\ siem.at <= now
      /\ LastAction(recs[1], actions, WillApply)
  BY <1>1, <1>3 DEF EndpointInv
<1>5. /\ actions' \in Seq(XdrActions) /\ Len(actions') = Len(actions) /\ actions # <<>>
      /\ actions'[Len(actions')][1] = actions[Len(actions)][1]
      /\ actions[Len(actions)][1] \in Directions
  <2>1. PICK k \in DOMAIN actions : actions' = [actions EXCEPT ![k][2] = "completed"]
    BY DEF Poll, CompleteXdrAction
  <2>2. k \in 1..Len(actions) /\ actions[k] \in XdrActions /\ Len(actions) \in 1..Len(actions)
        /\ actions[Len(actions)] \in XdrActions
    BY <1>2, <2>1
  <2>3. SUFFICES ASSUME NEW a, a = [actions[k] EXCEPT ![2] = "completed"],
                        actions' = [actions EXCEPT ![k] = a]
                 PROVE  /\ actions' \in Seq(XdrActions) /\ Len(actions') = Len(actions)
                        /\ actions # <<>>
                        /\ actions'[Len(actions')][1] = actions[Len(actions)][1]
                        /\ actions[Len(actions)][1] \in Directions
    BY <2>1
  <2>4. a \in XdrActions /\ a[1] = actions[k][1]
    BY <2>2, <2>3 DEF XdrActions
  <2>5. /\ actions' \in Seq(XdrActions) /\ Len(actions') = Len(actions) /\ actions'[k] = a
        /\ \A j \in 1..Len(actions) : j # k => actions'[j] = actions[j]
    BY <1>2, <2>2, <2>3, <2>4, Overwritten
  <2>6. actions # <<>>
    BY <1>2, <2>2
  <2>7. actions[Len(actions)][1] \in Directions
    BY <2>2 DEF XdrActions
  <2> QED
    BY <2>2, <2>4, <2>5, <2>6, <2>7
<1>6. PICK m \in SettlerRecs(vendor) :
        /\ settler' = [settler EXCEPT ![s] = m]
        /\ \/ m = IdleSettler /\ recs[1].state \notin InTransit
           \/ /\ m.pc = "judge" /\ m.forced /\ m.rec = 1 /\ m.target = last.want
              /\ recs[1].state = Pending(last.want) /\ last.want # None
  <2>1. CASE recs[1].state \in InTransit
    <3>1. last.want # None /\ recs[1].state = Pending(last.want)
          /\ SettlesInto(recs[1].state) = last.want
      BY <1>1, <1>2, <1>4, <2>1, Vocabulary DEF EndpointWith, Directions, InTransit
    <3>2. SUFFICES ASSUME NEW m, m = [IdleSettler EXCEPT !.pc = "judge", !.forced = TRUE,
                                        !.target = SettlesInto(recs[1].state)]
                   PROVE  /\ settler' = [settler EXCEPT ![s] = m] /\ m \in SettlerRecs(vendor)
                          /\ m.pc = "judge" /\ m.forced /\ m.rec = 1 /\ m.target = last.want
      BY <3>1, Zenon
    <3>3. settler' = [settler EXCEPT ![s] = m]
      BY <2>1, <3>2 DEF Poll, Reads
    <3>4. m \in SettlerRecs(vendor) /\ m.pc = "judge" /\ m.forced = TRUE /\ m.rec = 1
          /\ m.target = last.want
      BY <1>2, <3>1, <3>2 DEF IdleSettler, SettlerRecs
    <3> QED
      BY <3>3, <3>4
  <2>2. CASE recs[1].state \notin InTransit
    <3>1. settler' = [settler EXCEPT ![s] = IdleSettler]
      BY <2>2 DEF Poll, Reads
    <3> QED
      BY <2>2, <3>1, Vocabulary, Zenon
  <2> QED
    BY <2>1, <2>2
<1>7. m = IdleSettler \/ (m.pc \in SettlerPoints(vendor) /\ m.rec = 1)
  BY <1>1, <1>6 DEF SettlerPoints
<1>8. Common' /\ settler'[s] = m /\ \A x \in Settlers : x # s => settler'[x] = settler[x]
  BY <1>1, <1>2, <1>5, <1>6, <1>7, DeviceSettle, Zenon
<1>9. EndpointInv'
  <2>1. ~At("announce")
    BY <1>3, NobodyThere
  <2>2. EndpointWith(recs'[1], siem', last, At("announce")')
    BY <1>1, <1>4, <2>1 DEF EndpointWith, Shown
  <2>3. recs[1].state \in InTransit => WillApply'
    BY <1>6, <1>8 DEF WillApply
  <2>4. recs[1].state \notin InTransit => recs[1].state = actions[Len(actions)][1]
    BY <1>4, <1>5, Vocabulary DEF LastAction
  <2>5. recs'[1].state \in {actions'[Len(actions')][1], Pending(actions'[Len(actions')][1])}
    BY <1>1, <1>4, <1>5 DEF LastAction
  <2>6. LastAction(recs'[1], actions', WillApply')
    BY <1>1, <1>5, <2>3, <2>4, <2>5 DEF LastAction
  <2>7. EndpointSettlers'
    BY <1>1, <1>3, <1>6, <1>8 DEF EndpointSettlers, SettlersIdle
  <2> QED
    BY <1>1, <1>3, <1>4, <2>2, <2>6, <2>7, EndpointSettled
<1> QED
  BY <1>8, <1>9

\* A settling of an endpoint is alone, and knows what was asked last.
LEMMA EndpointSettling ==
  ASSUME Common, ~Overlap, EndpointInv, vendor = "cortex", NEW s \in Settlers,
         settler[s] # IdleSettler
  PROVE  /\ CommandsIdle /\ \A x \in Settlers : x # s => settler[x] = IdleSettler
         /\ siem.at <= now /\ last.want \in Directions /\ settler[s].target = last.want
         /\ last.at <= now
         /\ siem.state \in {last.want, Pending(last.want)}
         /\ siem.answer => siem.state = last.want /\ last.at <= siem.at /\ siem.at <= last.at + Second
         /\ EndpointWith(recs[1], siem, last, At("announce"))
         /\ LastAction(recs[1], actions, WillApply)
<1>1. vendor \in DeviceVendors /\ Shared
  BY DEF DeviceVendors, Shared
<1>2. CommandsIdle /\ \A x \in Settlers : x # s => settler[x] = IdleSettler
  BY <1>1, OnDevice DEF Common, Turns
<1>3. last.want # None /\ settler[s].target = last.want
  BY DEF EndpointInv, EndpointSettlers
<1>4. last.want \in Directions \union {None}
  BY <1>1, DeviceTypes
<1>5. /\ EndpointWith(recs[1], siem, last, At("announce"))
      /\ LastAction(recs[1], actions, WillApply) /\ siem.at <= now
  BY <1>2 DEF EndpointInv
<1>6. /\ last.at <= now
      /\ siem.state \in {last.want, Pending(last.want)}
      /\ siem.answer => siem.state = last.want /\ last.at <= siem.at /\ siem.at <= last.at + Second
  BY <1>3, <1>5 DEF EndpointWith, Shown
<1> QED
  BY <1>2, <1>3, <1>4, <1>5, <1>6

LEMMA JudgeEndpointKeeps ==
  ASSUME Common, ~Overlap, EndpointInv, NEW s \in Settlers, JudgeEndpoint(s)
  PROVE  Common' /\ EndpointInv'
<1>1. /\ vendor = "cortex" /\ vendor' = vendor /\ vendor \in DeviceVendors
      /\ recs' = recs /\ request' = request /\ siem' = siem /\ last' = last
      /\ actions' = actions /\ SettleFrame /\ settler[s].pc = "judge"
  BY DEF JudgeEndpoint, SettleFrame, DeviceVendors
<1>2. /\ siem' \in SiemViews /\ last.at \in Times /\ recs' \in Seq(Records) /\ Len(recs') = 1
      /\ actions' \in Seq(XdrActions) /\ request' \in Requests \union {None}
  BY <1>1, DeviceTypes
<1>3. settler[s] # IdleSettler /\ settler[s] \in SettlerRecs(vendor)
  BY <1>1 DEF IdleSettler, Common, Types
<1>4. /\ CommandsIdle /\ \A x \in Settlers : x # s => settler[x] = IdleSettler
      /\ siem.at <= now /\ last.want \in Directions /\ settler[s].target = last.want
      /\ EndpointWith(recs[1], siem, last, At("announce"))
      /\ LastAction(recs[1], actions, WillApply)
  BY <1>1, <1>3, EndpointSettling
<1>5. recs[1].state = Pending(last.want) /\ last.want # None
  BY <1>1, <1>3, <1>4 DEF EndpointInv, EndpointSettlers
<1>6. recs[1].asked = last.at
  BY <1>4, <1>5, Vocabulary DEF EndpointWith
<1>7. settler[s].rec = 1
  <2>1. settler[s].rec \in 1..Len(recs) /\ Len(recs) = 1
    BY <1>1, <1>3, OnDevice DEF Common, Points
  <2> QED
    BY <2>1
<1>8. PICK m \in SettlerRecs(vendor) :
        /\ settler' = [settler EXCEPT ![s] = m]
        /\ \/ m = IdleSettler /\ ~settler[s].forced
           \/ m.pc = "apply" /\ m.rec = 1 /\ m.target = last.want /\ m.read = last.at
  <2>1. CASE Leave(s, "judge") /\ ~settler[s].forced
    <3>1. settler' = [settler EXCEPT ![s] = IdleSettler] /\ IdleSettler \in SettlerRecs(vendor)
      BY <2>1, LeaveMoves
    <3> QED
      BY <2>1, <3>1
  <2>2. CASE settler' = [settler EXCEPT ![s].pc = "apply", ![s].read = recs[1].asked]
    <3>1. SUFFICES ASSUME NEW m, m = [settler[s] EXCEPT !.pc = "apply", !.read = recs[1].asked]
                   PROVE  /\ settler' = [settler EXCEPT ![s] = m] /\ m \in SettlerRecs(vendor)
                          /\ m.pc = "apply" /\ m.rec = 1 /\ m.target = last.want
                          /\ m.read = last.at
      BY Zenon
    <3>2. settler' = [settler EXCEPT ![s] = m]
      BY <2>2, <3>1
    <3>3. /\ m \in SettlerRecs(vendor) /\ m.pc = "apply" /\ m.rec = 1
          /\ m.target = last.want /\ m.read = last.at
      BY <1>1, <1>2, <1>3, <1>4, <1>6, <1>7, <3>1 DEF SettlerRecs
    <3> QED
      BY <3>2, <3>3
  <2> QED
    BY <2>1, <2>2 DEF JudgeEndpoint
<1>9. m = IdleSettler \/ (m.pc \in SettlerPoints(vendor) /\ m.rec = 1)
  BY <1>1, <1>8 DEF SettlerPoints
<1>10. Common' /\ settler'[s] = m /\ \A x \in Settlers : x # s => settler'[x] = settler[x]
  BY <1>1, <1>2, <1>3, <1>8, <1>9, DeviceSettle, Zenon
<1>11. EndpointInv'
  <2>1. EndpointWith(recs'[1], siem', last, At("announce")')
    <3>1. At("announce") => At("announce")'
      BY <1>1, <1>10 DEF At
    <3> QED
      BY <1>1, <1>4, <3>1 DEF EndpointWith, Shown
  <2>2. WillApply => WillApply'
    BY <1>1, <1>4, <1>8, <1>10 DEF WillApply, IdleSettler
  <2>3. LastAction(recs'[1], actions', WillApply')
    BY <1>1, <1>4, <2>2 DEF LastAction
  <2>4. EndpointSettlers'
    BY <1>1, <1>4, <1>5, <1>8, <1>10 DEF EndpointSettlers
  <2> QED
    BY <1>1, <1>4, <2>1, <2>3, <2>4, EndpointSettled
<1> QED
  BY <1>10, <1>11

LEMMA ApplyToEndpointKeeps ==
  ASSUME Common, ~Overlap, EndpointInv, NEW s \in Settlers, ApplyToEndpoint(s)
  PROVE  Common' /\ EndpointInv'
<1>1. /\ vendor = "cortex" /\ vendor' = vendor /\ vendor \in DeviceVendors
      /\ request' = request /\ siem' = siem /\ last' = last
      /\ actions' = actions /\ SettleFrame /\ Step(s, "apply", "announce")
  BY DEF ApplyToEndpoint, SettleFrame, DeviceVendors
<1>2. /\ siem' \in SiemViews /\ recs \in Seq(Records) /\ Len(recs) = 1 /\ recs[1] \in Records
      /\ actions' \in Seq(XdrActions) /\ request' \in Requests \union {None}
  BY <1>1, DeviceTypes
<1>3. "announce" \in SettlerPoints(vendor)
  BY <1>1 DEF SettlerPoints
<1>4. settler[s] # IdleSettler /\ settler[s].pc = "apply"
  BY <1>1, <1>3, StepMoves
<1>5. PICK m \in SettlerRecs(vendor) :
            /\ settler' = [settler EXCEPT ![s] = m] /\ m.pc = "announce" /\ m.rec = 1
            /\ m.target = settler[s].target /\ m.read = settler[s].read
  BY <1>1, <1>3, StepMoves
<1>6. /\ CommandsIdle /\ \A x \in Settlers : x # s => settler[x] = IdleSettler
      /\ siem.at <= now /\ last.want \in Directions /\ settler[s].target = last.want
      /\ last.at <= now
      /\ siem.state \in {last.want, Pending(last.want)}
      /\ siem.answer => siem.state = last.want /\ last.at <= siem.at /\ siem.at <= last.at + Second
      /\ LastAction(recs[1], actions, WillApply)
  BY <1>1, <1>4, EndpointSettling
<1>7. /\ recs[1].state = Pending(last.want) /\ settler[s].read = last.at /\ last.want # None
  BY <1>1, <1>4, <1>6 DEF EndpointInv, EndpointSettlers
<1>8. SUFFICES ASSUME NEW e, e = [recs[1] EXCEPT !.state = settler[s].target, !.asked = None]
               PROVE  Common' /\ EndpointInv'
  OBVIOUS
<1>9. e \in Records /\ e.state = last.want
  BY <1>2, <1>6, <1>8 DEF Records, States
<1>10. recs' = [recs EXCEPT ![1] = e]
  BY <1>8 DEF ApplyToEndpoint
<1>11. recs' \in Seq(Records) /\ Len(recs') = 1 /\ recs'[1] = e
  BY <1>2, <1>9, <1>10, OneOverwritten
<1>12. Common' /\ settler'[s] = m /\ \A x \in Settlers : x # s => settler'[x] = settler[x]
  BY <1>1, <1>2, <1>3, <1>4, <1>5, <1>11, DeviceSettle, Zenon
<1>13. EndpointInv'
  <2>1. At("announce")'
    BY <1>5, <1>12 DEF At
  <2>2. EndpointWith(recs'[1], siem', last, At("announce")')
    BY <1>1, <1>6, <1>7, <1>9, <1>11, <2>1 DEF EndpointWith, Shown
  <2>3. LastAction(recs'[1], actions', WillApply')
    <3>1. SUFFICES ASSUME actions # <<>>
                   PROVE  recs'[1].state = actions[Len(actions)][1]
      BY <1>1 DEF LastAction
    <3>2. actions[Len(actions)] \in XdrActions
      <4>1. Len(actions) \in 1..Len(actions)
        BY <1>1, <1>2, <3>1
      <4> QED
        BY <1>1, <1>2, <4>1
    <3>3. actions[Len(actions)][1] \in Directions
      BY <3>2 DEF XdrActions
    <3>4. recs[1].state \in {actions[Len(actions)][1], Pending(actions[Len(actions)][1])}
      BY <1>6, <3>1 DEF LastAction
    <3>5. actions[Len(actions)][1] = last.want
      BY <1>6, <1>7, <3>3, <3>4, Vocabulary
    <3> QED
      BY <1>9, <1>11, <3>5
  <2>4. EndpointSettlers'
    BY <1>1, <1>5, <1>6, <1>7, <1>9, <1>11, <1>12 DEF EndpointSettlers
  <2> QED
    BY <1>1, <1>6, <2>2, <2>3, <2>4, EndpointSettled
<1> QED
  BY <1>12, <1>13

LEMMA EndpointAnsweredKeeps ==
  ASSUME Common, ~Overlap, EndpointInv, NEW s \in Settlers, EndpointAnswered(s)
  PROVE  Common' /\ EndpointInv'
<1>1. /\ vendor = "cortex" /\ vendor' = vendor /\ vendor \in DeviceVendors
      /\ request' = request /\ recs' = recs /\ last' = last
      /\ actions' = actions /\ SettleFrame /\ Leave(s, "announce")
      /\ siem' = Announced(recs[1].state,
           IF settler[s].read = None \/ AnsweredAt(settler[s].read) > now
           THEN now ELSE AnsweredAt(settler[s].read), TRUE)
  BY DEF EndpointAnswered, SettleFrame, DeviceVendors
<1>2. /\ siem \in SiemViews /\ recs' \in Seq(Records) /\ Len(recs') = 1
      /\ recs[1].state \in States /\ now \in Times /\ now \in Nat /\ last.at \in Nat
      /\ siem.at \in Nat
      /\ actions' \in Seq(XdrActions) /\ request' \in Requests \union {None}
  BY <1>1, DeviceTypes
<1>3. /\ settler' = [settler EXCEPT ![s] = IdleSettler] /\ settler[s] # IdleSettler
      /\ IdleSettler \in SettlerRecs(vendor) /\ settler[s].pc = "announce"
  BY <1>1, LeaveMoves
<1>4. /\ CommandsIdle /\ \A x \in Settlers : x # s => settler[x] = IdleSettler
      /\ siem.at <= now /\ last.want \in Directions
      /\ last.at <= now
      /\ siem.state \in {last.want, Pending(last.want)}
      /\ siem.answer => siem.state = last.want /\ last.at <= siem.at /\ siem.at <= last.at + Second
      /\ LastAction(recs[1], actions, WillApply)
  BY <1>1, <1>3, EndpointSettling
<1>5. settler[s].read = last.at /\ recs[1].state = last.want /\ last.want # None
  BY <1>1, <1>3, <1>4 DEF EndpointInv, EndpointSettlers
<1>6. PICK t \in Nat :
        /\ siem' = Announced(recs[1].state, t, TRUE) /\ t \in 0..MaxTime + Second
        /\ siem.at <= t \/ t = last.at + Second
        /\ t <= now /\ last.at <= t /\ t <= last.at + Second
  <2>1. AnsweredAt(settler[s].read) = last.at + Second /\ settler[s].read # None
    BY <1>2, <1>5 DEF AnsweredAt
  <2>2. now <= MaxTime /\ MaxTime \in Nat
    BY <1>2 DEF Times, MaxTime
  <2>3. CASE last.at + Second > now
    <3>1. siem' = Announced(recs[1].state, now, TRUE)
      BY <1>1, <2>1, <2>3
    <3>2. now \in 0..MaxTime + Second /\ now <= last.at + Second
      BY <1>2, <2>2, <2>3
    <3> QED
      <4>1. /\ now \in Nat /\ siem' = Announced(recs[1].state, now, TRUE)
            /\ now \in 0..MaxTime + Second /\ siem.at <= now
            /\ now <= now /\ last.at <= now /\ now <= last.at + Second
        BY <1>2, <1>4, <3>1, <3>2
      <4> QED
        BY <4>1, Zenon
  <2>4. CASE ~(last.at + Second > now)
    <3>1. siem' = Announced(recs[1].state, last.at + Second, TRUE)
      BY <1>1, <2>1, <2>4
    <3>2. /\ last.at + Second \in 0..MaxTime + Second /\ last.at + Second <= now
          /\ last.at <= last.at + Second /\ last.at + Second \in Nat
      BY <1>2, <2>2, <2>4
    <3> QED
      <4>1. last.at + Second <= last.at + Second
        BY <3>2
      <4> QED
        BY <3>1, <3>2, <4>1, Zenon
  <2> QED
    BY <2>3, <2>4
<1>7. /\ siem' \in SiemViews
      /\ \/ siem' = [state |-> recs[1].state, at |-> t, answer |-> TRUE]
         \/ siem' = siem /\ siem.at > last.at + Second
  <2>1. /\ Announced(recs[1].state, t, TRUE) \in SiemViews
        /\ siem.at <= t =>
             Announced(recs[1].state, t, TRUE) = [state |-> recs[1].state, at |-> t, answer |-> TRUE]
        /\ siem.at > t => Announced(recs[1].state, t, TRUE) = siem
    BY <1>2, <1>6, Announcement, Zenon
  <2>2. siem.at <= t \/ (siem.at > t /\ t = last.at + Second)
    BY <1>2, <1>6
  <2> QED
    BY <1>6, <2>1, <2>2, Zenon
<1>8. Common' /\ settler'[s] = IdleSettler
      /\ \A x \in Settlers : x # s => settler'[x] = settler[x]
  BY <1>1, <1>2, <1>3, <1>7, DeviceSettle, Zenon
<1>9. EndpointInv'
  <2>1. /\ siem'.at <= now /\ Shown(siem', last, FALSE)
        /\ siem'.answer => /\ siem'.state = last.want
                           /\ last.at <= siem'.at /\ siem'.at <= last.at + Second
    <3>1. CASE siem' = siem /\ siem.at > last.at + Second
      BY <1>4, <3>1 DEF Shown
    <3>2. CASE siem' = [state |-> recs[1].state, at |-> t, answer |-> TRUE]
      <4>1. siem'.state = last.want /\ siem'.at = t
        BY <1>5, <3>2
      <4> QED
        BY <1>6, <4>1 DEF Shown
    <3> QED
      BY <1>7, <3>1, <3>2
  <2>2. EndpointWith(recs'[1], siem', last, At("announce")')
    BY <1>1, <1>4, <1>5, <2>1 DEF EndpointWith, Shown
  <2>3. ~WillApply
    BY <1>3, <1>4 DEF WillApply, IdleSettler
  <2>4. LastAction(recs'[1], actions', WillApply')
    BY <1>1, <1>4, <2>3 DEF LastAction
  <2>5. EndpointSettlers'
    BY <1>4, <1>8 DEF EndpointSettlers
  <2> QED
    BY <1>1, <1>4, <2>1, <2>2, <2>4, <2>5, EndpointSettled
<1> QED
  BY <1>8, <1>9

LEMMA EndpointWorld ==
  ASSUME Common, ~Overlap, EndpointInv, vendor = "cortex", World
  PROVE  EndpointInv'
<1>1. CASE ExportRecords
  BY <1>1 DEF ExportRecords, EndpointInv, EndpointCommands, EndpointSettlers, CommandsIdle, At,
              EndpointWith, LastAction, WillApply
<1>2. CASE ExportRequests
  <2>1. /\ CommandsIdle /\ SettlersIdle /\ snapshot'.data.actions = actions
        /\ snapshot'.data.recs = recs /\ snapshot'.data.siem = siem
        /\ snapshot'.data.last = last
    BY <1>2, ExportIsCurrent DEF DeviceVendors
  <2>2. /\ vendor' = vendor /\ now' = now /\ recs' = recs /\ actions' = actions
        /\ siem' = siem /\ last' = last /\ cmd' = cmd /\ settler' = settler
    BY <1>2 DEF ExportRequests
  <2>3. ~At("announce")
    BY <2>1, NobodyThere
  <2>4. ~WillApply
    BY <2>1 DEF WillApply, SettlersIdle, IdleSettler
  <2>5. \A B : /\ EndpointWith(recs[1], siem, last, B)
               /\ LastAction(recs[1], actions, B)
    BY <2>1, <2>3, <2>4 DEF EndpointInv, EndpointWith, Shown, LastAction
  <2>6. EndpointCommands' /\ EndpointSettlers'
    BY <2>1, <2>2 DEF EndpointCommands, EndpointSettlers, CommandsIdle, SettlersIdle
  <2> QED
    BY <2>1, <2>2, <2>5, <2>6 DEF EndpointInv, EndpointWith
<1>3. CASE Load
  <2>1. /\ CommandsIdle' /\ SettlersIdle' /\ snapshot' = snapshot /\ snapshot # None
        /\ vendor' = vendor /\ now' = now /\ recs' = snapshot.data.recs
        /\ siem' = snapshot.data.siem /\ last' = snapshot.data.last
        /\ actions' = snapshot.data.actions
    BY <1>3 DEF Load, CommandsIdle, SettlersIdle
  <2>2. EndpointCommands' /\ EndpointSettlers'
    BY <2>1 DEF EndpointCommands, EndpointSettlers, CommandsIdle, SettlersIdle
  <2>3. /\ EndpointWith(snapshot.data.recs[1], snapshot.data.siem, snapshot.data.last, FALSE)
        /\ LastAction(snapshot.data.recs[1], snapshot.data.actions, FALSE)
        /\ snapshot.data.siem.at <= now
    BY <2>1 DEF EndpointInv
  <2>4. EndpointWith(recs[1], siem, last, At("announce"))'
    BY <2>1, <2>3 DEF EndpointWith, Shown
  <2>5. LastAction(recs[1], actions, WillApply)'
    BY <2>1, <2>3 DEF LastAction
  <2> QED
    BY <2>1, <2>2, <2>3, <2>4, <2>5 DEF EndpointInv, EndpointWith
<1>4. CASE Tick
  <2>1. /\ vendor' = vendor /\ recs' = recs /\ actions' = actions /\ snapshot' = snapshot
        /\ siem' = siem /\ last' = last /\ cmd' = cmd /\ settler' = settler
        /\ now' = now + 1
    BY <1>4 DEF Tick
  <2>2. now \in Nat /\ siem.at \in Nat /\ last.at \in Nat
    BY DeviceTypes DEF DeviceVendors
  <2>3. snapshot # None => snapshot.data.siem.at \in Nat /\ snapshot.data.last.at \in Nat
    BY DEF Common, Types, DataOK, SiemViews, Asks, Times, MaxTime
  <2>5. snapshot # None =>
           EndpointWith(snapshot.data.recs[1], snapshot.data.siem, snapshot.data.last, FALSE)'
    BY <2>1, <2>2, <2>3 DEF EndpointInv, EndpointWith, Shown
  <2>6. EndpointWith(recs[1], siem, last, FALSE) => EndpointWith(recs[1], siem, last, FALSE)'
    BY <2>1, <2>2 DEF EndpointWith, Shown
  <2>7. EndpointCommands'
    <3>1. EndpointCommands
      BY DEF EndpointInv
    <3>2. last.at <= now => last'.at <= now'
      BY <2>1, <2>2
    <3> QED
      BY <2>1, <2>6, <3>1, <3>2 DEF EndpointCommands
  <2>8. EndpointSettlers'
    BY <2>1 DEF EndpointInv, EndpointSettlers
  <2>9. CommandsIdle' => /\ EndpointWith(recs[1], siem, last, At("announce"))'
                         /\ LastAction(recs[1], actions, WillApply)'
    <3>1. CommandsIdle' => /\ EndpointWith(recs[1], siem, last, At("announce"))
                           /\ LastAction(recs[1], actions, WillApply)
      BY <2>1 DEF EndpointInv, CommandsIdle
    <3>2. At("announce")' = At("announce") /\ WillApply' = WillApply
      BY <2>1 DEF At, WillApply
    <3> QED
      BY <2>1, <2>2, <3>1, <3>2 DEF EndpointWith, LastAction
  <2>10. siem.at <= now /\ (snapshot # None => snapshot.data.siem.at <= now)
    BY DEF EndpointInv
  <2>11. siem'.at <= now' /\ (snapshot # None => snapshot.data.siem.at <= now')
    BY <2>1, <2>2, <2>3, <2>10
  <2>12. snapshot # None => LastAction(snapshot.data.recs[1], snapshot.data.actions, FALSE)
    BY DEF EndpointInv
  <2> QED
    BY <2>1, <2>5, <2>7, <2>8, <2>9, <2>11, <2>12 DEF EndpointInv
<1> QED
  BY <1>1, <1>2, <1>3, <1>4 DEF World

LEMMA EndpointStep ==
  ASSUME Common, ~Overlap, EndpointInv, vendor = "cortex", [Next]_vars
  PROVE  Common' /\ EndpointInv' /\ vendor' = vendor
<1>1. CASE \E c \in Commanders :
             \/ \E d \in Directions : IsolateEndpoint(c, d)
             \/ DateEndpoint(c) \/ AnnounceEndpoint(c) \/ CreateXdrAction(c) \/ ScanEndpoint(c)
  <2>1. vendor' = vendor
    BY <1>1 DEF IsolateEndpoint, DateEndpoint, AnnounceEndpoint, CreateXdrAction, ScanEndpoint,
                CommandFrame
  <2>2. ASSUME NEW c \in Commanders, NEW d \in Directions, IsolateEndpoint(c, d)
        PROVE  Common' /\ EndpointInv'
    <3>1. CASE recs[1].state \in {d, Pending(d)}
      <4>1. /\ Enter(c, d, "act") /\ UNCHANGED <<recs, last, request, actions, siem>>
            /\ CommandFrame
        BY <2>2, <3>1 DEF IsolateEndpoint
      <4> QED
        BY <3>1, <4>1, IsolateAgainKeeps
    <3>2. CASE recs[1].state \notin {d, Pending(d)}
      <4>1. /\ Enter(c, d, "date") /\ SetPending(d) /\ UNCHANGED <<request, actions, siem>>
            /\ CommandFrame
        BY <2>2, <3>2 DEF IsolateEndpoint
      <4> QED
        BY <4>1, IsolateKeeps
    <3> QED
      BY <3>1, <3>2
  <2> QED
    BY <1>1, <2>1, <2>2, DateEndpointKeeps, AnnounceEndpointKeeps, CreateXdrActionKeeps,
       ScanEndpointKeeps
<1>2. CASE \E s \in Settlers :
             \/ ReadTransit(s) \/ JudgeEndpoint(s) \/ ApplyToEndpoint(s)
             \/ EndpointAnswered(s) \/ Poll(s)
  <2>1. vendor' = vendor
    BY <1>2 DEF ReadTransit, JudgeEndpoint, ApplyToEndpoint, EndpointAnswered, Poll, SettleFrame
  <2> QED
    BY <1>2, <2>1, ReadEndpointKeeps, JudgeEndpointKeeps, ApplyToEndpointKeeps,
       EndpointAnsweredKeeps, PollKeeps
<1>3. CASE World
  <2>1. vendor' = vendor
    BY <1>3 DEF World, ExportRecords, ExportRequests, Load, Tick
  <2> QED
    BY <1>3, <2>1, WorldCommon, EndpointWorld
<1>4. CASE UNCHANGED vars
  <2>1. Common' /\ vendor' = vendor
    BY <1>4 DEF vars, Common, Types, Points, Turns, InTime, CommandsIdle, SettlersIdle, Shared
  <2>2. EndpointInv'
    BY <1>4 DEF vars, EndpointInv, EndpointCommands, EndpointSettlers, EndpointWith, Shown,
                LastAction, WillApply, At, CommandsIdle
  <2> QED
    BY <2>1, <2>2
<1>5. \A s \in Settlers : settler[s].pc # "drop"
  BY DEF Common, Points, SettlerPoints, IdleSettler
<1>6. \/ \E c \in Commanders :
           \/ \E d \in Directions : IsolateEndpoint(c, d)
           \/ DateEndpoint(c) \/ AnnounceEndpoint(c) \/ CreateXdrAction(c) \/ ScanEndpoint(c)
      \/ \E s \in Settlers :
           \/ ReadTransit(s) \/ JudgeEndpoint(s) \/ ApplyToEndpoint(s)
           \/ EndpointAnswered(s) \/ Poll(s)
      \/ World \/ UNCHANGED vars
  BY <1>5 DEF Next, CommandStep, Look, SettleStep, World, ActionVendors, Disconnect, Contain,
         TouchHost, UnisolateMachine, IsolateMachine, CreateEsAction, StampAgent,
         SaveRequest, AnnounceAgent, ActOnAgent, StampHost, CreateAction, ReadRequest, ReadAction,
         JudgeRequest, DropRequest, Step, Leave, ApplyToAgent, AgentAnswered, JudgeHost,
         ApplyToHost, CompleteMdeAction, CompleteEsAction, Settlers
<1> QED
  BY <1>1, <1>2, <1>3, <1>4, <1>6

-----------------------------------------------------------------------------
(* Defender and Elastic                                                    *)

LEMMA ActionTypes ==
  ASSUME Common, vendor \in ActionVendors
  PROVE  /\ vendor \notin DeviceVendors /\ vendor # "cortex" /\ vendor # "s1" /\ ~Shared
         /\ now \in Times /\ now \in Nat /\ recs \in Seq(Records) /\ Len(recs) \in Nat
         /\ \A i \in 1..Len(recs) : /\ recs[i] \in Records /\ recs[i].asked \in Times
                                    /\ recs[i].asked \in Nat
         /\ last \in Asks /\ siem \in SiemViews /\ actions \in Seq(XdrActions)
         /\ actions = <<>> /\ request \in Requests \union {None}
<1>1. vendor \notin DeviceVendors /\ vendor # "cortex" /\ vendor # "s1" /\ ~Shared
  BY DEF ActionVendors, DeviceVendors, Shared
<1>2. recs \in Seq(Records) /\ \A i \in 1..Len(recs) : recs[i].asked \in Times
  BY <1>1 DEF Common, Types, DataOK
<1> QED
  BY <1>1, <1>2 DEF Common, Types, DataOK, Times, MaxTime

\* The records an action may leave behind.
LEMMA ActionWrite ==
  ASSUME Common, vendor \in ActionVendors, NEW q \in Seq(Records),
         \A i \in 1..Len(q) : q[i].asked \in Times
  PROVE  DataOK(vendor, q, actions, siem, last)
BY ActionTypes DEF DataOK

\* A record completed is dated, and complete.
LEMMA CompletedRecord ==
  ASSUME NEW r \in Records, r.asked \in Times
  PROVE  /\ Completed(r) \in Records /\ Completed(r).asked = r.asked
         /\ Completed(r).state \in Directions /\ Completed(r).done = r.asked + Second
         /\ r.state \in Directions => Completed(r).state = r.state
<1>1. SUFFICES ASSUME NEW q, q = Completed(r)
               PROVE  /\ q \in Records /\ q.asked = r.asked /\ q.state \in Directions
                      /\ q.done = r.asked + Second
                      /\ r.state \in Directions => q.state = r.state
  OBVIOUS
<1>2. q = [r EXCEPT !.state = SettlesInto(r.state), !.done = r.asked + Second]
  BY <1>1 DEF Completed, AnsweredAt
<1>3. r.asked + Second \in 0..MaxTime + Second
  BY DEF Times, MaxTime
<1>4. SettlesInto(r.state) \in Directions
      /\ (r.state \in Directions => SettlesInto(r.state) = r.state)
  BY DEF Records, States, Directions, InTransit, SettlesInto
<1>5. /\ q \in Records /\ q.asked = r.asked /\ q.state = SettlesInto(r.state)
      /\ q.done = r.asked + Second
  BY <1>2, <1>3, <1>4 DEF Records, States
<1> QED
  BY <1>4, <1>5

LEMMA NewRecord ==
  ASSUME Common, vendor \in ActionVendors, NEW d \in Directions
  PROVE  /\ NewAction(d) \in Seq(Records) /\ Len(NewAction(d)) = Len(recs) + 1
         /\ \A i \in 1..Len(recs) : NewAction(d)[i] = recs[i]
         /\ NewAction(d)[Len(recs) + 1].state = Pending(d)
         /\ NewAction(d)[Len(recs) + 1].asked \in Times
<1>1. SUFFICES ASSUME NEW e, e = [state |-> Pending(d), asked |-> Stamp(now), done |-> None]
               PROVE  /\ Append(recs, e) \in Seq(Records)
                      /\ Len(Append(recs, e)) = Len(recs) + 1
                      /\ \A i \in 1..Len(recs) : Append(recs, e)[i] = recs[i]
                      /\ Append(recs, e)[Len(recs) + 1].state = Pending(d)
                      /\ Append(recs, e)[Len(recs) + 1].asked \in Times
  BY DEF NewAction
<1>2. e \in Records /\ e.state = Pending(d) /\ e.asked \in Times
  <2>1. Stamp(now) \in Times
    BY ActionTypes, StampIsTime
  <2> QED
    BY <1>1, <2>1, Vocabulary DEF Records, States
<1>3. recs \in Seq(Records)
  BY ActionTypes
<1>4. /\ Append(recs, e) \in Seq(Records) /\ Len(Append(recs, e)) = Len(recs) + 1
      /\ \A i \in 1..Len(recs) : Append(recs, e)[i] = recs[i]
      /\ Append(recs, e)[Len(recs) + 1] = e
  BY <1>2, <1>3, AppendProperties
<1> QED
  BY <1>2, <1>4

\* What a handler makes of the action records: it completes some of them,
CompletesSome(q) ==
  /\ q \in Seq(Records) /\ Len(q) = Len(recs)
  /\ \A i \in 1..Len(recs) : q[i] = recs[i] \/ q[i] = Completed(recs[i])

\* or adds one that is pending.
AddsOne(q) ==
  /\ q \in Seq(Records) /\ Len(q) = Len(recs) + 1
  /\ \A i \in 1..Len(recs) : q[i] = recs[i]
  /\ q[Len(recs) + 1].state \in InTransit /\ q[Len(recs) + 1].asked \in Times

LEMMA ActionRecords ==
  ASSUME Common, vendor \in ActionVendors, NEW q, CompletesSome(q) \/ AddsOne(q)
  PROVE  /\ DataOK(vendor, q, actions, siem, last) /\ Len(recs) <= Len(q)
         /\ Len(q) \in Nat /\ (Dated(recs) => Dated(q))
<1>1. /\ Len(recs) \in Nat
      /\ \A i \in 1..Len(recs) : recs[i] \in Records /\ recs[i].asked \in Times
  BY ActionTypes
<1>2. q \in Seq(Records) /\ Len(recs) <= Len(q) /\ Len(q) \in Nat
  BY <1>1 DEF CompletesSome, AddsOne
<1>3. CASE CompletesSome(q)
  <2>1. Len(q) = Len(recs)
    BY <1>3 DEF CompletesSome
  <2>2. ASSUME NEW i \in 1..Len(q)
        PROVE  /\ q[i].asked \in Times
               /\ Dated(recs) => (q[i].state \in Directions => q[i].done = q[i].asked + Second)
    <3>1. recs[i] \in Records /\ recs[i].asked \in Times
      BY <1>1, <2>1, <2>2
    <3>2. CASE q[i] = recs[i]
      BY <2>1, <2>2, <3>1, <3>2 DEF Dated
    <3>3. CASE q[i] = Completed(recs[i])
      BY <3>1, <3>3, CompletedRecord
    <3> QED
      BY <1>3, <2>1, <2>2, <3>2, <3>3 DEF CompletesSome
  <2>3. Dated(recs) => Dated(q)
    BY <2>2 DEF Dated
  <2> QED
    BY <1>2, <2>2, <2>3, ActionWrite
<1>4. CASE AddsOne(q)
  <2>1. Len(q) = Len(recs) + 1 /\ q[Len(recs) + 1].state \in InTransit
        /\ q[Len(recs) + 1].asked \in Times
    BY <1>4 DEF AddsOne
  <2>2. q[Len(recs) + 1].state \notin Directions
    BY <2>1 DEF InTransit, Directions
  <2>3. \A i \in 1..Len(q) : i = Len(recs) + 1 \/ (i \in 1..Len(recs) /\ q[i] = recs[i])
    BY <1>1, <1>4, <2>1 DEF AddsOne
  <2>4. \A i \in 1..Len(q) : q[i].asked \in Times
    BY <1>1, <2>1, <2>3
  <2>5. Dated(recs) => Dated(q)
    BY <2>2, <2>3 DEF Dated
  <2> QED
    BY <1>2, <2>4, <2>5, ActionWrite
<1> QED
  BY <1>3, <1>4

LEMMA AddingOne ==
  ASSUME Common, vendor \in ActionVendors, NEW d \in Directions, recs' = NewAction(d)
  PROVE  AddsOne(recs') /\ recs'[Len(recs) + 1].state = Pending(d)
BY NewRecord, Vocabulary DEF AddsOne

LEMMA RefusingCompletes ==
  ASSUME Common, vendor \in ActionVendors, NEW d \in Directions, RefuseIfPending(d)
  PROVE  CompletesSome(recs')
<1>1. /\ recs \in Seq(Records) /\ Len(recs) \in Nat /\ DOMAIN recs = 1..Len(recs)
      /\ \A i \in 1..Len(recs) : recs[i] \in Records /\ recs[i].asked \in Times
  BY ActionTypes
<1>2. \A i \in 1..Len(recs) : Completed(recs[i]) \in Records
  BY <1>1, CompletedRecord
<1>3. /\ DOMAIN recs' = 1..Len(recs)
      /\ \A i \in 1..Len(recs) : recs'[i] = recs[i] \/ recs'[i] = Completed(recs[i])
      /\ recs' = [i \in 1..Len(recs) |-> recs'[i]]
  BY <1>1 DEF RefuseIfPending
<1>4. recs' \in [1..Len(recs) -> Records]
  BY <1>1, <1>2, <1>3
<1>5. recs' \in Seq(Records)
  BY <1>1, <1>4, SeqDef
<1>6. Len(recs') = Len(recs)
  BY <1>1, <1>3, <1>5
<1> QED
  BY <1>3, <1>5, <1>6 DEF CompletesSome

LEMMA ActionCommand ==
  ASSUME Common, ~Overlap, vendor \in ActionVendors, ActionsDated, NEW c \in Commanders,
         UnisolateMachine(c) \/ CreateAction(c) \/ IsolateMachine(c) \/ CreateEsAction(c)
  PROVE  Common' /\ ActionsDated'
<1>1. /\ CommandFrame /\ vendor' = vendor /\ export' = export /\ snapshot' = snapshot
      /\ request' = request /\ actions' = actions /\ siem' = siem /\ last' = last
  BY DEF UnisolateMachine, CreateAction, IsolateMachine, CreateEsAction, CommandFrame
<1>2. "on" \in Directions /\ "off" \in Directions
  BY DEF Directions
<1>3. CompletesSome(recs') \/ AddsOne(recs')
  BY <1>2, RefusingCompletes, AddingOne
     DEF UnisolateMachine, CreateAction, IsolateMachine, CreateEsAction
<1>4. /\ DataOK(vendor, recs', actions', siem', last') /\ Len(recs) <= Len(recs')
      /\ Dated(recs) => Dated(recs')
  BY <1>1, <1>3, ActionRecords
<1>5. request' \in Requests \union {None}
  BY <1>1, ActionTypes
<1>6. cmd[c] # IdleCommand \/ MayCommand
  BY ActionTypes DEF MayCommand
<1>7. PICK m \in CommandRecs :
        /\ cmd' = [cmd EXCEPT ![c] = m]
        /\ \/ m = IdleCommand
           \/ m.pc \in CommandPoints(vendor) /\ m.began <= now /\ now <= m.began + Second
  <2>1. CASE UnisolateMachine(c)
    <3>1. SUFFICES ASSUME NEW m, m = [pc |-> "create", want |-> "off", began |-> now]
                   PROVE  /\ m \in CommandRecs /\ cmd' = [cmd EXCEPT ![c] = m]
                          /\ m.pc \in CommandPoints(vendor)
                          /\ m.began <= now /\ now <= m.began + Second
      BY Zenon
    <3>2. cmd' = [cmd EXCEPT ![c] = m] /\ vendor = "defender"
      BY <2>1, <3>1 DEF UnisolateMachine, Enter
    <3>3. now \in Times /\ now \in Nat
      BY ActionTypes
    <3>4. m \in CommandRecs /\ m.pc = "create" /\ m.began = now
      BY <1>2, <3>1, <3>3 DEF CommandRecs
    <3>5. m.pc \in CommandPoints(vendor)
      BY <3>2, <3>4 DEF CommandPoints
    <3> QED
      BY <3>2, <3>3, <3>4, <3>5
  <2>2. CASE CreateAction(c)
    <3>1. cmd' = [cmd EXCEPT ![c] = IdleCommand]
      BY <2>2 DEF CreateAction, Return
    <3> QED
      BY <3>1, Vocabulary
  <2>3. CASE IsolateMachine(c) \/ CreateEsAction(c)
    <3>1. cmd' = cmd /\ cmd[c] = IdleCommand
      BY <2>3 DEF IsolateMachine, CreateEsAction, Call
    <3>2. cmd' = [cmd EXCEPT ![c] = IdleCommand]
      BY <3>1 DEF Common, Types
    <3> QED
      BY <3>2, Vocabulary
  <2> QED
    BY <2>1, <2>2, <2>3
<1>8. Common'
  BY <1>1, <1>4, <1>5, <1>6, <1>7, CommandMoves, Zenon
<1>9. ActionsDated'
  BY <1>1, <1>4 DEF ActionsDated
<1> QED
  BY <1>8, <1>9

LEMMA ActionSettle ==
  ASSUME Common, ~Overlap, vendor \in ActionVendors, ActionsDated, NEW s \in Settlers,
         ReadAction(s) \/ CompleteMdeAction(s) \/ CompleteEsAction(s)
  PROVE  Common' /\ ActionsDated' /\ CompletesSome(recs')
<1>1. /\ SettleFrame /\ vendor' = vendor /\ export' = export /\ snapshot' = snapshot
      /\ request' = request /\ actions' = actions /\ siem' = siem /\ last' = last
  BY DEF ReadAction, CompleteMdeAction, CompleteEsAction, SettleFrame
<1>2. /\ recs \in Seq(Records) /\ Len(recs) \in Nat /\ request' \in Requests \union {None}
      /\ \A i \in 1..Len(recs) : recs[i] \in Records /\ recs[i].asked \in Times
  BY <1>1, ActionTypes
<1>3. settler[s] # IdleSettler \/ MaySettle
  BY ActionTypes DEF MaySettle
<1>4. CompletesSome(recs')
  <2>1. CASE ReadAction(s)
    BY <1>2, <2>1 DEF ReadAction, CompletesSome
  <2>2. CASE CompleteMdeAction(s) \/ CompleteEsAction(s)
    <3>1. Leave(s, "apply") /\ recs' = [recs EXCEPT ![settler[s].rec] = Completed(@)]
      BY <2>2 DEF CompleteMdeAction, CompleteEsAction
    <3>2. settler[s].rec \in 1..Len(recs)
      BY <3>1 DEF Leave, Common, Points, IdleSettler
    <3>3. SUFFICES ASSUME NEW i, i = settler[s].rec, NEW e, e = Completed(recs[i]),
                          recs' = [recs EXCEPT ![i] = e]
                   PROVE  CompletesSome(recs')
      BY <3>1
    <3>4. i \in 1..Len(recs) /\ e \in Records
      BY <1>2, <3>2, <3>3, CompletedRecord
    <3>5. /\ recs' \in Seq(Records) /\ Len(recs') = Len(recs) /\ recs'[i] = e
          /\ \A j \in 1..Len(recs) : j # i => recs'[j] = recs[j]
      BY <1>2, <3>3, <3>4, Overwritten
    <3> QED
      BY <3>3, <3>5 DEF CompletesSome
  <2> QED
    BY <2>1, <2>2
<1>5. /\ DataOK(vendor, recs', actions', siem', last') /\ Len(recs) <= Len(recs')
      /\ Dated(recs) => Dated(recs')
  BY <1>1, <1>4, ActionRecords
<1>6. PICK m \in SettlerRecs(vendor) :
        /\ settler' = [settler EXCEPT ![s] = m]
        /\ m = IdleSettler \/ (m.pc \in SettlerPoints(vendor) /\ m.rec \in 1..Len(recs'))
  <2>1. CASE ReadAction(s)
    <3>1. PICK i \in DOMAIN recs :
            settler' = [settler EXCEPT ![s] = [IdleSettler EXCEPT !.pc = "apply", !.rec = i]]
      BY <2>1 DEF ReadAction, Reads
    <3>2. i \in 1..Len(recs') /\ i \in Nat
      BY <1>2, <1>4, <3>1 DEF CompletesSome
    <3>3. SUFFICES ASSUME NEW m, m = [IdleSettler EXCEPT !.pc = "apply", !.rec = i]
                   PROVE  /\ m \in SettlerRecs(vendor) /\ settler' = [settler EXCEPT ![s] = m]
                          /\ m.pc \in SettlerPoints(vendor) /\ m.rec \in 1..Len(recs')
      BY Zenon
    <3>4. m \in SettlerRecs(vendor) /\ m.pc = "apply" /\ m.rec = i
      BY <3>2, <3>3 DEF IdleSettler, SettlerRecs
    <3>5. m.pc \in SettlerPoints(vendor)
      BY <3>4 DEF SettlerPoints, ActionVendors
    <3>6. settler' = [settler EXCEPT ![s] = m]
      BY <3>1, <3>3
    <3> QED
      BY <3>2, <3>4, <3>5, <3>6
  <2>2. CASE CompleteMdeAction(s) \/ CompleteEsAction(s)
    <3>1. settler' = [settler EXCEPT ![s] = IdleSettler]
      BY <2>2 DEF CompleteMdeAction, CompleteEsAction, Leave
    <3> QED
      BY <3>1, Vocabulary, Zenon
  <2> QED
    BY <2>1, <2>2
<1>7. Common'
  BY <1>1, <1>2, <1>3, <1>5, <1>6, SettlerMoves, Zenon
<1>8. ActionsDated'
  BY <1>1, <1>5 DEF ActionsDated
<1> QED
  BY <1>4, <1>7, <1>8

LEMMA ActionWorld ==
  ASSUME Common, vendor \in ActionVendors, ActionsDated, World
  PROVE  ActionsDated'
<1>1. CASE ExportRecords
  <2>1. /\ vendor' = vendor /\ recs' = recs /\ snapshot' = snapshot /\ export'.recs = recs
    BY <1>1 DEF ExportRecords
  <2> QED
    BY <2>1 DEF ActionsDated
<1>2. CASE ExportRequests
  <2>1. /\ vendor' = vendor /\ recs' = recs /\ snapshot'.data = export /\ export # None
        /\ export' = None
    BY <1>2 DEF ExportRequests
  <2> QED
    BY <2>1 DEF ActionsDated
<1>3. CASE Load
  BY <1>3 DEF Load, ActionsDated
<1>4. CASE Tick
  BY <1>4 DEF Tick, ActionsDated
<1> QED
  BY <1>1, <1>2, <1>3, <1>4 DEF World

\* The steps of the two mounts.
ActionCommands(c) ==
  UnisolateMachine(c) \/ CreateAction(c) \/ IsolateMachine(c) \/ CreateEsAction(c)
ActionSettles(s) == ReadAction(s) \/ CompleteMdeAction(s) \/ CompleteEsAction(s)

LEMMA ActionNext ==
  ASSUME Common, vendor \in ActionVendors, [Next]_vars
  PROVE  \/ \E c \in Commanders : ActionCommands(c)
         \/ \E s \in Settlers : ActionSettles(s)
         \/ World \/ UNCHANGED vars
<1>1. \A s \in Settlers : settler[s].pc # "drop"
  BY DEF Common, Points, SettlerPoints, IdleSettler, ActionVendors
<1>2. vendor \notin {"s1", "falcon", "cortex"}
  BY DEF ActionVendors
<1> QED
  BY <1>1, <1>2 DEF Next, CommandStep, Look, SettleStep, World, ActionCommands, ActionSettles,
         Disconnect, Contain, TouchHost, IsolateEndpoint, StampAgent,
         SaveRequest, AnnounceAgent, ActOnAgent, ScanEndpoint, StampHost, DateEndpoint, AnnounceEndpoint,
         CreateXdrAction, ReadRequest, JudgeRequest, DropRequest, Step, Leave, ApplyToAgent,
         AgentAnswered, ReadTransit, JudgeHost, ApplyToHost, JudgeEndpoint, ApplyToEndpoint,
         EndpointAnswered, Poll

LEMMA ActionStep ==
  ASSUME Common, ~Overlap, vendor \in ActionVendors, ActionsDated, [Next]_vars
  PROVE  Common' /\ ActionsDated' /\ vendor' = vendor
<1>1. CASE \E c \in Commanders : ActionCommands(c)
  <2>1. vendor' = vendor
    BY <1>1 DEF ActionCommands, UnisolateMachine, CreateAction, IsolateMachine, CreateEsAction,
                CommandFrame
  <2> QED
    BY <1>1, <2>1, ActionCommand DEF ActionCommands
<1>2. CASE \E s \in Settlers : ActionSettles(s)
  <2>1. vendor' = vendor
    BY <1>2 DEF ActionSettles, ReadAction, CompleteMdeAction, CompleteEsAction, SettleFrame
  <2> QED
    BY <1>2, <2>1, ActionSettle DEF ActionSettles
<1>3. CASE World
  <2>1. vendor' = vendor
    BY <1>3 DEF World, ExportRecords, ExportRequests, Load, Tick
  <2> QED
    BY <1>3, <2>1, WorldCommon, ActionWorld
<1>4. CASE UNCHANGED vars
  BY <1>4 DEF vars, Common, Types, Points, Turns, InTime, ActionsDated, CommandsIdle,
              SettlersIdle, Shared
<1> QED
  BY <1>1, <1>2, <1>3, <1>4, ActionNext

-----------------------------------------------------------------------------
(* The count of commands                                                   *)

LEMMA CommandsBounded ==
  ASSUME commands \in 0..MaxCommands, [Next]_vars
  PROVE  commands' \in 0..MaxCommands /\ commands <= commands'
<1>1. CASE \E c \in Commanders : Call(c)
  BY <1>1 DEF Call
<1>2. CASE commands' = commands
  BY <1>2
<1>3. (\E c \in Commanders : Call(c)) \/ commands' = commands
  BY DEF Next, vars, CommandStep, Look, SettleStep, Disconnect, Contain, IsolateEndpoint,
         Enter, TouchHost, UnisolateMachine, IsolateMachine, CreateEsAction, StampAgent,
         ActOnAgent, ScanEndpoint, SaveRequest, AnnounceAgent, StampHost, DateEndpoint, AnnounceEndpoint,
         CreateXdrAction, CreateAction, Goto, Return, ReadRequest, JudgeRequest, DropRequest,
         ApplyToAgent, AgentAnswered, ReadTransit, JudgeHost, ApplyToHost, JudgeEndpoint,
         ApplyToEndpoint, EndpointAnswered, CompleteMdeAction, CompleteEsAction, ReadAction,
         Poll, SettleFrame, ExportRecords, ExportRequests, Load, Tick
<1> QED
  BY <1>1, <1>2, <1>3

LEMMA CreatingIsFinite ==
  /\ IsFiniteSet(Creating) /\ Cardinality(Creating) \in Nat
  /\ IsFiniteSet(Creating') /\ Cardinality(Creating') \in Nat
<1>1. Creating \subseteq Commanders /\ Creating' \subseteq Commanders
  BY DEF Creating
<1>2. IsFiniteSet(Creating) /\ IsFiniteSet(Creating')
  BY <1>1, FS_Subset
<1> QED
  BY <1>2, FS_CardinalityType

LEMMA CountedStep ==
  ASSUME Common, ~Overlap, Counted, [Next]_vars, vendor' = vendor,
         ActionsDated
  PROVE  Counted'
<1>1. commands' \in 0..MaxCommands /\ commands \in 0..MaxCommands /\ commands <= commands'
  BY CommandsBounded DEF Counted
<1>2. SUFFICES ASSUME vendor \in ActionVendors PROVE Counted'
  BY <1>1 DEF Counted
<1>3. /\ Len(recs) \in Nat /\ Len(recs) + Cardinality(Creating) <= commands
      /\ Cardinality(Creating) \in Nat /\ Cardinality(Creating') \in Nat
      /\ export # None => Len(export.recs) <= commands /\ Len(export.recs) \in Nat
      /\ snapshot # None => Len(snapshot.data.recs) <= commands /\ Len(snapshot.data.recs) \in Nat
  <2>1. /\ export # None => export.recs \in Seq(Records)
        /\ snapshot # None => snapshot.data.recs \in Seq(Records)
    BY DEF Common, Types, DataOK
  <2> QED
    BY <1>2, <2>1, ActionTypes, CreatingIsFinite DEF Counted
<1>4. CASE \E c \in Commanders : ActionCommands(c)
  <2>1. PICK c \in Commanders : ActionCommands(c)
    BY <1>4
  <2>2. export' = export /\ snapshot' = snapshot
    BY <2>1 DEF ActionCommands, UnisolateMachine, CreateAction, IsolateMachine, CreateEsAction,
                CommandFrame
  <2>3. cmd \in [Commanders -> CommandRecs] /\ "on" \in Directions /\ "off" \in Directions
    BY DEF Common, Types, Directions
  <2>4. Len(recs') + Cardinality(Creating') <= commands'
    <3>1. CASE UnisolateMachine(c)
      <4>1. Len(recs') = Len(recs) /\ commands' = commands + 1
        BY <1>2, <2>3, <3>1, RefusingCompletes
           DEF UnisolateMachine, CompletesSome, Enter, Call
      <4>2. Creating' = Creating \union {c} /\ c \notin Creating
        BY <2>3, <3>1 DEF UnisolateMachine, Enter, Call, Creating, IdleCommand
      <4>3. Cardinality(Creating') = Cardinality(Creating) + 1
        BY <4>2, CreatingIsFinite, FS_AddElement
      <4> QED
        BY <1>1, <1>3, <4>1, <4>3
    <3>2. CASE CreateAction(c)
      <4>1. Len(recs') = Len(recs) + 1 /\ commands' = commands
        BY <1>2, <2>3, <3>2, AddingOne DEF CreateAction, AddsOne, Return
      <4>2. Creating' = Creating \ {c} /\ c \in Creating
        BY <2>3, <3>2 DEF CreateAction, Return, Creating, IdleCommand
      <4>3. Cardinality(Creating') = Cardinality(Creating) - 1
        BY <4>2, CreatingIsFinite, FS_RemoveElement
      <4> QED
        BY <1>1, <1>3, <4>1, <4>3
    <3>3. CASE IsolateMachine(c) \/ CreateEsAction(c)
      <4>1. Len(recs') = Len(recs) + 1
        BY <1>2, <2>3, <3>3, AddingOne DEF IsolateMachine, CreateEsAction, AddsOne
      <4>2. Creating' = Creating /\ commands' = commands + 1
        BY <3>3 DEF IsolateMachine, CreateEsAction, Call, Creating
      <4> QED
        BY <1>1, <1>3, <4>1, <4>2
    <3> QED
      BY <2>1, <3>1, <3>2, <3>3 DEF ActionCommands
  <2> QED
    BY <1>1, <1>3, <2>2, <2>4 DEF Counted
<1>5. CASE \E s \in Settlers : ActionSettles(s)
  <2>1. PICK s \in Settlers : ActionSettles(s)
    BY <1>5
  <2>2. export' = export /\ snapshot' = snapshot /\ Creating' = Creating /\ commands' = commands
    BY <2>1 DEF ActionSettles, ReadAction, CompleteMdeAction, CompleteEsAction, SettleFrame,
                Creating
  <2>3. CompletesSome(recs')
    BY <1>2, <2>1, ActionSettle DEF ActionSettles
  <2>4. Len(recs') = Len(recs)
    BY <2>3 DEF CompletesSome
  <2> QED
    BY <1>1, <1>3, <2>2, <2>4 DEF Counted
<1>6. CASE ExportRecords
  <2>1. /\ recs' = recs /\ snapshot' = snapshot /\ export'.recs = recs /\ Creating' = Creating
        /\ commands' = commands
    BY <1>6 DEF ExportRecords, Creating
  <2> QED
    BY <1>1, <1>3, <2>1 DEF Counted
<1>7. CASE ExportRequests
  <2>1. /\ recs' = recs /\ snapshot'.data = export /\ export # None /\ Creating' = Creating
        /\ export' = None /\ commands' = commands
    BY <1>7 DEF ExportRequests, Creating
  <2> QED
    BY <1>1, <1>3, <2>1 DEF Counted
<1>8. CASE Load
  <2>1. /\ recs' = snapshot.data.recs /\ snapshot # None /\ snapshot' = snapshot
        /\ export' = None /\ commands' = commands /\ Creating' = {}
    BY <1>8 DEF Load, Creating, IdleCommand
  <2>2. Cardinality(Creating') = 0
    BY <2>1, FS_EmptySet
  <2> QED
    BY <1>1, <1>3, <2>1, <2>2 DEF Counted
<1>9. CASE Tick \/ UNCHANGED vars
  <2>1. /\ recs' = recs /\ export' = export /\ snapshot' = snapshot /\ Creating' = Creating
        /\ commands' = commands
    BY <1>9 DEF Tick, vars, Creating
  <2> QED
    BY <1>3, <2>1 DEF Counted
<1> QED
  BY <1>2, <1>4, <1>5, <1>6, <1>7, <1>8, <1>9, ActionNext DEF World

-----------------------------------------------------------------------------
(* The invariant                                                           *)

LEMMA InitIInv ==
  ASSUME Init
  PROVE  IInv
<1>1. Common /\ Counted
  BY InitCommon
<1>2. /\ snapshot = None /\ export = None /\ last.want = None /\ request = None
      /\ actions = <<>> /\ SettlersIdle /\ CommandsIdle /\ siem.at = 0 /\ now \in Nat
      /\ siem.answer = FALSE
      /\ vendor \in ActionVendors => Len(recs) = 0
  BY DEF Init, SettlersIdle, CommandsIdle, Start
<1>3. /\ vendor \in DeviceVendors => siem.state = recs[1].state
      /\ vendor = "cortex" => recs[1].state = "off"
  BY DEF Init, DeviceVendors, ActionVendors
<1>4. ActionsDated
  BY <1>2 DEF ActionsDated, Dated
<1>5. AgentInv
  BY <1>2, <1>3 DEF AgentInv, AgentWith, AgentCommands, AgentSettlers, SettlersIdle,
                    CommandsIdle, DeviceVendors
<1>6. HostInv
  BY <1>2 DEF HostInv, HostWith, SettlersIdle
<1>7. EndpointInv
  BY <1>2, <1>3 DEF EndpointInv, EndpointWith, LastAction, EndpointCommands, EndpointSettlers,
                    SettlersIdle, CommandsIdle, DeviceVendors, Directions
<1> QED
  BY <1>1, <1>4, <1>5, <1>6, <1>7 DEF IInv

LEMMA NextIInv ==
  ASSUME ~Overlap, IInv, [Next]_vars
  PROVE  IInv'
<1>1. vendor \in DeviceVendors \union ActionVendors
  BY DEF IInv, Common, Types
<1>2. CASE vendor = "s1"
  <2>1. Common' /\ AgentInv' /\ vendor' = "s1"
    BY <1>2, AgentStep DEF IInv
  <2>2. Counted'
    BY <1>2, <2>1, CountedStep DEF IInv
  <2> QED
    BY <2>1, <2>2 DEF IInv, ActionsDated, ActionVendors, HostInv, EndpointInv
<1>3. CASE vendor = "falcon"
  <2>1. Common' /\ HostInv' /\ vendor' = "falcon"
    BY <1>3, HostStep DEF IInv
  <2>2. Counted'
    BY <1>3, <2>1, CountedStep DEF IInv
  <2> QED
    BY <2>1, <2>2 DEF IInv, ActionsDated, ActionVendors, AgentInv, EndpointInv
<1>4. CASE vendor = "cortex"
  <2>1. Common' /\ EndpointInv' /\ vendor' = "cortex"
    BY <1>4, EndpointStep DEF IInv
  <2>2. Counted'
    BY <1>4, <2>1, CountedStep DEF IInv
  <2> QED
    BY <2>1, <2>2 DEF IInv, ActionsDated, ActionVendors, AgentInv, HostInv
<1>5. CASE vendor \in ActionVendors
  <2>1. Common' /\ ActionsDated' /\ vendor' = vendor
    BY <1>5, ActionStep DEF IInv
  <2>2. Counted'
    BY <1>5, <2>1, CountedStep DEF IInv
  <2> QED
    BY <1>5, <2>1, <2>2 DEF IInv, ActionVendors, AgentInv, HostInv, EndpointInv
<1> QED
  BY <1>1, <1>2, <1>3, <1>4, <1>5 DEF DeviceVendors

\* Commands, settlings, exports, imports and restarts of every mount keep the
\* invariant, when none of them overlaps the settling of its device.
THEOREM SettlingInvariance ==
  ASSUME ~Overlap
  PROVE  Spec => []IInv
<1>1. Init => IInv
  BY InitIInv
<1>2. IInv /\ [Next]_vars => IInv'
  BY NextIInv
<1> QED
  BY <1>1, <1>2, PTL DEF Spec

\* What a quiet device shows.
LEMMA AtRest ==
  ASSUME IInv, Quiet
  PROVE  ~At("apply") /\ ~At("announce") /\ ~WillApply /\ CommandsIdle
<1>1. ~At("apply") /\ ~At("announce")
  BY NobodyThere DEF Quiet
<1> QED
  BY <1>1 DEF Quiet, WillApply, SettlersIdle, IdleSettler

\* A settled change carries the moment the device answered, whoever noticed
\* it and whenever (settling.py, and the five settle_due).
THEOREM AlwaysDatedWhenAnswered ==
  ASSUME ~Overlap
  PROVE  Spec => []DatedWhenAnswered
<1>1. ASSUME IInv
      PROVE  DatedWhenAnswered
  <2>1. ASSUME vendor \in ActionVendors, NEW i \in DOMAIN recs, recs[i].state \in Directions
        PROVE  recs[i].done = recs[i].asked + Second
    <3>1. recs \in Seq(Records)
      BY <1>1 DEF IInv, Common, Types, DataOK
    <3> QED
      BY <1>1, <2>1, <3>1 DEF IInv, ActionsDated, Dated
  <2>2. ASSUME Quiet, siem.answer, vendor = "s1"
        PROVE  siem.at = last.at + Second
    <3>1. AgentWith(recs[1], request, siem, last, FALSE, FALSE)
      BY <1>1, <2>2, AtRest DEF IInv, AgentInv, AgentWith, Shown
    <3> QED
      BY <2>2, <3>1 DEF AgentWith
  <2>3. ASSUME Quiet, siem.answer, vendor = "cortex"
        PROVE  siem.at \in last.at..last.at + Second
    <3>1. siem.at \in Nat /\ last.at \in Nat
      BY <1>1, <2>3, DeviceTypes DEF IInv, DeviceVendors
    <3>2. EndpointWith(recs[1], siem, last, FALSE)
      BY <1>1, <2>3, AtRest DEF IInv, EndpointInv, EndpointWith, Shown
    <3>3. last.at <= siem.at /\ siem.at <= last.at + Second
      BY <2>3, <3>2 DEF EndpointWith
    <3> QED
      BY <3>1, <3>3
  <2> QED
    BY <2>1, <2>2, <2>3 DEF DatedWhenAnswered
<1> QED
  BY <1>1, SettlingInvariance, PTL

\* What the SIEM shows last is the state the console shows, or the device on
\* its way to it, as another action announced it between the answer and the
\* read that noticed (bridge.agent_changed, bridge.xdr_endpoint_changed).
THEOREM SiemAlwaysAgrees ==
  ASSUME ~Overlap
  PROVE  Spec => []SiemAgrees
<1>1. ASSUME IInv
      PROVE  SiemAgrees
  <2>1. ASSUME Quiet, vendor = "s1"
        PROVE  \/ siem.state = recs[1].state
               \/ siem.state = Pending(recs[1].state) /\ siem.at > last.at + Second
    <3>1. AgentWith(recs[1], request, siem, last, FALSE, FALSE)
      BY <1>1, <2>1, AtRest DEF IInv, AgentInv, AgentWith, Shown
    <3> QED
      BY <3>1 DEF AgentWith, Shown
  <2>2. ASSUME Quiet, vendor = "cortex"
        PROVE  \/ siem.state = recs[1].state
               \/ siem.state = Pending(recs[1].state) /\ siem.at > last.at + Second
    <3>1. EndpointWith(recs[1], siem, last, FALSE)
      BY <1>1, <2>2, AtRest DEF IInv, EndpointInv, EndpointWith, Shown
    <3> QED
      BY <3>1 DEF EndpointWith, Shown
  <2> QED
    BY <2>1, <2>2 DEF SiemAgrees
<1> QED
  BY <1>1, SettlingInvariance, PTL

\* A device settles into the state asked for last, and an isolation reported
\* complete is one the agent has applied (get_action_status).
THEOREM LastAskedAlwaysWins ==
  ASSUME ~Overlap
  PROVE  Spec => []LastAskedWins
<1>1. ASSUME IInv
      PROVE  LastAskedWins
  <2>1. SUFFICES ASSUME Quiet, vendor \in DeviceVendors, last.want # None
                 PROVE  /\ recs[1].state \in {last.want, Pending(last.want)}
                        /\ actions # <<>> /\ actions[Len(actions)][2] = "completed" =>
                             recs[1].state = actions[Len(actions)][1]
    BY DEF LastAskedWins
  <2>2. CASE vendor = "s1"
    <3>1. AgentWith(recs[1], request, siem, last, FALSE, FALSE) /\ actions = <<>>
      BY <1>1, <2>1, <2>2, AtRest DEF IInv, AgentInv, AgentWith, Shown, Common, Types, DataOK
    <3> QED
      BY <2>1, <3>1 DEF AgentWith
  <2>3. CASE vendor = "falcon"
    BY <1>1, <2>1, <2>3 DEF IInv, HostInv, HostWith, Common, Types, DataOK
  <2>4. CASE vendor = "cortex"
    <3>1. /\ EndpointWith(recs[1], siem, last, FALSE)
          /\ LastAction(recs[1], actions, FALSE)
      BY <1>1, <2>1, <2>4, AtRest DEF IInv, EndpointInv, EndpointWith, Shown, LastAction
    <3> QED
      BY <2>1, <3>1 DEF EndpointWith, LastAction
  <2> QED
    BY <2>1, <2>2, <2>3, <2>4 DEF DeviceVendors
<1> QED
  BY <1>1, SettlingInvariance, PTL

\* An agent seeded in transit is never settled: nobody asked (network.py,
\* "Only a transition an action started settles").
THEOREM SeedsAlwaysStay ==
  ASSUME ~Overlap
  PROVE  Spec => SeedsStay
<1>1. ASSUME IInv, [Next]_vars
      PROVE  [vendor = "s1" /\ last.want = None /\ last'.want = None => recs' = recs]_vars
  <2>1. SUFFICES ASSUME Next, vendor = "s1", last.want = None, last'.want = None
                 PROVE  recs' = recs
    BY <1>1
  <2>2. /\ \A s \in Settlers : settler[s] = IdleSettler
        /\ \A c \in Commanders : cmd[c] = IdleCommand \/ cmd[c].want = None
        /\ snapshot # None => snapshot.data.recs = recs
    BY <1>1, <2>1 DEF IInv, AgentInv, AgentSettlers, AgentCommands
  <2>3. \A c \in Commanders : cmd[c].want \in Directions
    BY <1>1 DEF IInv, Common, Types, CommandRecs
  <2>4. \A c \in Commanders : cmd[c].pc = "idle"
    BY <2>2, <2>3 DEF IdleCommand
  <2>5. \A s \in Settlers : settler[s].pc = "idle"
    BY <2>2 DEF IdleSettler
  <2>6. \A c \in Commanders, d \in Directions : ~Disconnect(c, d)
    <3>1. last \in Asks
      BY <1>1, <2>1, AgentTypes DEF IInv
    <3> QED
      BY <2>1, <3>1 DEF Disconnect, SetPending, Asks
  <2>7. \/ \E c \in Commanders : StampAgent(c)
        \/ \E s \in Settlers : ApplyToAgent(s)
        \/ Load \/ recs' = recs
    BY <2>1, <2>6 DEF Next, CommandStep, Look, SettleStep, ActionVendors, Contain,
         IsolateEndpoint, TouchHost, UnisolateMachine, IsolateMachine, CreateEsAction,
         SaveRequest, AnnounceAgent, ActOnAgent, ScanEndpoint, StampHost, DateEndpoint,
         AnnounceEndpoint, CreateXdrAction, CreateAction, ReadRequest, JudgeRequest,
         DropRequest, AgentAnswered, ReadTransit, JudgeHost, ApplyToHost, JudgeEndpoint,
         ApplyToEndpoint, EndpointAnswered, CompleteMdeAction, CompleteEsAction, ReadAction,
         Poll, ExportRecords, ExportRequests, Tick
  <2>8. ~(\E c \in Commanders : StampAgent(c)) /\ ~(\E s \in Settlers : ApplyToAgent(s))
    BY <2>4, <2>5 DEF StampAgent, Goto, ApplyToAgent, Step
  <2> QED
    BY <2>2, <2>7, <2>8 DEF Load
<1> QED
  BY <1>1, SettlingInvariance, PTL DEF Spec, SeedsStay

\* The store, the SIEM and the handlers' local variables stay within what the
\* handlers can put there, and no command makes two records.
THEOREM SettlingTypeCorrect ==
  ASSUME ~Overlap
  PROVE  Spec => []TypeOK
<1>1. ASSUME IInv
      PROVE  TypeOK
  <2>1. /\ Types /\ Points /\ recs \in Seq(Records) /\ actions \in Seq(XdrActions)
        /\ siem \in SiemViews /\ last \in Asks
        /\ vendor \in DeviceVendors => Len(recs) = 1
    BY <1>1 DEF IInv, Common, Types, DataOK
  <2>2. Len(recs) <= 1 + MaxCommands
    <3>1. vendor \in DeviceVendors \union ActionVendors
      BY <2>1 DEF Types
    <3>2. vendor \in ActionVendors => Len(recs) + Cardinality(Creating) <= MaxCommands
      BY <1>1, <2>1, CreatingIsFinite DEF IInv, Counted
    <3>3. Cardinality(Creating) \in Nat /\ Len(recs) \in Nat
      BY <2>1, CreatingIsFinite
    <3>4. CASE vendor \in DeviceVendors
      <4>1. Len(recs) = 1
        BY <2>1, <3>4
      <4> QED
        BY <4>1
    <3>5. CASE vendor \in ActionVendors
      <4>1. Len(recs) + Cardinality(Creating) <= MaxCommands
        BY <3>2, <3>5
      <4> QED
        BY <3>3, <4>1
    <3> QED
      BY <3>1, <3>4, <3>5
  <2>3. \A s \in Settlers :
          /\ settler[s].pc \in {"idle", "judge", "drop", "apply", "announce"}
          /\ settler[s].pc # "idle" => settler[s].rec \in DOMAIN recs
          /\ settler[s].target \in Directions \union {None}
    BY <2>1 DEF Types, Points, SettlerRecs, IdleSettler
  <2>4. /\ \A i \in DOMAIN recs : recs[i] \in Records
        /\ \A k \in DOMAIN actions : actions[k] \in Directions \X {"pending", "completed"}
    BY <2>1 DEF XdrActions
  <2> QED
    BY <2>1, <2>2, <2>3, <2>4 DEF TypeOK, Types, Requests, SiemViews, CommandRecs, Asks
<1> QED
  BY <1>1, SettlingInvariance, PTL

=============================================================================
