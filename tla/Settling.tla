------------------------------ MODULE Settling ------------------------------
(***************************************************************************)
(* Device actions that take time (backend/application/settling.py and its  *)
(* five users).  A command leaves a device on its way to a state; whoever  *)
(* looks more than SETTLE_SECONDS later (a reader's request, or the sweep  *)
(* before a Splunk search and on a timer) moves it there and dates the     *)
(* change when the device answered.                                        *)
(*                                                                         *)
(* Each behaviour follows one vendor.  SentinelOne, Falcon and Cortex      *)
(* keep the state on the device's record, which the handlers change in     *)
(* place; Defender and Elastic create an action record per command.  Both  *)
(* directions are spelled the same for all five: a pending isolate is      *)
(* "turningOn", a finished one "on".                                       *)
(*                                                                         *)
(* The handlers run on a thread pool, the sweep on the event loop: a step  *)
(* is one write another thread can see.  Overlap says whether a command or *)
(* an export may run while the same device is being settled.               *)
(***************************************************************************)
EXTENDS Naturals, Sequences, FiniteSets

CONSTANTS Vendors,      \* the mounts to follow
          Commanders,   \* request threads that command the device
          Readers,      \* request threads that read it
          Second,       \* SETTLE_SECONDS, in ticks of the clock
          Overlap,      \* may commands and exports overlap settling?
          LastAsk,      \* bound: no command begins after this moment
          MaxCommands,  \* bound on commands
          MaxLoads,     \* bound on imports and restarts
          None          \* no request, no date, no snapshot

DeviceVendors == {"s1", "falcon", "cortex"}
ActionVendors == {"defender", "elastic"}
Directions == {"on", "off"}
InTransit == {"turningOn", "turningOff"}

ASSUME SettlingAssumption ==
  /\ Vendors \subseteq DeviceVendors \union ActionVendors
  /\ Second \in Nat \ {0} /\ Overlap \in BOOLEAN
  /\ LastAsk \in Nat /\ MaxCommands \in Nat /\ MaxLoads \in Nat
  /\ None \notin Nat /\ None \notin Directions /\ IsFiniteSet(Commanders)

Settlers == Readers \union {"sweep"}
Start == 2 * Second              \* what was seeded was dated long before
MaxTime == LastAsk + 2 * Second + 1

VARIABLES
  vendor,    \* the mount this behaviour follows
  now,       \* the clock, in ticks
  recs,      \* the device's record, or the action records, oldest first
  request,   \* agent_network_requests of the device (SentinelOne)
  actions,   \* the xdr_actions records: <<direction, status>>
  siem,      \* what the SIEM shows: the announcement with the latest date, and
             \* whether it is a settled change's
  cmd,       \* each command under way: where it is, what it asks
  settler,   \* each settling under way: where it is, what it has read
  snapshot,  \* the last export
  export,    \* what an export under way has read, or None
  last,      \* what was last asked and when (history)
  commands, loads

vars == <<vendor, now, recs, request, actions, siem, cmd, settler, snapshot,
          export, last, commands, loads>>

-----------------------------------------------------------------------------

Pending(d) == IF d = "on" THEN "turningOn" ELSE "turningOff"

\* What has settled stays what it is.
SettlesInto(state) == IF state \in {"turningOn", "on"} THEN "on" ELSE "off"

\* utc_now writes whole seconds: the moment, its fraction dropped.
Stamp(t) == t - (t % Second)

HasAnswered(waited) == waited > Second

\* Mutant: the answer is dated at the read that noticed it.
AnsweredAtRead(asked) == now

AnsweredAt(asked) == asked + Second

IdleCommand == [pc |-> "idle", want |-> "on", began |-> 0]
IdleSettler == [pc |-> "idle", rec |-> 1, target |-> None, read |-> None,
                forced |-> FALSE]

CommandsIdle == \A c \in Commanders : cmd[c] = IdleCommand
SettlersIdle == \A s \in Settlers : settler[s] = IdleSettler
Quiet == CommandsIdle /\ SettlersIdle /\ export = None

\* Without overlap nobody commands or exports a device that is being
\* settled, and one thread at a time settles an endpoint: a second one finds
\* its isolation_requested_at gone.  Action records are only ever created,
\* so their users need no such promise.
Shared == ~Overlap /\ vendor \in DeviceVendors
MayCommand == Shared => Quiet
MaySettle == Shared => /\ CommandsIdle /\ export = None
                       /\ vendor = "cortex" => SettlersIdle
MayExport == Shared => CommandsIdle /\ SettlersIdle

\* The seeders draw settled and, but for Cortex, transitional states; nothing
\* seeded has a request of its own.  The two directions are alike, so the
\* seeded one is "off".
Init ==
  /\ vendor \in Vendors /\ now = Start
  /\ \E state \in {"off", "turningOff"} :
       /\ vendor \notin {"s1", "falcon"} => state = "off"
       /\ recs = IF vendor \in ActionVendors THEN <<>>
                 ELSE <<[state |-> state, done |-> None,
                         asked |-> IF vendor = "cortex" THEN None ELSE 0]>>
       /\ siem = [state |-> state, at |-> 0, answer |-> FALSE]
  /\ request = None /\ actions = <<>>
  /\ cmd = [c \in Commanders |-> IdleCommand]
  /\ settler = [s \in Settlers |-> IdleSettler]
  /\ snapshot = None /\ export = None
  /\ last = [want |-> None, at |-> 0]
  /\ commands = 0 /\ loads = 0

-----------------------------------------------------------------------------
(* Commands                                                                *)

CommandFrame == UNCHANGED <<vendor, now, settler, snapshot, export, loads>>

\* An announcement with the latest date is what a search shows first; of two
\* with the same date, the one indexed later.
Announced(state, at, answer) ==
  IF at >= siem.at THEN [state |-> state, at |-> at, answer |-> answer] ELSE siem

Call(c) ==
  /\ cmd[c] = IdleCommand /\ commands < MaxCommands /\ now <= LastAsk /\ MayCommand
  /\ commands' = commands + 1

Enter(c, d, pc) == Call(c) /\ cmd' = [cmd EXCEPT ![c] = [pc |-> pc, want |-> d, began |-> now]]
Goto(c, from, to) == /\ cmd[c].pc = from /\ cmd' = [cmd EXCEPT ![c].pc = to]
                     /\ UNCHANGED commands
Return(c, from) == /\ cmd[c].pc = from /\ cmd' = [cmd EXCEPT ![c] = IdleCommand]
                   /\ UNCHANGED commands

\* A command writes the state first ...
SetPending(d) == /\ recs' = [recs EXCEPT ![1].state = Pending(d)]
                 /\ last' = [last EXCEPT !.want = d]

\* SentinelOne: network.begin takes its stamp, writes the state,
Disconnect(c, d) ==
  /\ vendor = "s1" /\ Enter(c, d, "stamp") /\ SetPending(d)
  /\ CommandFrame /\ UNCHANGED <<request, actions, siem>>

\* the stamp,
StampAgent(c) ==
  /\ vendor = "s1" /\ Goto(c, "stamp", "request")
  /\ recs' = [recs EXCEPT ![1].asked = Stamp(cmd[c].began)]
  /\ CommandFrame /\ UNCHANGED <<request, actions, siem, last>>

\* and the request;
SaveRequest(c) ==
  /\ vendor = "s1" /\ Goto(c, "request", "announce")
  /\ request' = [at |-> now, stamp |-> Stamp(cmd[c].began)]
  /\ last' = [last EXCEPT !.at = now]
  /\ CommandFrame /\ UNCHANGED <<recs, actions, siem>>

\* execute_action saves the agent and announces it.
AnnounceAgent(c) ==
  /\ vendor = "s1" /\ Return(c, "announce") /\ siem' = Announced(recs[1].state, now, FALSE)
  /\ CommandFrame /\ UNCHANGED <<recs, request, actions, last>>

\* So it does after every other action (a scan, a tag, an upgrade), with the
\* agent as it finds it, in transit or not.
ActOnAgent(c) ==
  /\ vendor = "s1" /\ Call(c) /\ siem' = Announced(recs[1].state, now, FALSE)
  /\ CommandFrame /\ UNCHANGED <<recs, request, actions, cmd, last>>

\* Falcon: contain_host and lift_containment,
Contain(c, d) ==
  /\ vendor = "falcon" /\ Enter(c, d, "stamp") /\ SetPending(d)
  /\ CommandFrame /\ UNCHANGED <<request, actions, siem>>

StampHost(c) ==
  /\ vendor = "falcon" /\ Return(c, "stamp")
  /\ recs' = [recs EXCEPT ![1].asked = Stamp(now)]
  /\ last' = [last EXCEPT !.at = now]
  /\ CommandFrame /\ UNCHANGED <<request, actions, siem>>

\* and hide_host, unhide_host and tag_hosts, which stamp the host as well.
TouchHost(c) ==
  /\ vendor = "falcon" /\ Call(c)
  /\ recs' = [recs EXCEPT ![1].asked = Stamp(now)]
  /\ CommandFrame /\ UNCHANGED <<request, actions, siem, cmd, last>>

\* Cortex: an endpoint already there, or already on its way, stays where it
\* is, and the action is created all the same.
IsolateEndpoint(c, d) ==
  /\ vendor = "cortex"
  /\ \/ /\ recs[1].state \in {d, Pending(d)}
        /\ Enter(c, d, "act") /\ UNCHANGED <<recs, last>>
     \/ /\ recs[1].state \notin {d, Pending(d)}
        /\ Enter(c, d, "date") /\ SetPending(d)
  /\ CommandFrame /\ UNCHANGED <<request, actions, siem>>

DateEndpoint(c) ==
  /\ vendor = "cortex" /\ Goto(c, "date", "announce")
  /\ recs' = [recs EXCEPT ![1].asked = now]
  /\ last' = [last EXCEPT !.at = now]
  /\ CommandFrame /\ UNCHANGED <<request, actions, siem>>

AnnounceEndpoint(c) ==
  /\ vendor = "cortex" /\ Goto(c, "announce", "act")
  /\ siem' = Announced(recs[1].state, now, FALSE)
  /\ CommandFrame /\ UNCHANGED <<recs, request, actions, last>>

CreateXdrAction(c) ==
  /\ vendor = "cortex" /\ Return(c, "act")
  /\ actions' = Append(actions, <<cmd[c].want, "pending">>)
  /\ CommandFrame /\ UNCHANGED <<recs, request, siem, last>>

\* scan_endpoint announces the endpoint as it finds it; its own action record
\* has nothing to do with the isolation.
ScanEndpoint(c) ==
  /\ vendor = "cortex" /\ Call(c) /\ siem' = Announced(recs[1].state, now, FALSE)
  /\ CommandFrame /\ UNCHANGED <<recs, request, actions, cmd, last>>

\* Defender and Elastic: what settled makes of an action record, and when.
Completed(r) == [r EXCEPT !.state = SettlesInto(r.state), !.done = AnsweredAt(r.asked)]

Due(r) == r.state \in InTransit /\ HasAnswered(now - r.asked)

NewAction(d) == Append(recs, [state |-> Pending(d), asked |-> Stamp(now), done |-> None])

\* _refuse_if_pending settles the actions of the type it looks at.
RefuseIfPending(d) ==
  /\ recs' = [i \in DOMAIN recs |->
                IF recs[i].state = Pending(d) /\ Due(recs[i]) THEN Completed(recs[i])
                                                              ELSE recs[i]]
  /\ \A i \in DOMAIN recs' : recs'[i].state # Pending(d)

\* unisolate_machine, like the scan, restrict, collect and live-response
\* commands, refuses a second pending action.  A refused request changes
\* nothing but what the check settled, which a read would have settled too.
UnisolateMachine(c) ==
  /\ vendor = "defender" /\ Enter(c, "off", "create") /\ RefuseIfPending("off")
  /\ CommandFrame /\ UNCHANGED <<request, actions, siem, last>>

CreateAction(c) ==
  /\ vendor = "defender" /\ Return(c, "create") /\ recs' = NewAction("off")
  /\ CommandFrame /\ UNCHANGED <<request, actions, siem, last>>

\* isolate_machine creates its action unasked,
IsolateMachine(c) ==
  /\ vendor = "defender" /\ Call(c) /\ recs' = NewAction("on")
  /\ CommandFrame /\ UNCHANGED <<request, actions, siem, cmd, last>>

\* and so does every Elastic command.
CreateEsAction(c) ==
  /\ vendor = "elastic" /\ Call(c) /\ recs' = NewAction("on")
  /\ CommandFrame /\ UNCHANGED <<request, actions, siem, cmd, last>>

-----------------------------------------------------------------------------
(* Settling                                                                *)

SettleFrame == UNCHANGED <<vendor, now, cmd, snapshot, export, last, commands, loads>>

\* What a thread that starts to settle has read of the record.
Reads(s, r) == /\ settler[s] = IdleSettler /\ MaySettle
               /\ settler' = [settler EXCEPT ![s] = r]
Step(s, from, to) == settler[s].pc = from /\ settler' = [settler EXCEPT ![s].pc = to]
Leave(s, from) == settler[s].pc = from /\ settler' = [settler EXCEPT ![s] = IdleSettler]

\* Mutant: an agent's own date stands in for the request, as on Falcon.
ReadAgentOnly(s) ==
  /\ vendor = "s1" /\ recs[1].state \in InTransit
  /\ Reads(s, [IdleSettler EXCEPT !.pc = "judge",
                 !.read = [at |-> recs[1].asked, stamp |-> recs[1].asked]])
  /\ SettleFrame /\ UNCHANGED <<recs, request, actions, siem>>

\* SentinelOne reads the request,
ReadRequest(s) ==
  /\ vendor = "s1" /\ request # None
  /\ Reads(s, [IdleSettler EXCEPT !.pc = "judge", !.read = request])
  /\ SettleFrame /\ UNCHANGED <<recs, request, actions, siem>>

\* then the agent: a request that is not the one the agent carries is
\* dropped; one that has been answered is dropped before the state moves.
JudgeRequest(s) ==
  LET r == recs[1]
      held == settler[s].read
      ours == r.state \in InTransit /\ r.asked = held.stamp
  IN  /\ vendor = "s1" /\ settler[s].pc = "judge"
      /\ \/ ~ours /\ Step(s, "judge", "drop")
         \/ /\ ours /\ HasAnswered(now - held.at)
            /\ settler' = [settler EXCEPT ![s].pc = "drop", ![s].target = SettlesInto(r.state)]
         \/ ours /\ ~HasAnswered(now - held.at) /\ Leave(s, "judge")
      /\ SettleFrame /\ UNCHANGED <<recs, request, actions, siem>>

\* Mutant: a request that is not the agent's is dropped and acted upon.
DropAndGoOn(s) ==
  /\ request' = None /\ Step(s, "drop", "apply")
  /\ SettleFrame /\ UNCHANGED <<recs, actions, siem>>

DropRequest(s) ==
  /\ request' = None
  /\ IF settler[s].target = None THEN Leave(s, "drop") ELSE Step(s, "drop", "apply")
  /\ SettleFrame /\ UNCHANGED <<recs, actions, siem>>

ApplyToAgent(s) ==
  /\ vendor = "s1" /\ Step(s, "apply", "announce")
  /\ recs' = [recs EXCEPT ![1].state = settler[s].target]
  /\ SettleFrame /\ UNCHANGED <<request, actions, siem>>

\* Mutant: the settled state is saved and never announced.
AgentUnannounced(s) ==
  /\ vendor = "s1" /\ Leave(s, "announce")
  /\ SettleFrame /\ UNCHANGED <<recs, request, actions, siem>>

\* The SIEM is told when the agent answered, not when someone noticed.
AgentAnswered(s) ==
  /\ vendor = "s1" /\ Leave(s, "announce")
  /\ siem' = Announced(recs[1].state, AnsweredAt(settler[s].read.at), TRUE)
  /\ SettleFrame /\ UNCHANGED <<recs, request, actions>>

\* Falcon and Cortex read the state, then when it was asked for; an endpoint
\* without a date is one that answered long ago.
ReadTransit(s) ==
  /\ vendor \in {"falcon", "cortex"} /\ recs[1].state \in InTransit
  /\ Reads(s, [IdleSettler EXCEPT !.pc = "judge", !.target = SettlesInto(recs[1].state)])
  /\ SettleFrame /\ UNCHANGED <<recs, request, actions, siem>>

JudgeHost(s) ==
  /\ vendor = "falcon"
  /\ IF HasAnswered(now - recs[1].asked) THEN Step(s, "judge", "apply") ELSE Leave(s, "judge")
  /\ SettleFrame /\ UNCHANGED <<recs, request, actions, siem>>

ApplyToHost(s) ==
  /\ vendor = "falcon" /\ Leave(s, "apply")
  /\ recs' = [recs EXCEPT ![1].state = settler[s].target]
  /\ SettleFrame /\ UNCHANGED <<request, actions, siem>>

JudgeEndpoint(s) ==
  LET asked == recs[1].asked
      since == IF asked = None THEN 0 ELSE asked
  IN  /\ vendor = "cortex" /\ settler[s].pc = "judge"
      /\ IF settler[s].forced \/ HasAnswered(now - since)
         THEN settler' = [settler EXCEPT ![s].pc = "apply", ![s].read = asked]
         ELSE Leave(s, "judge")
      /\ SettleFrame /\ UNCHANGED <<recs, request, actions, siem>>

ApplyToEndpoint(s) ==
  /\ vendor = "cortex" /\ Step(s, "apply", "announce")
  /\ recs' = [recs EXCEPT ![1].state = settler[s].target, ![1].asked = None]
  /\ SettleFrame /\ UNCHANGED <<request, actions, siem>>

EndpointAnswered(s) ==
  LET asked == settler[s].read
  IN  /\ vendor = "cortex" /\ Leave(s, "announce")
      /\ siem' = Announced(recs[1].state,
           IF asked = None \/ AnsweredAt(asked) > now THEN now ELSE AnsweredAt(asked), TRUE)
      /\ SettleFrame /\ UNCHANGED <<recs, request, actions>>

CompleteXdrAction ==
  \E k \in DOMAIN actions :
    actions[k][2] = "pending" /\ actions' = [actions EXCEPT ![k][2] = "completed"]

\* Mutant: the poll answers without settling the endpoint.
PollOnly(s) ==
  /\ vendor = "cortex" /\ CompleteXdrAction
  /\ Reads(s, IdleSettler)
  /\ SettleFrame /\ UNCHANGED <<recs, request, siem>>

\* get_action_status completes the action it is asked about, then settles
\* the endpoint whatever the wait.
Poll(s) ==
  /\ vendor = "cortex" /\ CompleteXdrAction
  /\ Reads(s, IF recs[1].state \in InTransit
              THEN [IdleSettler EXCEPT !.pc = "judge", !.forced = TRUE,
                                       !.target = SettlesInto(recs[1].state)]
              ELSE IdleSettler)
  /\ SettleFrame /\ UNCHANGED <<recs, request, siem>>

\* Defender and Elastic: an action's date never changes, so reading its
\* status and its date is one step.
ReadAction(s) ==
  /\ vendor \in ActionVendors
  /\ \E i \in DOMAIN recs :
       /\ Due(recs[i])
       /\ Reads(s, [IdleSettler EXCEPT !.pc = "apply", !.rec = i])
  /\ SettleFrame /\ UNCHANGED <<recs, request, actions, siem>>

CompleteMdeAction(s) ==
  /\ vendor = "defender" /\ Leave(s, "apply")
  /\ recs' = [recs EXCEPT ![settler[s].rec] = Completed(@)]
  /\ SettleFrame /\ UNCHANGED <<request, actions, siem>>

CompleteEsAction(s) ==
  /\ vendor = "elastic" /\ Leave(s, "apply")
  /\ recs' = [recs EXCEPT ![settler[s].rec] = Completed(@)]
  /\ SettleFrame /\ UNCHANGED <<request, actions, siem>>

-----------------------------------------------------------------------------
(* Export, import and restart                                              *)

\* export_state reads the typed collections, then the raw ones.
ExportRecords ==
  /\ export = None /\ snapshot = None /\ MaxLoads > 0 /\ MayExport
  /\ export' = [recs |-> recs, actions |-> actions, siem |-> siem, last |-> last]
  /\ UNCHANGED <<vendor, now, recs, request, actions, siem, cmd, settler, snapshot, last,
                 commands, loads>>

\* Mutant: the requests are process memory, which no export carries.
ExportNoRequests ==
  /\ export # None /\ export' = None
  /\ snapshot' = [data |-> export, request |-> None]
  /\ UNCHANGED <<vendor, now, recs, request, actions, siem, cmd, settler, last, commands,
                 loads>>

ExportRequests ==
  /\ export # None /\ export' = None
  /\ snapshot' = [data |-> export, request |-> request]
  /\ UNCHANGED <<vendor, now, recs, request, actions, siem, cmd, settler, last, commands,
                 loads>>

\* _load_snapshot, by an import while nothing else runs, or by the process
\* that starts after this one died wherever it was.
Load ==
  /\ snapshot # None /\ loads < MaxLoads
  /\ recs' = snapshot.data.recs /\ actions' = snapshot.data.actions
  /\ siem' = snapshot.data.siem /\ last' = snapshot.data.last
  /\ request' = snapshot.request
  /\ cmd' = [c \in Commanders |-> IdleCommand]
  /\ settler' = [s \in Settlers |-> IdleSettler]
  /\ export' = None /\ loads' = loads + 1
  /\ UNCHANGED <<vendor, now, snapshot, commands>>

-----------------------------------------------------------------------------

\* A request is handled in less time than a device takes to answer.
Tick ==
  /\ now < MaxTime /\ now' = now + 1
  /\ \A c \in Commanders : cmd[c] # IdleCommand => now < cmd[c].began + Second
  /\ UNCHANGED <<vendor, recs, request, actions, siem, cmd, settler, snapshot, export,
                 last, commands, loads>>

CommandStep(c) ==
  \/ StampAgent(c) \/ SaveRequest(c) \/ AnnounceAgent(c) \/ StampHost(c)
  \/ DateEndpoint(c) \/ AnnounceEndpoint(c) \/ CreateXdrAction(c) \/ CreateAction(c)

\* settle_due, on the event loop, and every read of the device.
Look(s) == ReadRequest(s) \/ ReadTransit(s) \/ ReadAction(s)

SettleStep(s) ==
  \/ JudgeRequest(s) \/ DropRequest(s) \/ ApplyToAgent(s) \/ AgentAnswered(s)
  \/ JudgeHost(s) \/ ApplyToHost(s)
  \/ JudgeEndpoint(s) \/ ApplyToEndpoint(s) \/ EndpointAnswered(s)
  \/ CompleteMdeAction(s) \/ CompleteEsAction(s)

Next ==
  \/ \E c \in Commanders :
       \/ \E d \in Directions : Disconnect(c, d) \/ Contain(c, d) \/ IsolateEndpoint(c, d)
       \/ ActOnAgent(c) \/ ScanEndpoint(c)
       \/ TouchHost(c) \/ UnisolateMachine(c) \/ IsolateMachine(c) \/ CreateEsAction(c)
       \/ CommandStep(c)
  \/ \E s \in Settlers : Look(s) \/ SettleStep(s)
  \/ \E s \in Readers : Poll(s)
  \/ ExportRecords \/ ExportRequests \/ Load
  \/ Tick

\* Threads run on, time passes, and the sweep comes round; nobody has to
\* read, command, export or import.
Fairness ==
  /\ WF_vars(Tick) /\ WF_vars(Look("sweep")) /\ WF_vars(ExportRequests)
  /\ \A c \in Commanders : WF_vars(CommandStep(c))
  /\ \A s \in Settlers : WF_vars(SettleStep(s))

Spec == Init /\ [][Next]_vars /\ Fairness

-----------------------------------------------------------------------------
(* Properties                                                              *)

Times == 0..MaxTime
States == Directions \union InTransit
Records == [state : States, asked : Times \union {None},
            done : (0..MaxTime + Second) \union {None}]

\* The store, the SIEM and every handler's local variables stay within
\* what the handlers can put there.
TypeOK ==
  /\ vendor \in Vendors /\ now \in Times
  /\ Len(recs) <= 1 + MaxCommands /\ \A i \in DOMAIN recs : recs[i] \in Records
  /\ request \in [at : Times, stamp : Times] \union {None}
  /\ \A k \in DOMAIN actions : actions[k] \in Directions \X {"pending", "completed"}
  /\ siem \in [state : States, at : 0..MaxTime + Second, answer : BOOLEAN]
  /\ \A c \in Commanders :
       cmd[c] \in [pc : {"idle", "stamp", "request", "date", "announce", "act",
                         "create"},
                   want : Directions, began : Times]
  /\ \A s \in Settlers :
       /\ settler[s].pc \in {"idle", "judge", "drop", "apply", "announce"}
       /\ settler[s].pc # "idle" => settler[s].rec \in DOMAIN recs
       /\ settler[s].target \in Directions \union {None}
  /\ last.want \in Directions \union {None} /\ last.at \in Times

\* No device is left on its way for ever: whatever a client asked for is
\* settled, by the sweep if nobody reads, and also after an import or a
\* restart in the second it was in flight (network.py 37-43, settling.py
\* 83-93).  An agent seeded in transit, which nobody asked for, is not meant.
Awaited(i) ==
  /\ i \in DOMAIN recs /\ recs[i].state \in InTransit
  /\ vendor \in DeviceVendors => last.want # None

PendingSettles == \A i \in 1..(MaxCommands + 1) : Awaited(i) ~> ~Awaited(i)

\* A settled change carries the moment the device answered, however late it
\* was noticed and by whom: SETTLE_SECONDS after it was asked, and for an
\* endpoint whose action was polled no later than that.  What an action on the
\* device announces is dated when it was made, and is not meant.
DatedWhenAnswered ==
  /\ vendor \in ActionVendors => \A i \in DOMAIN recs :
       recs[i].state \in Directions => recs[i].done = recs[i].asked + Second
  /\ Quiet /\ siem.answer =>
       /\ vendor = "s1" => siem.at = last.at + Second
       /\ vendor = "cortex" => siem.at \in last.at..last.at + Second

\* What the SIEM shows last is the state the console shows: the changes are
\* announced, and the dates they are given put them in the order they were
\* made (bridge.agent_changed, bridge.xdr_endpoint_changed).  It differs in one
\* case: another action announced the device still on its way when it had
\* answered and nobody had noticed; the settled state is then dated before.
SiemAgrees ==
  Quiet /\ vendor \in {"s1", "cortex"} =>
    \/ siem.state = recs[1].state
    \/ siem.state = Pending(recs[1].state) /\ siem.at > last.at + Second

\* A device settles into the state asked for last, however the commands
\* before it settled or did not; and an isolation reported complete is one
\* the agent has applied (xdr_actions/queries.py, get_action_status).
LastAskedWins ==
  Quiet /\ vendor \in DeviceVendors /\ last.want # None =>
    /\ recs[1].state \in {last.want, Pending(last.want)}
    /\ actions # <<>> /\ actions[Len(actions)][2] = "completed" =>
         recs[1].state = actions[Len(actions)][1]

\* Only a transition an action started settles: an agent seeded in transit
\* stays as it was seeded (network.py, "Only a transition an action started
\* settles").
SeedsStay ==
  [][vendor = "s1" /\ last.want = None /\ last'.want = None => recs' = recs]_vars

=============================================================================
