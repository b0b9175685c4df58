------------------------------- MODULE Store --------------------------------
(***************************************************************************)
(* InMemoryStore (backend/repository/store.py): the one store every vendor *)
(* facade reads and writes.  Every operation runs under the store's        *)
(* reentrant lock, so each is one atomic action here.  An import holds     *)
(* that lock over many of them: its steps are actions of their own, and    *)
(* nothing else happens between them.                                      *)
(*                                                                         *)
(* Three kinds of collection are told apart, because they forget           *)
(* differently:                                                            *)
(*   - a capped collection (CAPS: tokens, sessions, jobs, documents), an   *)
(*     insertion-ordered dict that drops its oldest key when a NEW key     *)
(*     would exceed the cap;                                               *)
(*   - "activities", a dict plus a deque of ids with a maxlen;             *)
(*   - "request_logs" and "webhook_sink", a dict plus a list of ids that   *)
(*     is trimmed after each insert.                                       *)
(* The other collections are capped ones whose cap is never reached.       *)
(*                                                                         *)
(* Appended records have fresh ids in this module: that is what the        *)
(* callers rely on new_id() for, and the snapshot an import loads lists    *)
(* its own activities, as one exported under the lock does.  Module        *)
(* Identity drops both assumptions.                                        *)
(***************************************************************************)
EXTENDS Dicts, FiniteSets

CONSTANTS Ids,          \* record ids
          Records,      \* record contents
          Cap,          \* CAPS[collection]
          ActivityCap,  \* maxlen of _activity_order (10000)
          LogCap,       \* the 500 of append_request_log / append_webhook_sink
          Logs          \* the trimmed logs: {"request_logs", "webhook_sink"}

ASSUME CapsAssumption ==
  /\ Cap \in Nat \ {0}
  /\ ActivityCap \in Nat \ {0}
  /\ LogCap \in Nat \ {0}

VARIABLES
  keys,           \* the capped dict's keys, oldest insertion first
  rec,            \* ... and its mapping
  activities,     \* _collections["activities"]
  activityOrder,  \* _activity_order, newest first
  logs,           \* the trimmed logs' mappings
  logOrder,       \* _request_log_order and _webhook_sink_order, newest first
  notified,       \* _on_mutate was called since the saver last took a snapshot
  load            \* the import holding the lock: "records" while it saves the
                  \* snapshot's, "ordered" after set_activity_order, or "free"

capped == <<keys, rec>>
activityVars == <<activities, activityOrder>>
logVars == <<logs, logOrder>>
data == <<keys, rec, activities, activityOrder, logs, logOrder>>
vars == <<keys, rec, activities, activityOrder, logs, logOrder, notified, load>>

Init ==
  /\ keys = <<>> /\ rec = EmptyDict
  /\ activities = EmptyDict /\ activityOrder = <<>>
  /\ logs = [n \in Logs |-> EmptyDict] /\ logOrder = [n \in Logs |-> <<>>]
  /\ notified = FALSE /\ load = "free"

\* _notify: every mutation ends by calling the listener.
Notify == notified' = TRUE

-----------------------------------------------------------------------------
(* A capped collection: save and delete.                                   *)

\* Mutant: the cap is compared with > instead of >=.
SavePastCap(id, r) ==
  /\ LET isNew == id \notin DOMAIN rec
         full  == isNew /\ Len(keys) > Cap
     IN /\ keys' = IF isNew THEN Append(IF full THEN Tail(keys) ELSE keys, id)
                            ELSE keys
        /\ rec' = Put(IF full THEN Pop(rec, {keys[1]}) ELSE rec, id, r)
  /\ Notify
  /\ UNCHANGED <<activityVars, logVars>>

\* Mutant: popitem() instead of the first key: the newest record goes.
SaveDropsNewest(id, r) ==
  /\ LET isNew == id \notin DOMAIN rec
         full  == isNew /\ Len(keys) >= Cap
     IN /\ keys' = IF isNew THEN Append(IF full THEN DropAt(keys, Len(keys)) ELSE keys, id)
                            ELSE keys
        /\ rec' = Put(IF full THEN Pop(rec, {keys[Len(keys)]}) ELSE rec, id, r)
  /\ Notify
  /\ UNCHANGED <<activityVars, logVars>>

\* Mutant: a full collection evicts without asking whether the id is new.
SaveEvictsOnUpdate(id, r) ==
  /\ LET isNew == id \notin DOMAIN rec
         full  == Len(keys) >= Cap /\ keys[1] # id
         kept  == IF full THEN Tail(keys) ELSE keys
     IN /\ keys' = IF isNew THEN Append(kept, id) ELSE kept
        /\ rec' = Put(IF full THEN Pop(rec, {keys[1]}) ELSE rec, id, r)
  /\ Notify
  /\ UNCHANGED <<activityVars, logVars>>

\* save: a new key past the cap costs the oldest key its record; saving an
\* existing key keeps its place in the order and costs nobody.
Save(id, r) ==
  /\ LET isNew == id \notin DOMAIN rec
         full  == isNew /\ Len(keys) >= Cap
     IN /\ keys' = IF isNew THEN Append(IF full THEN Tail(keys) ELSE keys, id)
                            ELSE keys
        /\ rec' = Put(IF full THEN Pop(rec, {keys[1]}) ELSE rec, id, r)
  /\ Notify
  /\ UNCHANGED <<activityVars, logVars>>

\* delete of an existing id; of an unknown one it returns False, silently.
Delete(id) ==
  /\ id \in DOMAIN rec
  /\ \E i \in DOMAIN keys : keys[i] = id /\ keys' = DropAt(keys, i)
  /\ rec' = Pop(rec, {id})
  /\ Notify
  /\ UNCHANGED <<activityVars, logVars>>

-----------------------------------------------------------------------------
(* The newest-first logs.                                                  *)

\* Mutant: the deque forgets the oldest id and the dict keeps its record.
AppendActivityLeaks(id, r) ==
  /\ activities' = Put(activities, id, r)
  /\ activityOrder' = PushFront(activityOrder, id, ActivityCap)
  /\ Notify
  /\ UNCHANGED <<capped, logVars>>

\* Mutant: append() instead of appendleft(): oldest first.
AppendActivityAtBack(id, r) ==
  /\ LET full    == Len(activityOrder) = ActivityCap
         evicted == IF full THEN {activityOrder[1]} ELSE {}
     IN /\ activities' = Pop(Put(activities, id, r), evicted)
        /\ activityOrder' = Append(IF full THEN Tail(activityOrder) ELSE activityOrder, id)
  /\ Notify
  /\ UNCHANGED <<capped, logVars>>

\* append_activity: the record is stored first, then the id the full deque
\* is about to lose is remembered, and its record is deleted unless it is
\* the very id being appended.
AppendActivity(id, r) ==
  /\ LET full    == Len(activityOrder) = ActivityCap
         evicted == IF full THEN {activityOrder[Len(activityOrder)]} \ {id} ELSE {}
     IN activities' = Pop(Put(activities, id, r), evicted)
  /\ activityOrder' = PushFront(activityOrder, id, ActivityCap)
  /\ Notify
  /\ UNCHANGED <<capped, logVars>>

\* Mutant: the list is trimmed and the records of the trimmed ids stay.
AppendLogLeaks(n, id, r) ==
  /\ logs' = [logs EXCEPT ![n] = Put(@, id, r)]
  /\ logOrder' = [logOrder EXCEPT ![n] = PushFront(@, id, LogCap)]
  /\ Notify
  /\ UNCHANGED <<capped, activityVars>>

\* append_request_log and append_webhook_sink: the ids trimmed off the list
\* lose their records, whatever ids they are.
AppendLog(n, id, r) ==
  /\ LET order   == logOrder[n]
         trimmed == IF Len(order) >= LogCap
                      THEN {order[i] : i \in LogCap..Len(order)} ELSE {}
     IN /\ logs' = [logs EXCEPT ![n] = Pop(Put(@, id, r), trimmed)]
        /\ logOrder' = [logOrder EXCEPT ![n] = PushFront(order, id, LogCap)]
  /\ Notify
  /\ UNCHANGED <<capped, activityVars>>

\* clear_request_logs and clear_webhook_sink.
ClearLog(n) ==
  /\ logs' = [logs EXCEPT ![n] = EmptyDict]
  /\ logOrder' = [logOrder EXCEPT ![n] = <<>>]
  /\ Notify
  /\ UNCHANGED <<capped, activityVars>>

-----------------------------------------------------------------------------
(* Bulk operations.                                                        *)

\* clear("activities") empties the order as well ...
ClearActivities ==
  /\ activities' = EmptyDict /\ activityOrder' = <<>>
  /\ Notify
  /\ UNCHANGED <<capped, logVars>>

\* ... clear of a capped collection has no separate order to empty, and ...
ClearCapped ==
  /\ keys' = <<>> /\ rec' = EmptyDict
  /\ Notify
  /\ UNCHANGED <<activityVars, logVars>>

\* ... clear of a trimmed log leaves the ids of the deleted records behind.
ClearLogRecords(n) ==
  /\ logs' = [logs EXCEPT ![n] = EmptyDict]
  /\ Notify
  /\ UNCHANGED <<capped, activityVars, logOrder>>

ClearAll ==
  /\ keys' = <<>> /\ rec' = EmptyDict
  /\ activities' = EmptyDict /\ activityOrder' = <<>>
  /\ logs' = [n \in Logs |-> EmptyDict] /\ logOrder' = [n \in Logs |-> <<>>]
  /\ Notify

-----------------------------------------------------------------------------
(* An import: _import_state_locked, under the lock from end to end.        *)

BeginImport == load = "free" /\ ClearAll /\ load' = "records"

\* save("activities", ...) of a record of the snapshot: no order is touched.
\* A snapshot holds no more activities than the deque did.
ImportActivity(id, r) ==
  /\ load = "records"
  /\ Cardinality(DOMAIN activities \cup {id}) <= ActivityCap
  /\ activities' = Put(activities, id, r)
  /\ Notify
  /\ UNCHANGED <<capped, activityOrder, logVars, load>>

\* set_activity_order calls no listener.
SetActivityOrder(order) ==
  /\ load = "records"
  /\ IsInjective(order) /\ Range(order) = DOMAIN activities
  /\ activityOrder' = order /\ load' = "ordered"
  /\ UNCHANGED <<capped, activities, logVars, notified>>

EndImport == load = "ordered" /\ load' = "free" /\ UNCHANGED <<data, notified>>

\* The orders a deque can hold: at most maxlen ids.
Orders == UNION {[1..n -> Ids] : n \in 0..ActivityCap}

-----------------------------------------------------------------------------
\* Mutant: the saver exports without the store's lock.
ObservedUnlocked ==
  /\ notified /\ notified' = FALSE
  /\ UNCHANGED <<data, load>>

\* The listener's saver takes its snapshot of the store, under the lock.
Observed ==
  /\ load = "free"
  /\ notified /\ notified' = FALSE
  /\ UNCHANGED <<data, load>>

Clears ==
  \/ ClearActivities
  \/ ClearCapped
  \/ ClearAll
  \/ \E n \in Logs : ClearLog(n) \/ ClearLogRecords(n)

\* What a request or the seeding does, one operation at a time.
Operation ==
  /\ load = "free" /\ UNCHANGED load
  /\ \/ \E id \in Ids, r \in Records :
          \/ id \notin DOMAIN activities /\ AppendActivity(id, r)
          \/ \E n \in Logs : id \notin Range(logOrder[n]) /\ AppendLog(n, id, r)
     \/ \E id \in Ids : Delete(id)
     \/ Clears

\* save is a request's or the import's, for the snapshot's other records and
\* for the credentials put back after them.
Next ==
  \/ \E id \in Ids, r \in Records :
       \/ Save(id, r) /\ UNCHANGED load
       \/ ImportActivity(id, r)
  \/ \E order \in Orders : SetActivityOrder(order)
  \/ Operation \/ BeginImport \/ EndImport \/ Observed

Spec == Init /\ [][Next]_vars

-----------------------------------------------------------------------------
(* Properties.                                                             *)

Dict(S) == UNION {[D -> Records] : D \in SUBSET S}

\* The two halves of the capped dict belong together (they are one dict in
\* the code): each key has one place in the insertion order.
CappedOrderAgrees == IsInjective(keys) /\ Range(keys) = DOMAIN rec

\* Every collection maps ids to records and no order outgrows its cap.
TypeOK ==
  /\ keys \in Seq(Ids) /\ Len(keys) <= Cap
  /\ rec \in Dict(Ids)
  /\ activities \in Dict(Ids)
  /\ activityOrder \in Seq(Ids) /\ Len(activityOrder) <= ActivityCap
  /\ logs \in [Logs -> Dict(Ids)]
  /\ logOrder \in [Logs -> Seq(Ids)] /\ \A n \in Logs : Len(logOrder[n]) <= LogCap
  /\ notified \in BOOLEAN /\ load \in {"free", "records", "ordered"}

\* count("activities") and list_activities() never disagree for anyone who
\* gets the lock: each activity is listed once, and an activity that left the
\* deque left the dict too, through appends, evictions, clears and imports.
ActivitiesAgree ==
  load # "records" =>
    IsInjective(activityOrder) /\ Range(activityOrder) = DOMAIN activities

\* Each request-log and webhook-sink record is listed exactly once, also
\* when clear() left stale ids in the order.
LogsAgree ==
  \A n \in Logs : IsInjective(logOrder[n]) /\ DOMAIN logs[n] \subseteq Range(logOrder[n])

\* A save that brings in a new key forgets oldest-first: no record is
\* dropped while an older one stays.
EvictsOldestFirst ==
  [][DOMAIN rec' \ DOMAIN rec # {} =>
       \A i, j \in DOMAIN keys :
         i < j /\ keys[j] \notin DOMAIN rec' => keys[i] \notin DOMAIN rec']_vars

\* Updating a record in a full collection never costs another its place.
UpdateEvictsNobody ==
  [][(\E id \in DOMAIN rec \cap DOMAIN rec' : rec'[id] # rec[id]) =>
       keys' = keys /\ DOMAIN rec' = DOMAIN rec]_vars

\* No change escapes the listener the persistence layer registered: after a
\* step that changed data the saver has a snapshot to take that will show it.
\* set_activity_order notifies nobody; the import it is part of must have
\* notified before it and keep the saver's export out until it is done.
ChangesNotify == [][data' # data => notified']_vars

\* The activity log as its readers see it (list_activities; the filter
\* there removes nothing, by ActivitiesAgree), as a bounded log.
ActivityLog == [i \in DOMAIN activityOrder |-> activities[activityOrder[i]]]

BL == INSTANCE BoundedLog WITH
        log <- ActivityLog, loading <- load = "records",
        Entries <- Records, Bound <- ActivityCap

\* The deque-and-dict pair behaves as one bounded newest-first log: outside
\* an import only pushes and whole clears, nothing reordered, replaced or
\* lost early; an import shows as one replacement of the whole log.
ActivitiesAreABoundedLog == BL!Spec
=============================================================================
