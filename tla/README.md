# Formal model of the mockdr server core

mockdr is one process that impersonates several EDR/SIEM products. Every vendor
facade (SentinelOne, CrowdStrike, Defender, Cortex XDR, Elastic, Splunk,
Sentinel, Graph) is a set of stateless routers over application commands that
read and write **one in-memory store**. Requests run on a thread pool, and
beside them run a persistence thread, a playbook thread, eight webhook workers
and two periodic asyncio tasks. This directory models the shared state and the
threads that interfere over it. Paths below are under `src/backend/`.

## Inventory

| Component | State | Operations | Interacts with | What makes it correct |
|---|---|---|---|---|
| Store, `repository/store.py` | ~90 dicts, the activity deque, two trimmed id lists, one reentrant lock, `_on_mutate` | save, delete, append_*, clear_*, set_activity_order | everything | caps and orders agree with the dicts, eviction takes the oldest only, no change escapes the saver |
| Ids and seeding, `utils/id_gen.py`, `infrastructure/seed.py` | one seeded generator | new_id, reseed, generate_all | store, reset, process start | a new record's id is not in use |
| Persistence, `infrastructure/persistence.py`, `main.py` lifespan | `_dirty_since`, `_last_write`, `_closed`, the file | schedule_save, the saver loop, flush, load_if_exists | store lock, file system | the file is whole after any crash, no write waits past the deadline, flush is final |
| Playbook, `application/playbook/` | current run, cancel flag, thread, step lock | start, cancel, stop, the executor thread | store lock, reset, import | no step writes into a replaced store, no deadlock |
| Reset / export / import, `application/dev/commands.py` | none of its own | reset, export_state, import_state | all the others, delivery log, HEC | the new data set replaces the old one in a single step |
| Webhooks, `application/webhooks/` | subscriptions, queue, `_open`, delivery log | create, delete, fire_event, the workers, wait_for_deliveries | store, reset, receivers | every delivery ends, is counted once, is retried only after errors |
| Settling, `application/settling.py`, `agents/network.py` and the vendors' `settle_due` | the device's state, the request or action that is pending | begin (five mounts), settle by a reader, a poller or the sweep | housekeeping, export, the SIEM mounts | everything asked for settles, into what was asked last, dated when the device answered |
| Credentials and housekeeping, `api/*_auth.py`, `infrastructure/housekeeping.py` | sessions, token pairs, bearer tokens | issue, use, refresh, invalidate, sweep | reset, every request | what is issued is good for as long as promised, unless the collection's cap drops it, what is revoked stays so, a sweep changes no answer |
| Search contexts, `application/es_search/queries.py` | scrolls and points in time | open, use, close, expire | sweep, reset | a context in use is not freed |
| Written documents, `application/es_search/queries.py` | document records, the index entry (count, sequence number) | index, create, update, delete, bulk, by query, refresh | request threads | search and get agree after a refresh; no conditional write is lost |
| Search jobs, `application/splunk`, `domain/splunk/search_job.py` | jobs with a dispatch clock and a ttl | create, pause, unpause, finalize, save, setttl, cancel | sweep, reset | a job in use is not reaped; its progress is its run time |
| HEC acknowledgements, `api/routers/splunk/splunk_hec.py` | three module dicts | event, ack poll, idle reaping | sweep, reset | true is answered only for an id of this channel, and not again once a poll has its answer |
| Rate limiter, `api/middleware/rate_limit.py` | a deque per token | look up, admit, refuse, configure, clear the counters | requests, `/_dev/rate-limit` | at most the limit in any window |
| Event bus and bridge, `domain/event_bus.py`, `application/bridge.py` | handlers | publish | activities into other vendors | a failing handler does not stop the others |
| Recording proxy, `api/middleware/proxy.py`, `application/proxy` | token cache, recordings | forward, get_token | upstream | a cached token is found again |
| Query parsers, response shaping, vendor routers, fault injection, metrics, web console | none shared | - | - | tested in the repository against recorded answers |

The hard behaviours are the interleavings over the store lock, the step lock,
`_cond`, `_save_lock` and `_cv`; crashes in the middle of a save; joins with
timeouts; retries; and operations that replace the whole store under running
threads. On the vendors' side they are read-check-write sequences of several
store calls without a lock over them, and lifetimes that are enforced in three
places (at use, by the sweep, before a reset). `PROJECT.json` lists each hazard
at its line.

## Modules

| Module | Models | State and actions |
|---|---|---|
| `Dicts` | Python dict and bounded deque | `Put`, `Pop`, `Saved` (a save with the collection's cap), `PushFront`, `DropAt`, written index by index so that proofs about them are first-order |
| `BoundedLog` | abstract: a bounded newest-first log | `Push`, `Empty`, and its replacement as a whole (`Begin`, `Loaded`) |
| `Store` | `InMemoryStore` | one action per operation, atomic because each runs under the store's lock. An import holds the lock over many (`BeginImport`, the saves, `SetActivityOrder`, `EndImport`), so they are steps of their own with nothing in between. One capped collection, the activities, and the two trimmed logs stand for all collections: a collection's operations touch no other |
| `Identity` | `id_gen`, seeding, export, import and process start over `Store`'s activity log | an id is its position in the deterministic sequence; `NewId` and `AppendDrawn` are two steps because `create` draws outside the store's lock; a client's export is two steps because it holds no lock, the saver's is one |
| `Persistence` | `PersistenceManager` and the lifespan | the store's content is `<<epoch, ver>>`; `_do_save` is five steps, any of which may fail or be the last; a start loads, seeds or quarantines |
| `Playbook` | executor, and reset and import against it | the store is its generation; `stale` remembers that an object fetched from one generation was written into another; `Sleep` may also end the thread, as a negative `time.sleep` does |
| `Webhooks` | pool, retries, log, and reset against them | submit is two steps (count, enqueue) as in the code; the receiver is external and answers anything |
| `Settling` | device actions of the five mounts, the sweep, pollers, export, import, restart | one device per mount; a command and a settle are threads that go through the code's store calls one at a time; the SIEM's view and the moment the device answers are kept beside the record; other actions (`ActOnAgent`, `ScanEndpoint`) announce the device as they find it |
| `Clock` | `time.time()` | whole ticks, shared by the modules below |
| `Credentials` | Splunk sessions, Elasticsearch token pairs, bearer tokens | one action per endpoint, every save with its collection's cap; `lineage` remembers what each token descends from |
| `SearchContexts`, `SearchJobs`, `HecAcks`, `RateLimit` | the components of those names | one action per operation. A HEC poll is four steps (take the set, touch the channel, answer, forget) because it runs on a thread beside the loop, other polls and a reset; the set is an object, as in the code. A limited request is two steps (look up the deque, count in it), with the two steps of `/_dev/rate-limit` on a thread beside them |
| `Documents` | written documents of one index | a write is its store calls in order (`Calls`): get, read and save the entry for a number, put, read and save it for the count; both collections' caps may take a document or the entry, on a write of this index or another |
| `Services` | composes the six above | one clock, one `Sweep` over all lifetimes, one `Reset`; a behaviour follows the clients of one component, because none of them calls another |
| `StoreProofs`, `WebhooksProofs`, `PersistenceProofs`, `PlaybookProofs`, `SettlingProofs` | - | theorems about the modules of those names |
| `CredentialsProofs`, `RateLimitProofs` | - | the two components' invariants and the lemmas that every step keeps them |
| `ServicesProofs` | - | the same for the other components, and the theorems about the composition |

`MC*` modules and the `.cfg` files instantiate them. `Identity` composes `Store`
with the generator; `Playbook` and `Webhooks` each compose their component with
the reset that interferes. Definitions named as mutants in their comment are
the plausible bugs each property is shown to catch; they are not part of a
specification.

Abstractions a reader should know of:

- `Store!Next` appends only ids that are fresh. That is what the callers rely
  on `new_id` for. Its imports load snapshots whose order lists the snapshot's
  activities, which is what an export under the lock yields. `Identity` drops both
  assumptions and shows what follows.
- `Observed` in `Store` stands for the saver taking its snapshot, under the lock;
  it only resets the history flag `notified`.
- In `Persistence` time is counted in ticks and kept as ages, saturated where
  they stop mattering. No tick passes while the saver is at the top of its loop
  or its wait is over, i.e. a runnable saver runs within a tick; a save itself may
  take any number of ticks.
- A power cut leaves the last rename whose directory was synced, or a later one;
  a file whose data was not synced before its rename may come back torn.
- In `Playbook` a step is one or more store writes, each waiting for the store
  lock, and a step that raises ends like one that returns. The agent a run
  fetched may be missing. A thread that dies in its sleep leaves its run's status at
  "running" until the next start, so no property says that a run shown as running
  is alive.
- `cancel` reads the run's status and raises the flag in one step.
- `Settling`: a request is handled in less time than a device takes to answer, so
  the clock does not pass a whole settling time inside one; the number of
  commands per device is bounded, not their order. `MaySettle` keeps two threads
  from settling the same Cortex endpoint at once (see below). `siem.answer` marks the
  announcement of a settled change. An action other than connect, disconnect and
  isolation is one step, and the `xdr_actions` record of a scan is not kept.
- In `Services` the authentication handlers and the sweep are coroutines without an
  await between their store calls, and a reset holds the store's lock: each is one
  step. `reset_ack_state` clears its three dicts in one step. A lookup in the limiter
  that meets `reset_counters` in its loop raises and is answered 500; what it had
  dropped is cleared anyway. Control actions of a job and pages of a scroll
  are one step because a client waits for its answer; the hazard list says what
  two clients of one id could do.
- The four bearer collections are one: they differ in how the expiry is written.
- Handles are numbered in the order of issue, so the oldest record of a collection at
  its cap is the one with the least number; for refresh tokens, which `_refresh` may
  drop and save again, the place in the dict is kept with the record. In `Documents`
  the caps are shared with the other indices: whether a save is at the cap and which
  document is the oldest is left open.
- `Documents` draws the number of a conditional write from all numbers given out,
  which a client has from the answer to a write. `GET _doc` answers `_seq_no: 0`
  whatever the document holds, so it is no source of one.

## Runs

| Run | Result | What it shows |
|---|---|---|
| `store` | pass | types and caps, `ActivitiesAgree`, `LogsAgree`, `EvictsOldestFirst`, `UpdateEvictsNobody`, `ChangesNotify` (though `set_activity_order` notifies nobody), and that the activity pair implements `BoundedLog`, through imports |
| `identity` | violation of `ActivitiesAgree` | a reset or process start restarts the id sequence, and an activity takes the id of another; importing an export torn by an append shows the same |
| `persistence` | pass | `CrashLeavesAWholeSnapshot`, `UnsavedWritesAreYoung`, `FlushCoversAQuietManager`, `WritesAreEventuallySaved` |
| `persistence_flush` | violation of `FlushIsFinal` | a background save that exported earlier and locked later overwrites flush's snapshot |
| `playbook` | pass | `NoStaleWrite`, `StopIsFinal`, `NoCircularWait`, `CallsReturn` |
| `playbook_reset` | violation of `NoCircularWait` | a start between reset's stop and its lock: `generate_all` stops the playbook again with the store locked |
| `webhooks` | pass | `OpenIsExact`, `RetriesOnlyErrors`, `LogIsTruthful`, `WaitIsABarrier`, `DeliveriesFinish` |
| `webhooks_reset` | violation of `LogIsOfThisEra` | deliveries in flight over a reset record into the cleared log |
| `settling` | pass | `DatedWhenAnswered`, `SiemAgrees`, `LastAskedWins`, `SeedsStay`, and `PendingSettles` (liveness) over an export, an import or a restart in flight |
| `settling_race` | violation of `PendingSettles` | a connect sent while the sweep settles the previous one: the sweep deletes the new request by the agent's id |
| `services` | pass | `UsedStaysUsable`, `SweepChangesNoVerdict`, `RevokedStaysRevoked`, `RefreshedOnce`, `ProgressIsRunTime`, `AcksAreTruthful`, `SearchAgrees`, `WindowBudget` |
| `documents_race` | violation of `NoLostUpdate` | two conditional writes on two threads pass the check one after the other and both are acknowledged |

The six violations are described with the lines they contradict under
"findings" in `PROJECT.json`.

**Bounds.** `store`: three ids and two records against caps of two, so every cap
is reached and passed and an id can come back after its eviction; the operators
treat all positions past the cap alike, and the theorems remove the bound.
`persistence`: three mutations (one saved, one during a save, one after), a
debounce of one tick against a deadline of two (so that writes can defer a save),
two seedings with a crash between them. `playbook`: two clients, two runs, two
steps, two replacements of the store: one run can be replaced by another and
be overtaken by two resets. `webhooks`: two threads, two workers, two
deliveries, two attempts and a log of two: every attempt
can race another and the log overflows. `playbook_reset` and `webhooks_reset`
use the smallest instance that shows the disagreement; the latter has the code's
three attempts. `settling`: one device of each mount in turn, two commands, a
second of two ticks (so that the fraction `utc_now` drops is there), and three ticks
after the start for the last command to begin: the second command, or another action,
falls before, at and after the first one's answer, with the sweep, a reader and a poller at any step.
`services`: lifetimes of one to three ticks on a clock of five, so each ends
before, at and after a use, a sweep and a reset; three sessions, bearer tokens and
token pairs against caps of two (the oldest is dropped while the others live; a grant,
its refresh and a refresh of that one, or a second trade), two contexts and two jobs
against caps of one, a channel with two numbers in two lives and two polls of it at
once, limits of one and two over a window of two with two reconfigurations under way,
four writes to two documents with all seven operations. `documents_race`: one
document, two writers, three writes.

`CHECK_DEADLOCK FALSE` is used where the bounds end a behaviour: `Identity` runs
out of ids, `Playbook` out of runs and generations, `Settling` out of commands
and time, `Documents` out of writes.

**What the playbook run leaves out.** No start overlaps a reset or import
(`StartsOverlap = FALSE`; `playbook_reset` shows what happens otherwise), one
client starts playbooks at a time (two at once may leave a run shown as running that
nothing runs), and the three-second join of `start` does not
give up, which it would only with a step that takes three seconds. The joins of
reset and import may give up at any time.

**What the settling and documents runs leave out.** In `settling` no command
overlaps the settling of its own device (`settling_race` shows what happens
otherwise), and one thread settles a Cortex endpoint at a time: with two, the
later one finds `isolation_requested_at` cleared and dates its repeated
announcement by its own reading. `SiemAgrees` has one exception: an action other than
the one that is pending announces the device as it finds it, dated now. Made after
the device has answered and before anyone has noticed, that announcement is later than
the settled state's, and the SIEM goes on showing the device on its way. That one
unisolate action at most is pending is not claimed either: `_refuse_if_pending` and the
creation after it are two steps, and two clients at once both get their action. In
`services` writes to an index follow one
another; overlapping ones lose updates of the index entry, which breaks
`SearchAgrees` as well, and an index whose entry the cap of `es_indices` has dropped
hides its documents. `UsedStaysUsable` is about a handle until as many were issued
after it as its collection holds: past `CAPS` the oldest record goes, in use or not.
`AcksAreTruthful` allows two polls at once to be told the same number, and a number
asked for as `0.0` to be told again: `splunk_hec.py` 211 answers by equality, 216
deletes integers only. `WindowBudget` is about the time from one `reset_counters` to the
next: what was admitted before is forgotten, so a window with a reconfiguration in it may
exceed either limit. A paused job is reaped like any other (`search_job.py` 80 exempts
one that is not done, and every job is created done), though the docstring at 76-77
says it has not completed. `NoLostUpdate` also fails without any overlap once
unrefreshed deletes are among the operations (`Ops` with `"delete"` and one
writer): the marked record keeps its sequence number, so a second conditional
write with that number is accepted. `SweepChangesNoVerdict` leaves HEC channels
out: nothing but the sweep looks at their age, although
`infrastructure/housekeeping.py` 30-32 says each expiry is also checked at use.

**Fairness.** Only what the runtime provides: threads keep being scheduled, so
each has weak fairness on its own next step (in `Settling` the
threads that are under way and the periodic sweep, never a client's next
request); time passes; a lock that
stays free is obtained; an HTTP attempt ends within its timeout; a playbook step
makes finitely many store calls. Nothing is assumed of clients, failures,
crashes, resets or the receivers' answers. `WritesAreEventuallySaved` excuses
the cases in which the code gives up: a failed save is not retried until the next
mutation, and a mutation after `flush` has no saver.

## Proofs

Every safety property that a passing run checks is proved for all values of the
constants; `PROJECT.json` lists each theorem with the property it states. The argument is everywhere the same: an inductive
invariant, one lemma per action (and, where an action disturbs several parts of
it, one step per part), and a theorem that draws the property from it. Every
invariant named here was first checked by TLC on the instance of its run.

**Assumptions.** The modules' named ASSUMEs, which TLC evaluates on every run:
bounds and lifetimes are natural numbers, caps and limits positive, sets of
clients finite where the code counts them, and the values that stand for "none"
are none of the values they are told apart from. Some theorems' hypotheses go
further:

- `OrderlyStarts`, in all theorems of `PlaybookProofs`: no start overlaps a reset
  or import, no two overlap each other, and `start` does not give up its join.
  Run `playbook_reset` is a start that does overlap.
- `~Overlap`, in `SearchAlwaysAgrees`, `DocumentsInvariance` and
  `ServicesTypeCorrect`: writes to an index follow one another. Run
  `documents_race` is two that do not.
- `~Overlap`, in the theorems of `SettlingProofs`: on the three mounts that keep
  the state on the device, no command or export overlaps the settling of the same
  device, and one thread at a time settles a Cortex endpoint. Run `settling_race`
  is a command that does overlap. The two mounts with action records are not
  restricted by it.

**Store.** `IInv` is `CappedInv`, `ActivityInv` and `LogInv` with the
types of `notified` and `load`. Neither `TypeOK` nor `ActivitiesAgree` is inductive alone:
that the dict loses exactly the id that leaves the order needs the order to be
injective (otherwise the id dropped at the end may still be listed earlier), that
nothing else leaves needs it to range over the dict's domain, and the cap is
kept only if the order is never longer than it. `CappedInv` says the same
of the capped dict's key order, which `EvictionIsOldestFirst`
needs though no run states it. `LogInv` is weaker (the domain is a subset of
the range): `clear()` of a trimmed log leaves its ids in the order. While an import
loads its records the order is empty and the listener has been told
(`LoadInv`, which stands in for `ActivityInv` meanwhile), which is why `set_activity_order` need not tell it again.
The argument goes over lemmas on `PushFront`, `DropAt`, `Append`, `Put` and `Pop`
(length, entries, injectivity, range) and one lemma per operation; the action
properties follow from `CappedSteps` (the ways a step may change the capped
collection). For the refinement, `AppendActivityIsPush` shows that a fresh append
is exactly a push of the log readers see, an import is one replacement of it, and
every other step clears it or leaves it.

**Webhooks.** `OpenIsExact` equates a counter with a cardinality. It is inductive
with `OnePlace`: a delivery is at one place only (about to be queued, queued once,
or on one worker), so that each step of submit and of a worker moves exactly one
element. `RetriesOnlyErrors` and `LogIsTruthful` need the attempts made so far
to be the ones counted (`Tries`) and every log entry to be of an attempt that was
made (`LogIsOfThePast`); the barrier needs that a waiter waits for nothing that
was not submitted (`WaitsForSubmitted`).

**Persistence.** `CrashLeavesAWholeSnapshot` needs that the file a rename puts in
place was synced first and holds a content the store has had (`FileIsWhole`,
`FileIsOfThePast`, `SavesInOrder`). `UnsavedWritesAreYoung` needs the saver's wait
to end in time whatever it was computed from (`WaitEndsInTime`), that what it
believes saved is at most what was (`SaverIsAhead`) and that a write during a save
is still counted as unsaved (`NoWriteIsLost`).

**Playbook.** `NoStaleWrite` rests on three facts: while starts are orderly at most
one thread is alive (`OneThread`); from the moment `stop` has returned until the
replacement the flag is up and nobody is past its second look at it
(`StopHolds`); and what a thread holds is of the present generation unless it will
look at the flag before it writes (`Fresh`). Deadlock freedom comes from
`LocksHeld`, which says of every program point which locks its thread holds.

**Services.** Each component has its own invariant: a session, context, job or
bearer token is what its last use left and is missing only once that is over, or once
as many were issued after it as the collection holds (`SessionsFollowUse`, `ContextsFollowUse`, `JobsFollowUse`, `BearersFollowExpiry`);
a job's clock shows its run time to the tick (`JobsRun`); a token document agrees
with its lineage, a refresh token is marked traded exactly when a pair came from
it, and a document not invalidated is of a grant later than its user's last
revocation; the numbers in every HEC set, also one whose channel was forgotten while a
poll holds it, were given out to its channel in its life and have not been answered
(`AckSets`, `AcksGiven`), and a poll holds its channel's set of the life it found
(`PollsInHand`); as long as its deque is not cleared the limiter remembers, of each
token, at least the requests admitted in the window (`AdmittedIsRemembered`), and every
limit that may still judge a request is one of those in force (`Noted`,
`UnderWay`). The limiter's part needs what `DropBefore` does to a sorted sequence of any length, which is proved from the
least index that is not dropped (`LeastNumber`).
`ServicesInvariance` composes them: a handler leaves the other components alone,
and the clock, the sweep and the reset keep each. `SweepIsInvisible` is the
action property that follows: the sweep takes only what is refused at use.

For the documents, `DocsInv` describes the index in the middle of a write: with
given calls left, the count is the records and those the cap has dropped, but
for the record made or taken and not yet counted, unless the cap has dropped the
entry; the entry read is the present one when it is saved, and every sequence
number is below the next. There is one lemma per store call (`ReadGood`,
`SeqGood`, `PutGood`, ...), stated about the calls left and not about the
operation, so that it serves all seven operations.

**Settling.** `SiemAgrees` and `LastAskedWins` are about a device at rest; the
invariant has to say what holds at each program point of a command and of a
settling. Per mount it is one predicate on the record, the request, the SIEM's
view and what was asked last (`AgentWith`, `HostWith`, `EndpointWith`), which
holds of the store whenever no command is under way and of every snapshot, with
allowances for a settling that has taken the request and not applied it, or has
applied it and not announced it. What the SIEM shows is `Shown`: the change, or the
device still on its way because the change is about to be announced or because another
action announced the device after it had answered. That the announcements are in order
needs `InTime` (a command ends before its device answers) and that the SIEM's date is
never in the future. A settling thread's copy of
the request is the present one (`AgentSettlers`), which is where `~Overlap` is
used, and nobody settles an agent that was not asked, which is `SeedsStay`.
`LastAction` says the same of Cortex's latest action: one that was reported
complete has been applied, or a thread that will apply it is under way.
For action records, `ActionsDated` is nearly inductive alone; the
bound in `TypeOK` needs that each record was paid for by a command
(`Counted`). The `UNCHANGED` work is done once for all
mounts, by lemmas on a command step and a settling step (`CommandMoves`,
`SettlerMoves`).

**Only model-checked.** Liveness (`WritesAreEventuallySaved`, `CallsReturn`,
`DeliveriesFinish`, `PendingSettles`), which the proof system does not reach.

## Not modelled

What seeders, vendor commands and the bridge's handlers write into records is
data. The query languages (`utils/es_query.py`, `utils/splunk/spl_exec.py`,
KQL, FQL), `application/documented_bodies.py` and the response builders are pure
functions over strings and documents, tested in the repository against recorded
answers; a model over small sets would restate them. Vendor routers translate
HTTP to commands and keep nothing; most commands are a single store write, whose
orderings are the store's. The recording proxy forwards to an upstream, and its
token cache is a dict beside it. Left to the code's own statements: a session's
`last_used` is not saved (`splunk_auth.py` 88), a snapshot that cannot be decoded
is overwritten by the first save after it (`persistence.py` 83), and a delivery
to a webhook deleted after its event fired is still made. `scripts/`, fault injection, metrics, the
browser console and `trigger_scenario` keep no state that other parts rely on.
They make up by far the largest part of the source, which is why the models stand
for a small share of its lines.

## Plan

1. The action vendors' part of `SettlingInvariance` without `~Overlap`, which those
   steps do not need.
2. Weaker hypotheses: `NoStaleWrite` of `Playbook` with starts that overlap each
   other but no reset; `SiemAgrees` with commands that overlap a settling which
   has already announced; `SearchAgrees` with the entry dropped and made again.
3. Runs for the disagreements the hazard list describes in notes only: two clients that
   unisolate a machine, the paused job that is reaped, the acknowledgement asked for as
   `0.0`, the limit exceeded over a reconfiguration.
