------------------------------ MODULE Identity ------------------------------
(***************************************************************************)
(* Where the ids of appended activities come from (backend/utils/          *)
(* id_gen.py): a generator seeded with a constant, so that the same draw   *)
(* always yields the same id; an id is its position in that sequence.      *)
(* generate_all restarts the sequence together with the data, but a        *)
(* process start does so too while load_if_exists keeps the old data, and  *)
(* an import replaces the data and leaves the sequence where it is.        *)
(*                                                                         *)
(* The activity log is Store's, with Ids = 1..n.  The other collections    *)
(* stay empty: what the seeders and the bridge to the other vendors put    *)
(* there has ids of its own.                                               *)
(***************************************************************************)
EXTENDS Store

CONSTANTS Threads,  \* request threads
          Earlier,  \* ids the seeding draws for other records first
          Seeded,   \* activities it then creates, at most ActivityCap
          None      \* no id drawn, no snapshot taken

VARIABLES
  draws,    \* draws made from _rng since it was seeded
  drawn,    \* the id each thread drew and has not used yet
  exported, \* the activities an export has read, its order still to come, or None
  snapshot  \* an export, or the persistence file, or None

idVars == <<keys, rec, activities, activityOrder, logs, logOrder, notified, load,
            draws, drawn, exported, snapshot>>

SeedRecord == CHOOSE r \in Records : TRUE

\* What the seeding leaves: Seeded appends with the ids drawn last.
SeedDraws == Earlier + Seeded
SeedActivities == [id \in (Earlier + 1)..SeedDraws |-> SeedRecord]
SeedOrder == [i \in 1..Seeded |-> SeedDraws + 1 - i]

IdInit ==
  /\ keys = <<>> /\ rec = EmptyDict
  /\ logs = [n \in Logs |-> EmptyDict] /\ logOrder = [n \in Logs |-> <<>>]
  /\ notified = FALSE /\ load = "free"
  /\ activities = SeedActivities /\ activityOrder = SeedOrder
  /\ draws = SeedDraws /\ drawn = [t \in Threads |-> None]
  /\ exported = None /\ snapshot = None

\* create draws the id of a new activity, outside the store's lock.
NewId(t) ==
  /\ drawn[t] = None /\ draws + 1 \in Ids
  /\ draws' = draws + 1
  /\ drawn' = [drawn EXCEPT ![t] = draws + 1]
  /\ UNCHANGED <<vars, exported, snapshot>>

\* new_id for a record of another collection.
NewOtherId ==
  /\ draws + 1 \in Ids
  /\ draws' = draws + 1
  /\ UNCHANGED <<vars, drawn, exported, snapshot>>

\* create: the activity built from the drawn id is appended.
AppendDrawn(t, r) ==
  /\ drawn[t] # None
  /\ AppendActivity(drawn[t], r)
  /\ drawn' = [drawn EXCEPT ![t] = None]
  /\ UNCHANGED <<load, draws, exported, snapshot>>

\* generate_all: reseed, clear_all, seed.
GenerateAll ==
  /\ activities' = SeedActivities /\ activityOrder' = SeedOrder
  /\ draws' = SeedDraws /\ Notify
  /\ UNCHANGED <<capped, logVars, load, drawn, exported, snapshot>>

\* export_state for a client reads one collection after the other, without
\* the store's lock: the activities among the first, their order last.
ExportActivities ==
  /\ exported = None
  /\ exported' = activities
  /\ UNCHANGED <<vars, draws, drawn, snapshot>>

ExportOrder ==
  /\ exported # None
  /\ snapshot' = <<exported, activityOrder>> /\ exported' = None
  /\ UNCHANGED <<vars, draws, drawn>>

\* _do_save: the saver's export, inside the lock.
ExportLocked ==
  /\ snapshot' = <<activities, activityOrder>>
  /\ UNCHANGED <<vars, draws, drawn, exported>>

\* _load_snapshot, under the lock: clear_all, save each record,
\* set_activity_order.
LoadSnapshot ==
  /\ snapshot # None
  /\ activities' = snapshot[1] /\ activityOrder' = snapshot[2]
  /\ UNCHANGED <<capped, logVars, load>>

ImportState ==
  /\ LoadSnapshot /\ Notify
  /\ UNCHANGED <<draws, drawn, exported, snapshot>>

\* A new process: _rng starts from its seed; the snapshot is loaded with no
\* listener registered yet, and nothing is seeded.
Restart ==
  /\ LoadSnapshot /\ notified' = FALSE
  /\ draws' = 0 /\ drawn' = [t \in Threads |-> None] /\ exported' = None
  /\ UNCHANGED snapshot

IdNext ==
  \/ \E t \in Threads : NewId(t) \/ \E r \in Records : AppendDrawn(t, r)
  \/ NewOtherId \/ GenerateAll \/ ImportState \/ Restart
  \/ ExportActivities \/ ExportOrder \/ ExportLocked

IdSpec == IdInit /\ [][IdNext]_idVars
=============================================================================
