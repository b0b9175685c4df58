----------------------------- MODULE Documents ------------------------------
(***************************************************************************)
(* Documents written to an index of the Elasticsearch mount                *)
(* (backend/application/es_search/queries.py and its router): the document *)
(* records, the registry entry that counts them and hands out sequence     *)
(* numbers, conditional writes, near-real-time visibility and refresh.     *)
(* One index; a document's source and version are data.                    *)
(*                                                                         *)
(* A write is several store calls on a thread of its own and holds no lock *)
(* over them: each call is a step, and Overlap says whether another write  *)
(* may come between.  A refused write changes nothing and is left out.     *)
(* Refresh, delete by query and the index operations run by themselves.    *)
(*                                                                         *)
(* Both collections are capped and shared with the other indices: whether  *)
(* a save finds its collection at the cap, and whether the oldest record   *)
(* is this index's, depends on them and is left open.                      *)
(***************************************************************************)
EXTENDS Integers, Sequences, FiniteSets, Dicts

CONSTANTS DocIds, Writers,
          Ops,        \* the operations clients use
          Overlap,    \* may writes overlap?
          MaxWrites,  \* bound on writes
          Nothing     \* no entry, no record, no precondition

ASSUME DocumentsAssumption ==
  /\ Ops \subseteq {"index", "create", "update", "scripted_delete", "delete",
                    "bulk_create", "bulk_delete"}
  /\ Overlap \in BOOLEAN /\ MaxWrites \in Nat /\ Nothing \notin [count : Nat, seq : Nat]

VARIABLES
  docs,    \* es_documents of the index: id -> seq, pending, deleted
  entry,   \* its es_indices entry: count, seq; or Nothing
  writer,  \* each write under way: the calls it has left and what it has read
  writes,
  dropped, \* how many of its documents the cap has dropped (history)
  lost,    \* has the cap dropped its entry? (history)
  acked,   \* <<id, if_seq_no>> of the conditional writes acknowledged (history)
  twice    \* those acknowledged to more than one client (history)

docVars == <<docs, entry, writer, writes, dropped, lost, acked, twice>>

Resting == [op |-> Nothing, calls |-> <<>>]

DocsInit ==
  /\ docs = EmptyDict /\ entry = Nothing /\ writes = 0 /\ acked = {} /\ twice = {}
  /\ dropped = 0 /\ lost = FALSE
  /\ writer = [w \in Writers |-> Resting]

DocsQuiet == \A w \in Writers : writer[w] = Resting

NewEntry == [count |-> 0, seq |-> 0]
EntryOr(e) == IF e = Nothing THEN NewEntry ELSE e

Present(id) == id \in DOMAIN docs
Found(id) == Present(id) /\ ~docs[id].deleted   \* what a get by id finds
SeqNoOf(id) == IF Present(id) THEN docs[id].seq ELSE -1

-----------------------------------------------------------------------------
(* A write, call by call                                                   *)

Conditional == {"index", "update", "scripted_delete", "delete"}

\* check_precondition, for the operations that take one, and what each kind
\* of create refuses over: a bulk create also over a record marked deleted.
Precondition(op, id, cond) ==
  /\ cond # Nothing => op \in Conditional /\ Present(id) /\ SeqNoOf(id) = cond
  /\ op = "create" => ~Found(id)
  /\ op = "bulk_create" => ~Present(id)

Begin(w, op, id, cond, visible) ==
  /\ writer[w] = Resting /\ (Overlap \/ DocsQuiet)
  /\ writes < MaxWrites /\ writes' = writes + 1
  /\ Precondition(op, id, cond)
  /\ writer' = [writer EXCEPT ![w] =
       [op |-> op, calls |-> <<"get">>, id |-> id, cond |-> cond, visible |-> visible,
        held |-> Nothing, seq |-> 0]]
  /\ UNCHANGED <<docs, entry, dropped, lost, acked, twice>>

\* Mutant: an unrefreshed delete is counted at once.
CallsCountingMarks(w) ==
  LET op == writer[w].op
      present == Present(writer[w].id)
  IN  CASE op \in {"index", "create", "bulk_create", "update"} ->
             IF present THEN <<"read", "seq", "put">>
                        ELSE <<"read", "seq", "put", "read", "count+">>
        [] op = "scripted_delete" ->
             IF present THEN <<"drop", "read", "count-", "read", "seq">> ELSE <<>>
        [] op \in {"delete", "bulk_delete"} ->
             IF Found(writer[w].id)
             THEN IF writer[w].visible THEN <<"drop", "read", "count-">>
                                       ELSE <<"mark", "read", "count-">>
             ELSE IF op = "bulk_delete" THEN <<"read", "seq">> ELSE <<>>

\* What es_index_doc, es_update_doc (with an upsert, or a script that deletes),
\* es_delete_doc and the bulk delete go on to do once they have read the
\* document.  _next_seq_no and _count_document each read the entry and save
\* it whole.
Calls(w) ==
  LET op == writer[w].op
      present == Present(writer[w].id)
  IN  CASE op \in {"index", "create", "bulk_create", "update"} ->
             IF present THEN <<"read", "seq", "put">>
                        ELSE <<"read", "seq", "put", "read", "count+">>
        [] op = "scripted_delete" ->
             IF present THEN <<"drop", "read", "count-", "read", "seq">> ELSE <<>>
        [] op \in {"delete", "bulk_delete"} ->
             IF Found(writer[w].id)
             THEN IF writer[w].visible THEN <<"drop", "read", "count-">> ELSE <<"mark">>
             ELSE IF op = "bulk_delete" THEN <<"read", "seq">> ELSE <<>>

At(w, call) == writer[w].calls # <<>> /\ Head(writer[w].calls) = call

\* The call is made; after the last one the client is answered.
Goes(w, moved) ==
  LET done == Tail(writer[w].calls) = <<>>
      claim == {<<writer[w].id, writer[w].cond>>}
  IN  /\ writer' = [writer EXCEPT ![w] =
           IF done THEN Resting ELSE [moved EXCEPT !.calls = Tail(@)]]
      /\ IF done /\ writer[w].cond # Nothing
         THEN acked' = acked \union claim /\ twice' = twice \union (acked \intersect claim)
         ELSE UNCHANGED <<acked, twice>>
      /\ UNCHANGED <<writes, lost>>

\* A document that is not there to delete is answered "not_found".
Get(w) ==
  /\ At(w, "get")
  /\ writer' = [writer EXCEPT ![w] =
       IF Calls(w) = <<>> THEN Resting
       ELSE [@ EXCEPT !.calls = Calls(w),
                      !.held = IF Present(writer[w].id) THEN docs[writer[w].id]
                               ELSE Nothing]]
  /\ UNCHANGED <<docs, entry, writes, dropped, lost, acked, twice>>

ReadEntry(w) ==
  /\ At(w, "read")
  /\ Goes(w, [writer[w] EXCEPT !.held = EntryOr(entry)])
  /\ UNCHANGED <<docs, entry, dropped>>

TakeSeqNo(w) ==
  /\ At(w, "seq")
  /\ entry' = [writer[w].held EXCEPT !.seq = @ + 1]
  /\ Goes(w, [writer[w] EXCEPT !.seq = writer[w].held.seq])
  /\ UNCHANGED <<docs, dropped>>

\* What a save of a new document may drop: nothing, or one of these.
Droppable(id) == {{}} \union (IF Present(id) THEN {} ELSE {{x} : x \in DOMAIN docs})

\* An update writes neither mark: the document is searchable at once, and one
\* marked deleted is back.
PutDocument(w, drop) ==
  /\ At(w, "put") /\ drop \in Droppable(writer[w].id)
  /\ docs' = Put(Pop(docs, drop), writer[w].id,
       [seq |-> writer[w].seq, deleted |-> FALSE,
        pending |-> writer[w].op # "update" /\ ~writer[w].visible])
  /\ dropped' = dropped + Cardinality(drop)
  /\ Goes(w, writer[w]) /\ UNCHANGED entry

\* ... over the record the get answered.
MarkDeleted(w) ==
  /\ At(w, "mark")
  /\ docs' = Put(docs, writer[w].id, [writer[w].held EXCEPT !.deleted = TRUE])
  /\ Goes(w, writer[w]) /\ UNCHANGED <<entry, dropped>>

DropDocument(w) ==
  /\ At(w, "drop")
  /\ docs' = Pop(docs, {writer[w].id})
  /\ Goes(w, writer[w]) /\ UNCHANGED <<entry, dropped>>

Less(count, n) == IF count > n THEN count - n ELSE 0

CountDocument(w) ==
  /\ \/ At(w, "count+") /\ entry' = [writer[w].held EXCEPT !.count = @ + 1]
     \/ At(w, "count-") /\ entry' = [writer[w].held EXCEPT !.count = Less(@, 1)]
  /\ Goes(w, writer[w]) /\ UNCHANGED <<docs, dropped>>

-----------------------------------------------------------------------------
(* The whole index                                                         *)

\* A document of another index is saved and drops one of this one's ...
OtherDocument(id) ==
  /\ Overlap \/ DocsQuiet
  /\ Present(id) /\ docs' = Pop(docs, {id}) /\ dropped' = dropped + 1
  /\ UNCHANGED <<entry, writer, writes, lost, acked, twice>>

\* ... or the entry of another index drops this one's.
OtherIndex ==
  /\ Overlap \/ DocsQuiet
  /\ entry # Nothing /\ entry' = Nothing /\ lost' = TRUE
  /\ UNCHANGED <<docs, writer, writes, dropped, acked, twice>>

CreateIndex ==
  /\ DocsQuiet /\ entry = Nothing /\ entry' = NewEntry
  /\ UNCHANGED <<docs, writer, writes, dropped, lost, acked, twice>>

\* The documents, then the entry: the numbers start again, and what was
\* written under the old ones is another index's.
DeleteIndex ==
  /\ DocsQuiet /\ entry # Nothing /\ entry' = Nothing
  /\ docs' = EmptyDict /\ dropped' = 0 /\ lost' = FALSE /\ acked' = {}
  /\ UNCHANGED <<writer, writes, twice>>

\* A reset empties both collections.
ResetDocuments ==
  /\ DocsQuiet /\ docs' = EmptyDict /\ entry' = Nothing /\ acked' = {}
  /\ dropped' = 0 /\ lost' = FALSE /\ UNCHANGED <<writer, writes, twice>>

\* _written_documents: an entry that counts nothing is not looked behind.
Searchable ==
  IF entry = Nothing \/ EntryOr(entry).count = 0 THEN {}
  ELSE {id \in DOMAIN docs : ~docs[id].pending}

Removed(S) ==
  entry' = IF S = {} THEN entry
           ELSE [EntryOr(entry) EXCEPT !.count = Less(@, Cardinality(S))]

RefreshIndex ==
  LET gone == {id \in DOMAIN docs : docs[id].deleted}
  IN  /\ DocsQuiet /\ Removed(gone)
      /\ docs' = [id \in DOMAIN docs \ gone |-> [docs[id] EXCEPT !.pending = FALSE]]
      /\ UNCHANGED <<writer, writes, dropped, lost, acked, twice>>

DeleteByQuery(S) ==
  /\ DocsQuiet /\ S # {} /\ S \subseteq Searchable
  /\ docs' = Pop(docs, S) /\ Removed(S)
  /\ UNCHANGED <<writer, writes, dropped, lost, acked, twice>>

DocsNext ==
  \/ \E w \in Writers :
       \/ \E op \in Ops, id \in DocIds, visible \in BOOLEAN,
             cond \in 0..MaxWrites - 1 \union {Nothing} : Begin(w, op, id, cond, visible)
       \/ \E drop \in {{}} \union {{id} : id \in DocIds} : PutDocument(w, drop)
       \/ Get(w) \/ ReadEntry(w) \/ TakeSeqNo(w)
       \/ MarkDeleted(w) \/ DropDocument(w) \/ CountDocument(w)
  \/ \E id \in DocIds : OtherDocument(id)
  \/ OtherIndex \/ CreateIndex \/ DeleteIndex \/ RefreshIndex
  \/ \E S \in SUBSET DocIds : DeleteByQuery(S)

DocsSpec == DocsInit /\ [][DocsNext]_docVars

-----------------------------------------------------------------------------

DocsTypeOK ==
  /\ DOMAIN docs \subseteq DocIds
  /\ \A id \in DOMAIN docs : docs[id] \in [seq : 0..MaxWrites, pending : BOOLEAN, deleted : BOOLEAN]
  /\ entry \in [count : 0..MaxWrites, seq : 0..MaxWrites] \union {Nothing}

\* After writes that did not overlap, a search finds exactly what is there and
\* refreshed: the count it trusts before it looks is the number of records and
\* of those the cap has dropped, never less, through creates, replacements,
\* marks, revivals and refreshes (queries.py, _written_documents and
\* es_delete_doc, "The count follows the search, not the get"); and no two
\* documents were written at the same sequence number (_next_seq_no).  An
\* index whose entry the cap has dropped is not promised this.
SearchAgrees ==
  DocsQuiet /\ ~lost =>
    /\ EntryOr(entry).count = Cardinality(DOMAIN docs) + dropped
    /\ Searchable = {id \in DOMAIN docs : ~docs[id].pending}
    /\ \A i, j \in DOMAIN docs : docs[i].seq = docs[j].seq => i = j

\* Of two clients that read a document and both write it on condition that it
\* has not changed, one is refused (queries.py, VersionConflictError: "without
\* the precondition both succeed and one write is lost, silently").
NoLostUpdate == twice = {}

=============================================================================
