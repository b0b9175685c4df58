----------------------------- MODULE BoundedLog -----------------------------
(***************************************************************************)
(* What a newest-first log of the store promises its readers: a sequence   *)
(* of records that grows only at the front, forgets only at the back and   *)
(* only past its bound, and is otherwise emptied as a whole.  A load takes *)
(* it out of use: it reads empty until the loaded log replaces it.         *)
(***************************************************************************)
EXTENDS Dicts

CONSTANTS Entries,  \* what may be logged
          Bound     \* the most entries the log keeps

VARIABLES log,      \* the entries, newest first
          loading   \* another log is being loaded in its place

Init == log = <<>> /\ loading = FALSE

Push(e) == log' = PushFront(log, e, Bound) /\ UNCHANGED loading

Empty == log' = <<>> /\ UNCHANGED loading

Begin == log' = <<>> /\ loading' = TRUE

Loaded == \E n \in 0..Bound : log' \in [1..n -> Entries] /\ loading' = FALSE

Next ==
  \/ ~loading /\ (Empty \/ Begin \/ \E e \in Entries : Push(e))
  \/ loading /\ Loaded

Spec == Init /\ [][Next]_<<log, loading>>
=============================================================================
