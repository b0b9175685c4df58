------------------------------ MODULE MCStore -------------------------------
(***************************************************************************)
(* Store with three ids and two records against caps of two, so that every *)
(* cap is reached and passed.  Ids and records are interchangeable, and    *)
(* only safety is checked, so their permutations are symmetries.           *)
(***************************************************************************)
EXTENDS Store, TLC

Symmetry == Permutations(Ids) \cup Permutations(Records)
=============================================================================
