----------------------------- MODULE MCServices -----------------------------
(* Small instance of Services: lifetimes of one to three ticks, so that    *)
(* each can end before, at and after a use, a sweep or a reset, and caps   *)
(* that one client too many reaches.  The pollers are alike.               *)
EXTENDS Services, TLC

Symmetry == Permutations(Pollers)

=============================================================================
