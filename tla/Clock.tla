------------------------------- MODULE Clock --------------------------------
(***************************************************************************)
(* The clock the lifetimes are measured with.  Whole ticks are enough: the *)
(* code compares moments, and never reads one twice and expects it to have *)
(* moved.                                                                  *)
(***************************************************************************)
EXTENDS Naturals

CONSTANTS MaxTime,  \* bound on the clock
          None      \* no date, no value

ASSUME ClockAssumption == MaxTime \in Nat \ {0} /\ None \notin Nat

VARIABLE now        \* time.time(), time.monotonic()

Times == 1..MaxTime

\* "or 0" and "is not None" tests take the epoch for no date: nothing happens
\* at 0.
ClockInit == now = 1
=============================================================================
