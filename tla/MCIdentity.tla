----------------------------- MODULE MCIdentity -----------------------------
(* Identity with a generator of four ids; the seeding draws two of them,   *)
(* the second for an activity.                                             *)
EXTENDS Identity
=============================================================================
