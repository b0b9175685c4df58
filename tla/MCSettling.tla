----------------------------- MODULE MCSettling -----------------------------
(* Settling, instantiated by Settling.cfg and SettlingRace.cfg.            *)
EXTENDS Settling
=============================================================================
