----------------------------- MODULE MCPlaybook -----------------------------
(* Playbook, instantiated by Playbook.cfg and PlaybookReset.cfg.           *)
EXTENDS Playbook
=============================================================================
