---------------------------- MODULE MCDocuments -----------------------------
(* Small instance of Documents: two clients that replace one document.     *)
EXTENDS Documents

=============================================================================
