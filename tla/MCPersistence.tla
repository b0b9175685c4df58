--------------------------- MODULE MCPersistence ----------------------------
(* Persistence, instantiated by Persistence.cfg and PersistenceFlush.cfg.  *)
EXTENDS Persistence
=============================================================================
