--------------------------- MODULE SearchContexts ---------------------------
(***************************************************************************)
(* Scroll and point-in-time contexts of the Elasticsearch mount            *)
(* (backend/application/es_search/queries.py).  A context lives for its    *)
(* keep-alive after its last use, and each use may give it another; what a *)
(* page holds is data.  A client waits for one page before it asks for the *)
(* next, so a use is one step.                                             *)
(***************************************************************************)
EXTENDS Clock, Dicts

CONSTANTS KeepAlives,
          ContextCap,   \* CAPS["es_search_contexts"]
          MaxContexts   \* bound on the contexts ever opened

ASSUME ContextsAssumption ==
  KeepAlives \subseteq Nat /\ ContextCap \in Nat \ {0} /\ MaxContexts \in Nat

VARIABLES
  contexts,   \* es_search_contexts: number -> keep_alive, accessed_at
  opened,     \* how many were ever opened; an id is its number (history)
  contextUse  \* id -> the last accepted use and the keep-alive it left (history)

contextVars == <<contexts, opened, contextUse>>

ContextsInit == contexts = EmptyDict /\ opened = 0 /\ contextUse = EmptyDict

ContextExpired(c) == c.keepAlive # None /\ now > c.accessed + c.keepAlive

UsedNow(alive) == [keepAlive |-> alive, accessed |-> now]

\* open_context: a scroll, or a point in time; no keep-alive is no limit.
OpenContext(alive) ==
  /\ opened < MaxContexts /\ opened' = opened + 1
  /\ contexts' = Saved(contexts, opened + 1, UsedNow(alive), ContextCap, First(contexts))
  /\ contextUse' = Put(contextUse, opened + 1, UsedNow(alive))

\* _live_context, through scroll and context_index: an absent or unreadable
\* keep-alive leaves the one there is.
UseContext(id, alive) ==
  LET renewed == IF alive = None THEN contexts[id].keepAlive ELSE alive
  IN  /\ id \in DOMAIN contexts
      /\ \/ /\ ContextExpired(contexts[id])
            /\ contexts' = Pop(contexts, {id}) /\ UNCHANGED contextUse
         \/ /\ ~ContextExpired(contexts[id])
            /\ contexts' = Put(contexts, id, UsedNow(renewed))
            /\ contextUse' = Put(contextUse, id, UsedNow(renewed))
      /\ UNCHANGED opened

CloseContext(id) ==
  /\ id \in DOMAIN contexts
  /\ contexts' = Pop(contexts, {id}) /\ contextUse' = Pop(contextUse, {id})
  /\ UNCHANGED opened

ReapContexts ==
  /\ contexts' = Pop(contexts, {id \in DOMAIN contexts : ContextExpired(contexts[id])})
  /\ UNCHANGED <<opened, contextUse>>

\* A reset clears the collection and carries nothing over.
ResetContexts == contexts' = EmptyDict /\ contextUse' = EmptyDict /\ UNCHANGED opened

ContextsNext ==
  \/ \E alive \in KeepAlives \union {None} :
       OpenContext(alive) \/ \E id \in 1..opened : UseContext(id, alive)
  \/ \E id \in 1..opened : CloseContext(id)

ContextAccepted(id) == id \in DOMAIN contexts /\ ~ContextExpired(contexts[id])

ContextsAccepted == {id \in 1..opened : ContextAccepted(id)}

ContextsTypeOK ==
  /\ DOMAIN contexts \subseteq DOMAIN contextUse /\ DOMAIN contextUse \subseteq 1..opened
  /\ \A id \in DOMAIN contexts :
       contexts[id] \in [keepAlive : KeepAlives \union {None}, accessed : Times]

\* A context used within its keep-alive is still there (queries.py, "A search
\* context lives for its keep-alive after it was last used"), until as many
\* were opened after it as the collection holds (store.py 292).
ContextsStayUsable ==
  \A id \in DOMAIN contextUse :
    /\ opened - id < ContextCap
    /\ \/ contextUse[id].keepAlive = None
       \/ now <= contextUse[id].accessed + contextUse[id].keepAlive
    => ContextAccepted(id)

=============================================================================
