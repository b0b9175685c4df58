---------------------------- MODULE Credentials -----------------------------
(***************************************************************************)
(* What a client is issued and for how long it is accepted: Splunk session *)
(* keys (idle time), Elasticsearch access and refresh tokens (twenty       *)
(* minutes, a day, one refresh), and the Falcon, Defender, Graph and       *)
(* Sentinel bearer tokens (an expiry and a day's grace).  Lifetimes are    *)
(* enforced at use, by the sweep and before a reset, which carries what is *)
(* left over to the new data set.  A key or token is its number in the     *)
(* order of issue, so the oldest record of a collection at its cap is the  *)
(* one with the least.                                                     *)
(*                                                                         *)
(* The handlers and the sweep are coroutines without an await between      *)
(* their store calls, and a reset holds the store's lock: each is a step.  *)
(***************************************************************************)
EXTENDS Clock, Dicts

CONSTANTS Users,
          SessionCap, BearerCap, TokenCap,  \* CAPS of the collections
          SessionTTL,     \* _SESSION_TTL_SECONDS
          TokenLife,      \* TOKEN_LIFETIME_SECONDS
          DocumentLife,   \* TOKEN_DOCUMENT_LIFETIME_SECONDS
          BearerLife,     \* expires_in of a bearer token
          Grace,          \* EXPIRED_TOKEN_GRACE_SECONDS
          MaxSessions, MaxBearers, MaxTokens  \* bounds on what is ever issued

ASSUME CredentialsAssumption ==
  /\ SessionTTL \in Nat /\ TokenLife \in Nat /\ BearerLife \in Nat /\ Grace \in Nat
  /\ DocumentLife \in Nat /\ TokenLife < DocumentLife
  /\ MaxSessions \in Nat /\ MaxBearers \in Nat /\ MaxTokens \in Nat
  /\ SessionCap \in Nat \ {0} /\ BearerCap \in Nat \ {0} /\ TokenCap \in Nat \ {0}

VARIABLES
  sessions,  \* splunk_sessions: key -> when last used
  bearers,   \* one of the four bearer collections: token -> when it expires
  access,    \* es_tokens: number -> user, created_at, invalidated
  refresh,   \* es_refresh_tokens: number -> the same, whether it was traded, and
             \* its place in the dict's order
  usedAt,    \* when each session key was last accepted (history)
  expiry,    \* when each bearer token was said to expire (history)
  lineage,   \* per token document: its user, what it was traded for, the
             \* grant it descends from, its expiry (history)
  revoked    \* per user: the documents minted when all were revoked (history)

credVars == <<sessions, bearers, access, refresh, usedAt, expiry, lineage, revoked>>

CredInit ==
  /\ sessions = EmptyDict /\ bearers = EmptyDict
  /\ access = EmptyDict /\ refresh = EmptyDict
  /\ usedAt = <<>> /\ expiry = <<>>
  /\ lineage = <<>> /\ revoked = [u \in Users |-> 0]

-----------------------------------------------------------------------------
(* Splunk sessions                                                         *)

SessionExpired(k) == now - sessions[k] > SessionTTL

CreateSession ==
  /\ Len(usedAt) < MaxSessions
  /\ sessions' = Saved(sessions, Len(usedAt) + 1, now, SessionCap, First(sessions))
  /\ usedAt' = Append(usedAt, now)
  /\ UNCHANGED <<bearers, access, refresh, expiry, lineage, revoked>>

\* _resolve_session: a use restarts the idle clock; an expired key is dropped.
ResolveSession(k) ==
  /\ k \in DOMAIN sessions
  /\ \/ /\ SessionExpired(k) /\ sessions' = Pop(sessions, {k}) /\ UNCHANGED usedAt
     \/ /\ ~SessionExpired(k)
        /\ sessions' = Put(sessions, k, now) /\ usedAt' = [usedAt EXCEPT ![k] = now]
  /\ UNCHANGED <<bearers, access, refresh, expiry, lineage, revoked>>

-----------------------------------------------------------------------------
(* Elasticsearch tokens                                                    *)

Spent(t) == t.invalidated \/ t.created + TokenLife <= now
DocumentExpired(t) == now > t.created + DocumentLife

\* _mint, from a grant of its own (parent 0) or in exchange for a refresh
\* token.
Mint(u, parent) ==
  LET i == Len(lineage) + 1
      root == IF parent = 0 THEN i ELSE lineage[parent].root
      doc == [user |-> u, created |-> now, invalidated |-> FALSE]
  IN  /\ i <= MaxTokens
      /\ access' = Saved(access, i, doc, TokenCap, First(access))
      /\ lineage' = Append(lineage, [user |-> u, parent |-> parent, root |-> root,
                                     expires |-> now + TokenLife])

\* ... and the refresh token of the pair, with the place it takes.
Fresh(u) == [user |-> u, created |-> now, invalidated |-> FALSE, traded |-> FALSE,
             place |-> 2 * (Len(lineage) + 1)]

Longest(d) == CHOOSE k \in DOMAIN d : \A x \in DOMAIN d : d[k].place <= d[x].place

SavedRefresh(d, k, v) == Saved(d, k, v, TokenCap, Longest(d))

MintedRefresh(u) == SavedRefresh(refresh, Len(lineage) + 1, Fresh(u))

\* create_token: the password grant comes with a refresh token, the client
\* credentials grant does not.
CreateToken(u, withRefresh) ==
  /\ Mint(u, 0) /\ refresh' = IF withRefresh THEN MintedRefresh(u) ELSE refresh
  /\ UNCHANGED <<sessions, bearers, usedAt, expiry, revoked>>

\* What _refresh saves over the token it trades, once the new pair is saved.
\* If that was at the cap and dropped the token itself, it comes back, behind
\* the new one.
Marked(d, i) ==
  [refresh[i] EXCEPT !.traded = TRUE,
                     !.place = IF i \in DOMAIN d THEN @ ELSE 2 * (Len(lineage) + 1) + 1]

Trade(i) ==
  LET minted == MintedRefresh(refresh[i].user)
  IN  /\ Mint(refresh[i].user, i)
      /\ refresh' = SavedRefresh(minted, i, Marked(minted, i))
      /\ UNCHANGED <<sessions, bearers, usedAt, expiry, revoked>>

\* Mutant: a second refresh past the reuse window mints again.
RefreshAgain(i) ==
  /\ i \in DOMAIN refresh /\ ~refresh[i].invalidated /\ ~DocumentExpired(refresh[i])
  /\ Trade(i)

\* _refresh.  A token already traded answers the pair it was traded for, for
\* thirty seconds, and then not at all: neither changes anything.
RefreshToken(i) ==
  /\ i \in DOMAIN refresh /\ ~refresh[i].invalidated /\ ~DocumentExpired(refresh[i])
  /\ ~refresh[i].traded /\ Trade(i)

Invalidated(tokens, S) ==
  [i \in DOMAIN tokens |-> IF i \in S THEN [tokens[i] EXCEPT !.invalidated = TRUE]
                                      ELSE tokens[i]]

\* invalidate_token: one access token or one refresh token.
InvalidateToken(i) ==
  /\ \/ i \in DOMAIN access /\ access' = Invalidated(access, {i}) /\ UNCHANGED refresh
     \/ i \in DOMAIN refresh /\ refresh' = Invalidated(refresh, {i}) /\ UNCHANGED access
  /\ UNCHANGED <<sessions, bearers, usedAt, expiry, lineage, revoked>>

OfUsers(tokens, us) == {i \in DOMAIN tokens : tokens[i].user \in us}

\* Mutant: a user's access tokens are revoked, the refresh tokens live on.
InvalidateAccessOnly(us) ==
  /\ access' = Invalidated(access, OfUsers(access, us))
  /\ revoked' = [u \in Users |-> IF u \in us THEN Len(lineage) ELSE revoked[u]]
  /\ UNCHANGED <<sessions, bearers, refresh, usedAt, expiry, lineage>>

\* _invalidate_all: a user's, or everyone's.
InvalidateAll(us) ==
  /\ access' = Invalidated(access, OfUsers(access, us))
  /\ refresh' = Invalidated(refresh, OfUsers(refresh, us))
  /\ revoked' = [u \in Users |-> IF u \in us THEN Len(lineage) ELSE revoked[u]]
  /\ UNCHANGED <<sessions, bearers, usedAt, expiry, lineage>>

-----------------------------------------------------------------------------
(* Bearer tokens                                                           *)

IssueBearer ==
  /\ Len(expiry) < MaxBearers
  /\ bearers' = Saved(bearers, Len(expiry) + 1, now + BearerLife, BearerCap, First(bearers))
  /\ expiry' = Append(expiry, now + BearerLife)
  /\ UNCHANGED <<sessions, access, refresh, usedAt, lineage, revoked>>

-----------------------------------------------------------------------------
(* Sweep and reset                                                         *)

ReapSessions == Pop(sessions, {k \in DOMAIN sessions : SessionExpired(k)})

\* Mutant: a token document goes with its access token.
ReapTokensSpent(tokens) ==
  Pop(tokens, {i \in DOMAIN tokens : now >= tokens[i].created + TokenLife})

ReapTokens(tokens) == Pop(tokens, {i \in DOMAIN tokens : DocumentExpired(tokens[i])})

ReapBearers == Pop(bearers, {b \in DOMAIN bearers : now > bearers[b] + Grace})

\* Mutant: the list of what a reset carries over lacks the sessions.
PreservedWithoutSessions == {"bearers", "es_tokens", "es_refresh_tokens"}

\* The collections a reset carries over, each after its sweep.
PreservedAcrossReset == {"bearers", "splunk_sessions", "es_tokens", "es_refresh_tokens"}

Carried(name, d) == IF name \in PreservedAcrossReset THEN d ELSE EmptyDict

SweepCredentials ==
  /\ sessions' = ReapSessions /\ bearers' = ReapBearers
  /\ access' = ReapTokens(access) /\ refresh' = ReapTokens(refresh)
  /\ UNCHANGED <<usedAt, expiry, lineage, revoked>>

ResetCredentials ==
  /\ sessions' = Carried("splunk_sessions", ReapSessions)
  /\ bearers' = Carried("bearers", ReapBearers)
  /\ access' = Carried("es_tokens", ReapTokens(access))
  /\ refresh' = Carried("es_refresh_tokens", ReapTokens(refresh))
  /\ UNCHANGED <<usedAt, expiry, lineage, revoked>>

SessionsNext == CreateSession \/ \E k \in 1..Len(usedAt) : ResolveSession(k)

TokensNext ==
  \/ \E u \in Users : InvalidateAll({u}) \/ \E w \in BOOLEAN : CreateToken(u, w)
  \/ InvalidateAll(Users)
  \/ \E i \in 1..Len(lineage) : RefreshToken(i) \/ InvalidateToken(i)

BearersNext == IssueBearer

-----------------------------------------------------------------------------
(* What authentication answers                                             *)

SessionAccepted(k) == k \in DOMAIN sessions /\ ~SessionExpired(k)

AccessAccepted(i) == i \in DOMAIN access /\ ~Spent(access[i])

RefreshAccepted(i) == /\ i \in DOMAIN refresh /\ ~refresh[i].invalidated
                      /\ ~DocumentExpired(refresh[i])

BearerAccepted(b) == b \in DOMAIN bearers /\ ~(now > bearers[b])

\* What is accepted now: the verdicts a sweep must leave alone.
CredAccepted ==
  [sessions |-> {k \in 1..Len(usedAt) : SessionAccepted(k)},
   access   |-> {i \in 1..Len(lineage) : AccessAccepted(i)},
   refresh  |-> {i \in 1..Len(lineage) : RefreshAccepted(i)},
   bearers  |-> {b \in 1..Len(expiry) : BearerAccepted(b)}]

CredTypeOK ==
  /\ DOMAIN sessions \subseteq 1..Len(usedAt) /\ \A k \in DOMAIN sessions : sessions[k] \in Times
  /\ DOMAIN bearers \subseteq 1..Len(expiry)
  /\ DOMAIN access \subseteq 1..Len(lineage) /\ DOMAIN refresh \subseteq 1..Len(lineage)
  /\ \A i \in DOMAIN refresh : refresh[i].traded => \E j \in 1..Len(lineage) :
                                                      lineage[j].parent = i
  /\ Len(lineage) <= MaxTokens

\* What was issued is accepted for as long as was promised, whatever sweeps
\* and resets come between, until as many have been issued after it as the
\* collection holds: a session used within its timeout, a bearer token until
\* it expires (splunk_auth.py 43-51, dev/commands.py 351-360, store.py 292).
\* An access token may be revoked, and is accepted until then.
CredStaysUsable ==
  /\ \A k \in 1..Len(usedAt) :
       now - usedAt[k] <= SessionTTL /\ Len(usedAt) - k < SessionCap => SessionAccepted(k)
  /\ \A b \in 1..Len(expiry) :
       now <= expiry[b] /\ Len(expiry) - b < BearerCap => BearerAccepted(b)
  /\ \A i \in 1..Len(lineage) :
       now < lineage[i].expires /\ Len(lineage) - i < TokenCap => i \in DOMAIN access

\* Once a user's tokens are revoked, nothing that descends from them is ever
\* accepted, neither the tokens themselves nor one traded for them later
\* (es_auth.py, _invalidate_all: "its refresh token goes with it").
RevokedStaysRevoked ==
  \A i \in 1..Len(lineage) :
    AccessAccepted(i) \/ RefreshAccepted(i) =>
      lineage[i].root > revoked[lineage[i].user]

\* A refresh token is traded once: no two pairs come from the same one
\* (es_auth.py, _refresh: "Trade a refresh token for a new pair, once").
RefreshedOnce ==
  \A i, j \in 1..Len(lineage) :
    lineage[i].parent = lineage[j].parent /\ lineage[i].parent # 0 => i = j

=============================================================================
