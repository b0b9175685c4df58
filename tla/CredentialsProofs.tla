------------------------- MODULE CredentialsProofs --------------------------
(***************************************************************************)
(* What module Credentials promises, for any numbers of tokens and users,  *)
(* any lifetimes and any caps: what store.save drops at a cap, the         *)
(* inductive invariant CredInv, that it holds initially and survives every *)
(* handler, the clock, the sweep and the reset, and what follows from it.  *)
(* Module ServicesProofs lifts this to the composition.                    *)
(***************************************************************************)
EXTENDS Credentials, FiniteSetTheorems, WellFoundedInduction, TLAPS

LEMMA EmptyEntries == DOMAIN EmptyDict = {}
  BY DEF EmptyDict

-----------------------------------------------------------------------------
(* store.save at the cap                                                   *)

\* What is saved is there; all else is as it was, but that at the cap the
\* oldest record is gone.
LEMMA SavedEntries ==
  ASSUME NEW d, NEW k, NEW v, NEW cap, NEW oldest, NEW s, s = Saved(d, k, v, cap, oldest)
  PROVE  /\ k \in DOMAIN s /\ s[k] = v
         /\ \A x \in DOMAIN s : x # k => x \in DOMAIN d /\ s[x] = d[x]
         /\ \A x \in DOMAIN d : x \notin DOMAIN s => x = oldest /\ Cardinality(DOMAIN d) >= cap
<1>1. CASE k \notin DOMAIN d /\ Cardinality(DOMAIN d) >= cap
  <2> DEFINE p == Pop(d, {oldest})
  <2>1. DOMAIN p = DOMAIN d \ {oldest} /\ \A x \in DOMAIN p : p[x] = d[x]
    BY DEF Pop, Restrict
  <2>2. s = Put(p, k, v)
    BY <1>1 DEF Saved
  <2> HIDE DEF p
  <2>3. DOMAIN s = DOMAIN p \cup {k} /\ s[k] = v /\ \A x \in DOMAIN p : x # k => s[x] = p[x]
    BY <2>2 DEF Put
  <2> QED
    BY <1>1, <2>1, <2>3
<1>2. CASE ~(k \notin DOMAIN d /\ Cardinality(DOMAIN d) >= cap)
  <2>1. s = Put(d, k, v)
    BY <1>2 DEF Saved
  <2>2. DOMAIN s = DOMAIN d \cup {k} /\ s[k] = v /\ \A x \in DOMAIN d : x # k => s[x] = d[x]
    BY <2>1 DEF Put
  <2> QED
    BY <2>2
<1> QED
  BY <1>1, <1>2

\* A dict whose keys are numbers has a first one.
LEMMA FirstKey ==
  ASSUME NEW d, DOMAIN d \subseteq Nat, DOMAIN d # {}
  PROVE  First(d) \in DOMAIN d /\ \A x \in DOMAIN d : First(d) <= x
<1>1. PICK x \in DOMAIN d : \A y \in DOMAIN d : ~(<<y, x>> \in OpToRel(<, Nat))
  BY NatLessThanWellFounded, WFMin
<1>2. \A y \in DOMAIN d : ~(y < x)
  BY <1>1 DEF OpToRel
<1>3. \A y \in DOMAIN d : x <= y
  BY <1>2
<1> QED
  BY <1>3 DEF First

\* At the cap the oldest of the records numbered 1 to n, the least, has as
\* many issued after it as the collection holds, the new one counted.
LEMMA OldestIsOld ==
  ASSUME NEW d, NEW n \in Nat, DOMAIN d \subseteq 1..n, NEW cap \in Nat \ {0},
         Cardinality(DOMAIN d) >= cap
  PROVE  First(d) \in 1..n /\ ~((n + 1) - First(d) < cap)
<1>1. IsFiniteSet(1..n)
  BY FS_Interval
<1>2. IsFiniteSet(DOMAIN d) /\ Cardinality(DOMAIN d) \in Nat
  BY <1>1, FS_Subset, FS_CardinalityType
<1>3. DOMAIN d # {}
  BY FS_EmptySet
<1>4. First(d) \in DOMAIN d /\ (\A x \in DOMAIN d : First(d) <= x) /\ First(d) \in 1..n
  BY <1>3, FirstKey
<1>5. DOMAIN d \subseteq First(d)..n
  BY <1>4
<1>6. IsFiniteSet(First(d)..n) /\ Cardinality(First(d)..n) = (n - First(d)) + 1
  BY <1>4, FS_Interval
<1>7. Cardinality(DOMAIN d) <= (n - First(d)) + 1
  BY <1>5, <1>6, FS_Subset
<1> QED
  BY <1>2, <1>4, <1>7

\* The record of the number next in order is saved, and takes the place of
\* none of the last cap - 1 before it.
LEMMA SavedNext ==
  ASSUME NEW d, NEW n \in Nat, DOMAIN d \subseteq 1..n, NEW cap \in Nat \ {0}, NEW v, NEW s,
         s = Saved(d, n + 1, v, cap, First(d))
  PROVE  /\ n + 1 \in DOMAIN s /\ s[n + 1] = v /\ DOMAIN s \subseteq 1..(n + 1)
         /\ \A x \in DOMAIN s : x # n + 1 => x \in DOMAIN d /\ s[x] = d[x]
         /\ \A x \in DOMAIN d : (n + 1) - x < cap => x \in DOMAIN s
<1>1. /\ n + 1 \in DOMAIN s /\ s[n + 1] = v
      /\ \A x \in DOMAIN s : x # n + 1 => x \in DOMAIN d /\ s[x] = d[x]
      /\ \A x \in DOMAIN d : x \notin DOMAIN s => x = First(d) /\ Cardinality(DOMAIN d) >= cap
  BY SavedEntries
<1>2. DOMAIN s \subseteq 1..(n + 1)
  BY <1>1
<1>3. \A x \in DOMAIN d : (n + 1) - x < cap => x \in DOMAIN s
  BY <1>1, OldestIsOld
<1> QED
  BY <1>1, <1>2, <1>3

-----------------------------------------------------------------------------
(* The inductive invariant                                                 *)

\* A session is dated by its last accepted use, and is gone only once that
\* use is out of date or as many sessions were created after it as the
\* collection holds.
SessionsFollowUse ==
  /\ usedAt \in Seq(Times) /\ DOMAIN sessions \subseteq 1..Len(usedAt)
  /\ \A k \in DOMAIN sessions : sessions[k] = usedAt[k]
  /\ \A k \in 1..Len(usedAt) :
       now - usedAt[k] <= SessionTTL /\ Len(usedAt) - k < SessionCap => k \in DOMAIN sessions

\* A bearer token keeps its expiry, and is gone only after it or to the cap.
BearersFollowExpiry ==
  /\ expiry \in Seq(Nat) /\ DOMAIN bearers \subseteq 1..Len(expiry)
  /\ \A b \in DOMAIN bearers : bearers[b] = expiry[b]
  /\ \A b \in 1..Len(expiry) :
       now <= expiry[b] /\ Len(expiry) - b < BearerCap => b \in DOMAIN bearers

\* The history of the token documents: a document comes from a grant of its
\* own or from an earlier document, and no two from the same one.
Grants == [user : Users, parent : Nat, root : Nat, expires : Nat]
LineageInOrder ==
  /\ lineage \in Seq(Grants) /\ Len(lineage) <= MaxTokens
  /\ \A i \in 1..Len(lineage) : lineage[i].parent < i
  /\ revoked \in [Users -> 0..Len(lineage)]

\* A document of either collection is the one its number stands for, and an
\* access token's document lives at least as long as the token, but for the
\* cap.
AccessDocs == [user : Users, created : Nat, invalidated : BOOLEAN]
RefreshDocs == [user : Users, created : Nat, invalidated : BOOLEAN, traded : BOOLEAN,
                place : Nat]
OfLineage(tokens) ==
  /\ DOMAIN tokens \subseteq 1..Len(lineage)
  /\ \A i \in DOMAIN tokens :
       /\ tokens[i].user = lineage[i].user
       /\ tokens[i].created \in Nat /\ tokens[i].created + TokenLife = lineage[i].expires
DocumentsOfLineage ==
  /\ OfLineage(access) /\ OfLineage(refresh)
  /\ \A i \in DOMAIN access : access[i] \in AccessDocs
  /\ \A i \in DOMAIN refresh : refresh[i] \in RefreshDocs
  /\ \A i \in 1..Len(lineage) :
       now < lineage[i].expires /\ Len(lineage) - i < TokenCap => i \in DOMAIN access

\* A refresh token is marked traded exactly when a document came from it.
TradedMeansChild ==
  \A i \in DOMAIN refresh :
    refresh[i].traded <=> \E j \in 1..Len(lineage) : lineage[j].parent = i

\* A document not invalidated is of a grant made after its user's last
\* revocation.
LiveAfterRevocation ==
  /\ \A i \in DOMAIN access :
       ~access[i].invalidated => lineage[i].root > revoked[lineage[i].user]
  /\ \A i \in DOMAIN refresh :
       ~refresh[i].invalidated => lineage[i].root > revoked[lineage[i].user]

CredInv ==
  /\ SessionsFollowUse /\ BearersFollowExpiry /\ LineageInOrder /\ DocumentsOfLineage
  /\ TradedMeansChild /\ LiveAfterRevocation /\ RefreshedOnce

TokensInv ==
  LineageInOrder /\ DocumentsOfLineage /\ TradedMeansChild /\ LiveAfterRevocation /\ RefreshedOnce

-----------------------------------------------------------------------------
(* Every step                                                              *)

LEMMA CredInitially == CredInit => CredInv
<1> SUFFICES ASSUME CredInit PROVE CredInv
  OBVIOUS
<1>1. /\ DOMAIN sessions = {} /\ DOMAIN bearers = {}
      /\ DOMAIN access = {} /\ DOMAIN refresh = {}
      /\ usedAt \in Seq(Times) /\ 1..Len(usedAt) = {}
      /\ expiry \in Seq(Nat) /\ 1..Len(expiry) = {}
  BY EmptyEntries DEF CredInit
<1>2. lineage = <<>> /\ Len(lineage) = 0 /\ lineage \in Seq(Grants) /\ 1..Len(lineage) = {}
  BY DEF CredInit
<1>3. LineageInOrder
  BY <1>2, CredentialsAssumption DEF CredInit, LineageInOrder
<1> QED
  BY <1>1, <1>2, <1>3
     DEF CredInv, SessionsFollowUse, BearersFollowExpiry, DocumentsOfLineage, OfLineage,
         TradedMeansChild, LiveAfterRevocation, RefreshedOnce

\* What a step that touches no token leaves as it was.
LEMMA TokensUntouched ==
  ASSUME TokensInv, now' = now, UNCHANGED <<access, refresh, lineage, revoked>>
  PROVE  TokensInv'
  BY DEF TokensInv, LineageInOrder, DocumentsOfLineage, OfLineage, TradedMeansChild,
         LiveAfterRevocation, RefreshedOnce

LEMMA SessionsUntouched ==
  ASSUME SessionsFollowUse, now' = now, UNCHANGED <<sessions, usedAt>>
  PROVE  SessionsFollowUse'
  BY DEF SessionsFollowUse

LEMMA BearersUntouched ==
  ASSUME BearersFollowExpiry, now' = now, UNCHANGED <<bearers, expiry>>
  PROVE  BearersFollowExpiry'
  BY DEF BearersFollowExpiry

\* create_session and _resolve_session.
LEMMA SessionsStep ==
  ASSUME CredInv, now \in Times, now' = now, SessionsNext
  PROVE  CredInv'
<1> DEFINE n == Len(usedAt)
<1>1. /\ SessionsFollowUse /\ SessionTTL \in Nat /\ now \in Nat /\ n \in Nat
      /\ SessionCap \in Nat \ {0} /\ \A k \in 1..n : usedAt[k] \in Nat
  BY CredentialsAssumption, ClockAssumption DEF CredInv, SessionsFollowUse, Times
<1>2. ASSUME CreateSession PROVE SessionsFollowUse'
  <2>1. sessions' = Saved(sessions, n + 1, now, SessionCap, First(sessions))
    BY <1>2 DEF CreateSession
  <2>2. /\ usedAt' \in Seq(Times) /\ Len(usedAt') = n + 1 /\ usedAt'[n + 1] = now
        /\ \A k \in 1..n : usedAt'[k] = usedAt[k]
    BY <1>1, <1>2 DEF CreateSession, SessionsFollowUse
  <2>3. DOMAIN sessions \subseteq 1..n
    BY <1>1 DEF SessionsFollowUse
  <2> HIDE DEF n
  <2>4. /\ n + 1 \in DOMAIN sessions' /\ sessions'[n + 1] = now /\ DOMAIN sessions' \subseteq 1..(n + 1)
        /\ \A x \in DOMAIN sessions' : x # n + 1 => x \in DOMAIN sessions /\ sessions'[x] = sessions[x]
        /\ \A x \in DOMAIN sessions : (n + 1) - x < SessionCap => x \in DOMAIN sessions'
    BY <1>1, <2>1, <2>3, SavedNext
  <2>5. \A k \in DOMAIN sessions' : sessions'[k] = usedAt'[k]
    BY <1>1, <2>2, <2>3, <2>4 DEF SessionsFollowUse
  <2>6. ASSUME NEW k \in 1..(n + 1), now - usedAt'[k] <= SessionTTL, (n + 1) - k < SessionCap
        PROVE  k \in DOMAIN sessions'
    <3>1. CASE k = n + 1
      BY <2>4, <3>1
    <3>2. CASE k \in 1..n
      <4>1. now - usedAt[k] <= SessionTTL /\ n - k < SessionCap
        BY <1>1, <2>2, <2>6, <3>2
      <4>2. k \in DOMAIN sessions
        BY <1>1, <3>2, <4>1 DEF SessionsFollowUse, n
      <4> QED
        BY <2>4, <2>6, <4>2
    <3> QED
      BY <1>1, <3>1, <3>2
  <2> QED
    BY <2>2, <2>4, <2>5, <2>6 DEF SessionsFollowUse
<1>3. ASSUME NEW k \in 1..n, ResolveSession(k) PROVE SessionsFollowUse'
  <2>1. k \in DOMAIN sessions
    BY <1>3 DEF ResolveSession
  <2>2. CASE SessionExpired(k) /\ sessions' = Pop(sessions, {k}) /\ usedAt' = usedAt
    <3>1. /\ DOMAIN sessions' = DOMAIN sessions \ {k}
          /\ \A x \in DOMAIN sessions : x # k => sessions'[x] = sessions[x]
      BY <2>2 DEF Pop, Restrict
    <3>2. ~(now - usedAt[k] <= SessionTTL)
      BY <1>1, <2>1, <2>2 DEF SessionsFollowUse, SessionExpired
    <3> QED
      BY <1>1, <2>2, <3>1, <3>2 DEF SessionsFollowUse
  <2>3. CASE sessions' = Put(sessions, k, now) /\ usedAt' = [usedAt EXCEPT ![k] = now]
    <3>1. /\ DOMAIN sessions' = DOMAIN sessions /\ sessions'[k] = now
          /\ \A x \in DOMAIN sessions : x # k => sessions'[x] = sessions[x]
      BY <2>1, <2>3 DEF Put
    <3>2. /\ usedAt' \in Seq(Times) /\ Len(usedAt') = Len(usedAt) /\ usedAt'[k] = now
          /\ \A x \in 1..Len(usedAt) : x # k => usedAt'[x] = usedAt[x]
      BY <1>1, <1>3, <2>3 DEF SessionsFollowUse
    <3> QED
      BY <1>1, <2>1, <3>1, <3>2 DEF SessionsFollowUse
  <2> QED
    BY <1>3, <2>2, <2>3 DEF ResolveSession
<1>4. SessionsFollowUse'
  BY <1>2, <1>3 DEF SessionsNext
<1>5. UNCHANGED <<bearers, access, refresh, expiry, lineage, revoked>>
  BY DEF SessionsNext, CreateSession, ResolveSession
<1> QED
  BY <1>4, <1>5, BearersUntouched, TokensUntouched DEF CredInv, TokensInv

\* The four token routes that issue a bearer token.
LEMMA BearersStep ==
  ASSUME CredInv, now \in Times, now' = now, BearersNext
  PROVE  CredInv'
<1> DEFINE n == Len(expiry)
           e == now + BearerLife
<1>1. /\ BearersFollowExpiry /\ now \in Nat /\ n \in Nat /\ e \in Nat /\ BearerCap \in Nat \ {0}
  BY CredentialsAssumption, ClockAssumption DEF CredInv, BearersFollowExpiry, Times
<1>2. bearers' = Saved(bearers, n + 1, e, BearerCap, First(bearers))
  BY DEF BearersNext, IssueBearer
<1>3. /\ expiry' \in Seq(Nat) /\ Len(expiry') = n + 1 /\ expiry'[n + 1] = e
      /\ \A b \in 1..n : expiry'[b] = expiry[b]
  BY <1>1 DEF BearersNext, IssueBearer, BearersFollowExpiry
<1>4. DOMAIN bearers \subseteq 1..n
  BY <1>1 DEF BearersFollowExpiry
<1> HIDE DEF n, e
<1>5. /\ n + 1 \in DOMAIN bearers' /\ bearers'[n + 1] = e /\ DOMAIN bearers' \subseteq 1..(n + 1)
      /\ \A x \in DOMAIN bearers' : x # n + 1 => x \in DOMAIN bearers /\ bearers'[x] = bearers[x]
      /\ \A x \in DOMAIN bearers : (n + 1) - x < BearerCap => x \in DOMAIN bearers'
  BY <1>1, <1>2, <1>4, SavedNext
<1>6. \A b \in DOMAIN bearers' : bearers'[b] = expiry'[b]
  BY <1>1, <1>3, <1>4, <1>5 DEF BearersFollowExpiry
<1>7. ASSUME NEW b \in 1..(n + 1), now <= expiry'[b], (n + 1) - b < BearerCap
      PROVE  b \in DOMAIN bearers'
  <2>1. CASE b = n + 1
    BY <1>5, <2>1
  <2>2. CASE b \in 1..n
    <3>1. now <= expiry[b] /\ n - b < BearerCap
      BY <1>1, <1>3, <1>7, <2>2
    <3>2. b \in DOMAIN bearers
      BY <1>1, <2>2, <3>1 DEF BearersFollowExpiry, n
    <3> QED
      BY <1>5, <1>7, <3>2
  <2> QED
    BY <1>1, <2>1, <2>2
<1>8. BearersFollowExpiry'
  BY <1>3, <1>5, <1>6, <1>7 DEF BearersFollowExpiry
<1> QED
  BY <1>8, SessionsUntouched, TokensUntouched DEF BearersNext, IssueBearer, CredInv, TokensInv

\* Time passes: what was out of date stays so.
LEMMA CredTickStep ==
  ASSUME CredInv, now \in Times, now' = now + 1, UNCHANGED credVars
  PROVE  CredInv'
<1>1. now \in Nat
  BY ClockAssumption DEF Times
<1>2. SessionsFollowUse'
  <2>0. \A k \in 1..Len(usedAt) : usedAt[k] \in Nat
    BY ClockAssumption DEF CredInv, SessionsFollowUse, Times
  <2>1. \A k \in 1..Len(usedAt) : now' - usedAt[k] <= SessionTTL => now - usedAt[k] <= SessionTTL
    BY <1>1, <2>0, CredentialsAssumption
  <2> QED
    BY <2>1 DEF CredInv, SessionsFollowUse, credVars
<1>3. BearersFollowExpiry'
  <2>1. \A b \in 1..Len(expiry) : expiry[b] \in Nat /\ (now' <= expiry[b] => now <= expiry[b])
    BY <1>1 DEF CredInv, BearersFollowExpiry
  <2> QED
    BY <2>1 DEF CredInv, BearersFollowExpiry, credVars
<1>4. DocumentsOfLineage'
  <2>1. \A i \in 1..Len(lineage) : lineage[i].expires \in Nat
    <3>1. \A i \in 1..Len(lineage) : lineage[i] \in Grants
      BY DEF CredInv, LineageInOrder
    <3> QED
      BY <3>1 DEF Grants
  <2>2. \A i \in 1..Len(lineage) : now' < lineage[i].expires => now < lineage[i].expires
    BY <1>1, <2>1
  <2> QED
    BY <2>2 DEF CredInv, DocumentsOfLineage, OfLineage, credVars
<1>5. LineageInOrder' /\ TradedMeansChild' /\ LiveAfterRevocation' /\ RefreshedOnce'
  BY DEF CredInv, credVars, LineageInOrder, TradedMeansChild, LiveAfterRevocation, RefreshedOnce
<1> QED
  BY <1>2, <1>3, <1>4, <1>5 DEF CredInv

\* What _mint and _refresh leave of the refresh tokens: those left are as they
\* were, the one traded is marked so, and a new one is of user u.
Traded(i, j, u) ==
  \A k \in DOMAIN refresh' :
    \/ /\ k = j /\ refresh'[k] \in RefreshDocs
       /\ refresh'[k].user = u /\ refresh'[k].created = now
       /\ ~refresh'[k].invalidated /\ ~refresh'[k].traded
    \/ /\ k \in DOMAIN refresh /\ refresh'[k] \in RefreshDocs
       /\ refresh'[k].user = refresh[k].user /\ refresh'[k].created = refresh[k].created
       /\ refresh'[k].invalidated = refresh[k].invalidated
       /\ refresh'[k].traded <=> refresh[k].traded \/ k = i

\* _mint: the new document is the last of the lineage, and of a grant later
\* than its user's last revocation.
LEMMA MintStep ==
  ASSUME TokensInv, now \in Times, now' = now, NEW u \in Users, NEW parent,
         NEW root \in Nat, root > revoked[u],
         Len(lineage) + 1 <= MaxTokens, UNCHANGED revoked,
         access' = Saved(access, Len(lineage) + 1,
                         [user |-> u, created |-> now, invalidated |-> FALSE],
                         TokenCap, First(access)),
         lineage' = Append(lineage, [user |-> u, parent |-> parent, root |-> root,
                                     expires |-> now + TokenLife]),
         Traded(parent, Len(lineage) + 1, u),
         parent = 0 \/ (parent \in DOMAIN refresh /\ ~refresh[parent].traded)
  PROVE  TokensInv'
<1> DEFINE n == Len(lineage)
           i == n + 1
           doc == [user |-> u, created |-> now, invalidated |-> FALSE]
<1>1. /\ lineage \in Seq(Grants) /\ n \in Nat /\ now \in Nat /\ TokenLife \in Nat
      /\ DOMAIN access \subseteq 1..n /\ DOMAIN refresh \subseteq 1..n
      /\ parent \in Nat /\ parent < i /\ i \notin 1..n /\ MaxTokens \in Nat
      /\ TokenCap \in Nat \ {0}
  BY CredentialsAssumption, ClockAssumption
     DEF TokensInv, LineageInOrder, DocumentsOfLineage, OfLineage, Times
<1>2. /\ lineage' \in Seq(Grants) /\ Len(lineage') = i
      /\ \A j \in 1..n : lineage'[j] = lineage[j]
      /\ lineage'[i].user = u /\ lineage'[i].parent = parent /\ lineage'[i].root = root
      /\ lineage'[i].expires = now + TokenLife
  <2>1. [user |-> u, parent |-> parent, root |-> root, expires |-> now + TokenLife] \in Grants
    BY <1>1 DEF Grants
  <2> QED
    BY <1>1, <2>1
<1>3. /\ i \in DOMAIN access' /\ access'[i] = doc /\ DOMAIN access' \subseteq 1..i
      /\ \A j \in DOMAIN access' : j # i => j \in DOMAIN access /\ access'[j] = access[j]
      /\ \A j \in DOMAIN access : i - j < TokenCap => j \in DOMAIN access'
  <2> DEFINE v == doc
  <2>1. access' = Saved(access, n + 1, v, TokenCap, First(access))
    OBVIOUS
  <2>n. n \in Nat /\ DOMAIN access \subseteq 1..n /\ TokenCap \in Nat \ {0}
    BY <1>1
  <2> HIDE DEF v, n
  <2>2. /\ n + 1 \in DOMAIN access' /\ access'[n + 1] = v /\ DOMAIN access' \subseteq 1..(n + 1)
        /\ \A x \in DOMAIN access' : x # n + 1 => x \in DOMAIN access /\ access'[x] = access[x]
        /\ \A x \in DOMAIN access : (n + 1) - x < TokenCap => x \in DOMAIN access'
    BY <2>1, <2>n, SavedNext
  <2> QED
    BY <2>2 DEF v
<1>4. 1..i = 1..n \cup {i}
  BY <1>1
<1>5. doc \in AccessDocs /\ doc.user = u /\ doc.created = now /\ ~doc.invalidated
  BY <1>1 DEF AccessDocs
<1>6. ASSUME NEW k \in DOMAIN refresh'
      PROVE  /\ refresh'[k] \in RefreshDocs
             /\ \/ /\ k = i /\ refresh'[k].user = u /\ refresh'[k].created = now
                   /\ ~refresh'[k].invalidated /\ ~refresh'[k].traded
                \/ /\ k \in DOMAIN refresh /\ k \in 1..n /\ k # i
                   /\ refresh'[k].user = refresh[k].user
                   /\ refresh'[k].created = refresh[k].created
                   /\ refresh'[k].invalidated = refresh[k].invalidated
                   /\ refresh'[k].traded <=> refresh[k].traded \/ k = parent
  BY <1>1 DEF Traded
<1> HIDE DEF i, doc
<1>8. LineageInOrder'
  <2>1. revoked' \in [Users -> 0..i]
    BY <1>1 DEF TokensInv, LineageInOrder, i
  <2>2. \A j \in 1..i : lineage'[j].parent < j
    BY <1>1, <1>2, <1>4 DEF TokensInv, LineageInOrder
  <2>3. i <= MaxTokens
    BY DEF i
  <2> QED
    BY <1>2, <2>1, <2>2, <2>3 DEF LineageInOrder
<1>9. DocumentsOfLineage'
  <2>1. OfLineage(access) /\ OfLineage(refresh) /\ DocumentsOfLineage
    BY DEF TokensInv, DocumentsOfLineage
  <2>2. OfLineage(access)'
    <3>2. ASSUME NEW k \in DOMAIN access'
          PROVE  /\ access'[k].user = lineage'[k].user /\ access'[k].created \in Nat
                 /\ access'[k].created + TokenLife = lineage'[k].expires
      <4>1. CASE k = i
        BY <1>1, <1>2, <1>3, <1>5, <4>1
      <4>2. CASE k # i
        <5>1. k \in DOMAIN access /\ access'[k] = access[k] /\ lineage'[k] = lineage[k]
          BY <1>1, <1>2, <1>3, <4>2
        <5> QED
          BY <2>1, <5>1 DEF OfLineage
      <4> QED
        BY <4>1, <4>2
    <3> QED
      BY <1>2, <1>3, <3>2 DEF OfLineage
  <2>3. OfLineage(refresh)'
    <3>1. DOMAIN refresh' \subseteq 1..i
      BY <1>6, <1>4
    <3>2. ASSUME NEW k \in DOMAIN refresh'
          PROVE  /\ refresh'[k].user = lineage'[k].user /\ refresh'[k].created \in Nat
                 /\ refresh'[k].created + TokenLife = lineage'[k].expires
      <4>1. CASE k = i
        BY <1>1, <1>2, <1>6, <4>1
      <4>2. CASE k # i
        BY <1>1, <1>2, <1>6, <2>1, <4>2 DEF OfLineage
      <4> QED
        BY <4>1, <4>2
    <3> QED
      BY <1>2, <3>1, <3>2 DEF OfLineage
  <2>5. \A k \in DOMAIN access' : access'[k] \in AccessDocs
    BY <1>3, <1>5, <2>1 DEF DocumentsOfLineage
  <2>6. \A k \in DOMAIN refresh' : refresh'[k] \in RefreshDocs
    BY <1>6
  <2>7. ASSUME NEW k \in 1..i, now < lineage'[k].expires, i - k < TokenCap
        PROVE  k \in DOMAIN access'
    <3>1. CASE k = i
      BY <1>3, <3>1
    <3>2. CASE k \in 1..n
      <4>1. now < lineage[k].expires /\ n - k < TokenCap
        BY <1>1, <1>2, <2>7, <3>2 DEF i
      <4>2. k \in DOMAIN access
        BY <2>1, <3>2, <4>1 DEF DocumentsOfLineage
      <4> QED
        BY <1>3, <2>7, <4>2
    <3> QED
      BY <1>4, <3>1, <3>2
  <2> QED
    BY <1>2, <2>2, <2>3, <2>5, <2>6, <2>7 DEF DocumentsOfLineage
<1>10. TradedMeansChild'
  <2>1. \A k : (\E j \in 1..i : lineage'[j].parent = k) <=>
                 (\E j \in 1..n : lineage[j].parent = k) \/ k = parent
    BY <1>2, <1>4
  <2>2. ~(\E j \in 1..n : lineage[j].parent = i) /\ parent # i
    <3>1. \A j \in 1..n : lineage[j].parent \in Nat
      <4>1. \A j \in 1..n : lineage[j] \in Grants
        BY <1>1
      <4> QED
        BY <4>1 DEF Grants
    <3> QED
      BY <1>1, <3>1 DEF TokensInv, LineageInOrder, i
  <2>3. TradedMeansChild
    BY DEF TokensInv
  <2>4. ASSUME NEW k \in DOMAIN refresh'
        PROVE  refresh'[k].traded <=> \E j \in 1..i : lineage'[j].parent = k
    <3>1. CASE k = i
      BY <1>6, <2>1, <2>2, <3>1
    <3>2. CASE k # i
      BY <1>6, <2>1, <2>3, <3>2 DEF TradedMeansChild
    <3> QED
      BY <3>1, <3>2
  <2> QED
    BY <1>2, <2>4 DEF TradedMeansChild
<1>11. LiveAfterRevocation'
  <2>1. LiveAfterRevocation
    BY DEF TokensInv
  <2>2. \A k \in DOMAIN access' :
          ~access'[k].invalidated => lineage'[k].root > revoked[lineage'[k].user]
    BY <1>1, <1>2, <1>3, <1>5, <2>1 DEF LiveAfterRevocation
  <2>3. \A k \in DOMAIN refresh' :
          ~refresh'[k].invalidated => lineage'[k].root > revoked[lineage'[k].user]
    <3> SUFFICES ASSUME NEW k \in DOMAIN refresh', ~refresh'[k].invalidated
                 PROVE  lineage'[k].root > revoked[lineage'[k].user]
      OBVIOUS
    <3>1. CASE k = i
      BY <1>2, <3>1
    <3>2. CASE k # i
      <4>1. k \in DOMAIN refresh /\ ~refresh[k].invalidated /\ lineage'[k] = lineage[k]
        BY <1>2, <1>6, <3>2
      <4> QED
        BY <2>1, <4>1 DEF LiveAfterRevocation
    <3> QED
      BY <3>1, <3>2
  <2> QED
    BY <2>2, <2>3 DEF LiveAfterRevocation
<1>12. RefreshedOnce'
  <2>1. parent # 0 => \A j \in 1..n : lineage[j].parent # parent
    BY DEF TokensInv, TradedMeansChild
  <2> QED
    BY <1>2, <1>4, <2>1 DEF TokensInv, RefreshedOnce
<1> QED
  BY <1>8, <1>9, <1>10, <1>11, <1>12 DEF TokensInv

\* The refresh token of a new pair.
LEMMA FreshDoc ==
  ASSUME NEW u \in Users, now \in Times, Len(lineage) \in Nat
  PROVE  /\ Fresh(u) \in RefreshDocs /\ Fresh(u).user = u /\ Fresh(u).created = now
         /\ ~Fresh(u).invalidated /\ ~Fresh(u).traded
<1>1. now \in Nat /\ 2 * (Len(lineage) + 1) \in Nat
  BY ClockAssumption DEF Times
<1> QED
  BY <1>1 DEF Fresh, RefreshDocs

\* What is left of the refresh tokens when a pair is minted.
LEMMA MintedEntries ==
  ASSUME NEW u, NEW m, m = MintedRefresh(u)
  PROVE  /\ Len(lineage) + 1 \in DOMAIN m /\ m[Len(lineage) + 1] = Fresh(u)
         /\ \A x \in DOMAIN m : x # Len(lineage) + 1 => x \in DOMAIN refresh /\ m[x] = refresh[x]
  BY SavedEntries DEF MintedRefresh, SavedRefresh

\* create_token.
LEMMA CreateTokenStep ==
  ASSUME TokensInv, now \in Times, now' = now, NEW u \in Users, NEW w \in BOOLEAN,
         CreateToken(u, w)
  PROVE  TokensInv'
<1>1. /\ Len(lineage) \in Nat /\ DOMAIN refresh \subseteq 1..Len(lineage)
      /\ revoked[u] \in 0..Len(lineage)
      /\ 0 \notin DOMAIN refresh /\ Len(lineage) + 1 \notin DOMAIN refresh
      /\ \A k \in DOMAIN refresh : refresh[k] \in RefreshDocs
  BY DEF TokensInv, LineageInOrder, DocumentsOfLineage, OfLineage
<1>2. ASSUME NEW parent, parent = 0, NEW j, j = Len(lineage) + 1
      PROVE  TokensInv'
  <2>1. CASE w = TRUE
    <3>1. refresh' = MintedRefresh(u)
      BY <2>1 DEF CreateToken
    <3>2. /\ refresh'[j] = Fresh(u)
          /\ \A x \in DOMAIN refresh' : x # j => x \in DOMAIN refresh /\ refresh'[x] = refresh[x]
      BY <1>2, <3>1, MintedEntries
    <3>3. Traded(parent, j, u)
      BY <1>1, <1>2, <3>2, FreshDoc DEF Traded
    <3> QED
      <4>1. j \in Nat /\ j > revoked[u]
        BY <1>1, <1>2
      <4>2. /\ j <= MaxTokens /\ UNCHANGED revoked
            /\ access' = Saved(access, j, [user |-> u, created |-> now, invalidated |-> FALSE],
                               TokenCap, First(access))
            /\ lineage' = Append(lineage, [user |-> u, parent |-> parent, root |-> j,
                                           expires |-> now + TokenLife])
        BY <1>2 DEF CreateToken, Mint
      <4> QED
        BY <1>2, <3>3, <4>1, <4>2, MintStep
  <2>2. CASE w = FALSE
    <3>1. refresh' = refresh
      BY <2>2 DEF CreateToken
    <3>3. Traded(parent, j, u)
      BY <1>1, <1>2, <3>1 DEF Traded
    <3> QED
      <4>1. j \in Nat /\ j > revoked[u]
        BY <1>1, <1>2
      <4>2. /\ j <= MaxTokens /\ UNCHANGED revoked
            /\ access' = Saved(access, j, [user |-> u, created |-> now, invalidated |-> FALSE],
                               TokenCap, First(access))
            /\ lineage' = Append(lineage, [user |-> u, parent |-> parent, root |-> j,
                                           expires |-> now + TokenLife])
        BY <1>2 DEF CreateToken, Mint
      <4> QED
        BY <1>2, <3>3, <4>1, <4>2, MintStep
  <2> QED
    BY <2>1, <2>2
<1> QED
  BY <1>2

\* _refresh: the new pair descends from the grant of the token it is traded
\* for, which is no older than its user's last revocation.
LEMMA RefreshTokenStep ==
  ASSUME TokensInv, now \in Times, now' = now, NEW i, RefreshToken(i)
  PROVE  TokensInv'
<1> DEFINE u == refresh[i].user
           j == Len(lineage) + 1
           m == MintedRefresh(u)
           x == Marked(m, i)
<1>1. /\ i \in DOMAIN refresh /\ ~refresh[i].invalidated /\ ~refresh[i].traded
      /\ i \in 1..Len(lineage) /\ i # 0 /\ u = lineage[i].user
      /\ Len(lineage) \in Nat /\ DOMAIN refresh \subseteq 1..Len(lineage)
      /\ refresh[i] \in RefreshDocs /\ \A k \in DOMAIN refresh : refresh[k] \in RefreshDocs
  BY DEF TokensInv, LineageInOrder, DocumentsOfLineage, OfLineage, RefreshToken
<1>2. u \in Users /\ lineage[i].root \in Nat /\ lineage[i].root > revoked[u]
  <2>1. lineage[i] \in Grants
    BY <1>1 DEF TokensInv, LineageInOrder
  <2> QED
    BY <1>1, <2>1 DEF Grants, TokensInv, LiveAfterRevocation
<1>3. j \notin DOMAIN refresh /\ j # i
  BY <1>1
<1>4. refresh' = SavedRefresh(m, i, x)
  BY DEF RefreshToken, Trade
<1>5. /\ j <= MaxTokens /\ UNCHANGED revoked
      /\ access' = Saved(access, j, [user |-> u, created |-> now, invalidated |-> FALSE],
                         TokenCap, First(access))
      /\ lineage' = Append(lineage, [user |-> u, parent |-> i, root |-> lineage[i].root,
                                     expires |-> now + TokenLife])
  BY <1>1 DEF RefreshToken, Trade, Mint
<1>6. /\ x \in RefreshDocs /\ x.user = refresh[i].user /\ x.created = refresh[i].created
      /\ x.invalidated = refresh[i].invalidated /\ x.traded
  <2> DEFINE p == IF i \in DOMAIN m THEN refresh[i].place ELSE 2 * (Len(lineage) + 1) + 1
  <2>1. p \in Nat
    BY <1>1 DEF RefreshDocs
  <2>2. x = [refresh[i] EXCEPT !.traded = TRUE, !.place = p]
    BY DEF Marked
  <2> HIDE DEF p, x
  <2> QED
    BY <1>1, <2>1, <2>2 DEF RefreshDocs
<1>7. /\ m[j] = Fresh(u)
      /\ \A k \in DOMAIN m : k # j => k \in DOMAIN refresh /\ m[k] = refresh[k]
  BY MintedEntries
<1>8. /\ refresh'[i] = x /\ \A k \in DOMAIN refresh' : k # i => k \in DOMAIN m /\ refresh'[k] = m[k]
  <2> HIDE DEF m, x
  <2> QED
    BY <1>4, SavedEntries DEF SavedRefresh
<1>9. /\ Fresh(u) \in RefreshDocs /\ Fresh(u).user = u /\ Fresh(u).created = now
      /\ ~Fresh(u).invalidated /\ ~Fresh(u).traded
  BY <1>1, <1>2, FreshDoc
<1> HIDE DEF u, j, m, x
<1>10. Traded(i, j, u)
  BY <1>1, <1>3, <1>6, <1>7, <1>8, <1>9 DEF Traded
<1> QED
  BY <1>1, <1>2, <1>5, <1>10, MintStep DEF j

\* Marking documents invalid changes nothing else.
LEMMA InvalidatedAccess ==
  ASSUME NEW S, \A k \in DOMAIN access : access[k] \in AccessDocs, NEW g,
         g = Invalidated(access, S)
  PROVE  /\ DOMAIN g = DOMAIN access
         /\ \A k \in DOMAIN access :
              /\ g[k] \in AccessDocs
              /\ g[k].user = access[k].user /\ g[k].created = access[k].created
              /\ g[k].invalidated <=> access[k].invalidated \/ k \in S
  BY DEF Invalidated, AccessDocs

LEMMA InvalidatedRefresh ==
  ASSUME NEW S, \A k \in DOMAIN refresh : refresh[k] \in RefreshDocs, NEW g,
         g = Invalidated(refresh, S)
  PROVE  /\ DOMAIN g = DOMAIN refresh
         /\ \A k \in DOMAIN refresh :
              /\ g[k] \in RefreshDocs
              /\ g[k].user = refresh[k].user /\ g[k].created = refresh[k].created
              /\ g[k].traded = refresh[k].traded
              /\ g[k].invalidated <=> refresh[k].invalidated \/ k \in S
  BY DEF Invalidated, RefreshDocs

\* Whatever is invalidated, if the documents of the users whose revocation is
\* noted are among it.
LEMMA InvalidateStep ==
  ASSUME TokensInv, now' = now, UNCHANGED lineage, NEW A, NEW R, NEW us \in SUBSET Users,
         access' = Invalidated(access, A) \/ (A = {} /\ access' = access),
         refresh' = Invalidated(refresh, R) \/ (R = {} /\ refresh' = refresh),
         OfUsers(access, us) \subseteq A, OfUsers(refresh, us) \subseteq R,
         revoked' = [u \in Users |-> IF u \in us THEN Len(lineage) ELSE revoked[u]]
  PROVE  TokensInv'
<1>1. /\ DOMAIN access' = DOMAIN access
      /\ \A k \in DOMAIN access :
           /\ access'[k] \in AccessDocs
           /\ access'[k].user = access[k].user /\ access'[k].created = access[k].created
           /\ access'[k].invalidated <=> access[k].invalidated \/ k \in A
  BY InvalidatedAccess DEF TokensInv, DocumentsOfLineage
<1>2. /\ DOMAIN refresh' = DOMAIN refresh
      /\ \A k \in DOMAIN refresh :
           /\ refresh'[k] \in RefreshDocs
           /\ refresh'[k].user = refresh[k].user /\ refresh'[k].created = refresh[k].created
           /\ refresh'[k].traded = refresh[k].traded
           /\ refresh'[k].invalidated <=> refresh[k].invalidated \/ k \in R
  BY InvalidatedRefresh DEF TokensInv, DocumentsOfLineage
<1>3. LineageInOrder'
  <2>1. LineageInOrder /\ Len(lineage) \in Nat
    BY DEF TokensInv, LineageInOrder
  <2>2. revoked' \in [Users -> 0..Len(lineage)]
    BY <2>1 DEF LineageInOrder
  <2> QED
    BY <2>1, <2>2 DEF LineageInOrder
<1>4. DocumentsOfLineage'
  BY <1>1, <1>2 DEF TokensInv, DocumentsOfLineage, OfLineage
<1>5. TradedMeansChild' /\ RefreshedOnce'
  BY <1>2 DEF TokensInv, TradedMeansChild, RefreshedOnce
<1>6. LiveAfterRevocation'
  <2>1. \A k \in DOMAIN access :
          lineage[k].user \in Users /\ access[k].user = lineage[k].user
    BY DEF TokensInv, DocumentsOfLineage, OfLineage, AccessDocs
  <2>2. \A k \in DOMAIN refresh :
          lineage[k].user \in Users /\ refresh[k].user = lineage[k].user
    BY DEF TokensInv, DocumentsOfLineage, OfLineage, RefreshDocs
  <2>3. \A k \in DOMAIN access : ~access'[k].invalidated =>
          ~access[k].invalidated /\ lineage[k].user \notin us
    BY <1>1, <2>1 DEF OfUsers
  <2>4. \A k \in DOMAIN refresh : ~refresh'[k].invalidated =>
          ~refresh[k].invalidated /\ lineage[k].user \notin us
    BY <1>2, <2>2 DEF OfUsers
  <2>5. \A u \in Users : u \notin us => revoked'[u] = revoked[u]
    OBVIOUS
  <2> QED
    BY <1>1, <1>2, <2>1, <2>2, <2>3, <2>4, <2>5 DEF TokensInv, LiveAfterRevocation
<1> QED
  BY <1>3, <1>4, <1>5, <1>6 DEF TokensInv

\* The token routes of the Elasticsearch mount.
LEMMA TokensStep ==
  ASSUME CredInv, now \in Times, now' = now, TokensNext
  PROVE  CredInv'
<1>1. UNCHANGED <<sessions, usedAt, bearers, expiry>>
  BY DEF TokensNext, CreateToken, InvalidateAll, RefreshToken, Trade, InvalidateToken
<1>2. TokensInv
  BY DEF CredInv, TokensInv
<1>3. ASSUME NEW us \in SUBSET Users, InvalidateAll(us) PROVE TokensInv'
  BY <1>2, <1>3, InvalidateStep DEF InvalidateAll
<1>4. ASSUME NEW i, InvalidateToken(i) PROVE TokensInv'
  <2>1. OfUsers(access, {}) = {} /\ OfUsers(refresh, {}) = {}
    BY DEF OfUsers
  <2>2. revoked' = [u \in Users |-> IF u \in {} THEN Len(lineage) ELSE revoked[u]]
    BY <1>2, <1>4 DEF InvalidateToken, TokensInv, LineageInOrder
  <2> QED
    BY <1>2, <1>4, <2>1, <2>2, InvalidateStep DEF InvalidateToken
<1>5. TokensInv'
  BY <1>2, <1>3, <1>4, CreateTokenStep, RefreshTokenStep DEF TokensNext
<1> QED
  BY <1>1, <1>5, SessionsUntouched, BearersUntouched DEF CredInv, TokensInv

-----------------------------------------------------------------------------
(* Sweep and reset                                                         *)

\* A reset carries everything over: it is a sweep.
LEMMA ResetIsSweep == ResetCredentials <=> SweepCredentials
  BY DEF ResetCredentials, SweepCredentials, Carried, PreservedAcrossReset

\* What a sweep leaves is what has not expired, as it was.
LEMMA SweepLeaves ==
  ASSUME SweepCredentials
  PROVE  /\ DOMAIN sessions' = {k \in DOMAIN sessions : ~SessionExpired(k)}
         /\ \A k \in DOMAIN sessions' : sessions'[k] = sessions[k]
         /\ DOMAIN bearers' = {b \in DOMAIN bearers : ~(now > bearers[b] + Grace)}
         /\ \A b \in DOMAIN bearers' : bearers'[b] = bearers[b]
         /\ DOMAIN access' = {i \in DOMAIN access : ~DocumentExpired(access[i])}
         /\ \A i \in DOMAIN access' : access'[i] = access[i]
         /\ DOMAIN refresh' = {i \in DOMAIN refresh : ~DocumentExpired(refresh[i])}
         /\ \A i \in DOMAIN refresh' : refresh'[i] = refresh[i]
<1>1. /\ DOMAIN sessions' = {k \in DOMAIN sessions : ~SessionExpired(k)}
      /\ \A k \in DOMAIN sessions' : sessions'[k] = sessions[k]
  BY DEF SweepCredentials, ReapSessions, Pop, Restrict
<1>2. /\ DOMAIN bearers' = {b \in DOMAIN bearers : ~(now > bearers[b] + Grace)}
      /\ \A b \in DOMAIN bearers' : bearers'[b] = bearers[b]
  BY DEF SweepCredentials, ReapBearers, Pop, Restrict
<1>3. /\ DOMAIN access' = {i \in DOMAIN access : ~DocumentExpired(access[i])}
      /\ \A i \in DOMAIN access' : access'[i] = access[i]
  BY DEF SweepCredentials, ReapTokens, Pop, Restrict
<1>4. /\ DOMAIN refresh' = {i \in DOMAIN refresh : ~DocumentExpired(refresh[i])}
      /\ \A i \in DOMAIN refresh' : refresh'[i] = refresh[i]
  BY DEF SweepCredentials, ReapTokens, Pop, Restrict
<1> QED
  BY <1>1, <1>2, <1>3, <1>4

\* The sweep, and with it the reset, takes nothing that is still promised.
LEMMA SweepStep ==
  ASSUME CredInv, now \in Times, now' = now, SweepCredentials
  PROVE  CredInv'
<1>1. UNCHANGED <<usedAt, expiry, lineage, revoked>> /\ now \in Nat
  BY ClockAssumption DEF SweepCredentials, Times
<1>2. SessionsFollowUse'
  <2>1. SessionsFollowUse
    BY DEF CredInv
  <2>2. \A k \in DOMAIN sessions : SessionExpired(k) => ~(now - usedAt[k] <= SessionTTL)
    BY <1>1, <2>1, CredentialsAssumption, ClockAssumption DEF SessionsFollowUse, SessionExpired, Times
  <2> QED
    BY <1>1, <2>1, <2>2, SweepLeaves DEF SessionsFollowUse
<1>3. BearersFollowExpiry'
  <2>1. BearersFollowExpiry
    BY DEF CredInv
  <2>2. \A b \in DOMAIN bearers : now > bearers[b] + Grace => ~(now <= expiry[b])
    <3>1. \A b \in DOMAIN bearers : expiry[b] \in Nat /\ bearers[b] = expiry[b]
      BY <2>1 DEF BearersFollowExpiry
    <3> QED
      BY <1>1, <3>1, CredentialsAssumption
  <2> QED
    BY <1>1, <2>1, <2>2, SweepLeaves DEF BearersFollowExpiry
<1>4. DocumentsOfLineage'
  <2>1. DocumentsOfLineage
    BY DEF CredInv
  <2>2. \A i \in DOMAIN access : DocumentExpired(access[i]) => ~(now < lineage[i].expires)
    BY <1>1, <2>1, CredentialsAssumption DEF DocumentsOfLineage, OfLineage, DocumentExpired
  <2>5. OfLineage(access)' /\ OfLineage(refresh)'
    BY <1>1, <2>1, SweepLeaves DEF DocumentsOfLineage, OfLineage
  <2>6. /\ \A i \in DOMAIN access' : access'[i] \in AccessDocs
        /\ \A i \in DOMAIN refresh' : refresh'[i] \in RefreshDocs
    BY <2>1, SweepLeaves DEF DocumentsOfLineage
  <2>7. \A i \in 1..Len(lineage) :
          now < lineage[i].expires /\ Len(lineage) - i < TokenCap => i \in DOMAIN access'
    BY <2>1, <2>2, SweepLeaves DEF DocumentsOfLineage
  <2> QED
    BY <1>1, <2>5, <2>6, <2>7 DEF DocumentsOfLineage
<1>5. TradedMeansChild' /\ LiveAfterRevocation'
  BY <1>1, SweepLeaves DEF CredInv, TradedMeansChild, LiveAfterRevocation
<1>6. LineageInOrder' /\ RefreshedOnce'
  BY <1>1 DEF CredInv, LineageInOrder, RefreshedOnce
<1> QED
  BY <1>2, <1>3, <1>4, <1>5, <1>6 DEF CredInv

LEMMA ResetStep ==
  ASSUME CredInv, now \in Times, now' = now, ResetCredentials
  PROVE  CredInv'
  BY ResetIsSweep, SweepStep

-----------------------------------------------------------------------------
(* What follows from the invariant                                         *)

LEMMA CredTypes == ASSUME CredInv PROVE CredTypeOK
<1>1. /\ DOMAIN sessions \subseteq 1..Len(usedAt) /\ DOMAIN bearers \subseteq 1..Len(expiry)
      /\ \A k \in DOMAIN sessions : sessions[k] \in Times
  BY DEF CredInv, SessionsFollowUse, BearersFollowExpiry
<1>2. /\ DOMAIN access \subseteq 1..Len(lineage) /\ DOMAIN refresh \subseteq 1..Len(lineage)
      /\ Len(lineage) <= MaxTokens
  BY DEF CredInv, DocumentsOfLineage, OfLineage, LineageInOrder
<1> QED
  BY <1>1, <1>2 DEF CredInv, TradedMeansChild, CredTypeOK

LEMMA CredUsable == ASSUME CredInv, now \in Times PROVE CredStaysUsable
<1>1. now \in Nat
  BY ClockAssumption DEF Times
<1>2. \A k \in 1..Len(usedAt) :
        now - usedAt[k] <= SessionTTL /\ Len(usedAt) - k < SessionCap => SessionAccepted(k)
  <2>1. \A k \in 1..Len(usedAt) : usedAt[k] \in Nat
    BY ClockAssumption DEF CredInv, SessionsFollowUse, Times
  <2> QED
    BY <1>1, <2>1, CredentialsAssumption DEF CredInv, SessionsFollowUse, SessionAccepted, SessionExpired
<1>3. \A b \in 1..Len(expiry) :
        now <= expiry[b] /\ Len(expiry) - b < BearerCap => BearerAccepted(b)
  <2>1. \A b \in 1..Len(expiry) : expiry[b] \in Nat
    BY DEF CredInv, BearersFollowExpiry
  <2> QED
    BY <1>1, <2>1 DEF CredInv, BearersFollowExpiry, BearerAccepted
<1> QED
  BY <1>2, <1>3 DEF CredInv, DocumentsOfLineage, CredStaysUsable

LEMMA CredRevoked == ASSUME CredInv PROVE RevokedStaysRevoked
<1>1. \A i \in 1..Len(lineage) : AccessAccepted(i) => i \in DOMAIN access /\ ~access[i].invalidated
  BY DEF AccessAccepted, Spent
<1>2. \A i \in 1..Len(lineage) : RefreshAccepted(i) => i \in DOMAIN refresh /\ ~refresh[i].invalidated
  BY DEF RefreshAccepted
<1> QED
  BY <1>1, <1>2 DEF CredInv, LiveAfterRevocation, RevokedStaysRevoked

\* A sweep takes only what is refused anyway: an access token's document
\* outlives the token, a bearer token has a grace.
LEMMA SweepKeepsVerdicts ==
  ASSUME CredInv, now \in Times, now' = now, SweepCredentials
  PROVE  CredAccepted' = CredAccepted
<1>1. UNCHANGED <<usedAt, expiry, lineage, revoked>> /\ now \in Nat
  BY ClockAssumption DEF SweepCredentials, Times
<1>2. \A k : SessionAccepted(k)' <=> SessionAccepted(k)
  BY SweepLeaves DEF SessionAccepted, SessionExpired
<1>3. \A i : RefreshAccepted(i)' <=> RefreshAccepted(i)
  BY SweepLeaves DEF RefreshAccepted, DocumentExpired
<1>4. \A b : BearerAccepted(b)' <=> BearerAccepted(b)
  <2>1. \A b \in DOMAIN bearers : now > bearers[b] + Grace => now > bearers[b]
    <3>1. \A b \in DOMAIN bearers : bearers[b] \in Nat
      BY DEF CredInv, BearersFollowExpiry
    <3> QED
      BY <1>1, <3>1, CredentialsAssumption
  <2> QED
    BY <2>1, SweepLeaves DEF BearerAccepted
<1>5. \A i : AccessAccepted(i)' <=> AccessAccepted(i)
  <2>1. \A i \in DOMAIN access : DocumentExpired(access[i]) => Spent(access[i])
    <3>1. \A i \in DOMAIN access : access[i].created \in Nat
      BY DEF CredInv, DocumentsOfLineage, OfLineage
    <3> QED
      BY <1>1, <3>1, CredentialsAssumption DEF DocumentExpired, Spent
  <2> QED
    BY <2>1, SweepLeaves DEF AccessAccepted, Spent
<1> QED
  BY <1>1, <1>2, <1>3, <1>4, <1>5 DEF CredAccepted

=============================================================================
