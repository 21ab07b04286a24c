---------------------------- MODULE SessionTokens ----------------------------
(***************************************************************************)
(* Sessions: identity/token_service.js, identity/secret_manager.js and the *)
(* token endpoints of routes/auth.js.                                      *)
(*                                                                         *)
(* A login issues a pair of tokens and opens a token family.  A refresh    *)
(* exchanges the refresh token of a pair for a new pair of the same        *)
(* family; a refresh token that comes back a second time compromises its   *)
(* family.  Tokens expire, are revoked one by one or all at once for a     *)
(* user, and stop verifying once their signing key has been rotated out    *)
(* for longer than the grace period.  Families, revocations and rotated    *)
(* keys are in memory: a restart forgets them, and goes back to the secret *)
(* of the environment.                                                     *)
(*                                                                         *)
(* A pair stands for the two tokens issued together.  Clients hold on to   *)
(* every token they were ever given.  Every handler runs to its end        *)
(* without an await, so it is one step.  Who may call /token/revoke and    *)
(* /logout-all is left out.                                                *)
(***************************************************************************)
EXTENDS Naturals, FiniteSets

CONSTANTS
  Users, Pairs, Keys,
  NoUser, NoPair,
  InitialKey,      \* JWT_SECRET
  AccessTtl, RefreshTtl, Grace,
  MaxClock          \* bound on the clock

ASSUME ConstantsOK ==
  /\ NoUser \notin Users /\ NoPair \notin Pairs /\ InitialKey \in Keys
  /\ AccessTtl \in Nat /\ RefreshTtl \in Nat /\ Grace \in Nat /\ MaxClock \in Nat
  /\ AccessTtl <= Grace   \* at most one hour, and a day

VARIABLES
  clock,
  activeKey, usedKeys, \* the signing key, and every key there has been
  retiredAt,           \* key -> when it was rotated out, 0 when it was not
  issued,              \* the pairs that were issued
  sub, family, iat,    \* pair -> its user, its family (the pair of the login),
  kid,                 \* when it was issued, and the key that signed it
  parent,              \* pair -> the pair whose refresh token it was issued for
  tokenFamilies,       \* the families the service knows
  currentJti,          \* family -> its last pair
  usedJtis,            \* family -> the pairs whose refresh token was exchanged
  compromised,         \* the families in which a token came back
  revokedAccess, revokedRefresh,  \* revokedTokens, by token type
  userRevocations,     \* user -> when all its sessions were revoked, or 0
  replayed             \* history: the families whose clients sent a used token

keyVars == <<activeKey, usedKeys, retiredAt>>
pairVars == <<issued, sub, family, iat, kid, parent>>
familyVars == <<tokenFamilies, currentJti, usedJtis, compromised>>
revocations == <<revokedAccess, revokedRefresh, userRevocations>>
vars == <<clock, keyVars, pairVars, familyVars, revocations, replayed>>

Init ==
  /\ clock = 1
  /\ activeKey = InitialKey /\ usedKeys = {InitialKey}
  /\ retiredAt = [k \in Keys |-> 0]
  /\ issued = {}
  /\ sub = [p \in Pairs |-> NoUser]
  /\ family = [p \in Pairs |-> NoPair]
  /\ iat = [p \in Pairs |-> 0]
  /\ kid = [p \in Pairs |-> InitialKey]
  /\ parent = [p \in Pairs |-> NoPair]
  /\ tokenFamilies = {}
  /\ currentJti = [f \in Pairs |-> NoPair]
  /\ usedJtis = [f \in Pairs |-> {}]
  /\ compromised = {}
  /\ revokedAccess = {} /\ revokedRefresh = {}
  /\ userRevocations = [u \in Users |-> 0]
  /\ replayed = {}

-----------------------------------------------------------------------------
(* Verification *)

\* getVerificationKeys
VerificationKeys ==
  {activeKey} \cup {k \in Keys : retiredAt[k] # 0 /\ clock - retiredAt[k] < Grace}

\* A token whose key id is unknown is tried with the active key.  That helps one
\* issued before a restart, as long as the secret of the environment is active.
SignatureOK(p) ==
  IF family[p] \in tokenFamilies THEN kid[p] \in VerificationKeys ELSE kid[p] = activeKey

Fresh(p, ttl) == clock < iat[p] + ttl

UserSessionRevoked(p) ==
  userRevocations[sub[p]] # 0 /\ iat[p] <= userRevocations[sub[p]]

\* verifyToken of the access token of p, in the authentication middleware.
Accepts(p) ==
  /\ p \in issued \ revokedAccess
  /\ ~UserSessionRevoked(p)
  /\ Fresh(p, AccessTtl)
  /\ SignatureOK(p)

\* verifyToken of the refresh token of p, without its revocation checks.
RefreshVerifies(p) ==
  /\ p \in issued
  /\ Fresh(p, RefreshTtl)
  /\ SignatureOK(p)

-----------------------------------------------------------------------------
(* Issuing *)

issueTokenPair(p, u, f, q) ==
  /\ issued' = issued \cup {p}
  /\ sub' = [sub EXCEPT ![p] = u]
  /\ family' = [family EXCEPT ![p] = f]
  /\ iat' = [iat EXCEPT ![p] = clock]
  /\ kid' = [kid EXCEPT ![p] = activeKey]
  /\ parent' = [parent EXCEPT ![p] = q]
  /\ tokenFamilies' = tokenFamilies \cup {f}
  /\ currentJti' = [currentJti EXCEPT ![f] = p]

Login(u, p) ==
  /\ p \notin issued
  /\ issueTokenPair(p, u, p, NoPair)
  /\ UNCHANGED <<clock, keyVars, usedJtis, compromised, revocations, replayed>>

\* Slip: a used token is only refused.
Replay_OnlyRefuses(r) ==
  /\ RefreshVerifies(r) /\ family[r] \in tokenFamilies
  /\ r \in usedJtis[family[r]] \/ family[r] \in compromised
  /\ revokedRefresh' = revokedRefresh \cup {r}
  /\ replayed' = replayed \cup {family[r]}
  /\ UNCHANGED <<clock, keyVars, pairVars, familyVars, revokedAccess, userRevocations>>

\* refreshToken on a used token, or in a compromised family.
Replay(r) ==
  /\ RefreshVerifies(r) /\ family[r] \in tokenFamilies
  /\ r \in usedJtis[family[r]] \/ family[r] \in compromised
  /\ compromised' = compromised \cup {family[r]}
  /\ revokedRefresh' = revokedRefresh \cup {r, currentJti[family[r]]}
  /\ replayed' = replayed \cup {family[r]}
  /\ UNCHANGED <<clock, keyVars, pairVars, tokenFamilies, currentJti, usedJtis,
                 revokedAccess, userRevocations>>

Exchangeable(r) ==
  /\ RefreshVerifies(r)
  /\ family[r] \in tokenFamilies \ compromised
  /\ r \notin usedJtis[family[r]]
  /\ r \notin revokedRefresh

\* refreshToken, which exchanges the refresh token of r for the pair p.
Refresh(r, p) ==
  /\ Exchangeable(r)
  /\ p \notin issued
  /\ usedJtis' = [usedJtis EXCEPT ![family[r]] = @ \cup {r}]
  /\ revokedRefresh' = revokedRefresh \cup {r}
  /\ issueTokenPair(p, sub[r], family[r], r)
  /\ UNCHANGED <<clock, keyVars, compromised, revokedAccess, userRevocations,
                 replayed>>

-----------------------------------------------------------------------------
(* Revoking *)

\* /token/revoke looks the token up in the registry of this process, or accepts
\* the caller's own access token; /logout revokes that one.
RevokeAccess(p) ==
  /\ p \in issued /\ (family[p] \in tokenFamilies \/ Accepts(p))
  /\ revokedAccess' = revokedAccess \cup {p}
  /\ UNCHANGED <<clock, keyVars, pairVars, familyVars, revokedRefresh, userRevocations,
                 replayed>>

RevokeRefresh(p) ==
  /\ p \in issued /\ family[p] \in tokenFamilies
  /\ revokedRefresh' = revokedRefresh \cup {p}
  /\ UNCHANGED <<clock, keyVars, pairVars, familyVars, revokedAccess, userRevocations,
                 replayed>>

revokeAllUserSessions(u) ==
  /\ userRevocations' = [userRevocations EXCEPT ![u] = clock]
  /\ UNCHANGED <<clock, keyVars, pairVars, familyVars, revokedAccess, revokedRefresh,
                 replayed>>

-----------------------------------------------------------------------------
(* Keys, time and restarts *)

\* Slip: the retirement of the old key is not dated.
rotateKey_Undated(k) ==
  /\ k \in Keys \ usedKeys
  /\ activeKey' = k /\ usedKeys' = usedKeys \cup {k}
  /\ UNCHANGED <<clock, retiredAt, pairVars, familyVars, revocations, replayed>>

rotateKey(k) ==
  /\ k \in Keys \ usedKeys
  /\ retiredAt' = [retiredAt EXCEPT ![activeKey] = clock]
  /\ activeKey' = k /\ usedKeys' = usedKeys \cup {k}
  /\ UNCHANGED <<clock, pairVars, familyVars, revocations, replayed>>

TimePasses ==
  /\ clock < MaxClock
  /\ clock' = clock + 1
  /\ UNCHANGED <<keyVars, pairVars, familyVars, revocations, replayed>>

\* Slip: the families are kept, the used tokens are not.
Restart_KeepsFamilies ==
  /\ issued # {}
  /\ activeKey' = InitialKey /\ retiredAt' = [k \in Keys |-> 0]
  /\ usedJtis' = [f \in Pairs |-> {}]
  /\ compromised' = {}
  /\ revokedAccess' = {} /\ revokedRefresh' = {}
  /\ userRevocations' = [u \in Users |-> 0]
  /\ UNCHANGED <<clock, usedKeys, pairVars, tokenFamilies, currentJti, replayed>>

\* The memory of the service is gone; the tokens are out there.  (A revoked id
\* is also written to Redis, where nothing reads it.)
Restart ==
  /\ issued # {}
  /\ activeKey' = InitialKey /\ retiredAt' = [k \in Keys |-> 0]
  /\ tokenFamilies' = {}
  /\ currentJti' = [f \in Pairs |-> NoPair]
  /\ usedJtis' = [f \in Pairs |-> {}]
  /\ compromised' = {}
  /\ revokedAccess' = {} /\ revokedRefresh' = {}
  /\ userRevocations' = [u \in Users |-> 0]
  /\ UNCHANGED <<clock, usedKeys, pairVars, replayed>>

-----------------------------------------------------------------------------
Next ==
  \/ \E u \in Users, p \in Pairs : Login(u, p)
  \/ \E r, p \in Pairs : Refresh(r, p)
  \/ \E r \in Pairs : Replay(r) \/ RevokeAccess(r) \/ RevokeRefresh(r)
  \/ \E u \in Users : revokeAllUserSessions(u)
  \/ \E k \in Keys : rotateKey(k)
  \/ TimePasses
  \/ Restart

Spec == Init /\ [][Next]_vars

-----------------------------------------------------------------------------
TypeOK ==
  /\ clock \in Nat
  /\ activeKey \in Keys /\ usedKeys \subseteq Keys /\ retiredAt \in [Keys -> Nat]
  /\ issued \subseteq Pairs
  /\ sub \in [Pairs -> Users \cup {NoUser}]
  /\ \A p \in issued : sub[p] \in Users
  /\ family \in [Pairs -> Pairs \cup {NoPair}]
  /\ iat \in [Pairs -> Nat]
  /\ kid \in [Pairs -> Keys]
  /\ parent \in [Pairs -> Pairs \cup {NoPair}]
  /\ tokenFamilies \subseteq Pairs
  /\ currentJti \in [Pairs -> Pairs \cup {NoPair}]
  /\ usedJtis \in [Pairs -> SUBSET Pairs]
  /\ compromised \subseteq Pairs
  /\ revokedAccess \subseteq Pairs /\ revokedRefresh \subseteq Pairs
  /\ userRevocations \in [Users -> Nat]
  /\ replayed \subseteq Pairs

\* A refresh token is exchanged at most once, whatever is replayed, revoked,
\* rotated or restarted in between: no two pairs come from the same token.
ExchangedOnce ==
  \A p, q \in issued : parent[p] = parent[q] /\ parent[p] # NoPair => p = q

\* A session has at most one refresh token that still works, the last one it was
\* given: whoever holds an older one can only end the session.
OneLiveRefreshToken ==
  \A p, q \in Pairs : Exchangeable(p) /\ Exchangeable(q) /\ family[p] = family[q] => p = q

\* However requests, replays and restarts mix, no refresh token is exchanged twice
\* and only the last one of a session works.
RefreshTokensWorkOnce == ExchangedOnce /\ OneLiveRefreshToken

\* Once a used refresh token came back nothing is issued any more in its family,
\* whoever sends its current token, until and after a restart.
ReplayEndsSession ==
  [][\A p \in issued' \ issued : family'[p] \notin replayed]_vars

\* A session belongs to one user and is no older than its tokens: every pair has
\* the user of the pair it was exchanged for, and the same family.
SessionKeepsUser ==
  \A p \in issued : parent[p] # NoPair =>
    /\ parent[p] \in issued
    /\ sub[p] = sub[parent[p]] /\ family[p] = family[parent[p]]
    /\ iat[parent[p]] <= iat[p]

\* Rotating the signing key logs nobody out: while the process lives, an access
\* token keeps verifying until it expires, because the grace period of its key
\* outlasts it.
RotationKeepsAccess ==
  \A p \in issued :
    family[p] \in tokenFamilies /\ Fresh(p, AccessTtl) => SignatureOK(p)

\* token_service.js:350: all active sessions and tokens of a user are revoked
\* immediately.  No access token is accepted of a session that was open then.
LogoutAllEndsSessions ==
  \A p \in issued : Accepts(p) => ~UserSessionRevoked(family[p])

\* Pairs, users and the keys after the first are interchangeable.
Permuted(S) == {f : f \in {g \in [S -> S] : \A x, y \in S : g[x] = g[y] => x = y}}
Interchangeable == Permuted(Pairs) \cup Permuted(Users) \cup Permuted(Keys \ {InitialKey})

=============================================================================
