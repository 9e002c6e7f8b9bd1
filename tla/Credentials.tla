----------------------------- MODULE Credentials -----------------------------
(***************************************************************************)
(* How the gateway decides whose request it serves.  ApiKeyFilter accepts  *)
(* an API key or a bearer JWT, OAuthController turns an API key into a     *)
(* one-time code and the code into a JWT; every decision is taken by       *)
(* ApiKeyService on a list of api_keys rows that it caches, while an       *)
(* operator edits the table and ApiKeyExpirySweeper rewrites its status    *)
(* column.                                                                 *)
(*                                                                         *)
(* Requests run concurrently.  One of them loads the list while the others *)
(* wait, and a request may use the list it was given after the cache has   *)
(* moved on.  Time is discrete; a request takes at most Delay.             *)
(***************************************************************************)
EXTENDS Integers

CONSTANTS
    Keys,      \* the rows of api_keys, each the hash of one raw key
    Threads,   \* requests, each served once
    Codes,     \* authorization codes (random UUIDs: never drawn twice)
    CacheTtl,  \* expireAfterWrite of keyCache (60 s)
    CodeTtl,   \* CODE_TTL_SECONDS (60 s)
    TokenTtl,  \* TOKEN_TTL_SECONDS (3600 s)
    Delay,     \* longest time a request spends in the gateway's own code
    Expiries,  \* the expires_at values an operator gives, None for null
    Inserted,  \* the rows operators insert, status left to its default
    MaxTime,   \* bound on the clock
    MaxEdits,  \* bound on the operator's updates
    None

VARIABLES
    now,
    table,     \* table[k] : the api_keys row of k
    edits,     \* updates the operator has made
    cache,     \* keyCache: the list and the time it was written, or None
    loader,    \* the request that is loading the list, or None
    pc,        \* pc[t] : where request t is
    kind,      \* kind[t] : what t asks for
    who,       \* who[t] : the key t authenticates as
    claim,     \* claim[t] : the role claim of t's JWT
    since,     \* since[t] : when t arrived
    list,      \* list[t] : the rows t got from keyCache
    entry,     \* entry[t] : the AuthCodeEntry t consumed
    codes,     \* AuthCodeStore.store
    tokens,    \* the JWTs clients hold
    retired,   \* history: row versions and when they were replaced
    disabled,  \* history: keys whose status the operator set to REVOKED
    served     \* history: the request let through last

tableVars == <<table, edits, retired, disabled>>
cacheVars == <<cache, loader>>
threadVars == <<pc, kind, who, claim, since, list, entry>>
oauthVars == <<codes, tokens>>
vars == <<now, tableVars, cacheVars, threadVars, oauthVars, served>>

-----------------------------------------------------------------------------
Times == 0..MaxTime
Roles == {"READ_ONLY", "ADMIN"}
Statuses == {"ACTIVE", "REVOKED", "EXPIRED"}
Row == [revoked : BOOLEAN, expiresAt : Expiries, status : Statuses, role : Roles]
CodeEntry == [code : Codes, key : Keys, role : Roles, expiresAt : Nat]
Token == [jti : Threads, code : Codes, codeExpiry : Nat,
          key : Keys, role : Roles, exp : Nat]

ASSUME ConstantsAssumption ==
    /\ CacheTtl \in Nat \ {0} /\ CodeTtl \in Nat /\ TokenTtl \in Nat /\ Delay \in Nat
    /\ Expiries \subseteq Nat \cup {None}
    /\ Inserted \subseteq {r \in Row : ~r.revoked /\ r.status = "ACTIVE"}
    /\ MaxTime \in Nat /\ MaxEdits \in Nat
    /\ None \notin Keys \cup Threads \cup Nat

InFlight(t) == pc[t] \notin {"idle", "done"}

\* ApiKeyService.authenticate and authenticateByHash, but for the hash.
Usable(row, time) ==
    /\ ~row.revoked
    /\ row.expiresAt # None => row.expiresAt > time
    /\ row.status \notin {"REVOKED", "EXPIRED"}

\* Mutant: the cache outlives its TTL (expireAfterWrite forgotten).
AlwaysFresh(c) == c # None

\* expireAfterWrite(60, SECONDS)
Fresh(c) == c # None /\ now - c.at < CacheTtl

-----------------------------------------------------------------------------
Init ==
    /\ now = 0
    /\ table \in [Keys -> Inserted]
    /\ edits = 0
    /\ cache = None /\ loader = None
    /\ pc = [t \in Threads |-> "idle"]
    /\ kind = [t \in Threads |-> "none"]
    /\ who = [t \in Threads |-> None]
    /\ claim = [t \in Threads |-> "none"]
    /\ since = [t \in Threads |-> 0]
    /\ list = [t \in Threads |-> None]
    /\ entry = [t \in Threads |-> None]
    /\ codes = {} /\ tokens = {}
    /\ retired = {} /\ disabled = {}
    /\ served = None

-----------------------------------------------------------------------------
\* Request t is answered; its locals are gone.
End(t) ==
    /\ pc' = [pc EXCEPT ![t] = "done"]
    /\ kind' = [kind EXCEPT ![t] = "none"]
    /\ who' = [who EXCEPT ![t] = None]
    /\ claim' = [claim EXCEPT ![t] = "none"]
    /\ since' = [since EXCEPT ![t] = 0]
    /\ list' = [list EXCEPT ![t] = None]
    /\ entry' = [entry EXCEPT ![t] = None]

(* A request arrives.  One without credentials, with a token that is expired *)
(* or not signed here, or with an invalid redirect URI is refused at once    *)
(* and leaves no trace in this state.                                        *)

\* It goes to keyCache.get as key k.  A raw key that no row matches is refused
\* like one whose row is not usable.
Arrive(t, what, k, role) ==
    /\ pc[t] = "idle"
    /\ pc' = [pc EXCEPT ![t] = "lookup"]
    /\ kind' = [kind EXCEPT ![t] = what]
    /\ who' = [who EXCEPT ![t] = k]
    /\ claim' = [claim EXCEPT ![t] = role]
    /\ since' = [since EXCEPT ![t] = now]
    /\ UNCHANGED <<now, tableVars, cacheVars, list, entry, oauthVars, served>>

\* ApiKeyFilter with an X-API-Key header, OAuthController.authorizeSubmit.
PresentKey(t) ==
    \E what \in {"call", "authorize"}, k \in Keys : Arrive(t, what, k, "none")

\* JwtTokenService.validate of a token the gateway signed: the signature
\* holds, exp must not have passed.
PresentToken(t) ==
    \E tok \in tokens : now <= tok.exp /\ Arrive(t, "bearer", tok.key, tok.role)

-----------------------------------------------------------------------------
(* keyCache.get("all", repository::findAll): one loader, the others wait.  *)

HitCache(t) ==
    /\ pc[t] = "lookup" /\ loader = None
    /\ Fresh(cache)
    /\ list' = [list EXCEPT ![t] = cache.rows]
    /\ pc' = [pc EXCEPT ![t] = "filter"]
    /\ UNCHANGED <<now, tableVars, cacheVars, kind, who, claim, since, entry,
                   oauthVars, served>>

\* The SELECT of findAll.
StartLoad(t) ==
    /\ pc[t] = "lookup" /\ loader = None
    /\ ~Fresh(cache)
    /\ loader' = t
    /\ list' = [list EXCEPT ![t] = table]
    /\ pc' = [pc EXCEPT ![t] = "load"]
    /\ UNCHANGED <<now, tableVars, cache, kind, who, claim, since, entry, oauthVars, served>>

\* The entry's age counts from here, not from the SELECT.
FinishLoad(t) ==
    /\ pc[t] = "load"
    /\ cache' = [at |-> now, rows |-> list[t]]
    /\ loader' = None
    /\ pc' = [pc EXCEPT ![t] = "filter"]
    /\ UNCHANGED <<now, tableVars, kind, who, claim, since, list, entry, oauthVars, served>>

\* findAll throws: nothing is cached and the request fails.
LoadFails(t) ==
    /\ pc[t] = "load"
    /\ cache' = None
    /\ loader' = None
    /\ End(t)
    /\ UNCHANGED <<now, tableVars, oauthVars, served>>

-----------------------------------------------------------------------------
(* The filters over the list, and what follows.                            *)

Matches(t) == Usable(list[t][who[t]], now)

\* setAuthentication(found.get()): the role of the row, not claim[t], which
\* nothing reads.
GrantedRole(t) == list[t][who[t]].role

\* chain.doFilter with the authentication set.
Serve(t) ==
    /\ pc[t] = "filter" /\ kind[t] \in {"call", "bearer"}
    /\ Matches(t)
    /\ served' = [key |-> who[t], role |-> GrantedRole(t), at |-> now]
    /\ End(t)
    /\ UNCHANGED <<now, tableVars, cacheVars, oauthVars>>

\* AuthCodeStore.purgeExpired
Unexpired == {e \in codes : e.expiresAt >= now}

\* AuthCodeStore.issue, the last step of authorizeSubmit.
IssueCode(t) ==
    /\ pc[t] = "filter" /\ kind[t] = "authorize"
    /\ Matches(t)
    /\ \E c \in Codes :
        /\ c \notin {e.code : e \in codes} \cup {tok.code : tok \in tokens}
        /\ \A u \in Threads : pc[u] = "issue" => entry[u].code # c
        /\ codes' = Unexpired \cup {[code |-> c, key |-> who[t], role |-> GrantedRole(t),
                                     expiresAt |-> now + CodeTtl]}
    /\ End(t)
    /\ UNCHANGED <<now, tableVars, cacheVars, tokens, served>>

\* 401, with recordFailure on the filter's path.
Reject(t) ==
    /\ pc[t] = "filter"
    /\ ~Matches(t)
    /\ End(t)
    /\ UNCHANGED <<now, tableVars, cacheVars, oauthVars, served>>

-----------------------------------------------------------------------------
(* OAuthController.token                                                   *)

\* Mutant: get and a later remove instead of an atomic remove.
LeaveCode(e) == codes

\* store.remove(code)
RemoveCode(e) == codes \ {e}

\* Mutant: consume returns whatever it removed.
AnyCode(e) == TRUE

\* !expiresAt.isBefore(Instant.now())
CodeAlive(e) == e.expiresAt >= now

\* consume, then the checks on the entry.  The code is gone whatever they say.
ConsumeCode(t) ==
    /\ pc[t] = "idle"
    /\ \E e \in codes, redirectOk, pkceOk, secretOk \in BOOLEAN :
        /\ codes' = RemoveCode(e)
        /\ IF CodeAlive(e) /\ redirectOk /\ (pkceOk \/ secretOk)
             THEN /\ entry' = [entry EXCEPT ![t] = e]
                  /\ pc' = [pc EXCEPT ![t] = "issue"]
                  /\ since' = [since EXCEPT ![t] = now]
                  /\ UNCHANGED <<kind, who, claim, list>>
             ELSE End(t)
    /\ UNCHANGED <<now, tableVars, cacheVars, tokens, served>>

\* Mutant: the lifetime is subtracted.
ExpiryInThePast(time) == time - TokenTtl - 1

Expiry(time) == time + TokenTtl

\* JwtTokenService.issue.  The code and its expiry are the model's record of
\* where the token comes from; the thread stands for the random jti.
IssueToken(t) ==
    /\ pc[t] = "issue"
    /\ tokens' = tokens \cup {[jti |-> t, code |-> entry[t].code,
                               codeExpiry |-> entry[t].expiresAt, key |-> entry[t].key,
                               role |-> entry[t].role, exp |-> Expiry(now)]}
    /\ End(t)
    /\ UNCHANGED <<now, tableVars, cacheVars, codes, served>>

-----------------------------------------------------------------------------
(* The table's other writers.                                              *)

\* Row k becomes r; the version it replaces is remembered.
Replace(k, r) ==
    /\ table' = [table EXCEPT ![k] = r]
    /\ retired' = IF r = table[k] THEN retired
                  ELSE retired \cup {[key |-> k, row |-> table[k], at |-> now]}

Edit(k, r) ==
    /\ edits < MaxEdits /\ edits' = edits + 1
    /\ r # table[k]
    /\ Replace(k, r)
    /\ UNCHANGED <<now, cacheVars, threadVars, oauthVars, served>>

\* The runbook's revocation, UPDATE api_keys SET revoked = TRUE.
Revoke(k) == Edit(k, [table[k] EXCEPT !.revoked = TRUE]) /\ UNCHANGED disabled

\* Invalidation through the status column alone.
DisableByStatus(k) ==
    /\ Edit(k, [table[k] EXCEPT !.status = "REVOKED"])
    /\ disabled' = disabled \cup {[key |-> k, at |-> now]}

Renew(k) ==
    \E e \in Expiries :
        Edit(k, [table[k] EXCEPT !.expiresAt = e]) /\ UNCHANGED disabled

ChangeRole(k) ==
    \E r \in Roles : Edit(k, [table[k] EXCEPT !.role = r]) /\ UNCHANGED disabled

\* The CASE of ApiKeyExpirySweeper's UPDATE.
Reconciled(row) ==
    IF row.revoked THEN "REVOKED"
    ELSE IF row.expiresAt # None /\ row.expiresAt < now THEN "EXPIRED"
    ELSE "ACTIVE"

Sweep ==
    /\ table' = [k \in Keys |-> [table[k] EXCEPT !.status = Reconciled(table[k])]]
    /\ retired' = retired \cup
        {[key |-> k, row |-> table[k], at |-> now] :
            k \in {j \in Keys : table[j].status # Reconciled(table[j])}}
    /\ UNCHANGED <<now, edits, disabled, cacheVars, threadVars, oauthVars, served>>

\* The gateway restarts: the cache and the codes are gone, the table and the
\* tokens are not.
Restart ==
    /\ cache # None \/ codes # {} \/ \E t \in Threads : InFlight(t)
    /\ cache' = None /\ loader' = None
    /\ codes' = {}
    /\ pc' = [t \in Threads |-> IF InFlight(t) THEN "done" ELSE pc[t]]
    /\ kind' = [t \in Threads |-> "none"]
    /\ who' = [t \in Threads |-> None]
    /\ claim' = [t \in Threads |-> "none"]
    /\ since' = [t \in Threads |-> 0]
    /\ list' = [t \in Threads |-> None]
    /\ entry' = [t \in Threads |-> None]
    /\ UNCHANGED <<now, tableVars, tokens, served>>

Tick ==
    /\ now < MaxTime
    /\ \A t \in Threads : InFlight(t) => now - since[t] < Delay
    /\ now' = now + 1
    /\ UNCHANGED <<tableVars, cacheVars, threadVars, oauthVars, served>>

-----------------------------------------------------------------------------
Step(t) ==
    \/ HitCache(t) \/ StartLoad(t) \/ FinishLoad(t) \/ LoadFails(t)
    \/ Serve(t) \/ IssueCode(t) \/ Reject(t) \/ IssueToken(t)

Next ==
    \/ \E t \in Threads : PresentKey(t) \/ PresentToken(t) \/ ConsumeCode(t) \/ Step(t)
    \/ \E k \in Keys : Revoke(k) \/ DisableByStatus(k) \/ Renew(k) \/ ChangeRole(k)
    \/ Sweep \/ Restart \/ Tick

Spec == Init /\ [][Next]_vars

-----------------------------------------------------------------------------
(* Correctness.                                                            *)

TypeOK ==
    /\ now \in Times
    /\ table \in [Keys -> Row]
    /\ edits \in 0..MaxEdits
    /\ cache \in [at : Times, rows : [Keys -> Row]] \cup {None}
    /\ loader \in Threads \cup {None}
    /\ pc \in [Threads -> {"idle", "lookup", "load", "filter", "issue", "done"}]
    /\ kind \in [Threads -> {"none", "call", "bearer", "authorize"}]
    /\ who \in [Threads -> Keys \cup {None}]
    /\ claim \in [Threads -> Roles \cup {"none"}]
    /\ since \in [Threads -> Times]
    /\ list \in [Threads -> [Keys -> Row] \cup {None}]
    /\ entry \in [Threads -> CodeEntry \cup {None}]
    /\ codes \subseteq CodeEntry
    /\ tokens \subseteq Token
    /\ retired \subseteq [key : Keys, row : Row, at : Times]
    /\ disabled \subseteq [key : Keys, at : Times]
    /\ served \in [key : Keys, role : Roles, at : Times] \cup {None}

\* How old a row version a decision may rest on: the load that fetched it,
\* the cache's TTL, and the request that uses it.
Staleness == CacheTtl + 2 * Delay

\* The versions of row k in force less than Staleness before time a, or since.
RecentRows(k, a) ==
    {table[k]} \cup {v.row : v \in {u \in retired : u.key = k /\ u.at > a - Staleness}}

\* ApiKeyService, ApiKeyFilter: every request let through, by key or by token,
\* was let through on a version of its key's row no older than the cache
\* allows, with that version's role, and unexpired at that very moment.  So a
\* revocation or a demotion takes hold within Staleness, for tokens too.
ServedOnRecentRow ==
    served # None =>
        \E row \in RecentRows(served.key, served.at) :
            row.role = served.role /\ Usable(row, served.at)

\* AuthCodeStore.consume: a code buys at most one token, whichever requests
\* race for it.
CodeBuysOneToken ==
    \A x, y \in tokens : x.code = y.code => x = y

\* AuthCodeStore, JwtTokenService: one presentation of an API key in the OAuth
\* form never buys access for longer than the code's and the token's lifetimes
\* together, however late the code is redeemed.
TokenLifetimeBounded ==
    \A tok \in tokens : tok.exp <= tok.codeExpiry + Delay + TokenTtl

\* ApiKeyService.java, "lets an operator invalidate a key by updating either
\* column": a key whose status the operator set to REVOKED is not served once
\* the caches have drained.  It is: the sweeper sets the column back.
StatusRevocationHolds ==
    served # None =>
        \A d \in disabled : d.key = served.key => served.at < d.at + Staleness
=============================================================================
