-------------------------- MODULE CredentialsProofs --------------------------
(***************************************************************************)
(* Proofs about Credentials for every set of keys, requests and codes and  *)
(* every lifetime: how stale a row a request may be served on, and what a  *)
(* code may buy.                                                           *)
(***************************************************************************)
EXTENDS Credentials, TLAPS

LEMMA TypeInit == Init => TypeOK
  BY ConstantsAssumption DEF Init, TypeOK, Times, Row

\* Ending a request leaves its locals well typed.
LEMMA EndType ==
    ASSUME TypeOK, NEW t \in Threads, End(t)
    PROVE  /\ pc' \in [Threads -> {"idle", "lookup", "load", "filter", "issue", "done"}]
           /\ kind' \in [Threads -> {"none", "call", "bearer", "authorize"}]
           /\ who' \in [Threads -> Keys \cup {None}]
           /\ claim' \in [Threads -> Roles \cup {"none"}]
           /\ since' \in [Threads -> Times]
           /\ list' \in [Threads -> [Keys -> Row] \cup {None}]
           /\ entry' \in [Threads -> CodeEntry \cup {None}]
  BY ConstantsAssumption DEF TypeOK, End, Times

-----------------------------------------------------------------------------
(* The inductive invariant.                                                *)

\* A request in flight has been so for at most Delay.
DelayInv ==
    \A t \in Threads : InFlight(t) => since[t] <= now /\ now <= since[t] + Delay

\* Row r was key k's at some time after a.
InForceAfter(k, r, a) ==
    \/ r = table[k]
    \/ \E u \in retired : u.key = k /\ u.row = r /\ u.at > a

\* Before a request has its list it knows its key; the list it gets, and the
\* list in the cache, are of rows in force not long before.
LoadInv ==
    /\ \A t \in Threads :
        pc[t] \in {"lookup", "load", "filter"} => who[t] \in Keys
    /\ \A t \in Threads : pc[t] = "load" =>
        /\ list[t] \in [Keys -> Row]
        /\ \A k \in Keys : InForceAfter(k, list[t][k], since[t] - 1)
    /\ cache # None =>
        /\ cache.at <= now
        /\ \A k \in Keys : InForceAfter(k, cache.rows[k], cache.at - Delay - 1)
    /\ \A t \in Threads : pc[t] = "filter" =>
        /\ list[t] \in [Keys -> Row]
        /\ \A k \in Keys : InForceAfter(k, list[t][k], since[t] - CacheTtl - Delay)

ServedInv ==
    served # None =>
        /\ served.at <= now
        /\ \E row \in Row : /\ InForceAfter(served.key, row, served.at - Staleness)
                            /\ row.role = served.role /\ Usable(row, served.at)

\* A code is in the store, with a request that redeems it, or in a token, and
\* in one of them only.
CodeInv ==
    /\ \A e, f \in codes : e.code = f.code => e = f
    /\ \A e \in codes, x \in tokens : e.code # x.code
    /\ \A t \in Threads : pc[t] = "issue" =>
        /\ entry[t] \in CodeEntry
        /\ \A e \in codes : e.code # entry[t].code
        /\ \A x \in tokens : x.code # entry[t].code
        /\ \A u \in Threads : pc[u] = "issue" /\ u # t => entry[u].code # entry[t].code
    /\ CodeBuysOneToken

\* A code is redeemed before it expires.
LifeInv ==
    /\ \A t \in Threads : pc[t] = "issue" => since[t] <= entry[t].expiresAt
    /\ TokenLifetimeBounded

Inv == TypeOK /\ DelayInv /\ LoadInv /\ ServedInv /\ CodeInv /\ LifeInv

-----------------------------------------------------------------------------
(* Types.                                                                  *)

LEMMA ReplaceType ==
    ASSUME NEW k \in Keys, NEW r, table \in [Keys -> Row], r \in Row, now \in Times,
           retired \subseteq [key : Keys, row : Row, at : Times], Replace(k, r)
    PROVE  /\ table' \in [Keys -> Row]
           /\ retired' \subseteq [key : Keys, row : Row, at : Times]
  BY DEF Replace

LEMMA StepType ==
    ASSUME Inv, NEW t \in Threads,
           PresentKey(t) \/ PresentToken(t) \/ ConsumeCode(t) \/ Step(t)
    PROVE  TypeOK'
  <1> USE DEF tableVars, cacheVars, threadVars, oauthVars
  <1>t. TypeOK
    BY DEF Inv
  <1>f. pc[t] = "filter" => who[t] \in Keys /\ list[t] \in [Keys -> Row]
    BY DEF Inv, LoadInv
  <1>1. CASE PresentKey(t)
    BY <1>t, <1>1 DEF TypeOK, PresentKey, Arrive
  <1>2. CASE PresentToken(t)
    BY <1>t, <1>2 DEF TypeOK, PresentToken, Arrive, Token
  <1>3. CASE ConsumeCode(t)
    BY <1>t, <1>3, EndType DEF TypeOK, ConsumeCode, RemoveCode
  <1>4. CASE HitCache(t)
    BY <1>t, <1>4 DEF TypeOK, HitCache, Fresh
  <1>5. CASE StartLoad(t)
    BY <1>t, <1>5 DEF TypeOK, StartLoad
  <1>6. CASE FinishLoad(t)
    <2>1. list[t] \in [Keys -> Row]
      BY <1>6 DEF FinishLoad, Inv, LoadInv
    <2> QED
      BY <1>t, <1>6, <2>1 DEF TypeOK, FinishLoad
  <1>7. CASE LoadFails(t)
    BY <1>t, <1>7, EndType DEF TypeOK, LoadFails
  <1>8. CASE Serve(t)
    <2>1. served' \in [key : Keys, role : Roles, at : Times]
      BY <1>t, <1>f, <1>8 DEF TypeOK, Serve, GrantedRole, Row
    <2> QED
      BY <1>t, <1>8, <2>1, EndType DEF TypeOK, Serve
  <1>9. CASE IssueCode(t)
    <2>1. now + CodeTtl \in Nat
      BY <1>t, ConstantsAssumption DEF TypeOK, Times
    <2>2. GrantedRole(t) \in Roles /\ who[t] \in Keys
      BY <1>f, <1>9 DEF IssueCode, GrantedRole, Row
    <2>3. codes' \subseteq CodeEntry
      BY <1>t, <1>9, <2>1, <2>2 DEF TypeOK, IssueCode, CodeEntry, Unexpired
    <2> QED
      BY <1>t, <1>9, <2>3, EndType DEF TypeOK, IssueCode
  <1>10. CASE Reject(t)
    BY <1>t, <1>10, EndType DEF TypeOK, Reject
  <1>11. CASE IssueToken(t)
    <2>1. entry[t] \in CodeEntry
      BY <1>11 DEF IssueToken, Inv, CodeInv
    <2>2. Expiry(now) \in Nat
      BY <1>t, ConstantsAssumption DEF TypeOK, Times, Expiry
    <2>3. tokens' \subseteq Token
      BY <1>t, <1>11, <2>1, <2>2 DEF TypeOK, IssueToken, Token, CodeEntry
    <2> QED
      BY <1>t, <1>11, <2>3, EndType DEF TypeOK, IssueToken
  <1> QED
    BY <1>1, <1>2, <1>3, <1>4, <1>5, <1>6, <1>7, <1>8, <1>9, <1>10, <1>11 DEF Step
LEMMA OtherType ==
    ASSUME TypeOK,
           \/ \E k \in Keys : Revoke(k) \/ DisableByStatus(k) \/ Renew(k) \/ ChangeRole(k)
           \/ Sweep \/ Restart \/ Tick
    PROVE  TypeOK'
  <1> USE DEF tableVars, cacheVars, threadVars, oauthVars
  <1>e. edits \in Nat /\ MaxEdits \in Nat
    BY ConstantsAssumption DEF TypeOK
  <1>1. ASSUME NEW k \in Keys, NEW r \in Row, Edit(k, r),
               disabled' \subseteq [key : Keys, at : Times]
        PROVE  TypeOK'
    <2>1. /\ table' \in [Keys -> Row]
          /\ retired' \subseteq [key : Keys, row : Row, at : Times]
      BY <1>1, ReplaceType DEF Edit, TypeOK
    <2>2. edits' \in 0..MaxEdits
      BY <1>1, <1>e DEF Edit
    <2> QED
      BY <1>1, <2>1, <2>2 DEF TypeOK, Edit
  <1>2. ASSUME NEW k \in Keys, Revoke(k) \/ DisableByStatus(k) \/ Renew(k) \/ ChangeRole(k)
        PROVE  TypeOK'
    <2>r. table[k] \in Row
      BY DEF TypeOK
    <2>1. CASE Revoke(k)
      BY <2>1, <2>r, <1>1 DEF Revoke, Row, TypeOK
    <2>2. CASE DisableByStatus(k)
      <3>1. [table[k] EXCEPT !.status = "REVOKED"] \in Row
        BY <2>r DEF Row, Statuses
      <3>2. disabled' \subseteq [key : Keys, at : Times]
        BY <2>2 DEF DisableByStatus, TypeOK
      <3> QED
        BY <2>2, <3>1, <3>2, <1>1 DEF DisableByStatus
    <2>3. CASE Renew(k)
      <3>1. \A e \in Expiries : [table[k] EXCEPT !.expiresAt = e] \in Row
        BY <2>r DEF Row
      <3> QED
        BY <2>3, <3>1, <1>1 DEF Renew, TypeOK
    <2>4. CASE ChangeRole(k)
      <3>1. \A r \in Roles : [table[k] EXCEPT !.role = r] \in Row
        BY <2>r DEF Row
      <3> QED
        BY <2>4, <3>1, <1>1 DEF ChangeRole, TypeOK
    <2> QED
      BY <1>2, <2>1, <2>2, <2>3, <2>4
  <1>3. CASE Sweep
    <2>1. \A k \in Keys : Reconciled(table[k]) \in Statuses
      BY DEF Statuses, Reconciled
    <2>2. \A k \in Keys : [table[k] EXCEPT !.status = Reconciled(table[k])] \in Row
      BY <2>1 DEF TypeOK, Row
    <2> QED
      BY <1>3, <2>2 DEF TypeOK, Sweep
  <1>4. CASE Restart
    BY <1>4, ConstantsAssumption DEF TypeOK, Restart, Times
  <1>5. CASE Tick
    BY <1>5, ConstantsAssumption DEF TypeOK, Tick, Times
  <1> QED
    BY <1>2, <1>3, <1>4, <1>5

-----------------------------------------------------------------------------
(* What the table's writers do to the versions of a row.                   *)

\* A row that is replaced is remembered as in force until now.
LEMMA TableStep ==
    ASSUME TypeOK, [Next]_vars
    PROVE  /\ retired \subseteq retired'
           /\ \A k \in Keys : \/ table'[k] = table[k]
                              \/ [key |-> k, row |-> table[k], at |-> now] \in retired'
  <1> USE DEF tableVars, cacheVars, threadVars, oauthVars
  <1>1. CASE UNCHANGED tableVars
    BY <1>1
  <1>2. ASSUME NEW k \in Keys, NEW r, Edit(k, r)
        PROVE  /\ retired \subseteq retired'
               /\ \A j \in Keys : \/ table'[j] = table[j]
                                  \/ [key |-> j, row |-> table[j], at |-> now] \in retired'
    BY <1>2 DEF Edit, Replace, TypeOK
  <1>3. CASE \E k \in Keys : Revoke(k) \/ DisableByStatus(k) \/ Renew(k) \/ ChangeRole(k)
    BY <1>2, <1>3 DEF Revoke, DisableByStatus, Renew, ChangeRole
  <1>4. CASE Sweep
    <2>1. ASSUME NEW k \in Keys, table[k].status = Reconciled(table[k])
          PROVE  [table[k] EXCEPT !.status = Reconciled(table[k])] = table[k]
      BY <2>1 DEF TypeOK, Row
    <2> QED
      BY <1>4, <2>1 DEF Sweep
  <1>5. CASE Restart \/ Tick
    BY <1>5 DEF Restart, Tick
  <1>6. ASSUME NEW t \in Threads,
               PresentKey(t) \/ PresentToken(t) \/ ConsumeCode(t) \/ Step(t)
        PROVE  UNCHANGED tableVars
    BY <1>6 DEF PresentKey, PresentToken, Arrive, ConsumeCode, Step, HitCache, StartLoad,
                FinishLoad, LoadFails, Serve, IssueCode, Reject, IssueToken
  <1>7. CASE UNCHANGED vars
    BY <1>7 DEF vars
  <1> QED
    BY <1>1, <1>3, <1>4, <1>5, <1>6, <1>7 DEF Next

\* So a version in force after a time that has passed stays so.
LEMMA ForceKept ==
    ASSUME TypeOK, [Next]_vars, NEW k \in Keys, NEW r, NEW a \in Int, a < now,
           InForceAfter(k, r, a)
    PROVE  InForceAfter(k, r, a)'
  BY TableStep DEF InForceAfter
-----------------------------------------------------------------------------
(* Each part of the invariant.                                             *)

LEMMA DelayStep ==
    ASSUME TypeOK, DelayInv, [Next]_vars
    PROVE  DelayInv'
  <1> USE DEF tableVars, cacheVars, threadVars, oauthVars, DelayInv, InFlight
  <1>t. /\ now \in Nat /\ Delay \in Nat /\ since \in [Threads -> Nat]
        /\ pc \in [Threads -> {"idle", "lookup", "load", "filter", "issue", "done"}]
    BY ConstantsAssumption DEF TypeOK, Times
  <1>1. ASSUME NEW t \in Threads, End(t), now' = now
        PROVE  DelayInv'
    BY <1>t, <1>1 DEF End
  <1>2. ASSUME NEW t \in Threads,
               PresentKey(t) \/ PresentToken(t) \/ ConsumeCode(t) \/ Step(t)
        PROVE  DelayInv'
    <2>1. CASE PresentKey(t) \/ PresentToken(t)
      BY <1>t, <2>1 DEF PresentKey, PresentToken, Arrive
    <2>2. CASE ConsumeCode(t)
      BY <1>t, <1>1, <2>2 DEF ConsumeCode
    <2>3. CASE HitCache(t) \/ StartLoad(t) \/ FinishLoad(t)
      BY <1>t, <2>3 DEF HitCache, StartLoad, FinishLoad
    <2>4. CASE LoadFails(t) \/ Serve(t) \/ IssueCode(t) \/ Reject(t) \/ IssueToken(t)
      BY <1>1, <2>4 DEF LoadFails, Serve, IssueCode, Reject, IssueToken
    <2> QED
      BY <1>2, <2>1, <2>2, <2>3, <2>4 DEF Step
  <1>3. CASE \E k \in Keys : Revoke(k) \/ DisableByStatus(k) \/ Renew(k) \/ ChangeRole(k)
    BY <1>3 DEF Revoke, DisableByStatus, Renew, ChangeRole, Edit
  <1>4. CASE Sweep
    BY <1>4 DEF Sweep
  <1>5. CASE Restart
    BY <1>5, <1>t DEF Restart
  <1>6. CASE Tick
    BY <1>6, <1>t DEF Tick
  <1>7. CASE UNCHANGED vars
    BY <1>7 DEF vars
  <1> QED
    BY <1>2, <1>3, <1>4, <1>5, <1>6, <1>7 DEF Next

LEMMA NowStep ==
    ASSUME TypeOK, [Next]_vars
    PROVE  now \in Nat /\ now' \in Nat /\ now <= now'
  <1>1. now' = now \/ now' = now + 1
    BY DEF Next, Tick, PresentKey, PresentToken, Arrive, ConsumeCode, Step, HitCache,
           StartLoad, FinishLoad, LoadFails, Serve, IssueCode, Reject, IssueToken, Revoke,
           DisableByStatus, Renew, ChangeRole, Edit, Sweep, Restart, vars
  <1> QED
    BY <1>1, ConstantsAssumption DEF TypeOK, Times

\* A list that stays where it is stays as recent as LoadInv says.
LEMMA ListsKept ==
    ASSUME TypeOK, DelayInv, LoadInv, [Next]_vars
    PROVE  /\ \A t \in Threads, k \in Keys :
                pc[t] = "load" /\ list'[t] = list[t] /\ since'[t] = since[t] =>
                    InForceAfter(k, list[t][k], since[t] - 1)'
           /\ \A t \in Threads, k \in Keys :
                pc[t] = "filter" /\ list'[t] = list[t] /\ since'[t] = since[t] =>
                    InForceAfter(k, list[t][k], since[t] - CacheTtl - Delay)'
           /\ \A k \in Keys :
                cache # None /\ cache' = cache =>
                    InForceAfter(k, cache.rows[k], cache.at - Delay - 1)'
           /\ cache # None /\ cache' = cache => cache'.at <= now'
  <1>t. /\ now \in Nat /\ now' \in Nat /\ now <= now' /\ since \in [Threads -> Nat]
        /\ Delay \in Nat /\ CacheTtl \in Nat /\ CacheTtl > 0
    BY NowStep, ConstantsAssumption DEF TypeOK, Times
  <1>1. ASSUME NEW t \in Threads, NEW k \in Keys,
               pc[t] = "load", list'[t] = list[t], since'[t] = since[t]
        PROVE  InForceAfter(k, list[t][k], since[t] - 1)'
    <2>1. since[t] - 1 \in Int /\ since[t] - 1 < now
      BY <1>t, <1>1 DEF DelayInv, InFlight
    <2> QED
      BY <1>1, <2>1, ForceKept DEF LoadInv
  <1>2. ASSUME NEW t \in Threads, NEW k \in Keys,
               pc[t] = "filter", list'[t] = list[t], since'[t] = since[t]
        PROVE  InForceAfter(k, list[t][k], since[t] - CacheTtl - Delay)'
    <2>1. since[t] - CacheTtl - Delay \in Int /\ since[t] - CacheTtl - Delay < now
      BY <1>t, <1>2 DEF DelayInv, InFlight
    <2> QED
      BY <1>2, <2>1, ForceKept DEF LoadInv
  <1>3. ASSUME cache # None, cache' = cache
        PROVE  /\ \A k \in Keys : InForceAfter(k, cache.rows[k], cache.at - Delay - 1)'
               /\ cache'.at <= now'
    <2>1. cache.at \in Nat /\ cache.at <= now
      BY <1>3 DEF LoadInv, TypeOK, Times
    <2>2. cache.at - Delay - 1 \in Int /\ cache.at - Delay - 1 < now /\ cache.at <= now'
      BY <1>t, <2>1
    <2> QED
      BY <1>3, <2>2, ForceKept DEF LoadInv
  <1> QED
    BY <1>1, <1>2, <1>3

LEMMA LoadStep ==
    ASSUME TypeOK, DelayInv, LoadInv, Next
    PROVE  LoadInv'
  <1> USE DEF tableVars, cacheVars, threadVars, oauthVars
  <1>t. /\ now \in Nat /\ since \in [Threads -> Nat]
        /\ Delay \in Nat /\ CacheTtl \in Nat /\ CacheTtl > 0
        /\ pc \in [Threads -> {"idle", "lookup", "load", "filter", "issue", "done"}]
        /\ who \in [Threads -> Keys \cup {None}]
        /\ list \in [Threads -> [Keys -> Row] \cup {None}]
    BY ConstantsAssumption DEF TypeOK, Times
  \* Nothing but request t moves, and it holds no list afterwards.
  <1>1. ASSUME NEW t \in Threads, pc'[t] \notin {"load", "filter"}, UNCHANGED cache,
               pc'[t] = "lookup" => who'[t] \in Keys,
               \A u \in Threads \ {t} : /\ pc'[u] = pc[u] /\ who'[u] = who[u]
                                        /\ since'[u] = since[u] /\ list'[u] = list[u]
        PROVE  LoadInv'
    BY <1>1, ListsKept DEF LoadInv
  <1>2. ASSUME NEW t \in Threads, End(t), UNCHANGED cache
        PROVE  LoadInv'
    BY <1>1, <1>2, <1>t DEF End
  <1>3. ASSUME NEW t \in Threads, PresentKey(t) \/ PresentToken(t)
        PROVE  LoadInv'
    <2>1. tokens \subseteq Token
      BY DEF TypeOK
    <2> QED
      BY <1>1, <1>3, <1>t, <2>1 DEF PresentKey, PresentToken, Arrive, Token
  <1>4. ASSUME NEW t \in Threads, ConsumeCode(t)
        PROVE  LoadInv'
    BY <1>1, <1>2, <1>4, <1>t DEF ConsumeCode
  <1>5. ASSUME NEW t \in Threads, HitCache(t)
        PROVE  LoadInv'
    <2>1. /\ cache # None /\ cache.at \in Nat /\ cache.rows \in [Keys -> Row]
          /\ now - cache.at < CacheTtl
      BY <1>5 DEF HitCache, Fresh, TypeOK, Times
    <2>2. since[t] <= now
      BY <1>5 DEF HitCache, DelayInv, InFlight
    <2>3. since[t] - CacheTtl - Delay <= cache.at - Delay - 1
      BY <1>t, <2>1, <2>2
    <2>4. ASSUME NEW k \in Keys
          PROVE  InForceAfter(k, cache.rows[k], since[t] - CacheTtl - Delay)
      <3>1. InForceAfter(k, cache.rows[k], cache.at - Delay - 1)
        BY <2>1 DEF LoadInv
      <3>2. \A u \in retired : u.at \in Nat
        BY DEF TypeOK, Times
      <3> QED
        BY <1>t, <2>1, <2>3, <3>1, <3>2 DEF InForceAfter
    <2>5. UNCHANGED <<table, retired>>
      BY <1>5 DEF HitCache
    <2>6. \A k \in Keys : InForceAfter(k, list[t][k], since[t] - CacheTtl - Delay)'
      BY <1>5, <1>t, <2>4, <2>5 DEF HitCache, InForceAfter
    <2>7. list'[t] \in [Keys -> Row] /\ who'[t] \in Keys /\ pc'[t] = "filter"
      BY <1>5, <1>t, <2>1 DEF HitCache, LoadInv
    <2>8. /\ UNCHANGED cache
          /\ \A u \in Threads \ {t} : /\ pc'[u] = pc[u] /\ who'[u] = who[u]
                                      /\ since'[u] = since[u] /\ list'[u] = list[u]
      BY <1>5, <1>t DEF HitCache
    <2> QED
      BY <2>6, <2>7, <2>8, ListsKept DEF LoadInv
  <1>6. ASSUME NEW t \in Threads, StartLoad(t)
        PROVE  LoadInv'
    <2>1. \A k \in Keys : InForceAfter(k, list[t][k], since[t] - 1)'
      BY <1>6, <1>t DEF StartLoad, InForceAfter
    <2>2. list'[t] \in [Keys -> Row] /\ who'[t] \in Keys /\ pc'[t] = "load"
      BY <1>6, <1>t DEF StartLoad, LoadInv, TypeOK
    <2>3. /\ UNCHANGED cache
          /\ \A u \in Threads \ {t} : /\ pc'[u] = pc[u] /\ who'[u] = who[u]
                                      /\ since'[u] = since[u] /\ list'[u] = list[u]
      BY <1>6, <1>t DEF StartLoad
    <2> QED
      BY <2>1, <2>2, <2>3, ListsKept DEF LoadInv
  <1>7. ASSUME NEW t \in Threads, FinishLoad(t)
        PROVE  LoadInv'
    <2>1. since[t] <= now /\ now <= since[t] + Delay
      BY <1>7 DEF FinishLoad, DelayInv, InFlight
    <2>2. /\ since[t] \in Nat
          /\ now - Delay - 1 <= since[t] - 1 /\ since[t] - CacheTtl - Delay <= since[t] - 1
      BY <1>t, <2>1
    <2>3. \A u \in retired : u.at \in Nat
      BY DEF TypeOK, Times
    <2>4. ASSUME NEW k \in Keys
          PROVE  /\ InForceAfter(k, list[t][k], now - Delay - 1)
                 /\ InForceAfter(k, list[t][k], since[t] - CacheTtl - Delay)
      <3>1. InForceAfter(k, list[t][k], since[t] - 1)
        BY <1>7 DEF FinishLoad, LoadInv
      <3> QED
        BY <1>t, <2>2, <2>3, <3>1 DEF InForceAfter
    <2>5. UNCHANGED <<table, retired, now, since, list, who>>
      BY <1>7 DEF FinishLoad
    <2>6. /\ cache'.at = now /\ cache'.rows = list[t] /\ pc'[t] = "filter"
          /\ list[t] \in [Keys -> Row] /\ who[t] \in Keys
          /\ \A u \in Threads \ {t} : pc'[u] = pc[u]
      BY <1>7, <1>t DEF FinishLoad, LoadInv
    <2>7. cache'.at <= now'
      BY <2>5, <2>6, <1>t
    <2>8. \A k \in Keys : /\ InForceAfter(k, cache.rows[k], cache.at - Delay - 1)'
                          /\ InForceAfter(k, list[t][k], since[t] - CacheTtl - Delay)'
      BY <2>4, <2>5, <2>6 DEF InForceAfter
    <2> QED
      BY <2>5, <2>6, <2>7, <2>8, ListsKept DEF LoadInv
  <1>8. ASSUME NEW t \in Threads, LoadFails(t)
        PROVE  LoadInv'
    <2>1. /\ cache' = None /\ pc'[t] = "done"
          /\ \A u \in Threads \ {t} : /\ pc'[u] = pc[u] /\ who'[u] = who[u]
                                      /\ since'[u] = since[u] /\ list'[u] = list[u]
      BY <1>8, <1>t DEF LoadFails, End
    <2> QED
      BY <2>1, ListsKept DEF LoadInv
  <1>9. ASSUME NEW t \in Threads, Serve(t) \/ IssueCode(t) \/ Reject(t) \/ IssueToken(t)
        PROVE  LoadInv'
    BY <1>2, <1>9 DEF Serve, IssueCode, Reject, IssueToken
  <1>10. CASE Restart
    BY <1>10, <1>t DEF Restart, InFlight, LoadInv
  <1>11. CASE UNCHANGED <<cacheVars, threadVars>>
    BY <1>11, ListsKept DEF LoadInv
  <1>12. CASE \E k \in Keys : Revoke(k) \/ DisableByStatus(k) \/ Renew(k) \/ ChangeRole(k)
    BY <1>11, <1>12 DEF Revoke, DisableByStatus, Renew, ChangeRole, Edit
  <1>13. CASE Sweep \/ Tick
    BY <1>11, <1>13 DEF Sweep, Tick
  <1> QED
    BY <1>3, <1>4, <1>5, <1>6, <1>7, <1>8, <1>9, <1>10, <1>12, <1>13 DEF Next, Step
LEMMA ServedStep ==
    ASSUME Inv, [Next]_vars
    PROVE  ServedInv'
  <1> USE DEF tableVars, cacheVars, threadVars, oauthVars
  <1>t. /\ now \in Nat /\ now' \in Nat /\ now <= now'
        /\ Delay \in Nat /\ CacheTtl \in Nat /\ CacheTtl > 0
        /\ Staleness \in Nat /\ Staleness > 0
    BY NowStep, ConstantsAssumption DEF Inv, Staleness
  <1>1. ASSUME NEW t \in Threads, Serve(t)
        PROVE  ServedInv'
    <2> DEFINE row == list[t][who[t]]
    <2>1. who[t] \in Keys /\ row \in Row
      BY <1>1 DEF Serve, Inv, LoadInv
    <2>2. since[t] \in Nat /\ now <= since[t] + Delay
      BY <1>1 DEF Serve, Inv, DelayInv, InFlight, TypeOK, Times
    <2>3. now - Staleness <= since[t] - CacheTtl - Delay
      BY <1>t, <2>2 DEF Staleness
    <2>4. InForceAfter(who[t], row, since[t] - CacheTtl - Delay)
      BY <1>1, <2>1 DEF Serve, Inv, LoadInv
    <2>5. \A u \in retired : u.at \in Nat
      BY DEF Inv, TypeOK, Times
    <2>6. InForceAfter(who[t], row, now - Staleness)
      BY <1>t, <2>2, <2>3, <2>4, <2>5 DEF InForceAfter
    <2>7. /\ UNCHANGED <<table, retired, now>>
          /\ served'.key = who[t] /\ served'.role = row.role /\ served'.at = now
      BY <1>1 DEF Serve, GrantedRole
    <2>8. Usable(row, now)
      BY <1>1 DEF Serve, Matches
    <2> HIDE DEF row
    <2>9. /\ served'.at <= now'
          /\ \E r \in Row : /\ InForceAfter(served.key, r, served.at - Staleness)'
                            /\ r.role = served'.role /\ Usable(r, served'.at)
      BY <1>t, <2>1, <2>6, <2>7, <2>8 DEF InForceAfter
    <2> QED
      BY <2>9 DEF ServedInv, Usable, Staleness
  <1>2. CASE UNCHANGED served
    <2> SUFFICES ASSUME served' # None
                 PROVE  /\ served'.at <= now'
                        /\ (\E row \in Row :
                              /\ InForceAfter(served.key, row, served.at - Staleness)
                              /\ row.role = served.role /\ Usable(row, served.at))'
      BY DEF ServedInv
    <2>1. PICK row \in Row : /\ InForceAfter(served.key, row, served.at - Staleness)
                             /\ row.role = served.role /\ Usable(row, served.at)
      BY <1>2 DEF Inv, ServedInv
    <2>2. /\ served.key \in Keys /\ served.at \in Nat /\ served.at <= now
      BY <1>2 DEF Inv, ServedInv, TypeOK, Times
    <2>3. served.at - Staleness \in Int /\ served.at - Staleness < now /\ served.at <= now'
      BY <1>t, <2>2
    <2>4. InForceAfter(served.key, row, served.at - Staleness)'
      BY <1>2, <2>1, <2>2, <2>3, ForceKept DEF Inv, Staleness
    <2> QED
      BY <1>2, <2>1, <2>3, <2>4 DEF Usable
  <1>3. ASSUME NEW t \in Threads,
               \/ PresentKey(t) \/ PresentToken(t) \/ ConsumeCode(t)
               \/ Step(t) /\ ~Serve(t)
        PROVE  UNCHANGED served
    BY <1>3 DEF PresentKey, PresentToken, Arrive, ConsumeCode, Step, HitCache, StartLoad,
                FinishLoad, LoadFails, IssueCode, Reject, IssueToken
  <1>4. CASE \E k \in Keys : Revoke(k) \/ DisableByStatus(k) \/ Renew(k) \/ ChangeRole(k)
    BY <1>2, <1>4 DEF Revoke, DisableByStatus, Renew, ChangeRole, Edit
  <1>5. CASE Sweep \/ Restart \/ Tick \/ UNCHANGED vars
    BY <1>2, <1>5 DEF Sweep, Restart, Tick, vars
  <1> QED
    BY <1>1, <1>2, <1>3, <1>4, <1>5 DEF Next, Step

LEMMA CodeStep ==
    ASSUME TypeOK, LoadInv, CodeInv, [Next]_vars
    PROVE  CodeInv'
  <1> USE DEF tableVars, cacheVars, threadVars, oauthVars
  <1>t. /\ pc \in [Threads -> {"idle", "lookup", "load", "filter", "issue", "done"}]
        /\ entry \in [Threads -> CodeEntry \cup {None}]
        /\ codes \subseteq CodeEntry /\ tokens \subseteq Token
    BY DEF TypeOK
  \* Nobody starts to redeem, and a code that is added is new.
  <1>1. ASSUME codes' \subseteq codes, UNCHANGED tokens,
               \A u \in Threads : pc'[u] = "issue" => pc[u] = "issue" /\ entry'[u] = entry[u]
        PROVE  CodeInv'
    BY <1>1 DEF CodeInv, CodeBuysOneToken
  <1>2. ASSUME NEW t \in Threads, End(t)
        PROVE  \A u \in Threads :
                    pc'[u] = "issue" => u # t /\ pc[u] = "issue" /\ entry'[u] = entry[u]
    BY <1>2, <1>t DEF End
  <1>3. ASSUME NEW t \in Threads, PresentKey(t) \/ PresentToken(t)
        PROVE  CodeInv'
    BY <1>1, <1>3, <1>t DEF PresentKey, PresentToken, Arrive
  <1>4. ASSUME NEW t \in Threads, ConsumeCode(t)
        PROVE  CodeInv'
    <2>1. PICK e \in codes :
            /\ codes' = codes \ {e}
            /\ \/ /\ entry' = [entry EXCEPT ![t] = e]
                  /\ pc' = [pc EXCEPT ![t] = "issue"]
               \/ End(t)
      BY <1>4 DEF ConsumeCode, RemoveCode
    <2>2. UNCHANGED tokens
      BY <1>4 DEF ConsumeCode
    <2>3. CASE End(t)
      BY <1>1, <1>2, <2>1, <2>2, <2>3
    <2>4. CASE entry' = [entry EXCEPT ![t] = e] /\ pc' = [pc EXCEPT ![t] = "issue"]
      <3>1. entry'[t] = e /\ e \in CodeEntry
        BY <1>t, <2>4
      <3>2. \A u \in Threads \ {t} : pc'[u] = pc[u] /\ entry'[u] = entry[u]
        BY <1>t, <2>4
      <3>3. \A f \in codes' : f \in codes /\ f.code # e.code
        BY <2>1 DEF CodeInv
      <3> QED
        BY <2>1, <2>2, <3>1, <3>2, <3>3 DEF CodeInv, CodeBuysOneToken
    <2> QED
      BY <2>1, <2>3, <2>4
  <1>5. ASSUME NEW t \in Threads, HitCache(t) \/ StartLoad(t) \/ FinishLoad(t)
        PROVE  CodeInv'
    BY <1>1, <1>5, <1>t DEF HitCache, StartLoad, FinishLoad
  <1>6. ASSUME NEW t \in Threads, LoadFails(t) \/ Serve(t) \/ Reject(t)
        PROVE  CodeInv'
    BY <1>1, <1>2, <1>6 DEF LoadFails, Serve, Reject
  <1>7. ASSUME NEW t \in Threads, IssueCode(t)
        PROVE  CodeInv'
    <2> DEFINE Entry(c) == [code |-> c, key |-> who[t], role |-> GrantedRole(t),
                            expiresAt |-> now + CodeTtl]
    <2>0. PICK c \in Codes :
            /\ c \notin {f.code : f \in codes} \cup {tok.code : tok \in tokens}
            /\ \A u \in Threads : pc[u] = "issue" => entry[u].code # c
            /\ codes' = Unexpired \cup {Entry(c)}
      BY <1>7 DEF IssueCode
    <2> DEFINE e == Entry(c)
    <2>e. codes' = Unexpired \cup {e} /\ e.code = c
      BY <2>0
    <2> HIDE DEF e
    <2>1. /\ c \notin {f.code : f \in codes} \cup {tok.code : tok \in tokens}
          /\ \A u \in Threads : pc[u] = "issue" => entry[u].code # c
          /\ codes' = Unexpired \cup {e} /\ e.code = c
      BY <2>0, <2>e
    <2>2. Unexpired \subseteq codes
      BY DEF Unexpired
    <2>3. UNCHANGED tokens /\ End(t)
      BY <1>7 DEF IssueCode
    <2>4. \A u \in Threads :
             pc'[u] = "issue" => u # t /\ pc[u] = "issue" /\ entry'[u] = entry[u]
      BY <1>2, <2>3
    <2>5. \A f \in codes' : f = e \/ (f \in codes /\ f.code # e.code)
      BY <2>1, <2>2
    <2>6. \A x \in tokens : x.code # e.code
      BY <2>1
    <2> QED
      BY <2>1, <2>3, <2>4, <2>5, <2>6 DEF CodeInv, CodeBuysOneToken
  <1>8. ASSUME NEW t \in Threads, IssueToken(t)
        PROVE  CodeInv'
    <2> DEFINE x == [jti |-> t, code |-> entry[t].code, codeExpiry |-> entry[t].expiresAt,
                     key |-> entry[t].key, role |-> entry[t].role, exp |-> Expiry(now)]
    <2>1. tokens' = tokens \cup {x} /\ x.code = entry[t].code
      BY <1>8 DEF IssueToken
    <2> HIDE DEF x
    <2>2. UNCHANGED codes /\ End(t) /\ pc[t] = "issue"
      BY <1>8 DEF IssueToken
    <2>3. \A u \in Threads :
             pc'[u] = "issue" => u # t /\ pc[u] = "issue" /\ entry'[u] = entry[u]
      BY <1>2, <2>2
    <2>4. /\ \A e \in codes : e.code # x.code
          /\ \A y \in tokens : y.code # x.code
          /\ \A u \in Threads : pc'[u] = "issue" => entry'[u].code # x.code
      BY <2>1, <2>2, <2>3 DEF CodeInv
    <2> QED
      BY <2>1, <2>2, <2>3, <2>4 DEF CodeInv, CodeBuysOneToken
  <1>9. CASE Restart
    <2>1. \A u \in Threads : pc'[u] # "issue"
      BY <1>9, <1>t DEF Restart, InFlight
    <2> QED
      BY <1>1, <1>9, <2>1 DEF Restart
  <1>10. CASE \E k \in Keys : Revoke(k) \/ DisableByStatus(k) \/ Renew(k) \/ ChangeRole(k)
    BY <1>1, <1>10 DEF Revoke, DisableByStatus, Renew, ChangeRole, Edit
  <1>11. CASE Sweep \/ Tick \/ UNCHANGED vars
    BY <1>1, <1>11 DEF Sweep, Tick, vars
  <1> QED
    BY <1>3, <1>4, <1>5, <1>6, <1>7, <1>8, <1>9, <1>10, <1>11 DEF Next, Step

LEMMA LifeStep ==
    ASSUME Inv, [Next]_vars
    PROVE  LifeInv'
  <1> USE DEF tableVars, cacheVars, threadVars, oauthVars
  <1>t. /\ pc \in [Threads -> {"idle", "lookup", "load", "filter", "issue", "done"}]
        /\ since \in [Threads -> Nat] /\ now \in Nat /\ Delay \in Nat /\ TokenTtl \in Nat
        /\ entry \in [Threads -> CodeEntry \cup {None}]
        /\ codes \subseteq CodeEntry
    BY ConstantsAssumption DEF Inv, TypeOK, Times
  \* Nobody starts to redeem a code.
  <1>1. ASSUME UNCHANGED tokens,
               \A u \in Threads : pc'[u] = "issue" =>
                    pc[u] = "issue" /\ entry'[u] = entry[u] /\ since'[u] = since[u]
        PROVE  LifeInv'
    BY <1>1 DEF Inv, LifeInv, TokenLifetimeBounded
  <1>2. ASSUME NEW t \in Threads, End(t)
        PROVE  \A u \in Threads : pc'[u] = "issue" =>
                    pc[u] = "issue" /\ entry'[u] = entry[u] /\ since'[u] = since[u]
    BY <1>2, <1>t DEF End
  <1>3. ASSUME NEW t \in Threads, ConsumeCode(t)
        PROVE  LifeInv'
    <2>1. CASE End(t)
      BY <1>1, <1>2, <1>3, <2>1 DEF ConsumeCode
    <2>2. CASE ~End(t)
      <3>1. PICK e \in codes : /\ entry' = [entry EXCEPT ![t] = e]
                               /\ pc' = [pc EXCEPT ![t] = "issue"]
                               /\ since' = [since EXCEPT ![t] = now]
                               /\ e.expiresAt >= now
        BY <1>3, <2>2 DEF ConsumeCode, CodeAlive
      <3>2. UNCHANGED tokens
        BY <1>3 DEF ConsumeCode
      <3>3. e.expiresAt \in Nat
        BY <1>t DEF CodeEntry
      <3>4. now <= e.expiresAt
        BY <1>t, <3>1, <3>3
      <3> QED
        BY <1>t, <3>1, <3>2, <3>4 DEF Inv, LifeInv, TokenLifetimeBounded
    <2> QED
      BY <2>1, <2>2
  <1>4. ASSUME NEW t \in Threads, IssueToken(t)
        PROVE  LifeInv'
    <2>1. /\ now <= since[t] + Delay /\ since[t] <= entry[t].expiresAt
          /\ entry[t] \in CodeEntry
      BY <1>4 DEF IssueToken, Inv, DelayInv, InFlight, LifeInv, CodeInv
    <2>2. entry[t].expiresAt \in Nat /\ since[t] \in Nat
      BY <1>t, <2>1 DEF CodeEntry
    <2>3. now + TokenTtl <= entry[t].expiresAt + Delay + TokenTtl
      BY <1>t, <2>1, <2>2
    <2> DEFINE x == [jti |-> t, code |-> entry[t].code, codeExpiry |-> entry[t].expiresAt,
                     key |-> entry[t].key, role |-> entry[t].role, exp |-> Expiry(now)]
    <2>4. /\ tokens' = tokens \cup {x}
          /\ x.exp = now + TokenTtl /\ x.codeExpiry = entry[t].expiresAt
      BY <1>4 DEF IssueToken, Expiry
    <2> HIDE DEF x
    <2>5. \A u \in Threads : pc'[u] = "issue" =>
                pc[u] = "issue" /\ entry'[u] = entry[u] /\ since'[u] = since[u]
      BY <1>2, <1>4 DEF IssueToken
    <2> QED
      BY <2>3, <2>4, <2>5 DEF Inv, LifeInv, TokenLifetimeBounded
  <1>5. ASSUME NEW t \in Threads,
               LoadFails(t) \/ Serve(t) \/ Reject(t) \/ IssueCode(t)
        PROVE  LifeInv'
    BY <1>1, <1>2, <1>5 DEF LoadFails, Serve, Reject, IssueCode
  <1>6. ASSUME NEW t \in Threads, PresentKey(t) \/ PresentToken(t)
        PROVE  LifeInv'
    BY <1>1, <1>6, <1>t DEF PresentKey, PresentToken, Arrive
  <1>7. ASSUME NEW t \in Threads, HitCache(t) \/ StartLoad(t) \/ FinishLoad(t)
        PROVE  LifeInv'
    BY <1>1, <1>7, <1>t DEF HitCache, StartLoad, FinishLoad
  <1>8. CASE Restart
    <2>1. \A u \in Threads : pc'[u] # "issue"
      BY <1>8, <1>t DEF Restart, InFlight
    <2> QED
      BY <1>1, <1>8, <2>1 DEF Restart
  <1>9. CASE \E k \in Keys : Revoke(k) \/ DisableByStatus(k) \/ Renew(k) \/ ChangeRole(k)
    BY <1>1, <1>9 DEF Revoke, DisableByStatus, Renew, ChangeRole, Edit
  <1>10. CASE Sweep \/ Tick \/ UNCHANGED vars
    BY <1>1, <1>10 DEF Sweep, Tick, vars
  <1> QED
    BY <1>3, <1>4, <1>5, <1>6, <1>7, <1>8, <1>9, <1>10 DEF Next, Step

-----------------------------------------------------------------------------
(* The theorems.                                                           *)

LEMMA InvInit == Init => Inv
  BY TypeInit DEF Init, Inv, DelayInv, LoadInv, ServedInv, CodeInv, LifeInv, InFlight,
                  CodeBuysOneToken, TokenLifetimeBounded

LEMMA InvNext == Inv /\ [Next]_vars => Inv'
  <1> SUFFICES ASSUME Inv, [Next]_vars PROVE Inv'
    OBVIOUS
  <1>1. TypeOK'
    <2>1. CASE UNCHANGED vars
      BY <2>1 DEF Inv, TypeOK, vars, tableVars, cacheVars, threadVars, oauthVars
    <2>2. CASE Next
      BY <2>2, StepType, OtherType DEF Next, Inv
    <2> QED
      BY <2>1, <2>2
  <1>2. DelayInv' /\ ServedInv' /\ CodeInv' /\ LifeInv'
    BY DelayStep, ServedStep, CodeStep, LifeStep DEF Inv
  <1>3. LoadInv'
    <2>1. CASE UNCHANGED vars
      BY <2>1 DEF Inv, LoadInv, InForceAfter, vars, tableVars, cacheVars, threadVars
    <2>2. CASE Next
      BY <2>2, LoadStep DEF Inv
    <2> QED
      BY <2>1, <2>2
  <1> QED
    BY <1>1, <1>2, <1>3 DEF Inv

\* The inductive invariant holds in every reachable state.
THEOREM Invariance == Spec => []Inv
  BY InvInit, InvNext, PTL DEF Spec

\* Credentials: every variable keeps its type.
THEOREM TypeCorrect == Spec => []TypeOK
  BY Invariance, PTL DEF Inv

\* ApiKeyService, ApiKeyFilter: for every cache lifetime and every length of a
\* request, whoever is let through is let through on a row version in force
\* less than CacheTtl + 2 * Delay before, and usable at that moment.
THEOREM RevocationTakesHold == Spec => []ServedOnRecentRow
  <1>1. Inv => ServedOnRecentRow
    BY DEF Inv, ServedInv, ServedOnRecentRow, RecentRows, InForceAfter
  <1> QED
    BY <1>1, Invariance, PTL

\* AuthCodeStore.consume: no code buys two tokens, whatever requests race.
THEOREM CodesAreSingleUse == Spec => []CodeBuysOneToken
  BY Invariance, PTL DEF Inv, CodeInv

\* AuthCodeStore, JwtTokenService: a presentation of an API key buys access for
\* at most the code's and the token's lifetimes and one request.
THEOREM TokensExpire == Spec => []TokenLifetimeBounded
  BY Invariance, PTL DEF Inv, LifeInv
=============================================================================
