------------------------- MODULE AccessTokensProofs -------------------------
(***************************************************************************)
(* Proofs about AccessTokens for any number of tasks, any hosts and any    *)
(* lifetimes of the tokens.                                                *)
(***************************************************************************)
EXTENDS AccessTokens, SequenceTheorems, TLAPS

-----------------------------------------------------------------------------
(* The queue at the gate.                                                  *)

\* A task that was not waiting queues up behind those that are.
LEMMA QueueUp ==
    ASSUME NEW S, NEW q \in Seq(S), IsInjective(q), NEW t \in S, t \notin ToSet(q)
    PROVE  /\ Append(q, t) \in Seq(S) /\ Append(q, t) # <<>>
           /\ IsInjective(Append(q, t))
           /\ ToSet(Append(q, t)) = ToSet(q) \cup {t}
           /\ q # <<>> => Head(Append(q, t)) = Head(q)
  <1> DEFINE r == Append(q, t)
  <1>1. /\ r \in Seq(S) /\ r # <<>> /\ Len(r) = Len(q) + 1
        /\ \A i \in 1..Len(q) : r[i] = q[i]
        /\ r[Len(q) + 1] = t
    BY AppendProperties
  <1>2. q # <<>> => Head(r) = Head(q)
    BY HeadTailAppend
  <1>3. DOMAIN r = 1..Len(q) + 1 /\ DOMAIN q = 1..Len(q) /\ Len(q) \in Nat
    BY <1>1, LenProperties
  <1>4. \A i \in 1..Len(q) : q[i] # t
    BY <1>3 DEF ToSet
  <1> HIDE DEF r
  <1>5. IsInjective(r)
    BY <1>1, <1>3, <1>4 DEF IsInjective
  <1>6. ToSet(r) = ToSet(q) \cup {t}
    <2>1. ASSUME NEW x \in ToSet(r) PROVE x \in ToSet(q) \cup {t}
      BY <1>1, <1>3 DEF ToSet
    <2>2. ASSUME NEW x \in ToSet(q) \cup {t} PROVE x \in ToSet(r)
      BY <1>1, <1>3 DEF ToSet
    <2> QED
      BY <2>1, <2>2
  <1> QED
    BY <1>1, <1>2, <1>5, <1>6 DEF r

\* The task that held the gate leaves, and no other.
LEMMA LeaveQueue ==
    ASSUME NEW S, NEW q \in Seq(S), q # <<>>, IsInjective(q)
    PROVE  /\ Tail(q) \in Seq(S) /\ IsInjective(Tail(q))
           /\ ToSet(Tail(q)) = ToSet(q) \ {Head(q)}
  <1>1. /\ Tail(q) \in Seq(S) /\ Len(Tail(q)) = Len(q) - 1
        /\ \A i \in 1..Len(Tail(q)) : Tail(q)[i] = q[i + 1]
    BY HeadTailProperties
  <1>2. /\ DOMAIN Tail(q) = 1..Len(q) - 1 /\ DOMAIN q = 1..Len(q) /\ Len(q) \in Nat \ {0}
        /\ Head(q) = q[1]
    BY <1>1, LenProperties, EmptySeq
  <1>3. IsInjective(Tail(q))
    BY <1>1, <1>2 DEF IsInjective
  <1>4. ToSet(Tail(q)) = ToSet(q) \ {Head(q)}
    <2>1. ASSUME NEW x \in ToSet(Tail(q)) PROVE x \in ToSet(q) /\ x # Head(q)
      <3>1. PICK i \in 1..Len(q) - 1 : x = q[i + 1]
        BY <1>1, <1>2 DEF ToSet
      <3>2. i + 1 \in 1..Len(q) /\ i + 1 # 1
        BY <1>2
      <3> QED
        BY <1>2, <3>1, <3>2 DEF ToSet, IsInjective
    <2>2. ASSUME NEW x \in ToSet(q), x # Head(q) PROVE x \in ToSet(Tail(q))
      <3>1. PICK i \in 1..Len(q) : x = q[i]
        BY <1>2 DEF ToSet
      <3>2. i - 1 \in 1..Len(q) - 1 /\ q[i] = q[(i - 1) + 1]
        BY <1>2, <2>2, <3>1
      <3> QED
        BY <1>1, <1>2, <3>1, <3>2 DEF ToSet
    <2> QED
      BY <2>1, <2>2
  <1> QED
    BY <1>1, <1>3, <1>4
-----------------------------------------------------------------------------
(* The inductive invariant.                                                *)

Tokens == [expires_at : Nat, dies : Nat]
Steps == {"idle", "token", "gate", "refresh", "send"}
TaskRecords == [pc : Steps, host : Hosts \cup {ApiHost}, hop : 0..(MAX_REDIRECTS - 1), issued : Nat,
                auth : BOOLEAN, cached : BOOLEAN, left : Int]

RecordsInv ==
    /\ clock \in 0..MaxClock
    /\ cache \in [Connectors -> Tokens \cup {NoToken}]
    /\ gate \in Seq(ZohoTasks)
    /\ task \in [TokenTasks -> TaskRecords]

\* The gate's queue is the Zoho tasks in refresh_if_needed, its head alone may
\* be refreshing, and it refreshes only what has lapsed.
GateInv ==
    /\ IsInjective(gate)
    /\ \A t \in ZohoTasks : t \in ToSet(gate) <=> task[t].pc \in {"gate", "refresh"}
    /\ \A t \in GraphTasks : task[t].pc # "gate"
    /\ \A t \in ZohoTasks :
        task[t].pc = "refresh" => gate # <<>> /\ t = Head(gate) /\ ~Fresh("zoho")

\* A refresh under way was asked for no longer than MaxLatency ago.
LatencyInv ==
    \A t \in TokenTasks :
        task[t].pc = "refresh" =>
            task[t].issued <= clock /\ clock <= task[t].issued + MaxLatency

\* What a cache shortens a token's life by makes up for the time the answer
\* took, or the token already counts as expired.
CacheInv ==
    \A c \in Connectors :
        cache[c] # NoToken =>
            \/ cache[c].expires_at <= clock
            \/ cache[c].dies >= cache[c].expires_at

\* A task that holds or asks for a token is about to send to a trusted host.
TaskInv(t) ==
    /\ task[t].cached => task[t].left > Safety
    /\ t \in ZohoTasks /\ (task[t].auth \/ task[t].pc \in {"token", "gate", "refresh"}) =>
            is_trusted_zoho_host(task[t].host)

Inv ==
    /\ RecordsInv /\ GateInv /\ LatencyInv /\ CacheInv
    /\ \A t \in TokenTasks : TaskInv(t)

-----------------------------------------------------------------------------
(* Facts the steps share.                                                  *)

LEMMA Parameters ==
    /\ Safety \in Nat /\ MaxLatency \in Nat /\ MaxLatency <= Safety
    /\ MAX_REDIRECTS \in Nat \ {0} /\ MaxClock \in Nat /\ Lifetimes \subseteq Nat
    /\ \A t \in ZohoTasks : t \in TokenTasks /\ t \notin GraphTasks /\ ConnectorOf(t) = "zoho"
    /\ \A t \in GraphTasks : t \in TokenTasks /\ t \notin ZohoTasks /\ ConnectorOf(t) = "graph"
    /\ \A t \in TokenTasks : ConnectorOf(t) \in Connectors
    /\ NoTask \in TaskRecords
  BY TokenAssumption DEF TokenTasks, ConnectorOf, Connectors, NoTask, TaskRecords, Steps

LEMMA ApiHostTrusted == is_trusted_zoho_host(ApiHost)
  <1>1. Len(<<"eu", "zoho">>) = 2 /\ Len(ApiHost) = 3
    BY DEF ApiHost
  <1>2. SubSeq(<<"eu", "zoho">>, 1, 2) = SubSeq(ApiHost, 1, 2)
    BY DEF ApiHost
  <1> QED
    BY <1>1, <1>2 DEF is_trusted_zoho_host, IsPrefix

LEMMA Unfolded ==
    ASSUME Inv
    PROVE  /\ RecordsInv /\ GateInv /\ LatencyInv /\ CacheInv /\ \A t \in TokenTasks : TaskInv(t)
           /\ clock \in Nat /\ gate \in Seq(ZohoTasks) /\ task \in [TokenTasks -> TaskRecords]
           /\ \A t \in TokenTasks :
                /\ task[t].pc \in Steps /\ task[t].issued \in Nat /\ task[t].left \in Int
                /\ task[t].auth \in BOOLEAN /\ task[t].cached \in BOOLEAN
                /\ task[t].hop \in 0..(MAX_REDIRECTS - 1)
                /\ task[t].host \in Hosts \cup {ApiHost}
           /\ \A c \in Connectors :
                cache[c] # NoToken => cache[c].expires_at \in Nat /\ cache[c].dies \in Nat
  BY Parameters DEF Inv, RecordsInv, TaskRecords, Tokens

\* A step of t's that gives it record r and leaves the other tasks alone.
LEMMA OneTask ==
    ASSUME Inv, NEW t \in TokenTasks, NEW r \in TaskRecords, task' = [task EXCEPT ![t] = r]
    PROVE  /\ task' \in [TokenTasks -> TaskRecords]
           /\ task'[t] = r /\ \A u \in TokenTasks \ {t} : task'[u] = task[u]
           /\ \A u \in TokenTasks \ {t} : TaskInv(u)'
  <1>1. /\ task' \in [TokenTasks -> TaskRecords]
        /\ task'[t] = r /\ \A u \in TokenTasks \ {t} : task'[u] = task[u]
    BY Unfolded
  <1>2. ASSUME NEW u \in TokenTasks \ {t} PROVE TaskInv(u)'
    BY <1>1, Unfolded DEF TaskInv
  <1> QED
    BY <1>1, <1>2

\* Taking the token of a cache that holds a usable one.
LEMMA CachedLives ==
    ASSUME Inv, NEW t \in TokenTasks, Fresh(ConnectorOf(t))
    PROVE  /\ cache[ConnectorOf(t)].dies - clock \in Int
           /\ cache[ConnectorOf(t)].dies - clock > Safety
  <1>1. ConnectorOf(t) \in Connectors /\ cache[ConnectorOf(t)] # NoToken
    BY Parameters DEF Fresh
  <1> QED
    BY <1>1, Unfolded, Parameters DEF Fresh, CacheInv
\* The records that the steps of a task leave it with.
LEMMA TakesCached ==
    ASSUME Inv, NEW t \in TokenTasks, Fresh(ConnectorOf(t)), TakeCached(t)
    PROVE  \E r \in TaskRecords :
             /\ task' = [task EXCEPT ![t] = r]
             /\ r.pc = "send" /\ r.host = task[t].host /\ r.cached /\ r.left > Safety
  <1> DEFINE left == cache[ConnectorOf(t)].dies - clock
             r == [task[t] EXCEPT !.pc = "send", !.auth = TRUE, !.cached = TRUE, !.left = left]
  <1>1. left \in Int /\ left > Safety
    BY CachedLives
  <1>2. task[t] \in TaskRecords
    BY Unfolded
  <1>3. task' = [task EXCEPT ![t] = r]
    BY Unfolded DEF TakeCached
  <1> HIDE DEF left
  <1>4. /\ r \in TaskRecords /\ r.pc = "send" /\ r.host = task[t].host
        /\ r.cached = TRUE /\ r.left = left
    BY <1>1, <1>2 DEF TaskRecords, Steps
  <1> QED
    BY <1>1, <1>3, <1>4

LEMMA CallsRefresh ==
    ASSUME Inv, NEW t \in TokenTasks, CallRefresh(t)
    PROVE  \E r \in TaskRecords :
             /\ task' = [task EXCEPT ![t] = r]
             /\ r.pc = "refresh" /\ r.issued = clock
             /\ r.host = task[t].host /\ r.auth = task[t].auth
             /\ r.cached = task[t].cached /\ r.left = task[t].left
  <1> DEFINE r == [task[t] EXCEPT !.pc = "refresh", !.issued = clock]
  <1>1. task[t] \in TaskRecords /\ clock \in Nat
    BY Unfolded
  <1>2. task' = [task EXCEPT ![t] = r]
    BY Unfolded DEF CallRefresh
  <1>3. /\ r \in TaskRecords /\ r.pc = "refresh" /\ r.issued = clock
        /\ r.host = task[t].host /\ r.auth = task[t].auth
        /\ r.cached = task[t].cached /\ r.left = task[t].left
    BY <1>1 DEF TaskRecords, Steps
  <1> QED
    BY <1>2, <1>3

-----------------------------------------------------------------------------
(* Each step preserves the invariant.                                      *)

LEMMA TickInv ==
    ASSUME Inv, TokenTick
    PROVE  Inv'
  <1> USE Parameters, Unfolded DEF TokenTick
  <1>1. RecordsInv'
    BY DEF RecordsInv
  <1>2. GateInv'
    <2>1. ~Fresh("zoho") => ~Fresh("zoho")'
      BY DEF Fresh, Connectors
    <2> QED
      BY <2>1 DEF GateInv
  <1>3. LatencyInv'
    BY DEF LatencyInv
  <1>4. CacheInv'
    BY DEF CacheInv
  <1>5. \A t \in TokenTasks : TaskInv(t)'
    BY DEF TaskInv
  <1> QED
    BY <1>1, <1>2, <1>3, <1>4, <1>5 DEF Inv

\* A step of t's that stays away from the gate, the cache and the clock, and
\* does not go to refresh.
LEMMA AloneInv ==
    ASSUME Inv, NEW t \in TokenTasks, NEW r \in TaskRecords, task' = [task EXCEPT ![t] = r],
           UNCHANGED <<clock, cache, gate>>, TaskInv(t)',
           r.pc \in {"idle", "token", "send"},
           t \in ZohoTasks => task[t].pc \notin {"gate", "refresh"}
    PROVE  Inv'
  <1> USE Parameters, Unfolded
  <1>0. /\ task' \in [TokenTasks -> TaskRecords]
        /\ task'[t] = r /\ \A u \in TokenTasks \ {t} : task'[u] = task[u]
        /\ \A u \in TokenTasks : TaskInv(u)'
    BY OneTask
  <1>1. RecordsInv'
    BY <1>0 DEF RecordsInv
  <1>2. GateInv'
    BY <1>0 DEF GateInv, Fresh
  <1>3. LatencyInv'
    BY <1>0 DEF LatencyInv
  <1>4. CacheInv'
    BY DEF CacheInv
  <1> QED
    BY <1>0, <1>1, <1>2, <1>3, <1>4 DEF Inv

\* The holder of the gate leaves it, whatever it does to the cache.
LEMMA GateLeft ==
    ASSUME Inv, NEW t \in ZohoTasks, gate # <<>>, t = Head(gate), gate' = Tail(gate),
           \A u \in TokenTasks \ {t} : task'[u] = task[u],
           task'[t].pc \in {"idle", "send"}
    PROVE  gate' \in Seq(ZohoTasks) /\ GateInv'
  <1> USE Parameters, Unfolded
  <1>1. gate' \in Seq(ZohoTasks) /\ IsInjective(gate)' /\ ToSet(gate)' = ToSet(gate) \ {t}
    BY LeaveQueue DEF GateInv
  <1>2. \A u \in ZohoTasks \ {t} : task'[u].pc # "refresh"
    BY DEF GateInv
  <1> QED
    BY <1>1, <1>2 DEF GateInv

LEMMA RequestInv ==
    ASSUME Inv, NEW t \in TokenTasks, Request(t)
    PROVE  Inv'
  <1> DEFINE r == [NoTask EXCEPT !.pc = "token"]
  <1>1. /\ r \in TaskRecords /\ r.pc = "token" /\ r.host = ApiHost
        /\ r.auth = FALSE /\ r.cached = FALSE
    BY Parameters DEF TaskRecords, Steps, NoTask
  <1>2. task' = [task EXCEPT ![t] = r]
    BY DEF Request
  <1> HIDE DEF r
  <1>3. task'[t] = r
    BY <1>1, <1>2, OneTask
  <1>4. TaskInv(t)'
    BY <1>1, <1>3, ApiHostTrusted DEF TaskInv
  <1> QED
    BY <1>1, <1>2, <1>4, AloneInv DEF Request

LEMMA AnsweredInv ==
    ASSUME Inv, NEW t \in TokenTasks, Answered(t)
    PROVE  Inv'
  <1>1. NoTask \in TaskRecords /\ NoTask.pc = "idle" /\ NoTask.auth = FALSE /\ NoTask.cached = FALSE
    BY Parameters DEF NoTask
  <1>2. task' = [task EXCEPT ![t] = NoTask]
    BY DEF Answered
  <1>3. task'[t] = NoTask
    BY <1>1, <1>2, OneTask
  <1>4. TaskInv(t)'
    BY <1>1, <1>3 DEF TaskInv
  <1> QED
    BY <1>1, <1>2, <1>4, AloneInv DEF Answered

LEMMA RedirectInv ==
    ASSUME Inv, NEW t \in TokenTasks, Redirect(t)
    PROVE  Inv'
  <1>1. PICK host \in Hosts :
            task' = [task EXCEPT ![t] =
                IF @.hop + 1 = MAX_REDIRECTS THEN NoTask
                ELSE [NoTask EXCEPT !.host = host, !.hop = task[t].hop + 1,
                                    !.pc = IF KeepsAuth(task[t].host, host) THEN "token"
                                                                            ELSE "send"]]
    BY DEF Redirect
  <1> DEFINE step == IF is_trusted_zoho_host(host) THEN "token" ELSE "send"
             q == [NoTask EXCEPT !.host = host, !.hop = task[t].hop + 1, !.pc = step]
             r == IF task[t].hop + 1 = MAX_REDIRECTS THEN NoTask ELSE q
  <1>2. task' = [task EXCEPT ![t] = r]
    BY <1>1, Unfolded DEF KeepsAuth
  <1>3. step \in {"token", "send"} /\ (step = "token" => is_trusted_zoho_host(host))
    OBVIOUS
  <1>4. /\ NoTask \in TaskRecords /\ NoTask.pc = "idle"
        /\ NoTask.auth = FALSE /\ NoTask.cached = FALSE
    BY Parameters DEF NoTask
  <1> HIDE DEF step
  <1>5. /\ q.pc = step /\ q.host = host /\ q.auth = FALSE /\ q.cached = FALSE
        /\ task[t].hop + 1 # MAX_REDIRECTS => q \in TaskRecords
    <2> DEFINE hop == task[t].hop
    <2>0. hop \in 0..(MAX_REDIRECTS - 1) /\ MAX_REDIRECTS \in Nat
      BY Unfolded, Parameters
    <2>1. hop + 1 # MAX_REDIRECTS => hop + 1 \in 0..(MAX_REDIRECTS - 1)
      <3> HIDE DEF hop
      <3> QED
        BY <2>0
    <2> QED
      BY <1>3, <1>4, <2>1 DEF TaskRecords, Steps, NoTask
  <1> HIDE DEF q
  <1>6. /\ r \in TaskRecords /\ r.pc \in {"idle", "token", "send"}
        /\ r.auth = FALSE /\ r.cached = FALSE
        /\ r.pc = "token" => is_trusted_zoho_host(r.host)
    BY <1>3, <1>4, <1>5
  <1> HIDE DEF r
  <1>7. task'[t] = r
    BY <1>2, <1>6, OneTask
  <1>8. TaskInv(t)'
    BY <1>6, <1>7 DEF TaskInv
  <1> QED
    BY <1>2, <1>6, <1>8, AloneInv DEF Redirect

\* refresh_if_needed, access_token: the look at the cache.
LEMMA FastPathInv ==
    ASSUME Inv, NEW t \in TokenTasks, FastPath(t)
    PROVE  Inv'
  <1>f. task[t].pc = "token" /\ UNCHANGED <<clock, cache>>
    BY DEF FastPath
  <1>1. CASE Fresh(ConnectorOf(t)) /\ TakeCached(t) /\ UNCHANGED gate
    <2>1. PICK r \in TaskRecords :
            /\ task' = [task EXCEPT ![t] = r]
            /\ r.pc = "send" /\ r.host = task[t].host /\ r.cached /\ r.left > Safety
      BY <1>1, TakesCached
    <2>2. task'[t] = r
      BY <2>1, OneTask
    <2>3. TaskInv(t)'
      BY <1>f, <2>1, <2>2, Unfolded DEF TaskInv
    <2> QED
      BY <1>f, <1>1, <2>1, <2>3, AloneInv
  <1>2. CASE t \in GraphTasks /\ CallRefresh(t) /\ UNCHANGED gate
    <2>1. PICK r \in TaskRecords :
            /\ task' = [task EXCEPT ![t] = r]
            /\ r.pc = "refresh" /\ r.issued = clock
            /\ r.host = task[t].host /\ r.auth = task[t].auth
            /\ r.cached = task[t].cached /\ r.left = task[t].left
      BY <1>2, CallsRefresh
    <2>2. /\ task' \in [TokenTasks -> TaskRecords] /\ task'[t] = r
          /\ \A u \in TokenTasks \ {t} : task'[u] = task[u] /\ TaskInv(u)'
      BY <2>1, OneTask
    <2>3. TaskInv(t)'
      BY <1>f, <1>2, <2>1, <2>2, Unfolded, Parameters DEF TaskInv
    <2>4. RecordsInv' /\ CacheInv'
      BY <1>f, <1>2, <2>2, Unfolded DEF RecordsInv, CacheInv
    <2>5. GateInv'
      BY <1>f, <1>2, <2>1, <2>2, Unfolded, Parameters DEF GateInv, Fresh
    <2>6. LatencyInv'
      BY <1>f, <2>1, <2>2, Unfolded, Parameters DEF LatencyInv
    <2> QED
      BY <2>2, <2>3, <2>4, <2>5, <2>6 DEF Inv
  <1>3. CASE t \in ZohoTasks /\ task' = [task EXCEPT ![t].pc = "gate"] /\ gate' = Append(gate, t)
    <2> DEFINE r == [task[t] EXCEPT !.pc = "gate"]
    <2>1. /\ r \in TaskRecords /\ r.pc = "gate" /\ r.host = task[t].host
          /\ r.cached = task[t].cached /\ r.left = task[t].left
      BY Unfolded DEF TaskRecords, Steps
    <2>2. task' = [task EXCEPT ![t] = r]
      BY <1>3, Unfolded
    <2> HIDE DEF r
    <2>3. /\ task' \in [TokenTasks -> TaskRecords] /\ task'[t] = r
          /\ \A u \in TokenTasks \ {t} : task'[u] = task[u] /\ TaskInv(u)'
      BY <2>1, <2>2, OneTask
    <2>4. t \notin ToSet(gate)
      BY <1>f, <1>3, Unfolded DEF GateInv
    <2>5. /\ gate' \in Seq(ZohoTasks) /\ gate' # <<>> /\ IsInjective(gate)'
          /\ ToSet(gate)' = ToSet(gate) \cup {t}
          /\ gate # <<>> => Head(gate') = Head(gate)
      BY <1>3, <2>4, QueueUp, Unfolded DEF GateInv
    <2>6. TaskInv(t)'
      BY <1>f, <2>1, <2>3, Unfolded DEF TaskInv
    <2>7. RecordsInv' /\ CacheInv'
      BY <1>f, <2>3, <2>5, Unfolded DEF RecordsInv, CacheInv
    <2>8. GateInv'
      <3>1. \A u \in ZohoTasks : u \in ToSet(gate)' <=> task'[u].pc \in {"gate", "refresh"}
        BY <2>1, <2>3, <2>5, Unfolded, Parameters DEF GateInv
      <3>2. \A u \in GraphTasks : task'[u].pc # "gate"
        BY <1>3, <2>3, Unfolded, Parameters DEF GateInv
      <3>3. \A u \in ZohoTasks : task'[u].pc = "refresh" => u # t /\ task[u].pc = "refresh"
        BY <2>1, <2>3, Parameters
      <3>4. Fresh("zoho")' <=> Fresh("zoho")
        BY <1>f DEF Fresh
      <3> QED
        BY <2>5, <3>1, <3>2, <3>3, <3>4, Unfolded DEF GateInv
    <2>9. LatencyInv'
      BY <1>f, <2>1, <2>3, Unfolded DEF LatencyInv
    <2> QED
      BY <2>3, <2>6, <2>7, <2>8, <2>9 DEF Inv
  <1> QED
    BY <1>1, <1>2, <1>3 DEF FastPath

\* The head of the queue looks again: it leaves with the token another task
\* fetched, or refreshes what has lapsed.
LEMMA PassGateInv ==
    ASSUME Inv, NEW t \in TokenTasks, PassGate(t)
    PROVE  Inv'
  <1>f. task[t].pc = "gate" /\ Head(gate) = t /\ UNCHANGED <<clock, cache>>
    BY DEF PassGate
  <1>z. CASE t \in ZohoTasks
    <2>c. ConnectorOf(t) = "zoho" /\ t \in ToSet(gate) /\ gate # <<>>
      <3>1. t \in ToSet(gate)
        BY <1>f, <1>z, Unfolded DEF GateInv
      <3>2. gate # <<>>
        BY <3>1 DEF ToSet
      <3> QED
        BY <1>z, <3>1, <3>2, Parameters
    <2>1. CASE Fresh("zoho") /\ TakeCached(t) /\ gate' = Tail(gate)
      <3>1. PICK r \in TaskRecords :
              /\ task' = [task EXCEPT ![t] = r]
              /\ r.pc = "send" /\ r.host = task[t].host /\ r.cached /\ r.left > Safety
        BY <2>1, <2>c, TakesCached
      <3>2. /\ task' \in [TokenTasks -> TaskRecords] /\ task'[t] = r
            /\ \A u \in TokenTasks \ {t} : task'[u] = task[u] /\ TaskInv(u)'
        BY <3>1, OneTask
      <3>3. TaskInv(t)'
        BY <1>f, <3>1, <3>2, Unfolded DEF TaskInv
      <3>4. gate' \in Seq(ZohoTasks) /\ GateInv'
        BY <1>f, <1>z, <2>1, <2>c, <3>1, <3>2, GateLeft
      <3>5. RecordsInv' /\ CacheInv'
        BY <1>f, <3>2, <3>4, Unfolded DEF RecordsInv, CacheInv
      <3>6. LatencyInv'
        BY <1>f, <3>1, <3>2, Unfolded DEF LatencyInv
      <3> QED
        BY <3>2, <3>3, <3>4, <3>5, <3>6 DEF Inv
    <2>2. CASE ~Fresh("zoho") /\ CallRefresh(t) /\ UNCHANGED gate
      <3>1. PICK r \in TaskRecords :
              /\ task' = [task EXCEPT ![t] = r]
              /\ r.pc = "refresh" /\ r.issued = clock
              /\ r.host = task[t].host /\ r.auth = task[t].auth
              /\ r.cached = task[t].cached /\ r.left = task[t].left
        BY <2>2, CallsRefresh
      <3>2. /\ task' \in [TokenTasks -> TaskRecords] /\ task'[t] = r
            /\ \A u \in TokenTasks \ {t} : task'[u] = task[u] /\ TaskInv(u)'
        BY <3>1, OneTask
      <3>3. TaskInv(t)'
        BY <1>f, <3>1, <3>2, Unfolded DEF TaskInv
      <3>4. GateInv'
        BY <1>f, <1>z, <2>2, <2>c, <3>1, <3>2, Unfolded, Parameters DEF GateInv, Fresh
      <3>5. RecordsInv' /\ CacheInv'
        BY <1>f, <2>2, <3>2, Unfolded DEF RecordsInv, CacheInv
      <3>6. LatencyInv'
        BY <1>f, <3>1, <3>2, Unfolded, Parameters DEF LatencyInv
      <3> QED
        BY <3>2, <3>3, <3>4, <3>5, <3>6 DEF Inv
    <2> QED
      BY <2>1, <2>2 DEF PassGate, RefreshedMeanwhile
  <1>g. CASE t \in GraphTasks
    BY <1>f, <1>g, Unfolded DEF GateInv
  <1> QED
    BY <1>z, <1>g DEF TokenTasks

\* The end of a refresh: its task leaves the gate, if it came through it.
LEMMA EndRefreshInv ==
    ASSUME Inv, NEW t \in TokenTasks, task[t].pc = "refresh", LeaveGate(t), UNCHANGED clock,
           NEW r \in TaskRecords, task' = [task EXCEPT ![t] = r], r.pc \in {"idle", "send"},
           TaskInv(t)',
           cache' \in [Connectors -> Tokens \cup {NoToken}], CacheInv',
           \A c \in Connectors \ {ConnectorOf(t)} : cache'[c] = cache[c]
    PROVE  Inv'
  <1>1. /\ task' \in [TokenTasks -> TaskRecords] /\ task'[t] = r
        /\ \A u \in TokenTasks \ {t} : task'[u] = task[u] /\ TaskInv(u)'
    BY OneTask
  <1>2. gate' \in Seq(ZohoTasks) /\ GateInv'
    <2>1. CASE t \in ZohoTasks
      <3>1. gate # <<>> /\ t = Head(gate) /\ gate' = Tail(gate)
        BY <2>1, Unfolded DEF GateInv, LeaveGate
      <3> QED
        BY <1>1, <2>1, <3>1, GateLeft
    <2>2. CASE t \in GraphTasks
      <3>1. gate' = gate /\ cache'["zoho"] = cache["zoho"]
        BY <2>2, Parameters DEF LeaveGate, Connectors
      <3> QED
        BY <1>1, <2>2, <3>1, Unfolded, Parameters DEF GateInv, Fresh
    <2> QED
      BY <2>1, <2>2 DEF TokenTasks
  <1>3. RecordsInv'
    BY <1>1, <1>2, Unfolded DEF RecordsInv
  <1>4. LatencyInv'
    BY <1>1, Unfolded DEF LatencyInv
  <1> QED
    BY <1>1, <1>2, <1>3, <1>4 DEF Inv

LEMMA RefreshFailsInv ==
    ASSUME Inv, NEW t \in TokenTasks, RefreshFails(t)
    PROVE  Inv'
  <1>1. NoTask \in TaskRecords /\ NoTask.pc = "idle" /\ NoTask.auth = FALSE /\ NoTask.cached = FALSE
    BY Parameters DEF NoTask
  <1>2. task' = [task EXCEPT ![t] = NoTask] /\ UNCHANGED <<clock, cache>>
    BY DEF RefreshFails
  <1>3. task'[t] = NoTask
    BY <1>1, <1>2, OneTask
  <1>4. TaskInv(t)'
    BY <1>1, <1>3 DEF TaskInv
  <1>5. cache' \in [Connectors -> Tokens \cup {NoToken}] /\ CacheInv'
    BY <1>2, Unfolded DEF RecordsInv, CacheInv
  <1> QED
    BY <1>1, <1>2, <1>4, <1>5, EndRefreshInv DEF RefreshFails

\* The answer came within MaxLatency, so the cache lets go of the token before
\* the server does.
LEMMA RefreshedInv ==
    ASSUME Inv, NEW t \in TokenTasks, Refreshed(t)
    PROVE  Inv'
  <1>f. task[t].pc = "refresh" /\ LeaveGate(t) /\ UNCHANGED clock
    BY DEF Refreshed
  <1> DEFINE c == ConnectorOf(t)
             issued == task[t].issued
  <1>t. /\ c \in Connectors /\ clock \in Nat /\ issued \in Nat
        /\ issued <= clock /\ clock <= issued + MaxLatency
    BY <1>f, Unfolded, Parameters DEF LatencyInv
  <1>1. PICK life \in Lifetimes :
          /\ cache' = [cache EXCEPT ![c] = [expires_at |-> clock + ShortenedLife(life),
                                            dies |-> issued + life]]
          /\ task' = [task EXCEPT ![t].pc = "send", ![t].auth = TRUE, ![t].cached = FALSE,
                                  ![t].left = issued + life - clock]
    BY DEF Refreshed
  <1> DEFINE left == issued + life - clock
             r == [task[t] EXCEPT !.pc = "send", !.auth = TRUE, !.cached = FALSE, !.left = left]
             e == clock + ShortenedLife(life)
             d == issued + life
             k == [expires_at |-> e, dies |-> d]
  <1>2. task' = [task EXCEPT ![t] = r] /\ cache' = [cache EXCEPT ![c] = k]
    BY <1>1, Unfolded
  <1>3. life \in Nat /\ Safety \in Nat /\ MaxLatency \in Nat /\ MaxLatency <= Safety
    BY Parameters
  <1> HIDE DEF c, issued
  <1>4. left \in Int /\ e \in Nat /\ d \in Nat /\ (e <= clock \/ d >= e)
    BY <1>t, <1>3 DEF ShortenedLife
  <1> HIDE DEF left, e, d
  <1>5. k \in Tokens /\ k.expires_at = e /\ k.dies = d
    BY <1>4 DEF Tokens
  <1>6. /\ r \in TaskRecords /\ r.pc = "send" /\ r.host = task[t].host /\ r.cached = FALSE
    BY <1>4, Unfolded DEF TaskRecords, Steps
  <1> HIDE DEF k, r
  <1>7. /\ cache' \in [Connectors -> Tokens \cup {NoToken}]
        /\ cache'[c] = k /\ \A b \in Connectors \ {c} : cache'[b] = cache[b]
    BY <1>t, <1>2, <1>5, Unfolded DEF RecordsInv
  <1>8. CacheInv'
    BY <1>f, <1>4, <1>5, <1>7, Unfolded DEF CacheInv
  <1>9. task'[t] = r
    BY <1>2, <1>6, OneTask
  <1>10. TaskInv(t)'
    BY <1>f, <1>6, <1>9, Unfolded DEF TaskInv
  <1> QED
    BY <1>f, <1>2, <1>6, <1>7, <1>8, <1>10, EndRefreshInv DEF c

-----------------------------------------------------------------------------
(* The theorems.                                                           *)

\* No token, no task.
LEMMA InvInit == TokenInit => Inv
  <1> SUFFICES ASSUME TokenInit PROVE Inv
    OBVIOUS
  <1>1. /\ NoTask.pc = "idle" /\ NoTask.auth = FALSE /\ NoTask.cached = FALSE
        /\ \A t \in TokenTasks : task[t] = NoTask
    BY DEF TokenInit, NoTask
  <1>2. RecordsInv
    BY Parameters DEF TokenInit, RecordsInv
  <1>3. GateInv
    <2>1. gate = <<>> /\ IsInjective(gate) /\ ToSet(gate) = {}
      BY DEF TokenInit, IsInjective, ToSet
    <2> QED
      BY <1>1, <2>1, Parameters DEF GateInv
  <1>4. LatencyInv /\ CacheInv /\ \A t \in TokenTasks : TaskInv(t)
    BY <1>1 DEF LatencyInv, CacheInv, TaskInv, TokenInit
  <1> QED
    BY <1>2, <1>3, <1>4 DEF Inv

LEMMA InvNext == Inv /\ [\E t \in TokenTasks : TokenNext(t)]_tokenVars => Inv'
  <1>1. ASSUME Inv, NEW t \in TokenTasks, TokenNext(t) PROVE Inv'
    BY <1>1, TickInv, RequestInv, FastPathInv, PassGateInv, RefreshedInv, RefreshFailsInv,
        RedirectInv, AnsweredInv DEF TokenNext
  <1>2. ASSUME Inv, UNCHANGED tokenVars PROVE Inv'
    BY <1>2 DEF tokenVars, Inv, RecordsInv, GateInv, Fresh, LatencyInv, CacheInv, TaskInv
  <1> QED
    BY <1>1, <1>2

\* The facts of every state from which the theorems follow.
THEOREM Invariance == TokenSpec => []Inv
  BY InvInit, InvNext, PTL DEF TokenSpec

\* The gate's queue holds exactly the Zoho tasks in refresh_if_needed, each
\* once, and no chain of redirects exceeds MAX_REDIRECTS.
THEOREM TypeCorrect == TokenSpec => []TokenTypeOK
  <1>1. Inv => TokenTypeOK
    <2> SUFFICES ASSUME Inv PROVE TokenTypeOK
      OBVIOUS
    <2>1. ToSet(gate) \subseteq ZohoTasks
      <3>1. DOMAIN gate = 1..Len(gate) /\ \A i \in 1..Len(gate) : gate[i] \in ZohoTasks
        BY Unfolded, LenProperties, ElementOfSeq
      <3> QED
        BY <3>1 DEF ToSet
    <2> QED
      BY <2>1, Unfolded DEF TokenTypeOK, GateInv, RecordsInv, Steps
  <1> QED
    BY <1>1, Invariance, PTL

\* refresh_if_needed: however many tasks meet a lapsed token, none refreshes
\* one that another has already replaced.
THEOREM OneRefreshPerLapse == TokenSpec => []NoNeedlessRefresh
  <1>1. Inv => NoNeedlessRefresh
    BY DEF Inv, GateInv, NoNeedlessRefresh
  <1> QED
    BY <1>1, Invariance, PTL

\* ACCESS_TOKEN_TTL_SAFETY_SECS: as long as a refresh takes no longer than the
\* margin, a token from the cache outlives the margin whenever it is taken.
THEOREM CachedTokensAlive == TokenSpec => []CachedTokenLives
  <1>1. Inv => CachedTokenLives
    BY DEF Inv, TaskInv, CachedTokenLives
  <1> QED
    BY <1>1, Invariance, PTL

\* download_with_trusted_auth: wherever redirects lead, the Authorization
\* header is sent to hosts of Zoho's EU zone only.
THEOREM TokensStayHome == TokenSpec => []TokenStaysHome
  <1>1. Inv => TokenStaysHome
    BY Parameters DEF Inv, TaskInv, TokenStaysHome
  <1> QED
    BY <1>1, Invariance, PTL
=============================================================================
