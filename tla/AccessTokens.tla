---------------------------- MODULE AccessTokens ----------------------------
(***************************************************************************)
(* The connectors' access tokens.  Tasks of the Zoho connector share a     *)
(* cache behind a gate that lets one of them refresh at a time, and follow *)
(* a download's redirects themselves; tasks of the Graph connector share a *)
(* cache without a gate.                                                   *)
(*                                                                         *)
(* A host is the sequence of its labels, the last one first.               *)
(***************************************************************************)
EXTENDS Integers, SequencesExt

CONSTANTS
    ZohoTasks, GraphTasks,
    Hosts,           \* where a redirect may lead
    Lifetimes,       \* expires_in of the tokens issued
    Safety,          \* ACCESS_TOKEN_TTL_SAFETY_SECS, and Graph's 60 s
    MaxLatency,      \* bound on the round trip of a refresh
    MAX_REDIRECTS,
    MaxClock,        \* bound of the model
    NoToken

VARIABLES
    clock,
    cache,   \* cache[c] : the cached token, when it counts as expired and when it is
    gate,    \* refresh_gate, first come first served: its head holds it
    task

tokenVars == <<clock, cache, gate, task>>

TokenTasks == ZohoTasks \cup GraphTasks
Connectors == {"zoho", "graph"}
ConnectorOf(t) == IF t \in ZohoTasks THEN "zoho" ELSE "graph"
ApiHost == <<"eu", "zoho", "workdrive">>

ASSUME TokenAssumption ==
    /\ ZohoTasks \cap GraphTasks = {}
    /\ Lifetimes \subseteq Nat
    /\ Safety \in Nat /\ MaxLatency \in 0..Safety
    /\ MAX_REDIRECTS \in Nat \ {0} /\ MaxClock \in Nat

-----------------------------------------------------------------------------
NoTask == [pc |-> "idle", host |-> ApiHost, hop |-> 0, issued |-> 0,
           auth |-> FALSE, cached |-> FALSE, left |-> 0]

TokenInit ==
    /\ clock = 0
    /\ cache = [c \in Connectors |-> NoToken]
    /\ gate = <<>>
    /\ task = [t \in TokenTasks |-> NoTask]

\* Time passes, but a refresh takes no longer than MaxLatency.
TokenTick ==
    /\ clock < MaxClock /\ clock' = clock + 1
    /\ \A t \in TokenTasks : task[t].pc = "refresh" => clock - task[t].issued < MaxLatency
    /\ UNCHANGED <<cache, gate, task>>

\* list_changes or download: the first request goes to the API with a token.
Request(t) ==
    /\ task[t].pc = "idle"
    /\ task' = [task EXCEPT ![t] = [NoTask EXCEPT !.pc = "token"]]
    /\ UNCHANGED <<clock, cache, gate>>

Fresh(c) == cache[c] # NoToken /\ cache[c].expires_at > clock + Safety

\* The cached token is attached to the request.
TakeCached(t) ==
    task' = [task EXCEPT ![t].pc = "send", ![t].auth = TRUE, ![t].cached = TRUE,
                         ![t].left = cache[ConnectorOf(t)].dies - clock]

CallRefresh(t) == task' = [task EXCEPT ![t].pc = "refresh", ![t].issued = clock]

\* refresh_if_needed, access_token: the look at the cache without the gate.
FastPath(t) ==
    /\ task[t].pc = "token"
    /\ \/ Fresh(ConnectorOf(t)) /\ TakeCached(t) /\ UNCHANGED gate
       \/ ~Fresh(ConnectorOf(t)) /\ t \in GraphTasks /\ CallRefresh(t) /\ UNCHANGED gate
       \/ /\ ~Fresh(ConnectorOf(t)) /\ t \in ZohoTasks
          /\ task' = [task EXCEPT ![t].pc = "gate"]
          /\ gate' = Append(gate, t)
    /\ UNCHANGED <<clock, cache>>

\* Mutant: the task that gets the gate refreshes whatever the cache holds.
NeverFresh(t) == FALSE

\* Another task may have refreshed in the meantime.
RefreshedMeanwhile(t) == Fresh("zoho")

PassGate(t) ==
    /\ task[t].pc = "gate" /\ Head(gate) = t
    /\ IF RefreshedMeanwhile(t) THEN TakeCached(t) /\ gate' = Tail(gate)
                                ELSE CallRefresh(t) /\ UNCHANGED gate
    /\ UNCHANGED <<clock, cache>>

\* Mutant: the guard outlives the call.
KeepsGate(t) == gate' = gate

LeaveGate(t) == gate' = IF t \in ZohoTasks THEN Tail(gate) ELSE gate

\* Mutant: the token counts as valid for as long as the server says.
WholeLife(life) == life

\* saturating_sub
ShortenedLife(life) == IF life > Safety THEN life - Safety ELSE 0

\* call_oauth_refresh, fetch_token succeed.
Refreshed(t) ==
    /\ task[t].pc = "refresh"
    /\ \E life \in Lifetimes :
        /\ cache' = [cache EXCEPT ![ConnectorOf(t)] =
                        [expires_at |-> clock + ShortenedLife(life),
                         dies |-> task[t].issued + life]]
        /\ task' = [task EXCEPT ![t].pc = "send", ![t].auth = TRUE, ![t].cached = FALSE,
                                ![t].left = task[t].issued + life - clock]
    /\ LeaveGate(t)
    /\ UNCHANGED clock

\* Any error of theirs is the caller's error.
RefreshFails(t) ==
    /\ task[t].pc = "refresh"
    /\ task' = [task EXCEPT ![t] = NoTask]
    /\ LeaveGate(t)
    /\ UNCHANGED <<clock, cache>>

-----------------------------------------------------------------------------
\* host.ends_with(".zoho.eu"), host.ends_with(".zohocdn.com"), host == "zoho.eu"
is_trusted_zoho_host(host) ==
    \/ IsPrefix(<<"eu", "zoho">>, host)
    \/ IsPrefix(<<"com", "zohocdn">>, host) /\ Len(host) > 2

\* Mutant: it asks about the host that sent the redirect.
AsksOldHost(from, to) == is_trusted_zoho_host(from)

KeepsAuth(from, to) == is_trusted_zoho_host(to)

\* download_with_trusted_auth: the answer to request number hop + 1 is a
\* redirect.
Redirect(t) ==
    /\ t \in ZohoTasks /\ task[t].pc = "send"
    /\ \E host \in Hosts :
        task' = [task EXCEPT ![t] =
            IF @.hop + 1 = MAX_REDIRECTS THEN NoTask
            ELSE [NoTask EXCEPT !.host = host, !.hop = task[t].hop + 1,
                                !.pc = IF KeepsAuth(task[t].host, host) THEN "token"
                                                                        ELSE "send"]]
    /\ UNCHANGED <<clock, cache, gate>>

\* The body, an error status, a redirect without a usable Location or no
\* answer at all.
Answered(t) ==
    /\ task[t].pc = "send"
    /\ task' = [task EXCEPT ![t] = NoTask]
    /\ UNCHANGED <<clock, cache, gate>>

TokenNext(t) ==
    \/ TokenTick
    \/ Request(t) \/ FastPath(t) \/ PassGate(t) \/ Refreshed(t) \/ RefreshFails(t)
    \/ Redirect(t) \/ Answered(t)

TokenSpec == TokenInit /\ [][\E t \in TokenTasks : TokenNext(t)]_tokenVars

-----------------------------------------------------------------------------
(* Correctness.                                                            *)

TokenTypeOK ==
    /\ clock \in 0..MaxClock
    /\ \A t \in TokenTasks :
        /\ task[t].pc \in {"idle", "token", "gate", "refresh", "send"}
        /\ task[t].hop \in 0..(MAX_REDIRECTS - 1)
    /\ IsInjective(gate)
    /\ ToSet(gate) = {t \in ZohoTasks : task[t].pc = "gate"}
                       \cup {t \in ZohoTasks : task[t].pc = "refresh"}

\* refresh_if_needed: while a task refreshes the Zoho token no usable one is
\* in the cache, so a lapse costs one refresh however many tasks meet it.
NoNeedlessRefresh ==
    \A t \in ZohoTasks : task[t].pc = "refresh" => ~Fresh("zoho")

\* "Refresh 5 min before expiry so we never send an expired token": a token
\* taken from a cache is good for longer than the margin, even though the
\* cache counts its life from the answer and the server from the request.
CachedTokenLives ==
    \A t \in TokenTasks : task[t].cached => task[t].left > Safety

\* download_with_trusted_auth: along any chain of redirects the token goes to
\* hosts of the EU zone only.
TokenStaysHome ==
    \A t \in ZohoTasks : task[t].auth => is_trusted_zoho_host(task[t].host)
=============================================================================
