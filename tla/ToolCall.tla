------------------------------ MODULE ToolCall ------------------------------
(***************************************************************************)
(* The life of an MCP tool call inside the gateway.  An authenticated call *)
(* passes ToolAllowlistAspect, gets a pooled connection and a transaction  *)
(* from RlsContextAspect (which installs the caller's row-level-security   *)
(* context on that connection), runs one of the four tools, charges the    *)
(* chunk budget in a second REQUIRES_NEW transaction on a second           *)
(* connection, writes its audit event to two sinks, and commits or rolls   *)
(* back.  Calls run concurrently and share the pool, the rate_limit_state  *)
(* rows and the two audit sinks; the gateway process may crash.            *)
(*                                                                         *)
(* A step is a stretch of a call's thread between two points at which it   *)
(* can wait or be overtaken: a connection request, a SQL statement whose   *)
(* effect others see, a commit.                                            *)
(***************************************************************************)
EXTENDS Integers, FiniteSets, FiniteSetsExt

CONSTANTS
    Calls,           \* request identifiers, each used for at most one call
    Keys,            \* ids of the API keys that authenticate calls
    Conns,           \* the connections of the HikariCP pool
    Chunks,          \* ids of document_chunks rows, never reused
    Workspaces,
    Role,            \* Role[k] : the AccessRole of key k
    AllowedTools,    \* AllowedTools[k] : key k's allowlist, or NoAllowlist
    Grants,          \* Grants[k] : workspaces of k in api_key_workspaces
    Classification,  \* Classification[r] of chunk r
    WorkspaceOf,     \* WorkspaceOf[r] of chunk r
    Requests,        \* the tool calls clients may make
    HourlyCap,       \* gateway.chunk-budget.hourly-cap
    MaxFragments,    \* the 10 of min(maxResults, 10)
    HardMaxRows,     \* HARD_MAX_ROWS of DatabaseQueryTool
    Retention,       \* hours a rate_limit_state window is kept (24)
    MaxHour,         \* bound on the model's clock
    NoConn, NoClient,
    NoAllowlist      \* a null allowed_tools column: every tool is allowed

VARIABLES
    pc,         \* pc[c] : where call c is
    req,        \* req[c] : the request of call c
    conn,       \* conn[c] : connection of c's RLS transaction
    inner,      \* inner[c] : connection of c's REQUIRES_NEW transaction
    localGuc,   \* localGuc[x] : transaction-local app.mcp_* settings of x
    sessionGuc, \* sessionGuc[x] : session-level app.mcp_* settings of x
    rows,       \* rows[c] : the document_chunks rows c has selected
    text,       \* text[c] : those of rows[c] whose text was fetched
    window,     \* window[c] : windowStart read by commitChunks
    total,      \* total[c] : chunk_count RETURNING value of c's UPSERT
    pending,    \* pending[c] : audit events saved in c's open transaction
    outcome,    \* outcome[c] : what c's caller gets
    aborted,    \* calls whose PostgreSQL transaction is in the aborted state
    content,    \* content[r] : state of row r in document_chunks
    count,      \* count[k][w] : committed chunk_count of (k, w), 0 if no row
    hour,       \* the current hour
    auditDb,    \* committed rows of audit_logs
    auditFile   \* entries of /var/log/mcp/audit.json

callVars == <<req, conn, inner, rows, text, window, total, pending, outcome, aborted>>
gucVars  == <<localGuc, sessionGuc>>
storeVars == <<content, count, hour>>
auditVars == <<auditDb, auditFile>>
vars == <<pc, callVars, gucVars, storeVars, auditVars>>

-----------------------------------------------------------------------------
Roles == {"READ_ONLY", "ADMIN"}
Classifications == {"PUBLIC", "INTERNAL", "CONFIDENTIAL"}
SearchTools == {"search_documents", "semantic_search_documents"}
Tools == SearchTools \cup {"query_database", "list_sources"}

\* What the length check and QueryGuard.validate make of a search query.
QueryClasses == {"blank", "reject", "plain", "strip", "flag", "stripFlag"}

Tables == {"employees", "document_chunks", "unlisted"}
Columns == {"id", "salary", "unlisted"}

\* limit is maxResults / maxRows after the tool's default is filled in; the
\* fields a tool has no parameter for are ignored.
Request == [key : Keys, tool : Tools, query : QueryClasses, limit : Int,
            table : Tables, filters : SUBSET Columns]

AuditEvents == Tools \cup {"tool_denied", "authz_denial", "query_guard_reject",
                           "query_guard_flag", "chunk_budget_exceeded"}

Windows == 0..MaxHour
Contexts == [role : Roles, client : Keys \cup {NoClient}]

\* The COALESCE fallbacks of the V14 policies: an unset setting reads as
\* READ_ONLY and as the nil UUID, which has no workspace.
UnsetContext == [role |-> "READ_ONLY", client |-> NoClient]

PCs == {"idle", "called", "deny", "denyFile", "begin", "tool", "search",
        "fetch", "budget", "upsert", "charge", "audit", "commit", "rollback",
        "after", "done", "crashed"}

Ended(c) == pc[c] \in {"done", "crashed"}

ASSUME ConstantsAssumption ==
    /\ IsFiniteSet(Calls) /\ IsFiniteSet(Chunks)
    /\ Role \in [Keys -> Roles]
    /\ AllowedTools \in [Keys -> (SUBSET Tools) \cup {NoAllowlist}]
    /\ Grants \in [Keys -> SUBSET Workspaces]
    /\ Classification \in [Chunks -> Classifications]
    /\ WorkspaceOf \in [Chunks -> Workspaces]
    /\ Requests \subseteq Request
    /\ HourlyCap \in Nat /\ MaxFragments \in Nat /\ HardMaxRows \in Nat
    /\ Retention \in Nat \ {0} /\ MaxHour \in Nat
    /\ NoConn \notin Conns /\ NoClient \notin Keys

-----------------------------------------------------------------------------
(* Row-level security and authorisation.                                   *)

\* Mutant: both V14 policies PERMISSIVE, so that either gate opens a row.
RowVisiblePermissive(ctx, r) ==
    \/ ctx.role = "ADMIN" \/ Classification[r] # "CONFIDENTIAL"
    \/ ctx.client \in Keys /\ WorkspaceOf[r] \in Grants[ctx.client]

\* The SELECT policies of document_chunks: the PERMISSIVE classification gate
\* and the RESTRICTIVE workspace gate, which binds ADMIN too.
RowVisible(ctx, r) ==
    /\ ctx.role = "ADMIN" \/ Classification[r] # "CONFIDENTIAL"
    /\ ctx.client \in Keys /\ WorkspaceOf[r] \in Grants[ctx.client]

\* current_setting: a transaction-local setting hides the session's.
Setting(x) == IF localGuc[x] # UnsetContext THEN localGuc[x] ELSE sessionGuc[x]

\* The rows a SELECT on connection x reads from document_chunks.
Readable(x) == {r \in Chunks : content[r] # "absent" /\ RowVisible(Setting(x), r)}

\* resolveRole and resolveClientId for a call authenticated with key k.
CallerContext(k) == [role |-> Role[k], client |-> k]

\* allowedClassifications of the two search tools.
AllowedClassifications(k) ==
    {"PUBLIC", "INTERNAL"} \cup (IF Role[k] = "ADMIN" THEN {"CONFIDENTIAL"} ELSE {})

\* PostgresConnector.query: the table is listed and every filter column is
\* visible to the role; salary is hidden from READ_ONLY.
VisibleColumns(table, role) ==
    CASE table = "employees" -> {"id"} \cup (IF role = "ADMIN" THEN {"salary"} ELSE {})
      [] table = "document_chunks" -> {"id"}
      [] OTHER -> {}

Authorized(q) ==
    /\ q.table \in {"employees", "document_chunks"}
    /\ q.filters \subseteq VisibleColumns(q.table, Role[q.key])

AllowlistDenies(k, tool) ==
    AllowedTools[k] # NoAllowlist /\ tool \notin AllowedTools[k]

-----------------------------------------------------------------------------
(* Connections, transactions and audit events.                             *)

Free(x) == \A c \in Calls : conn[c] # x /\ inner[c] # x
PoolExhausted == \A x \in Conns : ~Free(x)

\* Mutant: set_config(key, value, false) sets the session's value.
SetConfigForSession(x, ctx) ==
    sessionGuc' = [sessionGuc EXCEPT ![x] = ctx] /\ UNCHANGED localGuc

\* setConfig for app.mcp_role and app.mcp_client_id, is_local = true.
SetConfig(x, ctx) ==
    localGuc' = [localGuc EXCEPT ![x] = ctx] /\ UNCHANGED sessionGuc

\* Transaction-local settings revert when the transaction on x ends.
RevertLocal(x) == localGuc' = [localGuc EXCEPT ![x] = UnsetContext]

Goto(c, label) == pc' = [pc EXCEPT ![c] = label]
Entries(c, events) == [call : {c}, event : events]

\* AuditService.log inside a transaction: repository.save persists the row
\* in the transaction, the AUDIT logger writes the file at once.
Log(c, events) ==
    /\ pending' = [pending EXCEPT ![c] = @ \cup events]
    /\ auditFile' = auditFile \cup Entries(c, events)
    /\ UNCHANGED auditDb

-----------------------------------------------------------------------------
Init ==
    /\ pc = [c \in Calls |-> "idle"]
    /\ req \in [Calls -> Requests]
    /\ conn = [c \in Calls |-> NoConn]
    /\ inner = [c \in Calls |-> NoConn]
    /\ localGuc = [x \in Conns |-> UnsetContext]
    /\ sessionGuc = [x \in Conns |-> UnsetContext]
    /\ rows = [c \in Calls |-> {}]
    /\ text = [c \in Calls |-> {}]
    /\ window = [c \in Calls |-> 0]
    /\ total = [c \in Calls |-> 0]
    /\ pending = [c \in Calls |-> {}]
    /\ outcome = [c \in Calls |-> "none"]
    /\ aborted = {}
    /\ content = [r \in Chunks |-> "readable"]
    /\ count = [k \in Keys |-> [w \in Windows |-> 0]]
    /\ hour = 0
    /\ auditDb = {}
    /\ auditFile = {}

-----------------------------------------------------------------------------
(* ToolAllowlistAspect, which runs before any transaction.                 *)

Arrive(c) ==
    /\ pc[c] = "idle"
    /\ Goto(c, "called")
    /\ UNCHANGED <<callVars, gucVars, storeVars, auditVars>>

EnforceAllowlist(c) ==
    /\ pc[c] = "called"
    /\ Goto(c, IF AllowlistDenies(req[c].key, req[c].tool) THEN "deny" ELSE "begin")
    /\ UNCHANGED <<callVars, gucVars, storeVars, auditVars>>

\* repository.save with no caller transaction: it borrows a connection and
\* commits on its own.  If it fails, its exception goes to the client.
SaveDenial(c) ==
    /\ pc[c] = "deny"
    /\ ~PoolExhausted
    /\ \/ /\ auditDb' = auditDb \cup Entries(c, {"tool_denied"})
          /\ Goto(c, "denyFile") /\ UNCHANGED outcome
       \/ /\ outcome' = [outcome EXCEPT ![c] = "error"]
          /\ Goto(c, "done") /\ UNCHANGED auditDb
    /\ UNCHANGED <<req, aborted, conn, inner, rows, text, window, total, pending,
                   gucVars, storeVars, auditFile>>

\* Mutant: the denial is thrown before the AUDIT logger is reached.
LogDenialNowhere(c) ==
    /\ pc[c] = "denyFile"
    /\ outcome' = [outcome EXCEPT ![c] = "denied"]
    /\ Goto(c, "done")
    /\ UNCHANGED <<req, aborted, conn, inner, rows, text, window, total, pending,
                   gucVars, storeVars, auditVars>>

\* The rest of AuditService.log, then ToolInputRejectedException.
LogDenial(c) ==
    /\ pc[c] = "denyFile"
    /\ auditFile' = auditFile \cup Entries(c, {"tool_denied"})
    /\ outcome' = [outcome EXCEPT ![c] = "denied"]
    /\ Goto(c, "done")
    /\ UNCHANGED <<req, aborted, conn, inner, rows, text, window, total, pending,
                   gucVars, storeVars, auditDb>>

-----------------------------------------------------------------------------
(* RlsContextAspect.applyRlsRole up to pjp.proceed.                        *)

BeginTx(c) ==
    /\ pc[c] = "begin"
    /\ \E x \in Conns :
        /\ Free(x)
        /\ conn' = [conn EXCEPT ![c] = x]
        /\ SetConfig(x, CallerContext(req[c].key))
    /\ Goto(c, "tool")
    /\ UNCHANGED <<req, aborted, inner, rows, text, window, total, pending, outcome,
                   storeVars, auditVars>>

\* Mutant: the call gives up on its second connection and keeps the first.
PoolTimeoutLeaking(c) ==
    /\ pc[c] \in {"deny", "begin", "budget"}
    /\ PoolExhausted
    /\ outcome' = [outcome EXCEPT ![c] = "error"]
    /\ Goto(c, "done")
    /\ UNCHANGED <<req, aborted, conn, inner, rows, text, window, total, pending,
                   gucVars, storeVars, auditVars>>

\* Mutant: the second connection is awaited without a timeout.
PoolTimeoutOuterOnly(c) ==
    /\ pc[c] \in {"deny", "begin"}
    /\ PoolExhausted
    /\ outcome' = [outcome EXCEPT ![c] = "error"]
    /\ Goto(c, "done")
    /\ UNCHANGED <<req, aborted, conn, inner, rows, text, window, total, pending,
                   gucVars, storeVars, auditVars>>

\* HikariCP gives up after its connection timeout.  Before the transaction
\* the call just fails; inside commitChunks the exception leaves the tool and
\* the RLS transaction rolls back.
PoolTimeout(c) ==
    /\ pc[c] \in {"deny", "begin", "budget"}
    /\ PoolExhausted
    /\ outcome' = [outcome EXCEPT ![c] = "error"]
    /\ Goto(c, IF pc[c] = "budget" THEN "rollback" ELSE "done")
    /\ UNCHANGED <<req, aborted, conn, inner, rows, text, window, total, pending,
                   gucVars, storeVars, auditVars>>

-----------------------------------------------------------------------------
(* The tool bodies.                                                        *)

\* A tool ends by returning a value (the transaction will commit) or by
\* throwing (it will roll back).
Return(c, how) == Goto(c, "commit") /\ outcome' = [outcome EXCEPT ![c] = how]
Throw(c) == Goto(c, "rollback") /\ outcome' = [outcome EXCEPT ![c] = "error"]

ListSources(c) ==
    /\ pc[c] = "tool" /\ req[c].tool = "list_sources"
    /\ Log(c, {"list_sources"})
    /\ Return(c, "ok")
    /\ UNCHANGED <<req, aborted, conn, inner, rows, text, window, total, gucVars, storeVars>>

\* Row limit of query_database, clamped to 1..HARD_MAX_ROWS.
RowLimit(q) == Min({Max({q.limit, 1}), HardMaxRows})

\* A LIMIT n query may return any n or fewer of the matching rows.
UpTo(n, S) == {R \in SUBSET S : Cardinality(R) <= n}

QueryDatabase(c) ==
    /\ pc[c] = "tool" /\ req[c].tool = "query_database"
    /\ Authorized(req[c])
    /\ \/ req[c].table = "employees" /\ UNCHANGED rows
       \/ /\ req[c].table = "document_chunks"
          /\ \E R \in UpTo(RowLimit(req[c]), Readable(conn[c])) :
                rows' = [rows EXCEPT ![c] = R]
    /\ Log(c, {"query_database"})
    /\ Return(c, "ok")
    /\ UNCHANGED <<req, aborted, conn, inner, text, window, total, gucVars, storeVars>>

\* SecurityException: the denial is logged and rethrown.
QueryDenied(c) ==
    /\ pc[c] = "tool" /\ req[c].tool = "query_database"
    /\ ~Authorized(req[c])
    /\ Log(c, {"authz_denial"})
    /\ Throw(c)
    /\ UNCHANGED <<req, aborted, conn, inner, rows, text, window, total, gucVars, storeVars>>

\* Events QueryGuard.validate logs for a query it lets through.
GuardEvents(class) ==
    CASE class = "strip" -> {"query_guard_reject"}
      [] class = "flag" -> {"query_guard_flag"}
      [] class = "stripFlag" -> {"query_guard_reject", "query_guard_flag"}
      [] OTHER -> {}

\* Length check and QueryGuard: throw, return a denial fragment, or go on.
ValidateQuery(c) ==
    /\ pc[c] = "tool" /\ req[c].tool \in SearchTools
    /\ \/ req[c].query = "blank" /\ Throw(c) /\ UNCHANGED <<pending, auditVars>>
       \/ req[c].query = "reject" /\ Log(c, {"query_guard_reject"}) /\ Return(c, "denied")
       \/ /\ req[c].query \notin {"blank", "reject"}
          /\ Log(c, GuardEvents(req[c].query))
          /\ Goto(c, "search") /\ UNCHANGED outcome
    /\ UNCHANGED <<req, aborted, conn, inner, rows, text, window, total, gucVars, storeVars>>

\* The SELECT of the search tools.  A negative LIMIT is an SQL error.
Search(c) ==
    /\ pc[c] = "search"
    /\ req[c].limit >= 0
    /\ \E R \in UpTo(Min({req[c].limit, MaxFragments}),
                     {r \in Readable(conn[c]) :
                        Classification[r] \in AllowedClassifications(req[c].key)}) :
          rows' = [rows EXCEPT ![c] = R]
    /\ Goto(c, "fetch")
    /\ UNCHANGED <<req, aborted, conn, inner, text, window, total, pending, outcome,
                   gucVars, storeVars, auditVars>>

\* fetchChunk for every row: a row deleted or no longer decryptable since the
\* SELECT gives an empty text, never an error.
FetchChunks(c) ==
    /\ pc[c] = "fetch"
    /\ text' = [text EXCEPT ![c] =
                  {r \in rows[c] \cap Readable(conn[c]) : content[r] = "readable"}]
    /\ Goto(c, "budget")
    /\ UNCHANGED <<req, aborted, conn, inner, rows, window, total, pending, outcome,
                   gucVars, storeVars, auditVars>>

\* An SQL error inside fetchChunk is swallowed too, but PostgreSQL has aborted
\* the transaction: the call goes on with empty texts and cannot commit.
FetchAborts(c) ==
    /\ pc[c] = "fetch" /\ rows[c] # {}
    /\ aborted' = aborted \cup {c}
    /\ Goto(c, "budget")
    /\ UNCHANGED <<req, conn, inner, rows, text, window, total, pending, outcome,
                   gucVars, storeVars, auditVars>>

\* The embedding service or a SQL statement of the tool fails.
ToolFails(c) ==
    /\ pc[c] \in {"tool", "search"}
    /\ Throw(c)
    /\ UNCHANGED <<req, aborted, conn, inner, rows, text, window, total, pending,
                   gucVars, storeVars, auditVars>>

-----------------------------------------------------------------------------
(* ChunkBudgetEnforcer.commitChunks, a REQUIRES_NEW transaction.            *)

\* The new transaction takes a second connection; windowStart is read in it.
BeginBudget(c) ==
    /\ pc[c] = "budget"
    /\ \E x \in Conns : Free(x) /\ inner' = [inner EXCEPT ![c] = x]
    /\ window' = [window EXCEPT ![c] = hour]
    /\ Goto(c, "upsert")
    /\ UNCHANGED <<req, aborted, conn, rows, text, total, pending, outcome,
                   gucVars, storeVars, auditVars>>

\* Mutant: SELECT then UPDATE, with no lock held in between.
RowNeverLocked(k, w) == FALSE

\* The uncommitted UPSERT of another call holds the (k, w) row.
RowLocked(k, w) ==
    \E d \in Calls : pc[d] = "charge" /\ req[d].key = k /\ window[d] = w

\* Mutant: the increment is applied with the operands swapped.
UpsertSubtracts(c) == Cardinality(rows[c]) - count[req[c].key][window[c]] - 1

\* chunk_count + EXCLUDED.chunk_count
UpsertTotal(c) == count[req[c].key][window[c]] + Cardinality(rows[c])

\* UPSERT ... RETURNING chunk_count, waiting for the row lock.
Upsert(c) ==
    /\ pc[c] = "upsert"
    /\ ~RowLocked(req[c].key, window[c])
    /\ total' = [total EXCEPT ![c] = UpsertTotal(c)]
    /\ Goto(c, "charge")
    /\ UNCHANGED <<req, aborted, conn, inner, rows, text, window, pending, outcome,
                   gucVars, storeVars, auditVars>>

\* Mutant: the comparison lets one chunk too many through.
OverCapByOne(n) == n > HourlyCap + 1

OverCap(n) == n > HourlyCap

CommitBudget(c) ==
    /\ pc[c] = "charge"
    /\ ~OverCap(total[c])
    /\ count' = [count EXCEPT ![req[c].key][window[c]] = total[c]]
    /\ inner' = [inner EXCEPT ![c] = NoConn]
    /\ Goto(c, "audit")
    /\ UNCHANGED <<req, aborted, conn, rows, text, window, total, pending, outcome,
                   gucVars, content, hour, auditVars>>

\* Over the cap: the event is saved in the inner transaction, which the
\* exception rolls back together with the increment; the file keeps it.  The
\* tool turns the exception into a denial fragment.
ExceedBudget(c) ==
    /\ pc[c] = "charge"
    /\ OverCap(total[c])
    /\ auditFile' = auditFile \cup Entries(c, {"chunk_budget_exceeded"})
    /\ inner' = [inner EXCEPT ![c] = NoConn]
    /\ Return(c, "denied")
    /\ UNCHANGED <<req, aborted, conn, rows, text, window, total, pending,
                   gucVars, storeVars, auditDb>>

\* Any other failure of the inner transaction leaves the tool.
BudgetFails(c) ==
    /\ pc[c] \in {"upsert", "charge"}
    /\ inner' = [inner EXCEPT ![c] = NoConn]
    /\ Throw(c)
    /\ UNCHANGED <<req, aborted, conn, rows, text, window, total, pending,
                   gucVars, storeVars, auditVars>>

\* The search tools log their own event and return the fragments.
AuditSearch(c) ==
    /\ pc[c] = "audit"
    /\ Log(c, {req[c].tool})
    /\ Return(c, "ok")
    /\ UNCHANGED <<req, aborted, conn, inner, rows, text, window, total, gucVars, storeVars>>

-----------------------------------------------------------------------------
(* The end of the RLS transaction.                                         *)

\* Mutant: an aborted transaction is committed all the same.
CommitsAnyway(c) == TRUE

\* PostgreSQL refuses the flush of an aborted transaction.
CanCommit(c) == c \notin aborted

\* Mutant: the session is never flushed, so the saved events are lost.
FlushesNothing(c) == {}

\* The events Hibernate flushes at commit.
Flushed(c) == pending[c]

CommitTx(c) ==
    /\ pc[c] = "commit"
    /\ CanCommit(c)
    /\ auditDb' = auditDb \cup Entries(c, Flushed(c))
    /\ pending' = [pending EXCEPT ![c] = {}]
    /\ RevertLocal(conn[c])
    /\ Goto(c, "after")
    /\ UNCHANGED <<req, aborted, conn, inner, rows, text, window, total, outcome,
                   sessionGuc, storeVars, auditFile>>

\* The flush or the commit fails and the transaction rolls back.
CommitFails(c) ==
    /\ pc[c] = "commit"
    /\ Throw(c)
    /\ UNCHANGED <<req, aborted, conn, inner, rows, text, window, total, pending,
                   gucVars, storeVars, auditVars>>

Rollback(c) ==
    /\ pc[c] = "rollback"
    /\ pending' = [pending EXCEPT ![c] = {}]
    /\ RevertLocal(conn[c])
    /\ Goto(c, "after")
    /\ UNCHANGED <<req, aborted, conn, inner, rows, text, window, total, outcome,
                   sessionGuc, storeVars, auditVars>>

\* afterCompletion: RESET both settings, best effort, then the connection goes
\* back to the pool and the result or the exception to the client.
AfterCompletion(c) ==
    /\ pc[c] = "after"
    /\ \/ sessionGuc' = [sessionGuc EXCEPT ![conn[c]] = UnsetContext]
       \/ UNCHANGED sessionGuc
    /\ conn' = [conn EXCEPT ![c] = NoConn]
    /\ Goto(c, "done")
    /\ UNCHANGED <<req, aborted, inner, rows, text, window, total, pending, outcome,
                   localGuc, storeVars, auditVars>>

-----------------------------------------------------------------------------
(* Everything else that touches the shared state.                          *)

\* The clock.  A call is through with commitChunks while its window is kept.
NextHour ==
    /\ hour < MaxHour
    /\ \A c \in Calls : pc[c] \in {"upsert", "charge"} => hour + 1 - window[c] < Retention
    /\ hour' = hour + 1
    /\ UNCHANGED <<pc, callVars, gucVars, content, count, auditVars>>

\* Mutant: the retention interval is forgotten.
StaleTooSoon(w) == w <= hour

\* window_start < now() - INTERVAL '24 hours': a window begins with its hour, and
\* the pruner runs in the middle of one.
Stale(w) == w <= hour - Retention

\* RateLimitStatePruner
PruneStaleWindows ==
    /\ count' = [k \in Keys |-> [w \in Windows |-> IF Stale(w) THEN 0 ELSE count[k][w]]]
    /\ UNCHANGED <<pc, callVars, gucVars, content, hour, auditVars>>

\* The ingestion daemon deletes or replaces a document: its rows go for good.
RemoveChunk(r) ==
    /\ content[r] # "absent"
    /\ content' = [content EXCEPT ![r] = "absent"]
    /\ UNCHANGED <<pc, callVars, gucVars, count, hour, auditVars>>

\* The key-rotation tool re-encrypts a row under a key this gateway process
\* does not have yet.
RekeyChunk(r) ==
    /\ content[r] = "readable"
    /\ content' = [content EXCEPT ![r] = "sealed"]
    /\ UNCHANGED <<pc, callVars, gucVars, count, hour, auditVars>>

\* The gateway dies and restarts: open transactions roll back and the pool is
\* filled with fresh connections.
Crash ==
    /\ \E c \in Calls : pc[c] # "idle" /\ ~Ended(c)
    /\ pc' = [c \in Calls |-> IF pc[c] = "idle" \/ Ended(c) THEN pc[c] ELSE "crashed"]
    /\ conn' = [c \in Calls |-> NoConn]
    /\ inner' = [c \in Calls |-> NoConn]
    /\ pending' = [c \in Calls |-> {}]
    /\ localGuc' = [x \in Conns |-> UnsetContext]
    /\ sessionGuc' = [x \in Conns |-> UnsetContext]
    /\ UNCHANGED <<req, aborted, rows, text, window, total, outcome, storeVars, auditVars>>

-----------------------------------------------------------------------------
Step(c) ==
    \/ EnforceAllowlist(c) \/ SaveDenial(c) \/ LogDenial(c)
    \/ BeginTx(c) \/ PoolTimeout(c)
    \/ ListSources(c) \/ QueryDatabase(c) \/ QueryDenied(c)
    \/ ValidateQuery(c) \/ Search(c) \/ FetchChunks(c) \/ FetchAborts(c)
    \/ ToolFails(c)
    \/ BeginBudget(c) \/ Upsert(c) \/ CommitBudget(c) \/ ExceedBudget(c)
    \/ BudgetFails(c) \/ AuditSearch(c)
    \/ CommitTx(c) \/ CommitFails(c) \/ Rollback(c) \/ AfterCompletion(c)

Environment ==
    \/ NextHour \/ PruneStaleWindows \/ Crash
    \/ \E r \in Chunks : RemoveChunk(r) \/ RekeyChunk(r)

Next == Environment \/ \E c \in Calls : Arrive(c) \/ Step(c)

Spec == Init /\ [][Next]_vars

\* Every request thread keeps running: virtual threads are scheduled fairly
\* and a wait for a connection ends in a connection or in a timeout.
FairSpec == Spec /\ \A c \in Calls : WF_vars(Step(c))

-----------------------------------------------------------------------------
(* Correctness.                                                            *)

TypeOK ==
    /\ pc \in [Calls -> PCs]
    /\ req \in [Calls -> Request]
    /\ conn \in [Calls -> Conns \cup {NoConn}]
    /\ inner \in [Calls -> Conns \cup {NoConn}]
    /\ localGuc \in [Conns -> Contexts]
    /\ sessionGuc \in [Conns -> Contexts]
    /\ rows \in [Calls -> SUBSET Chunks]
    /\ text \in [Calls -> SUBSET Chunks]
    /\ window \in [Calls -> Windows]
    /\ total \in [Calls -> Nat]
    /\ pending \in [Calls -> SUBSET AuditEvents]
    /\ outcome \in [Calls -> {"none", "ok", "denied", "error"}]
    /\ aborted \subseteq Calls
    /\ content \in [Chunks -> {"readable", "sealed", "absent"}]
    /\ count \in [Keys -> [Windows -> Nat]]
    /\ hour \in Windows
    /\ auditDb \subseteq [call : Calls, event : AuditEvents]
    /\ auditFile \subseteq [call : Calls, event : AuditEvents]

Delivered(c) == pc[c] = "done" /\ outcome[c] = "ok"

\* RlsContextAspect: a connection carries app.mcp_* settings only while it
\* runs the RLS transaction of some call, and then they are that call's own;
\* neither an idle connection nor a budget transaction sees a caller's
\* context, whether or not the best-effort RESET ran.
ContextBelongsToHolder ==
    \A x \in Conns : Setting(x) # UnsetContext =>
        \E c \in Calls : conn[c] = x /\ Setting(x) = CallerContext(req[c].key)

\* Whatever query_database or a search tool selected for a call, through
\* whichever pooled connection, lies within the caller's classification and
\* workspaces.
RowsWithinScope ==
    \A c \in Calls : \A r \in rows[c] :
        /\ Role[req[c].key] = "ADMIN" \/ Classification[r] # "CONFIDENTIAL"
        /\ WorkspaceOf[r] \in Grants[req[c].key]

\* A connection serves one transaction at a time, and a call that has ended,
\* however it ended, holds none.
ConnectionsReturned ==
    /\ \A c \in Calls : Ended(c) => conn[c] = NoConn /\ inner[c] = NoConn
    /\ \A c, d \in Calls : c # d =>
        \A x \in Conns : ~(x \in {conn[c], inner[c]} /\ x \in {conn[d], inner[d]})
    /\ \A c \in Calls : conn[c] # NoConn => conn[c] # inner[c]

\* Who delivered which chunk to key k in window w.
Deliveries(k, w) ==
    {p \in Calls \X Chunks :
        /\ Delivered(p[1]) /\ req[p[1]].tool \in SearchTools
        /\ req[p[1]].key = k /\ window[p[1]] = w
        /\ p[2] \in rows[p[1]]}

ChunksDelivered(k, w) == Cardinality(Deliveries(k, w))

\* ChunkBudgetEnforcer: in one hourly window the search tools never deliver
\* more chunks to a key than the cap, whatever calls overlap.
DeliveredWithinCap ==
    \A k \in Keys, w \in Windows : ChunksDelivered(k, w) <= HourlyCap

\* Every delivered chunk is in the counter: concurrent charges never overwrite
\* each other and no rollback of a delivering call takes its charge back.
EveryDeliveryCharged ==
    \A k \in Keys, w \in Windows :
        ~Stale(w) => ChunksDelivered(k, w) <= count[k][w]

\* AuditService: a client that got a result has left its tool event in
\* audit_logs and in the file.
AuditedBeforeDelivered ==
    \A c \in Calls : Delivered(c) =>
        Entries(c, {req[c].tool}) \subseteq auditDb \cap auditFile

\* Unless the gateway crashes on the way, audit_logs never holds an event of a
\* finished call that the file lacks.
DbEventsInFile ==
    \A e \in auditDb : pc[e.call] = "done" => e \in auditFile

\* An empty fragment is delivered only for a row that has since been deleted
\* or re-encrypted: an SQL error swallowed by fetchChunk never reaches a
\* client as an empty result.
BlankMeansGone ==
    \A c \in Calls : Delivered(c) /\ req[c].tool \in SearchTools =>
        \A r \in rows[c] \ text[c] : content[r] # "readable"

\* A call that entered the gateway gets an answer: calls that hold one
\* connection each and wait for a second do not wait for ever.
EveryCallEnds == \A c \in Calls : pc[c] = "called" ~> Ended(c)

\* ARCHITECTURE.md, "every tool invocation is recorded in two independent
\* sinks": a denial that one sink shows is in the other.  It is not: both
\* authz_denial and chunk_budget_exceeded are saved in a transaction that the
\* denial itself rolls back.
DenialsInBothSinks ==
    \A e \in auditFile :
        pc[e.call] = "done" /\ e.event \in {"authz_denial", "chunk_budget_exceeded"} =>
            e \in auditDb

-----------------------------------------------------------------------------
(* What the properties above rest on: the parts of the inductive invariant  *)
(* of ToolCallProofs.                                                      *)

InTx(c) == pc[c] \in {"tool", "search", "fetch", "budget", "upsert", "charge",
                      "audit", "commit", "rollback"}
InBudgetTx(c) == pc[c] \in {"upsert", "charge"}

\* A call holds a connection exactly while it has a transaction open on it.
ConnInv ==
    /\ \A c \in Calls : conn[c] # NoConn <=> InTx(c) \/ pc[c] = "after"
    /\ \A c \in Calls : inner[c] # NoConn <=> InBudgetTx(c)
    /\ \A c \in Calls : conn[c] # NoConn => conn[c] # inner[c]
    /\ \A c, d \in Calls : c # d /\ conn[c] # NoConn => conn[c] \notin {conn[d], inner[d]}
    /\ \A c, d \in Calls : c # d /\ inner[c] # NoConn => inner[c] # inner[d]

\* A connection has transaction-local settings exactly while an RLS
\* transaction runs on it, and no connection has session-level ones.
ContextInv ==
    /\ \A x \in Conns : sessionGuc[x] = UnsetContext
    /\ \A c \in Calls : InTx(c) => localGuc[conn[c]] = CallerContext(req[c].key)
    /\ \A x \in Conns : localGuc[x] # UnsetContext =>
            \E c \in Calls : InTx(c) /\ conn[c] = x

\* The call that holds a rate_limit_state row holds it alone, computed its
\* total from the committed count, and works on a window still kept.
ChargeInv ==
    /\ \A c \in Calls : pc[c] = "charge" => total[c] = UpsertTotal(c)
    /\ \A c, d \in Calls :
            c # d /\ pc[c] = "charge" /\ pc[d] = "charge" =>
                <<req[c].key, window[c]>> # <<req[d].key, window[d]>>
    /\ \A c \in Calls : InBudgetTx(c) =>
            window[c] <= hour /\ ~Stale(window[c])

\* A call about to commit an "ok" has its tool event in the transaction and in
\* the file; one that has committed has it in both sinks.
AuditInv ==
    \A c \in Calls : outcome[c] = "ok" =>
        /\ pc[c] \in {"commit", "after", "done", "crashed"}
        /\ pc[c] = "commit" => /\ req[c].tool \in pending[c]
                              /\ Entries(c, {req[c].tool}) \subseteq auditFile
        /\ pc[c] \in {"after", "done"} =>
                Entries(c, {req[c].tool}) \subseteq auditDb \cap auditFile

\* The budget the tools share, as ChunkBudget promises it.
Budget == INSTANCE ChunkBudget
BudgetSpec == Budget!Spec
=============================================================================
