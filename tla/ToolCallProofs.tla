--------------------------- MODULE ToolCallProofs ---------------------------
(***************************************************************************)
(* Proofs about ToolCall for every set of calls, keys, connections and     *)
(* chunks and every cap.                                                   *)
(***************************************************************************)
EXTENDS ToolCall, FiniteSetTheorems, TLAPS

\* A set of chunks a call selected has a size.
LEMMA RowsFinite ==
    ASSUME NEW R, R \subseteq Chunks
    PROVE  Cardinality(R) \in Nat
  BY ConstantsAssumption, FS_Subset, FS_CardinalityType

LEMMA CallerContextType ==
    ASSUME NEW k \in Keys
    PROVE  CallerContext(k) \in Contexts /\ CallerContext(k) # UnsetContext
  BY ConstantsAssumption DEF CallerContext, Contexts, UnsetContext, Roles

LEMMA UnsetContextType == UnsetContext \in Contexts
  BY DEF UnsetContext, Contexts, Roles

LEMMA TypeInit == Init => TypeOK
  <1> SUFFICES ASSUME Init PROVE TypeOK
    OBVIOUS
  <1>1. req \in [Calls -> Request]
    BY ConstantsAssumption DEF Init
  <1>2. localGuc \in [Conns -> Contexts] /\ sessionGuc \in [Conns -> Contexts]
    BY UnsetContextType DEF Init
  <1>3. 0 \in Windows
    BY ConstantsAssumption DEF Windows
  <1> QED
    BY <1>1, <1>2, <1>3 DEF Init, TypeOK, PCs

\* AuditService.log keeps both sinks well typed.
LEMMA LogType ==
    ASSUME TypeOK, NEW c \in Calls, NEW E, E \subseteq AuditEvents, Log(c, E)
    PROVE  /\ pending' \in [Calls -> SUBSET AuditEvents]
           /\ auditFile' \subseteq [call : Calls, event : AuditEvents]
           /\ auditDb' = auditDb
  BY DEF TypeOK, Log, Entries

LEMMA StepType ==
    ASSUME TypeOK, NEW c \in Calls, Step(c)
    PROVE  TypeOK'
  <1> USE DEF TypeOK, PCs, Goto, Return, Throw, Log, Entries, callVars, gucVars,
              storeVars, auditVars
  <1>k. req[c] \in Request /\ req[c].key \in Keys /\ req[c].tool \in Tools
    BY DEF Request
  <1>1. CASE EnforceAllowlist(c)
    BY <1>1 DEF EnforceAllowlist
  <1>2. CASE SaveDenial(c)
    BY <1>2 DEF SaveDenial, AuditEvents
  <1>3. CASE LogDenial(c)
    BY <1>3 DEF LogDenial, AuditEvents
  <1>4. CASE BeginTx(c)
    BY <1>4, <1>k, CallerContextType DEF BeginTx, SetConfig
  <1>5. CASE PoolTimeout(c)
    BY <1>5 DEF PoolTimeout
  <1>6. CASE ListSources(c)
    BY <1>6 DEF ListSources, AuditEvents, Tools
  <1>7. CASE QueryDatabase(c)
    BY <1>7 DEF QueryDatabase, AuditEvents, Tools, UpTo, Readable
  <1>8. CASE QueryDenied(c)
    BY <1>8 DEF QueryDenied, AuditEvents
  <1>9. CASE ValidateQuery(c)
    <2>1. GuardEvents(req[c].query) \subseteq AuditEvents
      BY DEF GuardEvents, AuditEvents
    <2>2. /\ pending' \in [Calls -> SUBSET AuditEvents]
          /\ auditFile' \subseteq [call : Calls, event : AuditEvents]
          /\ auditDb' = auditDb
      <3>1. CASE req[c].query = "blank"
        BY <1>9, <3>1 DEF ValidateQuery
      <3>2. CASE req[c].query = "reject"
        <4>1. {"query_guard_reject"} \subseteq AuditEvents
          BY DEF AuditEvents
        <4>2. Log(c, {"query_guard_reject"})
          BY <1>9, <3>2 DEF ValidateQuery
        <4> QED
          BY <4>1, <4>2, LogType
      <3>3. CASE req[c].query \notin {"blank", "reject"}
        <4>1. Log(c, GuardEvents(req[c].query))
          BY <1>9, <3>3 DEF ValidateQuery
        <4> QED
          BY <2>1, <4>1, LogType
      <3> QED
        BY <3>1, <3>2, <3>3
    <2>3. /\ pc' \in [Calls -> PCs]
          /\ outcome' \in [Calls -> {"none", "ok", "denied", "error"}]
          /\ UNCHANGED <<req, aborted, conn, inner, rows, text, window, total,
                         localGuc, sessionGuc, content, count, hour>>
      BY <1>9 DEF ValidateQuery
    <2> QED
      BY <2>2, <2>3
  <1>10. CASE Search(c)
    BY <1>10 DEF Search, UpTo, Readable
  <1>11. CASE FetchChunks(c)
    BY <1>11 DEF FetchChunks
  <1>12. CASE FetchAborts(c)
    BY <1>12 DEF FetchAborts
  <1>13. CASE ToolFails(c)
    BY <1>13 DEF ToolFails
  <1>14. CASE BeginBudget(c)
    BY <1>14 DEF BeginBudget
  <1>15. CASE Upsert(c)
    <2>1. UpsertTotal(c) \in Nat
      BY <1>k, RowsFinite DEF UpsertTotal
    <2> QED
      BY <1>15, <2>1 DEF Upsert
  <1>16. CASE CommitBudget(c)
    BY <1>16, <1>k DEF CommitBudget
  <1>17. CASE ExceedBudget(c)
    BY <1>17 DEF ExceedBudget, AuditEvents
  <1>18. CASE BudgetFails(c)
    BY <1>18 DEF BudgetFails
  <1>19. CASE AuditSearch(c)
    <2>1. {req[c].tool} \subseteq AuditEvents
      BY <1>k DEF AuditEvents
    <2>2. Log(c, {req[c].tool})
      BY <1>19 DEF AuditSearch
    <2>3. /\ pending' \in [Calls -> SUBSET AuditEvents]
          /\ auditFile' \subseteq [call : Calls, event : AuditEvents]
          /\ auditDb' = auditDb
      BY <2>1, <2>2, LogType
    <2> QED
      BY <1>19, <2>3 DEF AuditSearch
  <1>20. CASE CommitTx(c)
    BY <1>20, UnsetContextType DEF CommitTx, Flushed, RevertLocal
  <1>21. CASE CommitFails(c)
    BY <1>21 DEF CommitFails
  <1>22. CASE Rollback(c)
    BY <1>22, UnsetContextType DEF Rollback, RevertLocal
  <1>23. CASE AfterCompletion(c)
    <2>1. sessionGuc' \in [Conns -> Contexts]
      BY <1>23, UnsetContextType DEF AfterCompletion
    <2> QED
      BY <1>23, <2>1 DEF AfterCompletion
  <1> QED
    BY <1>1, <1>2, <1>3, <1>4, <1>5, <1>6, <1>7, <1>8, <1>9, <1>10, <1>11, <1>12,
       <1>13, <1>14, <1>15, <1>16, <1>17, <1>18, <1>19, <1>20, <1>21, <1>22, <1>23
       DEF Step

LEMMA EnvironmentType ==
    ASSUME TypeOK, Environment
    PROVE  TypeOK'
  <1> USE DEF TypeOK, callVars, gucVars, auditVars, storeVars
  <1>1. CASE NextHour
    BY <1>1, ConstantsAssumption DEF NextHour, Windows
  <1>2. CASE PruneStaleWindows
    BY <1>2 DEF PruneStaleWindows
  <1>3. CASE Crash
    BY <1>3, UnsetContextType DEF Crash, PCs
  <1>4. ASSUME NEW r \in Chunks, RemoveChunk(r) PROVE TypeOK'
    BY <1>4 DEF RemoveChunk
  <1>5. ASSUME NEW r \in Chunks, RekeyChunk(r) PROVE TypeOK'
    BY <1>5 DEF RekeyChunk
  <1> QED
    BY <1>1, <1>2, <1>3, <1>4, <1>5 DEF Environment

\* Every variable of the gateway model keeps its type.
THEOREM TypeCorrect == Spec => []TypeOK
  <1>1. TypeOK /\ [Next]_vars => TypeOK'
    <2> SUFFICES ASSUME TypeOK, [Next]_vars PROVE TypeOK'
      OBVIOUS
    <2>1. ASSUME NEW c \in Calls, Arrive(c) PROVE TypeOK'
      BY <2>1 DEF TypeOK, Arrive, Goto, PCs, callVars, gucVars, storeVars, auditVars
    <2>2. CASE UNCHANGED vars
      BY <2>2 DEF TypeOK, vars, callVars, gucVars, storeVars, auditVars
    <2> QED
      BY <2>1, <2>2, StepType, EnvironmentType DEF Next
  <1> QED
    BY <1>1, TypeInit, PTL DEF Spec

-----------------------------------------------------------------------------
(* Connections.                                                            *)

LEMMA ConnStep ==
    ASSUME TypeOK, ConnInv, NEW c \in Calls, Step(c)
    PROVE  ConnInv'
  <1> USE DEF ConnInv, InTx, InBudgetTx, Goto
  <1>t. /\ pc \in [Calls -> PCs]
        /\ conn \in [Calls -> Conns \cup {NoConn}]
        /\ inner \in [Calls -> Conns \cup {NoConn}]
    BY DEF TypeOK
  <1>n. NoConn \notin Conns
    BY ConstantsAssumption
  <1>1. CASE EnforceAllowlist(c)
    BY <1>1, <1>t, <1>n DEF EnforceAllowlist, callVars
  <1>2. CASE SaveDenial(c)
    BY <1>2, <1>t, <1>n DEF SaveDenial, callVars
  <1>3. CASE LogDenial(c)
    BY <1>3, <1>t, <1>n DEF LogDenial
  <1>4. CASE BeginTx(c)
    BY <1>4, <1>t, <1>n DEF BeginTx, Free, SetConfig
  <1>5. CASE PoolTimeout(c)
    BY <1>5, <1>t, <1>n DEF PoolTimeout
  <1>6. CASE ListSources(c)
    BY <1>6, <1>t, <1>n DEF ListSources, Return
  <1>7. CASE QueryDatabase(c)
    BY <1>7, <1>t, <1>n DEF QueryDatabase, Return
  <1>8. CASE QueryDenied(c)
    BY <1>8, <1>t, <1>n DEF QueryDenied, Throw
  <1>9. CASE ValidateQuery(c)
    BY <1>9, <1>t, <1>n DEF ValidateQuery, Return, Throw
  <1>10. CASE Search(c)
    BY <1>10, <1>t, <1>n DEF Search
  <1>11. CASE FetchChunks(c)
    BY <1>11, <1>t, <1>n DEF FetchChunks
  <1>12. CASE FetchAborts(c)
    BY <1>12, <1>t, <1>n DEF FetchAborts
  <1>13. CASE ToolFails(c)
    BY <1>13, <1>t, <1>n DEF ToolFails, Throw
  <1>14. CASE BeginBudget(c)
    BY <1>14, <1>t, <1>n DEF BeginBudget, Free
  <1>15. CASE Upsert(c)
    BY <1>15, <1>t, <1>n DEF Upsert
  <1>16. CASE CommitBudget(c)
    BY <1>16, <1>t, <1>n DEF CommitBudget
  <1>17. CASE ExceedBudget(c)
    BY <1>17, <1>t, <1>n DEF ExceedBudget, Return
  <1>18. CASE BudgetFails(c)
    BY <1>18, <1>t, <1>n DEF BudgetFails, Throw
  <1>19. CASE AuditSearch(c)
    BY <1>19, <1>t, <1>n DEF AuditSearch, Return
  <1>20. CASE CommitTx(c)
    BY <1>20, <1>t, <1>n DEF CommitTx
  <1>21. CASE CommitFails(c)
    BY <1>21, <1>t, <1>n DEF CommitFails, Throw
  <1>22. CASE Rollback(c)
    BY <1>22, <1>t, <1>n DEF Rollback
  <1>23. CASE AfterCompletion(c)
    BY <1>23, <1>t, <1>n DEF AfterCompletion
  <1> QED
    BY <1>1, <1>2, <1>3, <1>4, <1>5, <1>6, <1>7, <1>8, <1>9, <1>10, <1>11, <1>12,
       <1>13, <1>14, <1>15, <1>16, <1>17, <1>18, <1>19, <1>20, <1>21, <1>22, <1>23 DEF Step

-----------------------------------------------------------------------------
(* Row-level-security contexts.                                            *)

LEMMA ContextStep ==
    ASSUME TypeOK, ConnInv, ContextInv, NEW c \in Calls, Step(c)
    PROVE  ContextInv'
  <1> USE DEF ConnInv, ContextInv, InTx, Goto, callVars, gucVars, storeVars, auditVars
  <1>t. /\ pc \in [Calls -> PCs]
        /\ req \in [Calls -> Request] /\ \A d \in Calls : req[d].key \in Keys
        /\ conn \in [Calls -> Conns \cup {NoConn}]
        /\ inner \in [Calls -> Conns \cup {NoConn}]
        /\ localGuc \in [Conns -> Contexts]
        /\ sessionGuc \in [Conns -> Contexts]
    BY DEF TypeOK, Request
  <1>n. NoConn \notin Conns
    BY ConstantsAssumption
  <1>1. CASE EnforceAllowlist(c)
    BY <1>1, <1>t, <1>n DEF EnforceAllowlist
  <1>2. CASE SaveDenial(c)
    BY <1>2, <1>t, <1>n DEF SaveDenial
  <1>3. CASE LogDenial(c)
    BY <1>3, <1>t, <1>n DEF LogDenial
  <1>4. CASE BeginTx(c)
    BY <1>4, <1>t, <1>n DEF BeginTx, Free, SetConfig
  <1>5. CASE PoolTimeout(c)
    BY <1>5, <1>t, <1>n DEF PoolTimeout
  <1>6. CASE ListSources(c)
    BY <1>6, <1>t, <1>n DEF ListSources, Return, Log
  <1>7. CASE QueryDatabase(c)
    BY <1>7, <1>t, <1>n DEF QueryDatabase, Return, Log
  <1>8. CASE QueryDenied(c)
    BY <1>8, <1>t, <1>n DEF QueryDenied, Throw, Log
  <1>9. CASE ValidateQuery(c)
    BY <1>9, <1>t, <1>n DEF ValidateQuery, Return, Throw, Log
  <1>10. CASE Search(c)
    BY <1>10, <1>t, <1>n DEF Search
  <1>11. CASE FetchChunks(c)
    BY <1>11, <1>t, <1>n DEF FetchChunks
  <1>12. CASE FetchAborts(c)
    BY <1>12, <1>t, <1>n DEF FetchAborts
  <1>13. CASE ToolFails(c)
    BY <1>13, <1>t, <1>n DEF ToolFails, Throw
  <1>14. CASE BeginBudget(c)
    BY <1>14, <1>t, <1>n DEF BeginBudget
  <1>15. CASE Upsert(c)
    BY <1>15, <1>t, <1>n DEF Upsert
  <1>16. CASE CommitBudget(c)
    BY <1>16, <1>t, <1>n DEF CommitBudget
  <1>17. CASE ExceedBudget(c)
    BY <1>17, <1>t, <1>n DEF ExceedBudget, Return
  <1>18. CASE BudgetFails(c)
    BY <1>18, <1>t, <1>n DEF BudgetFails, Throw
  <1>19. CASE AuditSearch(c)
    BY <1>19, <1>t, <1>n DEF AuditSearch, Return, Log
  <1>20. CASE CommitTx(c)
    BY <1>20, <1>t, <1>n DEF CommitTx, RevertLocal
  <1>21. CASE CommitFails(c)
    BY <1>21, <1>t, <1>n DEF CommitFails, Throw
  <1>22. CASE Rollback(c)
    BY <1>22, <1>t, <1>n DEF Rollback, RevertLocal
  <1>23. CASE AfterCompletion(c)
    BY <1>23, <1>t, <1>n DEF AfterCompletion
  <1> QED
    BY <1>1, <1>2, <1>3, <1>4, <1>5, <1>6, <1>7, <1>8, <1>9, <1>10, <1>11, <1>12,
       <1>13, <1>14, <1>15, <1>16, <1>17, <1>18, <1>19, <1>20, <1>21, <1>22, <1>23 DEF Step

\* The rows a call reads on its connection are those its key may see.
LEMMA ReadableInScope ==
    ASSUME TypeOK, ConnInv, ContextInv, NEW c \in Calls, InTx(c),
           NEW r \in Readable(conn[c])
    PROVE  /\ r \in Chunks
           /\ Role[req[c].key] = "ADMIN" \/ Classification[r] # "CONFIDENTIAL"
           /\ WorkspaceOf[r] \in Grants[req[c].key]
  <1>1. req[c].key \in Keys
    BY DEF TypeOK, Request
  <1>2. conn[c] \in Conns /\ localGuc[conn[c]] = CallerContext(req[c].key)
    BY DEF TypeOK, ConnInv, ContextInv
  <1>3. Setting(conn[c]) = CallerContext(req[c].key)
    BY <1>1, <1>2, CallerContextType DEF Setting
  <1> QED
    BY <1>3 DEF Readable, RowVisible, CallerContext

LEMMA ScopeStep ==
    ASSUME TypeOK, ConnInv, ContextInv, RowsWithinScope, NEW c \in Calls, Step(c)
    PROVE  RowsWithinScope'
  <1> USE DEF RowsWithinScope, callVars, gucVars, storeVars, auditVars
  <1>t. rows \in [Calls -> SUBSET Chunks]
    BY DEF TypeOK
  <1>r. ASSUME pc[c] \in {"tool", "search"}, req' = req,
               NEW R \in SUBSET Readable(conn[c]), rows' = [rows EXCEPT ![c] = R]
        PROVE  RowsWithinScope'
    <2>1. InTx(c)
      BY <1>r DEF InTx
    <2> QED
      BY <1>r, <1>t, <2>1, ReadableInScope
  <1>1. CASE EnforceAllowlist(c)
    BY <1>1 DEF EnforceAllowlist
  <1>2. CASE SaveDenial(c)
    BY <1>2 DEF SaveDenial
  <1>3. CASE LogDenial(c)
    BY <1>3 DEF LogDenial
  <1>4. CASE BeginTx(c)
    BY <1>4 DEF BeginTx
  <1>5. CASE PoolTimeout(c)
    BY <1>5 DEF PoolTimeout
  <1>6. CASE ListSources(c)
    BY <1>6 DEF ListSources
  <1>7. CASE QueryDatabase(c)
    BY <1>7, <1>r DEF QueryDatabase, UpTo
  <1>8. CASE QueryDenied(c)
    BY <1>8 DEF QueryDenied
  <1>9. CASE ValidateQuery(c)
    BY <1>9 DEF ValidateQuery, Return
  <1>10. CASE Search(c)
    BY <1>10, <1>r DEF Search, UpTo
  <1>11. CASE FetchChunks(c)
    BY <1>11 DEF FetchChunks
  <1>12. CASE FetchAborts(c)
    BY <1>12 DEF FetchAborts
  <1>13. CASE ToolFails(c)
    BY <1>13 DEF ToolFails
  <1>14. CASE BeginBudget(c)
    BY <1>14 DEF BeginBudget
  <1>15. CASE Upsert(c)
    BY <1>15 DEF Upsert
  <1>16. CASE CommitBudget(c)
    BY <1>16 DEF CommitBudget
  <1>17. CASE ExceedBudget(c)
    BY <1>17 DEF ExceedBudget
  <1>18. CASE BudgetFails(c)
    BY <1>18 DEF BudgetFails
  <1>19. CASE AuditSearch(c)
    BY <1>19 DEF AuditSearch
  <1>20. CASE CommitTx(c)
    BY <1>20 DEF CommitTx
  <1>21. CASE CommitFails(c)
    BY <1>21 DEF CommitFails
  <1>22. CASE Rollback(c)
    BY <1>22 DEF Rollback
  <1>23. CASE AfterCompletion(c)
    BY <1>23 DEF AfterCompletion
  <1> QED
    BY <1>1, <1>2, <1>3, <1>4, <1>5, <1>6, <1>7, <1>8, <1>9, <1>10, <1>11, <1>12,
       <1>13, <1>14, <1>15, <1>16, <1>17, <1>18, <1>19, <1>20, <1>21, <1>22, <1>23 DEF Step

-----------------------------------------------------------------------------
(* The chunk budget.                                                       *)

LEMMA ChargeStep ==
    ASSUME TypeOK, ChargeInv, NEW c \in Calls, Step(c)
    PROVE  ChargeInv'
  <1> USE DEF ChargeInv, InBudgetTx, UpsertTotal, Stale, Goto, callVars, gucVars,
              storeVars, auditVars
  <1>t. /\ pc \in [Calls -> PCs]
        /\ req \in [Calls -> Request] /\ \A d \in Calls : req[d].key \in Keys
        /\ rows \in [Calls -> SUBSET Chunks]
        /\ window \in [Calls -> Windows]
        /\ total \in [Calls -> Nat]
        /\ count \in [Keys -> [Windows -> Nat]]
        /\ hour \in Windows /\ Windows \subseteq Nat /\ Retention \in Nat \ {0}
    BY ConstantsAssumption DEF TypeOK, Request, Windows
  <1>1. CASE EnforceAllowlist(c)
    BY <1>1, <1>t DEF EnforceAllowlist
  <1>2. CASE SaveDenial(c)
    BY <1>2, <1>t DEF SaveDenial
  <1>3. CASE LogDenial(c)
    BY <1>3, <1>t DEF LogDenial
  <1>4. CASE BeginTx(c)
    BY <1>4, <1>t DEF BeginTx
  <1>5. CASE PoolTimeout(c)
    BY <1>5, <1>t DEF PoolTimeout
  <1>6. CASE ListSources(c)
    BY <1>6, <1>t DEF ListSources, Return
  <1>7. CASE QueryDatabase(c)
    BY <1>7, <1>t DEF QueryDatabase, Return
  <1>8. CASE QueryDenied(c)
    BY <1>8, <1>t DEF QueryDenied, Throw
  <1>9. CASE ValidateQuery(c)
    BY <1>9, <1>t DEF ValidateQuery, Return, Throw
  <1>10. CASE Search(c)
    BY <1>10, <1>t DEF Search
  <1>11. CASE FetchChunks(c)
    BY <1>11, <1>t DEF FetchChunks
  <1>12. CASE FetchAborts(c)
    BY <1>12, <1>t DEF FetchAborts
  <1>13. CASE ToolFails(c)
    BY <1>13, <1>t DEF ToolFails, Throw
  <1>14. CASE BeginBudget(c)
    BY <1>14, <1>t DEF BeginBudget
  <1>15. CASE Upsert(c)
    BY <1>15, <1>t DEF Upsert, RowLocked
  <1>16. CASE CommitBudget(c)
    BY <1>16, <1>t DEF CommitBudget
  <1>17. CASE ExceedBudget(c)
    BY <1>17, <1>t DEF ExceedBudget, Return
  <1>18. CASE BudgetFails(c)
    BY <1>18, <1>t DEF BudgetFails, Throw
  <1>19. CASE AuditSearch(c)
    BY <1>19, <1>t DEF AuditSearch, Return
  <1>20. CASE CommitTx(c)
    BY <1>20, <1>t DEF CommitTx
  <1>21. CASE CommitFails(c)
    BY <1>21, <1>t DEF CommitFails, Throw
  <1>22. CASE Rollback(c)
    BY <1>22, <1>t DEF Rollback
  <1>23. CASE AfterCompletion(c)
    BY <1>23, <1>t DEF AfterCompletion
  <1> QED
    BY <1>1, <1>2, <1>3, <1>4, <1>5, <1>6, <1>7, <1>8, <1>9, <1>10, <1>11, <1>12,
       <1>13, <1>14, <1>15, <1>16, <1>17, <1>18, <1>19, <1>20, <1>21, <1>22, <1>23 DEF Step

-----------------------------------------------------------------------------
(* The audit sinks.                                                        *)

LEMMA AuditStep ==
    ASSUME TypeOK, AuditInv, NEW c \in Calls, Step(c)
    PROVE  AuditInv'
  <1> USE DEF AuditInv, Goto, Entries, Log, callVars, gucVars, storeVars, auditVars
  <1>t. /\ pc \in [Calls -> PCs]
        /\ req \in [Calls -> Request]
        /\ pending \in [Calls -> SUBSET AuditEvents]
        /\ outcome \in [Calls -> {"none", "ok", "denied", "error"}]
    BY DEF TypeOK
  <1>1. CASE EnforceAllowlist(c)
    BY <1>1, <1>t DEF EnforceAllowlist
  <1>2. CASE SaveDenial(c)
    BY <1>2, <1>t DEF SaveDenial
  <1>3. CASE LogDenial(c)
    BY <1>3, <1>t DEF LogDenial
  <1>4. CASE BeginTx(c)
    BY <1>4, <1>t DEF BeginTx
  <1>5. CASE PoolTimeout(c)
    BY <1>5, <1>t DEF PoolTimeout
  <1>6. CASE ListSources(c)
    BY <1>6, <1>t DEF ListSources, Return
  <1>7. CASE QueryDatabase(c)
    BY <1>7, <1>t DEF QueryDatabase, Return
  <1>8. CASE QueryDenied(c)
    BY <1>8, <1>t DEF QueryDenied, Throw
  <1>9. CASE ValidateQuery(c)
    BY <1>9, <1>t DEF ValidateQuery, Return, Throw
  <1>10. CASE Search(c)
    BY <1>10, <1>t DEF Search
  <1>11. CASE FetchChunks(c)
    BY <1>11, <1>t DEF FetchChunks
  <1>12. CASE FetchAborts(c)
    BY <1>12, <1>t DEF FetchAborts
  <1>13. CASE ToolFails(c)
    BY <1>13, <1>t DEF ToolFails, Throw
  <1>14. CASE BeginBudget(c)
    BY <1>14, <1>t DEF BeginBudget
  <1>15. CASE Upsert(c)
    BY <1>15, <1>t DEF Upsert
  <1>16. CASE CommitBudget(c)
    BY <1>16, <1>t DEF CommitBudget
  <1>17. CASE ExceedBudget(c)
    BY <1>17, <1>t DEF ExceedBudget, Return
  <1>18. CASE BudgetFails(c)
    BY <1>18, <1>t DEF BudgetFails, Throw
  <1>19. CASE AuditSearch(c)
    BY <1>19, <1>t DEF AuditSearch, Return
  <1>20. CASE CommitTx(c)
    BY <1>20, <1>t DEF CommitTx, Flushed
  <1>21. CASE CommitFails(c)
    BY <1>21, <1>t DEF CommitFails, Throw
  <1>22. CASE Rollback(c)
    BY <1>22, <1>t DEF Rollback
  <1>23. CASE AfterCompletion(c)
    BY <1>23, <1>t DEF AfterCompletion
  <1> QED
    BY <1>1, <1>2, <1>3, <1>4, <1>5, <1>6, <1>7, <1>8, <1>9, <1>10, <1>11, <1>12,
       <1>13, <1>14, <1>15, <1>16, <1>17, <1>18, <1>19, <1>20, <1>21, <1>22, <1>23 DEF Step

-----------------------------------------------------------------------------
(* The inductive invariant.                                                *)

Inv == TypeOK /\ ConnInv /\ ContextInv /\ RowsWithinScope /\ ChargeInv /\ AuditInv

LEMMA InvInit == Init => Inv
  <1> SUFFICES ASSUME Init PROVE Inv
    OBVIOUS
  <1>1. TypeOK
    BY TypeInit
  <1>2. ConnInv
    BY DEF Init, ConnInv, InTx, InBudgetTx
  <1>3. ContextInv
    BY DEF Init, ContextInv, InTx
  <1>4. RowsWithinScope
    BY DEF Init, RowsWithinScope
  <1>5. ChargeInv
    BY DEF Init, ChargeInv, InBudgetTx
  <1>6. AuditInv
    BY DEF Init, AuditInv
  <1> QED
    BY <1>1, <1>2, <1>3, <1>4, <1>5, <1>6 DEF Inv

LEMMA InvArrive ==
    ASSUME Inv, NEW c \in Calls, Arrive(c)
    PROVE  Inv'
  <1> USE DEF Inv, TypeOK, Arrive, Goto, callVars, gucVars, storeVars, auditVars
  <1>1. TypeOK'
    BY DEF PCs
  <1>2. ConnInv'
    BY DEF ConnInv, InTx, InBudgetTx
  <1>3. ContextInv'
    BY DEF ContextInv, InTx
  <1>4. RowsWithinScope'
    BY DEF RowsWithinScope
  <1>5. ChargeInv'
    BY DEF ChargeInv, InBudgetTx, UpsertTotal, Stale
  <1>6. AuditInv'
    BY DEF AuditInv, Entries
  <1> QED
    BY <1>1, <1>2, <1>3, <1>4, <1>5, <1>6 DEF Inv

\* A crash ends every call under way, which releases all they held.
LEMMA InvCrash ==
    ASSUME Inv, Crash
    PROVE  Inv'
  <1> USE DEF Inv, Crash, Ended
  <1>1. TypeOK'
    BY EnvironmentType DEF Environment
  <1>t. pc \in [Calls -> PCs] /\ conn \in [Calls -> Conns \cup {NoConn}]
    BY DEF TypeOK
  <1>2. ConnInv'
    BY <1>t DEF ConnInv, InTx, InBudgetTx
  <1>3. ContextInv'
    BY <1>t DEF ContextInv, InTx
  <1>4. RowsWithinScope'
    BY DEF RowsWithinScope
  <1>5. ChargeInv'
    BY <1>t DEF ChargeInv, InBudgetTx, Stale
  <1>6. AuditInv'
    BY <1>t DEF AuditInv, Entries, auditVars
  <1> QED
    BY <1>1, <1>2, <1>3, <1>4, <1>5, <1>6 DEF Inv

\* The clock and the pruner touch no window a charge is working on.
LEMMA InvClock ==
    ASSUME Inv, NextHour \/ PruneStaleWindows
    PROVE  Inv'
  <1> USE DEF Inv, callVars, gucVars, auditVars
  <1>1. TypeOK'
    BY EnvironmentType DEF Environment
  <1>2. ConnInv'
    BY DEF NextHour, PruneStaleWindows, ConnInv, InTx, InBudgetTx
  <1>3. ContextInv'
    BY DEF NextHour, PruneStaleWindows, ContextInv, InTx
  <1>4. RowsWithinScope'
    BY DEF NextHour, PruneStaleWindows, RowsWithinScope
  <1>5. ChargeInv'
    <2>t. /\ window \in [Calls -> Windows] /\ hour \in Windows
          /\ Windows \subseteq Nat /\ Retention \in Nat
          /\ req \in [Calls -> Request] /\ \A d \in Calls : req[d].key \in Keys
      BY ConstantsAssumption DEF TypeOK, Windows, Request
    <2>1. CASE NextHour
      <3>1. ASSUME NEW c \in Calls, InBudgetTx(c)
            PROVE  window[c] <= hour + 1 /\ hour + 1 - Retention < window[c]
        <4>1. window[c] \in Nat /\ hour \in Nat /\ Retention \in Nat
          BY <2>t
        <4>2. window[c] <= hour
          BY <3>1 DEF ChargeInv
        <4>3. hour + 1 - window[c] < Retention
          BY <3>1, <2>1 DEF NextHour, InBudgetTx
        <4> QED
          BY <4>1, <4>2, <4>3
      <3>2. hour' = hour + 1 /\ UNCHANGED <<pc, req, rows, window, total, count>>
        BY <2>1 DEF NextHour
      <3>3. \A c \in Calls : pc[c] = "charge" => total[c] = UpsertTotal(c)
        BY DEF ChargeInv
      <3>4. \A c, d \in Calls :
              c # d /\ pc[c] = "charge" /\ pc[d] = "charge" =>
                <<req[c].key, window[c]>> # <<req[d].key, window[d]>>
        BY DEF ChargeInv
      <3>5. \A c \in Calls : (pc[c] = "charge" => total[c] = UpsertTotal(c))'
        BY <3>2, <3>3 DEF UpsertTotal
      <3>6. ASSUME NEW c \in Calls, InBudgetTx(c)'
            PROVE  (window[c] <= hour /\ ~Stale(window[c]))'
        <4>1. InBudgetTx(c)
          BY <3>2, <3>6 DEF InBudgetTx
        <4>2. window[c] <= hour + 1 /\ hour + 1 - Retention < window[c]
          BY <3>1, <4>1
        <4>3. window' = window /\ hour' = hour + 1
          BY <3>2
        <4>4. window'[c] <= hour' /\ ~(window'[c] <= hour' - Retention)
          <5>1. hour \in Nat /\ window[c] \in Nat /\ Retention \in Nat
            BY <2>t
          <5> QED
            BY <5>1, <4>2, <4>3
        <4> QED
          BY <4>4 DEF Stale
      <3> QED
        BY <3>2, <3>4, <3>5, <3>6 DEF ChargeInv
    <2>2. CASE PruneStaleWindows
      <3>1. UNCHANGED <<pc, req, rows, window, total, hour>>
        BY <2>2 DEF PruneStaleWindows
      <3>2. \A c \in Calls : InBudgetTx(c) => window[c] <= hour /\ ~Stale(window[c])
        BY DEF ChargeInv
      <3>3. ASSUME NEW c \in Calls, pc[c] = "charge"
            PROVE  count'[req[c].key][window[c]] = count[req[c].key][window[c]]
        <4>1. req[c].key \in Keys /\ window[c] \in Windows
          BY <2>t
        <4>2. ~Stale(window[c])
          BY <3>2, <3>3 DEF InBudgetTx
        <4>3. count' = [k \in Keys |-> [w \in Windows |-> IF Stale(w) THEN 0 ELSE count[k][w]]]
          BY <2>2 DEF PruneStaleWindows
        <4> QED
          BY <4>1, <4>2, <4>3, Zenon
      <3>4. \A c \in Calls : pc[c] = "charge" => total[c] = UpsertTotal(c)
        BY DEF ChargeInv
      <3>5. \A c \in Calls : (pc[c] = "charge" => total[c] = UpsertTotal(c))'
        BY <3>1, <3>3, <3>4 DEF UpsertTotal
      <3>6. \A c, d \in Calls :
              c # d /\ pc[c] = "charge" /\ pc[d] = "charge" =>
                <<req[c].key, window[c]>> # <<req[d].key, window[d]>>
        BY DEF ChargeInv
      <3> QED
        BY <3>1, <3>2, <3>5, <3>6 DEF ChargeInv, InBudgetTx, Stale
    <2> QED
      BY <2>1, <2>2
  <1>6. AuditInv'
    BY DEF NextHour, PruneStaleWindows, AuditInv, Entries
  <1> QED
    BY <1>1, <1>2, <1>3, <1>4, <1>5, <1>6 DEF Inv

LEMMA InvContent ==
    ASSUME Inv, NEW r \in Chunks, RemoveChunk(r) \/ RekeyChunk(r)
    PROVE  Inv'
  <1> USE DEF Inv, RemoveChunk, RekeyChunk, callVars, gucVars, auditVars
  <1>1. TypeOK'
    BY EnvironmentType DEF Environment
  <1>2. ConnInv' /\ ContextInv'
    BY DEF ConnInv, ContextInv, InTx, InBudgetTx
  <1>3. RowsWithinScope' /\ ChargeInv'
    BY DEF RowsWithinScope, ChargeInv, InBudgetTx, UpsertTotal, Stale
  <1>4. AuditInv'
    BY DEF AuditInv, Entries
  <1> QED
    BY <1>1, <1>2, <1>3, <1>4 DEF Inv

\* Every step of the gateway or of its environment preserves Inv.
LEMMA InvNext ==
    ASSUME Inv, [Next]_vars
    PROVE  Inv'
  <1>1. ASSUME NEW c \in Calls, Step(c) PROVE Inv'
    BY <1>1, StepType, ConnStep, ContextStep, ScopeStep, ChargeStep, AuditStep DEF Inv
  <1>2. CASE Environment
    BY <1>2, InvCrash, InvClock, InvContent DEF Environment
  <1>3. CASE UNCHANGED vars
    BY <1>3 DEF Inv, TypeOK, ConnInv, ContextInv, RowsWithinScope, ChargeInv, AuditInv,
                InTx, InBudgetTx, UpsertTotal, Stale, Entries, vars, callVars, gucVars,
                storeVars, auditVars
  <1> QED
    BY <1>1, <1>2, <1>3, InvArrive DEF Next

\* The inductive invariant holds in every reachable state.
THEOREM Invariance == Spec => []Inv
  BY InvInit, InvNext, PTL DEF Spec

-----------------------------------------------------------------------------
(* What it implies.                                                        *)

\* No pooled connection ever carries the RLS context of a call other than the
\* one whose transaction runs on it.
THEOREM ContextIsolation == Spec => []ContextBelongsToHolder
  <1>1. Inv => ContextBelongsToHolder
    BY DEF Inv, ContextInv, ContextBelongsToHolder, Setting
  <1> QED
    BY <1>1, Invariance, PTL

\* No call ever selects a row outside its key's classification and workspaces.
THEOREM ScopeEnforced == Spec => []RowsWithinScope
  BY Invariance, PTL DEF Inv

\* Connections are exclusive and no ended call keeps one.
THEOREM NoConnectionLeak == Spec => []ConnectionsReturned
  <1>1. Inv => ConnectionsReturned
    <2>n. NoConn \notin Conns
      BY ConstantsAssumption
    <2>1. Inv => \A c \in Calls : Ended(c) => conn[c] = NoConn /\ inner[c] = NoConn
      BY DEF Inv, ConnInv, Ended, InTx, InBudgetTx
    <2>2. Inv => \A c, d \in Calls : c # d =>
            \A x \in Conns : ~(x \in {conn[c], inner[c]} /\ x \in {conn[d], inner[d]})
      BY <2>n DEF Inv, ConnInv
    <2>3. Inv => \A c \in Calls : conn[c] # NoConn => conn[c] # inner[c]
      BY DEF Inv, ConnInv
    <2> QED
      BY <2>1, <2>2, <2>3 DEF ConnectionsReturned
  <1> QED
    BY <1>1, Invariance, PTL

\* A delivered result is in both audit sinks.
THEOREM DeliveryAudited == Spec => []AuditedBeforeDelivered
  <1>1. Inv => AuditedBeforeDelivered
    BY DEF Inv, AuditInv, AuditedBeforeDelivered, Delivered
  <1> QED
    BY <1>1, Invariance, PTL

-----------------------------------------------------------------------------
(* The two audit sinks.                                                    *)

\* What a transaction has saved, the file has already; only the denial of the
\* allowlist is in the table first, and only until its thread goes on.
SinksInv ==
    /\ \A c \in Calls : Entries(c, pending[c]) \subseteq auditFile
    /\ \A e \in auditDb :
        \/ e \in auditFile
        \/ pc[e.call] = "denyFile" /\ e.event = "tool_denied"
        \/ pc[e.call] = "crashed"

LEMMA SinksStep ==
    ASSUME TypeOK, SinksInv, NEW c \in Calls, Step(c)
    PROVE  SinksInv'
  <1> USE DEF SinksInv, Goto, Entries, Log, callVars, gucVars, storeVars, auditVars
  <1>t. /\ pc \in [Calls -> PCs]
        /\ pending \in [Calls -> SUBSET AuditEvents]
        /\ auditDb \subseteq [call : Calls, event : AuditEvents]
    BY DEF TypeOK
  <1>1. CASE EnforceAllowlist(c)
    BY <1>1, <1>t DEF EnforceAllowlist
  <1>2. CASE SaveDenial(c)
    BY <1>2, <1>t DEF SaveDenial
  <1>3. CASE LogDenial(c)
    BY <1>3, <1>t DEF LogDenial
  <1>4. CASE BeginTx(c)
    BY <1>4, <1>t DEF BeginTx
  <1>5. CASE PoolTimeout(c)
    BY <1>5, <1>t DEF PoolTimeout
  <1>6. CASE ListSources(c)
    BY <1>6, <1>t DEF ListSources, Return
  <1>7. CASE QueryDatabase(c)
    BY <1>7, <1>t DEF QueryDatabase, Return
  <1>8. CASE QueryDenied(c)
    BY <1>8, <1>t DEF QueryDenied, Throw
  <1>9. CASE ValidateQuery(c)
    BY <1>9, <1>t DEF ValidateQuery, Return, Throw
  <1>10. CASE Search(c)
    BY <1>10, <1>t DEF Search
  <1>11. CASE FetchChunks(c)
    BY <1>11, <1>t DEF FetchChunks
  <1>12. CASE FetchAborts(c)
    BY <1>12, <1>t DEF FetchAborts
  <1>13. CASE ToolFails(c)
    BY <1>13, <1>t DEF ToolFails, Throw
  <1>14. CASE BeginBudget(c)
    BY <1>14, <1>t DEF BeginBudget
  <1>15. CASE Upsert(c)
    BY <1>15, <1>t DEF Upsert
  <1>16. CASE CommitBudget(c)
    BY <1>16, <1>t DEF CommitBudget
  <1>17. CASE ExceedBudget(c)
    BY <1>17, <1>t DEF ExceedBudget, Return
  <1>18. CASE BudgetFails(c)
    BY <1>18, <1>t DEF BudgetFails, Throw
  <1>19. CASE AuditSearch(c)
    BY <1>19, <1>t DEF AuditSearch, Return
  <1>20. CASE CommitTx(c)
    BY <1>20, <1>t DEF CommitTx, Flushed, CanCommit
  <1>21. CASE CommitFails(c)
    BY <1>21, <1>t DEF CommitFails, Throw
  <1>22. CASE Rollback(c)
    BY <1>22, <1>t DEF Rollback
  <1>23. CASE AfterCompletion(c)
    BY <1>23, <1>t DEF AfterCompletion
  <1> QED
    BY <1>1, <1>2, <1>3, <1>4, <1>5, <1>6, <1>7, <1>8, <1>9, <1>10, <1>11, <1>12,
       <1>13, <1>14, <1>15, <1>16, <1>17, <1>18, <1>19, <1>20, <1>21, <1>22, <1>23 DEF Step

LEMMA SinksNext ==
    ASSUME TypeOK, SinksInv, [Next]_vars
    PROVE  SinksInv'
  <1> USE DEF SinksInv, Entries, callVars, storeVars, auditVars
  <1>t. /\ pc \in [Calls -> PCs]
        /\ auditDb \subseteq [call : Calls, event : AuditEvents]
    BY DEF TypeOK
  <1>1. ASSUME NEW c \in Calls, Step(c) PROVE SinksInv'
    BY <1>1, SinksStep
  <1>2. ASSUME NEW c \in Calls, Arrive(c) PROVE SinksInv'
    BY <1>2, <1>t DEF Arrive, Goto
  <1>3. CASE Crash
    BY <1>3, <1>t DEF Crash, Ended
  <1>4. CASE NextHour \/ PruneStaleWindows \/ \E r \in Chunks : RemoveChunk(r) \/ RekeyChunk(r)
    BY <1>4 DEF NextHour, PruneStaleWindows, RemoveChunk, RekeyChunk
  <1>5. CASE UNCHANGED vars
    BY <1>5 DEF vars
  <1> QED
    BY <1>1, <1>2, <1>3, <1>4, <1>5 DEF Next, Environment

\* AuditService: whatever audit_logs holds of a call that ended without a
\* crash, the file holds too.
THEOREM DbNeverAhead == Spec => []DbEventsInFile
  <1>1. Init => SinksInv
    BY DEF Init, SinksInv, Entries
  <1>2. TypeOK /\ SinksInv /\ [Next]_vars => SinksInv'
    BY SinksNext
  <1>3. SinksInv => DbEventsInFile
    BY DEF SinksInv, DbEventsInFile
  <1> QED
    BY <1>1, <1>2, <1>3, TypeCorrect, PTL DEF Spec

-----------------------------------------------------------------------------
(* Empty fragments.                                                        *)

BeforeSearch == {"idle", "called", "deny", "denyFile", "begin", "tool", "search"}

\* A row is selected by the SELECT only.  From the fetch on, a transaction that
\* PostgreSQL has not aborted has the text of every row it can still read, and
\* an aborted one cannot come to a good end.
FetchInv ==
    /\ \A c \in Calls : pc[c] \in BeforeSearch => rows[c] = {} /\ c \notin aborted
    /\ \A c \in Calls : pc[c] = "fetch" => c \notin aborted
    /\ \A c \in Calls : pc[c] = "rollback" => outcome[c] # "ok"
    /\ \A c \in aborted : pc[c] \in {"after", "done"} => outcome[c] # "ok"
    /\ \A c \in Calls \ aborted :
        req[c].tool \in SearchTools /\ pc[c] \notin {"fetch", "crashed"} =>
            \A r \in rows[c] \ text[c] : content[r] # "readable"

\* A readable row that a call selected is one it may still read: the context
\* on its connection is its own.
LEMMA SelectedReadable ==
    ASSUME Inv, NEW c \in Calls, pc[c] = "fetch", NEW r \in rows[c], content[r] = "readable"
    PROVE  r \in Readable(conn[c])
  <1>t. /\ req[c].key \in Keys /\ r \in Chunks /\ Role[req[c].key] \in Roles
        /\ conn[c] \in Conns
    BY ConstantsAssumption DEF Inv, TypeOK, Request, ConnInv, InTx
  <1>1. Setting(conn[c]) = CallerContext(req[c].key)
    BY <1>t, CallerContextType DEF Inv, ContextInv, InTx, Setting
  <1>2. RowVisible(CallerContext(req[c].key), r)
    BY <1>t DEF Inv, RowsWithinScope, RowVisible, CallerContext
  <1> QED
    BY <1>t, <1>1, <1>2 DEF Readable

LEMMA FetchStep ==
    ASSUME Inv, FetchInv, NEW c \in Calls, Step(c)
    PROVE  FetchInv'
  <1> USE DEF FetchInv, BeforeSearch, Goto, callVars, gucVars, storeVars
  <1>t. /\ pc \in [Calls -> PCs]
        /\ rows \in [Calls -> SUBSET Chunks] /\ text \in [Calls -> SUBSET Chunks]
        /\ outcome \in [Calls -> {"none", "ok", "denied", "error"}]
        /\ aborted \subseteq Calls
    BY DEF Inv, TypeOK
  <1>1. CASE EnforceAllowlist(c)
    BY <1>1, <1>t DEF EnforceAllowlist
  <1>2. CASE SaveDenial(c)
    BY <1>2, <1>t DEF SaveDenial
  <1>3. CASE LogDenial(c)
    BY <1>3, <1>t DEF LogDenial
  <1>4. CASE BeginTx(c)
    BY <1>4, <1>t DEF BeginTx
  <1>5. CASE PoolTimeout(c)
    BY <1>5, <1>t DEF PoolTimeout
  <1>6. CASE ListSources(c)
    BY <1>6, <1>t DEF ListSources, Return
  <1>7. CASE QueryDatabase(c)
    BY <1>7, <1>t DEF QueryDatabase, Return, SearchTools
  <1>8. CASE QueryDenied(c)
    BY <1>8, <1>t DEF QueryDenied, Throw
  <1>9. CASE ValidateQuery(c)
    BY <1>9, <1>t DEF ValidateQuery, Return, Throw
  <1>10. CASE Search(c)
    BY <1>10, <1>t DEF Search
  <1>11. CASE FetchChunks(c)
    BY <1>11, <1>t, SelectedReadable DEF FetchChunks
  <1>12. CASE FetchAborts(c)
    BY <1>12, <1>t DEF FetchAborts
  <1>13. CASE ToolFails(c)
    BY <1>13, <1>t DEF ToolFails, Throw
  <1>14. CASE BeginBudget(c)
    BY <1>14, <1>t DEF BeginBudget
  <1>15. CASE Upsert(c)
    BY <1>15, <1>t DEF Upsert
  <1>16. CASE CommitBudget(c)
    BY <1>16, <1>t DEF CommitBudget
  <1>17. CASE ExceedBudget(c)
    BY <1>17, <1>t DEF ExceedBudget, Return
  <1>18. CASE BudgetFails(c)
    BY <1>18, <1>t DEF BudgetFails, Throw
  <1>19. CASE AuditSearch(c)
    BY <1>19, <1>t DEF AuditSearch, Return
  <1>20. CASE CommitTx(c)
    BY <1>20, <1>t DEF CommitTx, Flushed, CanCommit
  <1>21. CASE CommitFails(c)
    BY <1>21, <1>t DEF CommitFails, Throw
  <1>22. CASE Rollback(c)
    BY <1>22, <1>t DEF Rollback
  <1>23. CASE AfterCompletion(c)
    BY <1>23, <1>t DEF AfterCompletion
  <1> QED
    BY <1>1, <1>2, <1>3, <1>4, <1>5, <1>6, <1>7, <1>8, <1>9, <1>10, <1>11, <1>12,
       <1>13, <1>14, <1>15, <1>16, <1>17, <1>18, <1>19, <1>20, <1>21, <1>22, <1>23 DEF Step

LEMMA FetchNext ==
    ASSUME Inv, FetchInv, [Next]_vars
    PROVE  FetchInv'
  <1> USE DEF FetchInv, BeforeSearch, callVars, storeVars
  <1>t. /\ pc \in [Calls -> PCs]
        /\ rows \in [Calls -> SUBSET Chunks] /\ aborted \subseteq Calls
        /\ content \in [Chunks -> {"readable", "sealed", "absent"}]
    BY DEF Inv, TypeOK
  <1>1. ASSUME NEW c \in Calls, Step(c) PROVE FetchInv'
    BY <1>1, FetchStep
  <1>2. ASSUME NEW c \in Calls, Arrive(c) PROVE FetchInv'
    BY <1>2, <1>t DEF Arrive, Goto
  <1>3. CASE Crash
    <2>1. /\ \A d \in Calls : pc'[d] \in {pc[d], "crashed"}
          /\ UNCHANGED <<req, aborted, rows, text, outcome, content>>
      BY <1>3, <1>t DEF Crash
    <2> QED
      BY <2>1, <1>t
  <1>4. CASE NextHour \/ PruneStaleWindows
    BY <1>4 DEF NextHour, PruneStaleWindows
  <1>5. ASSUME NEW r \in Chunks, RemoveChunk(r) \/ RekeyChunk(r) PROVE FetchInv'
    BY <1>5, <1>t DEF RemoveChunk, RekeyChunk
  <1>6. CASE UNCHANGED vars
    BY <1>6 DEF vars
  <1> QED
    BY <1>1, <1>2, <1>3, <1>4, <1>5, <1>6 DEF Next, Environment

\* PostgresConnector.fetchChunk: a client that gets a result gets an empty
\* fragment only for a row that is gone or re-encrypted, although the code
\* swallows every SQL error of the fetch.
THEOREM NoFalseBlank == Spec => []BlankMeansGone
  <1>1. Init => FetchInv
    BY DEF Init, FetchInv
  <1>2. Inv /\ FetchInv /\ [Next]_vars => FetchInv'
    BY FetchNext
  <1>3. FetchInv => BlankMeansGone
    BY DEF FetchInv, BlankMeansGone, Delivered
  <1> QED
    BY <1>1, <1>2, <1>3, Invariance, PTL DEF Spec

-----------------------------------------------------------------------------
(* The tool calls implement the abstract chunk budget.                     *)

LEMMA BudgetStep ==
    ASSUME Inv, [Next]_vars
    PROVE  [Budget!Next]_(Budget!vars)
  <1> USE DEF Budget!vars
  <1>t. /\ count \in [Keys -> [Windows -> Nat]] /\ hour \in Windows
        /\ Windows \subseteq Nat /\ Retention \in Nat /\ HourlyCap \in Nat
        /\ Windows = Budget!Windows
    BY ConstantsAssumption DEF Inv, TypeOK, Windows, Budget!Windows
  <1>1. ASSUME NEW c \in Calls, CommitBudget(c)
        PROVE  Budget!Next
    <2> DEFINE k == req[c].key
               w == window[c]
               n == Cardinality(rows[c])
    <2>1. k \in Keys /\ w \in Windows /\ n \in Nat
      BY RowsFinite DEF Inv, TypeOK, Request
    <2>2. total[c] = count[k][w] + n /\ total[c] <= HourlyCap
      BY <1>1, <1>t DEF CommitBudget, OverCap, Inv, ChargeInv, UpsertTotal, TypeOK
    <2>3. n \in 0..HourlyCap
      BY <2>1, <2>2, <1>t
    <2>4. Budget!Kept(w)
      <3>1. w <= hour /\ ~(w <= hour - Retention)
        BY <1>1 DEF CommitBudget, Inv, ChargeInv, InBudgetTx, Stale
      <3>2. w \in Nat /\ hour \in Nat /\ Retention \in Nat
        BY <2>1, <1>t
      <3> HIDE DEF w
      <3> QED
        BY <3>1, <3>2 DEF Budget!Kept
    <2>5. Budget!Charge(k, w, n)
      BY <1>1, <2>2, <2>4 DEF CommitBudget, Budget!Charge
    <2> QED
      BY <2>1, <2>3, <2>5, <1>t DEF Budget!Next
  <1>2. CASE PruneStaleWindows
    <2>1. Budget!Prune
      BY <1>2, <1>t DEF PruneStaleWindows, Stale, Budget!Prune
    <2> QED
      BY <2>1 DEF Budget!Next
  <1>3. CASE NextHour
    BY <1>3 DEF NextHour, Budget!Next, Budget!NextHour
  <1>4. CASE Crash \/ UNCHANGED vars \/ \E c \in Calls : Arrive(c)
    BY <1>4 DEF Crash, Arrive, vars, storeVars
  <1>5. ASSUME NEW r \in Chunks, RemoveChunk(r) \/ RekeyChunk(r)
        PROVE  UNCHANGED <<count, hour>>
    BY <1>5 DEF RemoveChunk, RekeyChunk
  <1>6. ASSUME NEW c \in Calls, Step(c), ~CommitBudget(c)
        PROVE  UNCHANGED <<count, hour>>
    BY <1>6 DEF Step, EnforceAllowlist, SaveDenial, LogDenial, BeginTx, PoolTimeout,
        ListSources, QueryDatabase, QueryDenied, ValidateQuery, Search, FetchChunks,
        FetchAborts, ToolFails, BeginBudget, Upsert, ExceedBudget, BudgetFails,
        AuditSearch, CommitTx, CommitFails, Rollback, AfterCompletion, storeVars
  <1> QED
    BY <1>1, <1>2, <1>3, <1>4, <1>5, <1>6 DEF Next, Environment

\* Whatever the interleaving of budget transactions, the committed counters
\* behave as ChunkBudget says.
THEOREM BudgetRefinement == Spec => BudgetSpec
  <1>1. Init => Budget!Init
    BY DEF Init, Budget!Init, Windows, Budget!Windows
  <1>2. Inv /\ [Next]_vars => [Budget!Next]_(Budget!vars)
    BY BudgetStep
  <1> QED
    BY <1>1, <1>2, Invariance, PTL DEF Spec, BudgetSpec, Budget!Spec

\* ChunkBudgetEnforcer: the committed counter of a key and an hour never
\* exceeds the cap, for any number of overlapping searches.
THEOREM BudgetCapped == Spec => []Budget!CountWithinCap
  <1> USE DEF Budget!CountWithinCap
  <1>t. /\ Windows = Budget!Windows /\ HourlyCap \in Nat
    BY ConstantsAssumption DEF Windows, Budget!Windows
  <1>1. Init => Budget!CountWithinCap
    BY <1>t DEF Init
  <1>2. ASSUME Inv, Inv', Budget!CountWithinCap, [Next]_vars
        PROVE  Budget!CountWithinCap'
    <2>1. [Budget!Next]_(Budget!vars)
      BY <1>2, BudgetStep
    <2>2. count \in [Keys -> [Windows -> Nat]]
      BY <1>2 DEF Inv, TypeOK
    <2>3. ASSUME NEW k \in Keys, NEW w \in Windows, NEW n \in 0..HourlyCap,
                 Budget!Charge(k, w, n)
          PROVE  Budget!CountWithinCap'
      BY <1>2, <1>t, <2>2, <2>3 DEF Budget!Charge
    <2>4. CASE Budget!Prune
      BY <1>2, <1>t, <2>4 DEF Budget!Prune
    <2>5. CASE Budget!NextHour \/ UNCHANGED Budget!vars
      BY <1>2, <2>5 DEF Budget!NextHour, Budget!vars
    <2> QED
      BY <1>t, <2>1, <2>3, <2>4, <2>5 DEF Budget!Next
  <1> QED
    BY <1>1, <1>2, Invariance, PTL DEF Spec

-----------------------------------------------------------------------------
(* What the search tools deliver, against the counter and the cap.         *)

\* A search whose budget transaction has committed, and that may still deliver
\* or has delivered.
Charged(c) == req[c].tool \in SearchTools /\ (pc[c] = "audit" \/ outcome[c] = "ok")

\* The chunks such calls hold against key k in window w.
ChargedChunks(k, w) ==
    {p \in Calls \X Chunks :
        /\ Charged(p[1]) /\ req[p[1]].key = k /\ window[p[1]] = w
        /\ p[2] \in rows[p[1]]}

\* All of them fit under the cap, and as long as the pruner leaves the window
\* alone all of them are in its counter.
ChargedInv ==
    \A k \in Keys, w \in Windows :
        /\ Cardinality(ChargedChunks(k, w)) <= HourlyCap
        /\ ~Stale(w) => Cardinality(ChargedChunks(k, w)) <= count[k][w]

LEMMA PairsFinite ==
    ASSUME NEW S, S \subseteq Calls \X Chunks
    PROVE  IsFiniteSet(S) /\ Cardinality(S) \in Nat
  <1>1. IsFiniteSet(Calls \X Chunks)
    BY ConstantsAssumption, FS_Product
  <1> QED
    BY <1>1, FS_Subset, FS_CardinalityType

LEMMA FewerPairs ==
    ASSUME NEW S, NEW T, T \subseteq Calls \X Chunks, S \subseteq T
    PROVE  Cardinality(S) <= Cardinality(T)
  BY PairsFinite, FS_Subset

\* One more call adds at most as many pairs as it has rows.
LEMMA PairsJoined ==
    ASSUME NEW T, T \subseteq Calls \X Chunks, NEW c \in Calls,
           NEW R, R \subseteq Chunks, NEW S, S \subseteq T \cup ({c} \X R)
    PROVE  Cardinality(S) <= Cardinality(T) + Cardinality(R)
  <1>1. {c} \X R \subseteq Calls \X Chunks
    OBVIOUS
  <1>2. IsFiniteSet(R) /\ Cardinality(R) \in Nat
    BY ConstantsAssumption, FS_Subset, FS_CardinalityType
  <1>3. Cardinality({c}) = 1 /\ IsFiniteSet({c})
    BY FS_Singleton
  <1>4. Cardinality({c} \X R) = Cardinality(R)
    <2>1. Cardinality({c} \X R) = Cardinality({c}) * Cardinality(R)
      BY <1>2, <1>3, FS_Product
    <2> QED
      BY <1>2, <1>3, <2>1
  <1>5. Cardinality(T \cup ({c} \X R))
          = Cardinality(T) + Cardinality({c} \X R) - Cardinality(T \cap ({c} \X R))
    BY <1>1, PairsFinite, FS_Union
  <1>6. Cardinality(S) <= Cardinality(T \cup ({c} \X R))
    BY <1>1, FewerPairs
  <1>7. /\ Cardinality(S) \in Nat /\ Cardinality(T) \in Nat
        /\ Cardinality(T \cap ({c} \X R)) \in Nat
    BY <1>1, PairsFinite
  <1> QED
    BY <1>2, <1>4, <1>5, <1>6, <1>7

\* Only CommitBudget charges, and a charged call keeps its rows and its window.
LEMMA NoOtherCharge ==
    ASSUME Inv, NEW c \in Calls, Step(c), ~CommitBudget(c), NEW d \in Calls, Charged(d)'
    PROVE  /\ Charged(d)
           /\ req'[d] = req[d] /\ window'[d] = window[d] /\ rows'[d] = rows[d]
  <1> USE DEF Charged, Goto, callVars, SearchTools
  <1>t. /\ pc \in [Calls -> PCs]
        /\ rows \in [Calls -> SUBSET Chunks] /\ window \in [Calls -> Windows]
        /\ outcome \in [Calls -> {"none", "ok", "denied", "error"}]
    BY DEF Inv, TypeOK
  <1>a. \A e \in Calls : outcome[e] = "ok" => pc[e] \in {"commit", "after", "done", "crashed"}
    BY DEF Inv, AuditInv
  <1>1. CASE EnforceAllowlist(c)
    BY <1>1, <1>t, <1>a DEF EnforceAllowlist
  <1>2. CASE SaveDenial(c)
    BY <1>2, <1>t, <1>a DEF SaveDenial
  <1>3. CASE LogDenial(c)
    BY <1>3, <1>t, <1>a DEF LogDenial
  <1>4. CASE BeginTx(c)
    BY <1>4, <1>t, <1>a DEF BeginTx
  <1>5. CASE PoolTimeout(c)
    BY <1>5, <1>t, <1>a DEF PoolTimeout
  <1>6. CASE ListSources(c)
    BY <1>6, <1>t, <1>a DEF ListSources, Return
  <1>7. CASE QueryDatabase(c)
    BY <1>7, <1>t, <1>a DEF QueryDatabase, Return
  <1>8. CASE QueryDenied(c)
    BY <1>8, <1>t, <1>a DEF QueryDenied, Throw
  <1>9. CASE ValidateQuery(c)
    BY <1>9, <1>t, <1>a DEF ValidateQuery, Return, Throw
  <1>10. CASE Search(c)
    BY <1>10, <1>t, <1>a DEF Search
  <1>11. CASE FetchChunks(c)
    BY <1>11, <1>t, <1>a DEF FetchChunks
  <1>12. CASE FetchAborts(c)
    BY <1>12, <1>t, <1>a DEF FetchAborts
  <1>13. CASE ToolFails(c)
    BY <1>13, <1>t, <1>a DEF ToolFails, Throw
  <1>14. CASE BeginBudget(c)
    BY <1>14, <1>t, <1>a DEF BeginBudget
  <1>15. CASE Upsert(c)
    BY <1>15, <1>t, <1>a DEF Upsert
  <1>17. CASE ExceedBudget(c)
    BY <1>17, <1>t, <1>a DEF ExceedBudget, Return
  <1>18. CASE BudgetFails(c)
    BY <1>18, <1>t, <1>a DEF BudgetFails, Throw
  <1>19. CASE AuditSearch(c)
    BY <1>19, <1>t, <1>a DEF AuditSearch, Return
  <1>20. CASE CommitTx(c)
    BY <1>20, <1>t, <1>a DEF CommitTx
  <1>21. CASE CommitFails(c)
    BY <1>21, <1>t, <1>a DEF CommitFails, Throw
  <1>22. CASE Rollback(c)
    BY <1>22, <1>t, <1>a DEF Rollback
  <1>23. CASE AfterCompletion(c)
    BY <1>23, <1>t, <1>a DEF AfterCompletion
  <1> QED
    BY <1>1, <1>2, <1>3, <1>4, <1>5, <1>6, <1>7, <1>8, <1>9, <1>10, <1>11, <1>12,
       <1>13, <1>14, <1>15, <1>17, <1>18, <1>19, <1>20, <1>21, <1>22, <1>23 DEF Step

\* Nor does the environment charge anybody.
LEMMA NoChargeElsewhere ==
    ASSUME Inv, Environment \/ (\E c \in Calls : Arrive(c)) \/ UNCHANGED vars,
           NEW d \in Calls, Charged(d)'
    PROVE  /\ Charged(d)
           /\ req'[d] = req[d] /\ window'[d] = window[d] /\ rows'[d] = rows[d]
  <1> USE DEF Charged, callVars
  <1>t. pc \in [Calls -> PCs]
    BY DEF Inv, TypeOK
  <1>1. CASE Crash
    BY <1>1, <1>t DEF Crash
  <1>2. CASE NextHour \/ PruneStaleWindows \/ \E r \in Chunks : RemoveChunk(r) \/ RekeyChunk(r)
    BY <1>2 DEF NextHour, PruneStaleWindows, RemoveChunk, RekeyChunk
  <1>3. ASSUME NEW c \in Calls, Arrive(c) PROVE Charged(d) /\ UNCHANGED <<req, window, rows>>
    BY <1>3, <1>t DEF Arrive, Goto
  <1>4. CASE UNCHANGED vars
    BY <1>4 DEF vars
  <1> QED
    BY <1>1, <1>2, <1>3, <1>4 DEF Environment

\* Hence such steps add no chunk anywhere.
LEMMA NoMoreCharged ==
    ASSUME Inv, NEW k, NEW w,
           \A d \in Calls : Charged(d)' =>
                /\ Charged(d)
                /\ req'[d] = req[d] /\ window'[d] = window[d] /\ rows'[d] = rows[d]
    PROVE  /\ Cardinality(ChargedChunks(k, w)') <= Cardinality(ChargedChunks(k, w))
           /\ Cardinality(ChargedChunks(k, w)') \in Nat
           /\ Cardinality(ChargedChunks(k, w)) \in Nat
  <1>1. ChargedChunks(k, w)' \subseteq ChargedChunks(k, w)
    BY DEF ChargedChunks
  <1>2. ChargedChunks(k, w) \subseteq Calls \X Chunks
    BY DEF ChargedChunks
  <1> QED
    BY <1>1, <1>2, FewerPairs, PairsFinite

\* The commit of a budget transaction adds the call's rows to its window and
\* the same number to the counter, which the cap bounds.
LEMMA ChargeCounted ==
    ASSUME Inv, ChargedInv, NEW c \in Calls, CommitBudget(c)
    PROVE  ChargedInv'
  <1>k. req[c].key \in Keys /\ window[c] \in Windows /\ rows[c] \subseteq Chunks
    BY DEF Inv, TypeOK, Request
  <1>n. Cardinality(rows[c]) \in Nat
    BY <1>k, RowsFinite
  <1>t. /\ count \in [Keys -> [Windows -> Nat]] /\ hour \in Nat /\ Windows \subseteq Nat
        /\ Retention \in Nat /\ HourlyCap \in Nat /\ pc \in [Calls -> PCs]
        /\ total[c] \in Nat
    BY ConstantsAssumption DEF Inv, TypeOK, Windows
  <1>u. UNCHANGED <<req, rows, window, outcome, hour>>
    BY DEF CommitBudget
  <1>p. pc' = [pc EXCEPT ![c] = "audit"]
    BY DEF CommitBudget, Goto
  <1>s. \A w : Stale(w)' <=> Stale(w)
    BY <1>u DEF Stale
  <1> SUFFICES ASSUME NEW k \in Keys, NEW w \in Windows
               PROVE  /\ Cardinality(ChargedChunks(k, w)') <= HourlyCap
                      /\ ~Stale(w) => Cardinality(ChargedChunks(k, w)') <= count'[k][w]
    BY <1>s DEF ChargedInv
  <1>o. /\ ChargedChunks(k, w) \subseteq Calls \X Chunks
        /\ Cardinality(ChargedChunks(k, w)) \in Nat
    BY PairsFinite DEF ChargedChunks
  <1>b. /\ Cardinality(ChargedChunks(k, w)) <= HourlyCap
        /\ ~Stale(w) => Cardinality(ChargedChunks(k, w)) <= count[k][w]
    BY DEF ChargedInv
  <1>1. CASE k = req[c].key /\ w = window[c]
    <2>1. ChargedChunks(k, w)' \subseteq ChargedChunks(k, w) \cup ({c} \X rows[c])
      BY <1>u, <1>p, <1>t DEF ChargedChunks, Charged
    <2>2. Cardinality(ChargedChunks(k, w)') <= Cardinality(ChargedChunks(k, w)) + Cardinality(rows[c])
      BY <1>k, <1>o, <2>1, PairsJoined
    <2>3. ~Stale(w)
      BY <1>1 DEF Inv, ChargeInv, InBudgetTx, CommitBudget
    <2>4. total[c] = count[k][w] + Cardinality(rows[c])
      BY <1>1 DEF Inv, ChargeInv, UpsertTotal, CommitBudget
    <2>5. total[c] <= HourlyCap
      BY <1>t DEF CommitBudget, OverCap
    <2>6. count'[k][w] = total[c]
      BY <1>1, <1>k, <1>t DEF CommitBudget
    <2>7. count[k][w] \in Nat
      BY <1>t
    <2>8. Cardinality(ChargedChunks(k, w)') \in Nat
      <3>1. ChargedChunks(k, w)' \subseteq Calls \X Chunks
        BY DEF ChargedChunks
      <3> QED
        BY <3>1, PairsFinite
    <2> QED
      BY <1>n, <1>t, <1>o, <1>b, <2>2, <2>3, <2>4, <2>5, <2>6, <2>7, <2>8
  <1>2. CASE ~(k = req[c].key /\ w = window[c])
    <2>1. ChargedChunks(k, w)' \subseteq ChargedChunks(k, w)
      BY <1>2, <1>u, <1>p, <1>t DEF ChargedChunks, Charged
    <2>2. Cardinality(ChargedChunks(k, w)') <= Cardinality(ChargedChunks(k, w))
      BY <1>o, <2>1, FewerPairs
    <2>3. count'[k][w] = count[k][w]
      BY <1>2, <1>k, <1>t DEF CommitBudget
    <2>4. Cardinality(ChargedChunks(k, w)') \in Nat
      BY <1>o, <2>1, PairsFinite
    <2> QED
      BY <1>t, <1>o, <1>b, <2>2, <2>3, <2>4
  <1> QED
    BY <1>1, <1>2

\* Every other step keeps the counters of the windows the pruner leaves alone.
LEMMA CountersKept ==
    ASSUME Inv, [Next]_vars, \A c \in Calls : ~CommitBudget(c),
           NEW k \in Keys, NEW w \in Windows, ~Stale(w)'
    PROVE  ~Stale(w) /\ count'[k][w] = count[k][w]
  <1>t. /\ hour \in Nat /\ w \in Nat /\ Retention \in Nat
        /\ count \in [Keys -> [Windows -> Nat]]
    BY ConstantsAssumption DEF Inv, TypeOK, Windows
  <1>1. CASE NextHour
    BY <1>1, <1>t DEF NextHour, Stale
  <1>2. CASE PruneStaleWindows
    BY <1>2, <1>t DEF PruneStaleWindows, Stale
  <1>3. CASE Crash \/ UNCHANGED vars \/ \E c \in Calls : Arrive(c)
    BY <1>3 DEF Crash, Arrive, vars, storeVars, Stale
  <1>4. ASSUME NEW r \in Chunks, RemoveChunk(r) \/ RekeyChunk(r)
        PROVE  ~Stale(w) /\ count'[k][w] = count[k][w]
    BY <1>4 DEF RemoveChunk, RekeyChunk, Stale
  <1>5. ASSUME NEW c \in Calls, Step(c)
        PROVE  ~Stale(w) /\ count'[k][w] = count[k][w]
    <2>1. UNCHANGED <<count, hour>>
      BY <1>5 DEF Step, EnforceAllowlist, SaveDenial, LogDenial, BeginTx, PoolTimeout,
        ListSources, QueryDatabase, QueryDenied, ValidateQuery, Search, FetchChunks,
        FetchAborts, ToolFails, BeginBudget, Upsert, ExceedBudget, BudgetFails,
        AuditSearch, CommitTx, CommitFails, Rollback, AfterCompletion, storeVars
    <2> QED
      BY <2>1 DEF Stale
  <1> QED
    BY <1>1, <1>2, <1>3, <1>4, <1>5 DEF Next, Environment

LEMMA ChargedNext ==
    ASSUME Inv, Inv', ChargedInv, [Next]_vars
    PROVE  ChargedInv'
  <1>1. ASSUME NEW c \in Calls, CommitBudget(c) PROVE ChargedInv'
    BY <1>1, ChargeCounted
  <1>2. CASE \A c \in Calls : ~CommitBudget(c)
    <2>1. \A d \in Calls : Charged(d)' =>
                /\ Charged(d)
                /\ req'[d] = req[d] /\ window'[d] = window[d] /\ rows'[d] = rows[d]
      <3> SUFFICES ASSUME NEW d \in Calls, Charged(d)'
                   PROVE  /\ Charged(d)
                          /\ req'[d] = req[d] /\ window'[d] = window[d] /\ rows'[d] = rows[d]
        OBVIOUS
      <3>1. CASE \E c \in Calls : Step(c)
        BY <1>2, <3>1, NoOtherCharge
      <3>2. CASE Environment \/ (\E c \in Calls : Arrive(c)) \/ UNCHANGED vars
        BY <3>2, NoChargeElsewhere
      <3> QED
        BY <3>1, <3>2 DEF Next
    <2> SUFFICES ASSUME NEW k \in Keys, NEW w \in Windows
                 PROVE  /\ Cardinality(ChargedChunks(k, w)') <= HourlyCap
                        /\ ~Stale(w)' => Cardinality(ChargedChunks(k, w)') <= count'[k][w]
      BY DEF ChargedInv
    <2>2. /\ Cardinality(ChargedChunks(k, w)') <= Cardinality(ChargedChunks(k, w))
          /\ Cardinality(ChargedChunks(k, w)') \in Nat
          /\ Cardinality(ChargedChunks(k, w)) \in Nat
      BY <2>1, NoMoreCharged
    <2>3. /\ Cardinality(ChargedChunks(k, w)) <= HourlyCap
          /\ ~Stale(w) => Cardinality(ChargedChunks(k, w)) <= count[k][w]
      BY DEF ChargedInv
    <2>4. HourlyCap \in Nat /\ count[k][w] \in Nat
      BY ConstantsAssumption DEF Inv, TypeOK
    <2>5. ~Stale(w)' => ~Stale(w) /\ count'[k][w] = count[k][w]
      BY <1>2, CountersKept
    <2> QED
      BY <2>2, <2>3, <2>4, <2>5
  <1> QED
    BY <1>1, <1>2

LEMMA ChargedInvariance == Spec => []ChargedInv
  <1>1. Init => ChargedInv
    <2> SUFFICES ASSUME Init, NEW k \in Keys, NEW w \in Windows
                 PROVE  /\ Cardinality(ChargedChunks(k, w)) <= HourlyCap
                        /\ Cardinality(ChargedChunks(k, w)) <= count[k][w]
      BY DEF ChargedInv
    <2>1. ChargedChunks(k, w) = {}
      BY DEF Init, ChargedChunks, Charged
    <2> QED
      BY <2>1, FS_EmptySet, ConstantsAssumption DEF Init
  <1>2. Inv /\ Inv' /\ ChargedInv /\ [Next]_vars => ChargedInv'
    BY ChargedNext
  <1> QED
    BY <1>1, <1>2, Invariance, PTL DEF Spec

\* What was delivered was charged.
LEMMA DeliveredIsCharged ==
    ASSUME Inv, NEW k \in Keys, NEW w \in Windows
    PROVE  /\ ChunksDelivered(k, w) <= Cardinality(ChargedChunks(k, w))
           /\ ChunksDelivered(k, w) \in Nat
           /\ Cardinality(ChargedChunks(k, w)) \in Nat
  <1>1. Deliveries(k, w) \subseteq ChargedChunks(k, w)
    BY DEF Deliveries, Delivered, ChargedChunks, Charged
  <1>2. ChargedChunks(k, w) \subseteq Calls \X Chunks
    BY DEF ChargedChunks
  <1> QED
    BY <1>1, <1>2, FewerPairs, PairsFinite DEF ChunksDelivered

\* ChunkBudgetEnforcer: in one hourly window the search tools never deliver
\* more chunks to a key than the cap, whatever calls overlap, fail or crash.
THEOREM DeliveriesCapped == Spec => []DeliveredWithinCap
  <1>1. Inv /\ ChargedInv => DeliveredWithinCap
    <2> SUFFICES ASSUME Inv, ChargedInv, NEW k \in Keys, NEW w \in Windows
                 PROVE  ChunksDelivered(k, w) <= HourlyCap
      BY DEF DeliveredWithinCap
    <2>1. Cardinality(ChargedChunks(k, w)) <= HourlyCap /\ HourlyCap \in Nat
      BY ConstantsAssumption DEF ChargedInv
    <2> QED
      BY <2>1, DeliveredIsCharged
  <1> QED
    BY <1>1, Invariance, ChargedInvariance, PTL

\* ChunkBudgetEnforcer: the counter of a window that is still kept holds every
\* chunk delivered in it; no concurrent charge and no rollback loses one.
THEOREM DeliveriesCharged == Spec => []EveryDeliveryCharged
  <1>1. Inv /\ ChargedInv => EveryDeliveryCharged
    <2> SUFFICES ASSUME Inv, ChargedInv, NEW k \in Keys, NEW w \in Windows, ~Stale(w)
                 PROVE  ChunksDelivered(k, w) <= count[k][w]
      BY DEF EveryDeliveryCharged
    <2>1. Cardinality(ChargedChunks(k, w)) <= count[k][w] /\ count[k][w] \in Nat
      BY DEF ChargedInv, Inv, TypeOK
    <2> QED
      BY <2>1, DeliveredIsCharged
  <1> QED
    BY <1>1, Invariance, ChargedInvariance, PTL
=============================================================================
