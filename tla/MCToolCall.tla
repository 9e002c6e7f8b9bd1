----------------------------- MODULE MCToolCall -----------------------------
(***************************************************************************)
(* A small gateway: two connections, a READ_ONLY key and an ADMIN key with *)
(* an allowlist, a chunk for the reader, and two CONFIDENTIAL ones: the    *)
(* classification alone keeps secret from the reader, and the workspace    *)
(* alone keeps it from the ADMIN key.                                      *)
(***************************************************************************)
EXTENDS ToolCall, TLC

CONSTANTS reader, admin, pub, conf, secret, w1, w2

MCRole == [k \in {reader, admin} |-> IF k = admin THEN "ADMIN" ELSE "READ_ONLY"]
MCAllowedTools == [k \in {reader, admin} |->
    IF k = admin THEN {"query_database"} ELSE NoAllowlist]
MCGrants == [k \in {reader, admin} |-> IF k = admin THEN {w2} ELSE {w1}]
MCClassification == [r \in {pub, conf, secret} |->
    IF r = pub THEN "PUBLIC" ELSE "CONFIDENTIAL"]
MCWorkspaceOf == [r \in {pub, conf, secret} |-> IF r = conf THEN w2 ELSE w1]

\* Calls and connections are interchangeable.
Symmetry == Permutations(Calls) \cup Permutations(Conns)

Call(key, tool, query, limit, table, filters) ==
    [key |-> key, tool |-> tool, query |-> query, limit |-> limit,
     table |-> table, filters |-> filters]

MCRequests == {
    Call(reader, "search_documents", "plain", 5, "unlisted", {}),
    Call(reader, "semantic_search_documents", "stripFlag", 5, "unlisted", {}),
    Call(reader, "search_documents", "reject", 5, "unlisted", {}),
    Call(reader, "search_documents", "blank", 5, "unlisted", {}),
    Call(reader, "query_database", "plain", 0, "document_chunks", {"id"}),
    Call(reader, "query_database", "plain", 5, "employees", {"salary"}),
    Call(reader, "list_sources", "plain", 5, "unlisted", {}),
    Call(admin, "query_database", "plain", 5, "employees", {"salary"}),
    Call(admin, "query_database", "plain", 5, "document_chunks", {}),
    Call(admin, "list_sources", "plain", 5, "unlisted", {})}
=============================================================================
