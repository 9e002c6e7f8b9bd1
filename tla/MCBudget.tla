------------------------------ MODULE MCBudget ------------------------------
(***************************************************************************)
(* Two searches with one key.  With four connections both budget           *)
(* transactions can be open at once (MCBudget.cfg); with two, each call    *)
(* may hold one connection and wait for a second (MCPool.cfg).             *)
(***************************************************************************)
EXTENDS ToolCall, TLC

CONSTANTS reader, r1, w1

\* Calls and connections are interchangeable.
Symmetry == Permutations(Calls) \cup Permutations(Conns)

MCRole == [k \in {reader} |-> "READ_ONLY"]
MCAllowedTools == [k \in {reader} |-> NoAllowlist]
MCGrants == [k \in {reader} |-> {w1}]
MCClassification == [r \in {r1} |-> "PUBLIC"]
MCWorkspaceOf == [r \in {r1} |-> w1]

MCRequests == {
    [key |-> reader, tool |-> "search_documents", query |-> "plain",
     limit |-> 5, table |-> "unlisted", filters |-> {}]}
=============================================================================
