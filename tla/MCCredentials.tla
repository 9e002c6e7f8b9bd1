---------------------------- MODULE MCCredentials ----------------------------
(***************************************************************************)
(* One key and three requests: enough for a code, a token and its use, or  *)
(* for a loader and two requests that share its list.                      *)
(***************************************************************************)
EXTENDS Credentials, TLC

MCExpiries == {2, None}

NewRow(role, expiresAt) ==
    [revoked |-> FALSE, expiresAt |-> expiresAt, status |-> "ACTIVE", role |-> role]

MCInserted == {NewRow("ADMIN", None), NewRow("READ_ONLY", 2)}

\* Requests and codes are interchangeable.
Symmetry == Permutations(Threads) \cup Permutations(Codes)
=============================================================================
