-------------------------------- MODULE Vault --------------------------------
(***************************************************************************)
(* The PII vault: concurrent tokenize calls against pii_token_map and      *)
(* pii_token_counter.  A call looks the value up and, if it has no token,  *)
(* runs one statement that bumps the counter of its workspace and kind,    *)
(* inserts the token unless the value has one by now, and selects the      *)
(* value's token.  The statement sees the tables as of its start, except   *)
(* that the counter's row lock makes it wait for the one before it.        *)
(*                                                                         *)
(* A raw value is a sequence of characters: 0 is white space, 1..49 are    *)
(* letters, 51..99 the same letters in upper case, 100 the ligature of the *)
(* letters 6 and 9.                                                        *)
(***************************************************************************)
EXTENDS Integers, SequencesExt, FiniteSetsExt

CONSTANTS
    Tasks,
    Workspaces,
    MaxDbFaults,   \* bound on lost connections
    NoToken, Failed

VARIABLES
    map,       \* pii_token_map: the token of each value
    counter,   \* pii_token_counter.next_id, 1 when there is no row
    call,      \* the call each task is making
    dbFaults

vaultVars == <<map, counter, call, dbFaults>>

NameKinds == {"PERSON", "ORG"}
Kinds == NameKinds \cup {"LOC", "EMAIL", "IBAN", "NIR", "PHONE", "UUID"}

ASSUME VaultAssumption ==
    /\ MaxDbFaults \in Nat
    /\ NoToken # Failed /\ {NoToken, Failed} \cap (Kinds \X Nat) = {}

-----------------------------------------------------------------------------
(* Normalization.                                                          *)

nfkc(raw) == FlattenSeq([i \in DOMAIN raw |-> IF raw[i] = 100 THEN <<6, 9>> ELSE <<raw[i]>>])
to_lowercase(s) == [i \in DOMAIN s |-> IF s[i] > 50 THEN s[i] - 50 ELSE s[i]]

\* Trimmed, each run of white space a single space.
Collapse(s) ==
    LET ink == {i \in DOMAIN s : s[i] # 0}
        keep == {i \in DOMAIN s : \/ i \in ink
                                  \/ i - 1 \in ink /\ \E j \in ink : j > i}
        at == SetToSortSeq(keep, <)
    IN  [k \in DOMAIN at |-> s[at[k]]]

normalize_name(raw) == to_lowercase(Collapse(nfkc(raw)))
normalize_strict(raw) == to_lowercase(SelectSeq(raw, LAMBDA c : c # 0))
normalize(kind, raw) == IF kind \in NameKinds THEN normalize_name(raw)
                                              ELSE normalize_strict(raw)

\* lookup_hash is a keyed hash of these, equal when they are.
Value(ws, kind, raw) == [ws |-> ws, kind |-> kind, text |-> normalize(kind, raw)]

-----------------------------------------------------------------------------
NoCall == [pc |-> "idle", value |-> NoToken, seen |-> NoToken, id |-> 0, result |-> NoToken]

VaultInit ==
    /\ map = <<>>
    /\ counter = [c \in Workspaces \X Kinds |-> 1]
    /\ call = [t \in Tasks |-> NoCall]
    /\ dbFaults = 0

Existing(v) == IF v \in DOMAIN map THEN map[v] ELSE NoToken

Return(t, r) == call' = [call EXCEPT ![t].pc = "done", ![t].result = r]

\* tokenize_blocking, tokenize_async: normalize, hash, encrypt.  The types of
\* the parameters are a workspace and an EntityKind.
Tokenize(t, ws, kind, raw) ==
    /\ call[t].pc = "idle"
    /\ ws \in Workspaces /\ kind \in Kinds
    /\ call' = [call EXCEPT ![t] = [NoCall EXCEPT !.pc = "lookup",
                                                  !.value = Value(ws, kind, raw)]]
    /\ UNCHANGED <<map, counter, dbFaults>>

\* Mutant: the short cut looks for the value in any workspace.
FoundAnywhere(v) ==
    LET same == {w \in DOMAIN map : w.kind = v.kind /\ w.text = v.text}
    IN  IF same = {} THEN NoToken ELSE map[CHOOSE w \in same : TRUE]

lookup_existing(v) == Existing(v)

LookUp(t) ==
    /\ call[t].pc = "lookup"
    /\ LET found == lookup_existing(call[t].value)
       IN  IF found # NoToken
             THEN Return(t, found)
             ELSE call' = [call EXCEPT ![t].pc = "start"]
    /\ UNCHANGED <<map, counter, dbFaults>>

\* The statement's snapshot, as far as its final SELECT reads it.
StartStatement(t) ==
    /\ call[t].pc = "start"
    /\ call' = [call EXCEPT ![t].pc = "bump", ![t].seen = Existing(call[t].value)]
    /\ UNCHANGED <<map, counter, dbFaults>>

SameCounter(v, w) == v.ws = w.ws /\ v.kind = w.kind

\* Mutant: the counter is read without the row lock.
NoRowLock(t) == TRUE

\* No other statement has bumped the counter and is yet to commit.
RowLockFree(t) ==
    \A u \in Tasks \ {t} :
        ~(call[u].pc = "insert" /\ SameCounter(call[u].value, call[t].value))

Bump(t) ==
    /\ call[t].pc = "bump"
    /\ RowLockFree(t)
    /\ call' = [call EXCEPT ![t].pc = "insert",
                            ![t].id = counter[<<call[t].value.ws, call[t].value.kind>>]]
    /\ UNCHANGED <<map, counter, dbFaults>>

NewToken(t) == <<call[t].value.kind, call[t].id>>

\* Mutant: the table has no primary key on the token.
NeverTaken(t) == FALSE

\* The primary key: the token exists, whoever it was minted for.
TokenTaken(t) == \E w \in DOMAIN map : map[w] = NewToken(t)

Bumped(t) == [counter EXCEPT ![<<call[t].value.ws, call[t].value.kind>>] = call[t].id + 1]

\* The row is new.  The connection may be lost after the commit.
InsertToken(t) ==
    /\ call[t].pc = "insert"
    /\ call[t].value \notin DOMAIN map /\ ~TokenTaken(t)
    /\ map' = [v \in DOMAIN map \cup {call[t].value} |->
                IF v = call[t].value THEN NewToken(t) ELSE map[v]]
    /\ counter' = Bumped(t)
    /\ \/ Return(t, NewToken(t)) /\ UNCHANGED dbFaults
       \/ dbFaults < MaxDbFaults /\ dbFaults' = dbFaults + 1 /\ Return(t, Failed)

\* Mutant: no row is taken for an answer.
SeenOrNothing(t) == call[t].seen

\* The row in the statement's snapshot, or no row, which fetch_one turns into
\* an error.
ReadBack(t) == IF call[t].seen # NoToken THEN call[t].seen ELSE Failed

\* ON CONFLICT DO NOTHING: the value got its token since the lookup.
LoseRace(t) ==
    /\ call[t].pc = "insert"
    /\ call[t].value \in DOMAIN map
    /\ counter' = Bumped(t)
    /\ Return(t, ReadBack(t))
    /\ UNCHANGED <<map, dbFaults>>

\* A violation of the primary key is no conflict of the ON CONFLICT target:
\* the statement fails and its bump is rolled back.
TokenCollides(t) ==
    /\ call[t].pc = "insert"
    /\ call[t].value \notin DOMAIN map /\ TokenTaken(t)
    /\ Return(t, Failed)
    /\ UNCHANGED <<map, counter, dbFaults>>

DbFails(t) ==
    /\ call[t].pc \in {"lookup", "start", "bump", "insert"}
    /\ dbFaults < MaxDbFaults /\ dbFaults' = dbFaults + 1
    /\ Return(t, Failed)
    /\ UNCHANGED <<map, counter>>

VaultStep(t) ==
    \/ LookUp(t) \/ StartStatement(t) \/ Bump(t)
    \/ InsertToken(t) \/ LoseRace(t) \/ TokenCollides(t) \/ DbFails(t)

-----------------------------------------------------------------------------
(* Correctness.                                                            *)

VaultTypeOK ==
    /\ \A v \in DOMAIN map :
        v.ws \in Workspaces /\ map[v] \in {v.kind} \X (Nat \ {0})
    /\ counter \in [Workspaces \X Kinds -> Nat \ {0}]
    /\ \A t \in Tasks :
        /\ call[t].pc \in {"idle", "lookup", "start", "bump", "insert", "done"}
        /\ call[t].pc = "done" => call[t].result # NoToken
    /\ dbFaults \in 0..MaxDbFaults

\* upsert: the rows of pii_token_map are an implementation of TokenMap.
Minted == INSTANCE TokenMap WITH tokenOf <- map

TokenMapSpec == Minted!Spec

\* upsert: a call that gets a token gets the one stored for its own value.
CallsAgree ==
    \A t \in Tasks :
        (call[t].pc = "done" /\ call[t].result # Failed) =>
            /\ call[t].value \in DOMAIN map
            /\ call[t].result = map[call[t].value]

\* upsert: without a database failure a call fails only because its value got
\* a token while its statement ran, or because the token it would mint
\* belongs to another workspace.
FailuresExplained ==
    dbFaults = 0 => \A t \in Tasks :
        call[t].result = Failed =>
            \/ call[t].value \in DOMAIN map /\ call[t].seen = NoToken
            \/ \E v \in DOMAIN map : /\ map[v] = NewToken(t)
                                    /\ v.ws # call[t].value.ws

\* upsert, "both converge on the same token ... the loser reads the existing
\* row": when the database does not fail, no call does.
Converge ==
    dbFaults = 0 => \A t \in Tasks : call[t].result # Failed
=============================================================================
