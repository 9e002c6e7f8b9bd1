----------------------------- MODULE ChunkStore -----------------------------
(***************************************************************************)
(* The rows of document_chunks between their two writers.  The ingestion   *)
(* daemon cuts a text into overlapping windows, encrypts and embeds them   *)
(* and replaces a document's rows in one transaction; the key-rotation job *)
(* walks the table page by page and re-encrypts what it finds.  Neither    *)
(* knows of the other, and both may fail or be killed at any step.         *)
(*                                                                         *)
(* Both connect as the role of the gateway and neither sets the settings   *)
(* that the row-level-security policies of the table read.  What a         *)
(* statement finds and may write therefore depends on whether the policies *)
(* apply to that role.                                                     *)
(*                                                                         *)
(* A text is a sequence of characters, 0 standing for white space; no      *)
(* character other than that occurs twice in it.  An embedding is          *)
(* represented by the text it was computed from.                           *)
(***************************************************************************)
EXTENDS Integers, SequencesExt, FiniteSetsExt, Places, TLC

CONSTANTS
    Docs,            \* source_item_id
    Texts,           \* the texts a document may have
    Ids,             \* row ids, numbered in the order UUIDs compare
    CHUNK_CHARS, OVERLAP_CHARS,
    EmbedBatchSize,  \* --embed-batch-size
    BatchSize,       \* --batch-size of the rotation
    OldKey, NewKey, OtherKey,
    MaxWrites,       \* bound on the daemon's transactions
    MaxRuns,         \* bound on rotation runs
    MaxFaults        \* bound on failures and redeployments

VARIABLES
    rows,       \* the committed rows, by id
    used,       \* ids drawn so far
    source,     \* history: the text last stored for a document, <<>> for none
    exempt,     \* the role is a superuser's, which bypasses row-level security
    daemonKey,  \* MCP_CONTENT_KEY of the running daemon
    pc, offset, pending, reembed,   \* the rotation: pending is its open transaction,
    batch,      \* batch[i] : encrypted_content of row i when its page was read,
    todo,       \* and the rows of the page that are still to be looked at
    writes, runs, faults,
    before,     \* history: rows that were there when the run began
    gone        \* history: how many rows were deleted since

daemonVars == <<used, source, daemonKey, writes, exempt>>
rotationVars == <<pc, offset, batch, todo, pending, reembed>>
historyVars == <<before, gone>>
vars == <<rows, daemonVars, rotationVars, runs, faults, historyVars>>

Keys == {OldKey, NewKey, OtherKey}
STRIDE_CHARS == CHUNK_CHARS - OVERLAP_CHARS

ASSUME ConstantsAssumption ==
    /\ CHUNK_CHARS \in Nat /\ OVERLAP_CHARS \in Nat /\ STRIDE_CHARS \in Nat \ {0}
    /\ EmbedBatchSize \in Nat \ {0} /\ BatchSize \in Nat \ {0}
    /\ Cardinality(Keys) = 3
    /\ Ids \subseteq Nat /\ IsFiniteSet(Ids)
    /\ Texts \subseteq Seq(Nat)
    /\ MaxWrites \in Nat /\ MaxRuns \in Nat /\ MaxFaults \in Nat

-----------------------------------------------------------------------------
(* Chunking, encryption and embedding.                                     *)

Blank(s) == \A i \in DOMAIN s : s[i] = 0

\* Mutant: the loop ends only once a window starts past the end.
StartPastEnd(start, text) == start + STRIDE_CHARS >= Len(text)

\* The window that starts there reaches the end of the text.
LastWindow(start, text) == start + CHUNK_CHARS >= Len(text)

\* Where a window starts: at 0, and a stride after every window but the last.
Starts(text) ==
    {start \in {k * STRIDE_CHARS : k \in 0..Len(text)} :
        start = 0 \/ ~LastWindow(start - STRIDE_CHARS, text)}

Window(start, text) == SubSeq(text, start + 1, Min({start + CHUNK_CHARS, Len(text)}))

chunk_by_chars(text) ==
    LET kept == Ascending({start \in Starts(text) : ~Blank(Window(start, text))})
    IN  [k \in DOMAIN kept |-> Window(kept[k], text)]

chunk(text) == IF Blank(text) THEN <<>> ELSE chunk_by_chars(text)

\* AES-256-GCM: what was sealed under a key opens under that key only.
encrypt(key, plain) == [key |-> key, plain |-> plain]
decrypts(key, wire) == wire.key = key

\* Mutant: the response is taken in the order it arrives.
Unsorted(data) == data

\* resp.data.sort_by_key(|d| d.index)
SortByIndex(data) ==
    LET indices == {data[j].index : j \in DOMAIN data}
    IN  [k \in DOMAIN data |->
            data[CHOOSE j \in DOMAIN data : Place(indices, data[j].index) = k - 1]]

\* The service answers with one embedding for each input, in any order.
embed_one_batch(texts, order) ==
    LET data == [k \in DOMAIN texts |->
                    [index |-> order[k] - 1, embedding |-> texts[order[k]]]]
    IN  [k \in DOMAIN texts |-> SortByIndex(data)[k].embedding]

\* texts.chunks(batch_size): where the slice of the i-th text begins, and the slice.
SliceStart(i) == EmbedBatchSize * ((i - 1) \div EmbedBatchSize)
Slice(start, texts) == SubSeq(texts, start + 1, Min({start + EmbedBatchSize, Len(texts)}))

\* One request per slice; the results are appended.
embed_batch(texts, orders) ==
    [i \in DOMAIN texts |->
        LET start == SliceStart(i)
        IN  embed_one_batch(Slice(start, texts), orders[start])[i - start]]

\* The orders in which the answers for each slice may come.
Orders(texts) ==
    LET slices == {SliceStart(i) : i \in DOMAIN texts}
    IN  {f \in [slices -> UNION {Bijection(1..n, 1..n) : n \in 1..EmbedBatchSize}] :
            \A start \in slices : DOMAIN f[start] = DOMAIN Slice(start, texts)}

-----------------------------------------------------------------------------
Row == [doc : Docs, index : Nat, wire : [key : Keys, plain : Seq(Nat)],
        embedding : Seq(Nat)]
RowsOf(d) == {i \in DOMAIN rows : rows[i].doc = d}

\* A table in which the rows of new replace or join those of old.
Overlay(new, old) ==
    [i \in DOMAIN new \cup DOMAIN old |-> IF i \in DOMAIN new THEN new[i] ELSE old[i]]

Init ==
    /\ rows = <<>> /\ used = {}
    /\ source = [d \in Docs |-> <<>>]
    /\ exempt \in BOOLEAN /\ daemonKey = OldKey
    /\ pc = "idle" /\ offset = 0 /\ batch = <<>> /\ todo = {}
    /\ pending = <<>> /\ reembed = FALSE
    /\ writes = 0 /\ runs = 0 /\ faults = 0
    /\ before = {} /\ gone = 0

\* doc_chunks_workspace_isolation: RESTRICTIVE and FORCEd, it admits the rows of
\* the workspaces of app.mcp_client_id, which are none while that is unset.
Visible == IF exempt THEN DOMAIN rows ELSE {}

\* The operator re-creates the role as NOSUPERUSER.
Harden ==
    /\ exempt /\ exempt' = FALSE
    /\ UNCHANGED <<rows, used, source, daemonKey, writes, rotationVars, runs, faults,
                   historyVars>>

Fault == faults < MaxFaults /\ faults' = faults + 1
Running == pc \in {"fetch", "batch"}

\* Mutant: the batch's transaction holds no row locks.
NeverLocked(d) == TRUE

\* Rows of the open transaction are locked against the daemon.
Unlocked(d) == RowsOf(d) \cap DOMAIN pending = {}

\* A daemon transaction; the histories follow what it does to a run.
Replace(new, d) ==
    /\ writes < MaxWrites /\ writes' = writes + 1
    /\ rows' = new
    /\ gone' = IF Running THEN gone + Cardinality(RowsOf(d)) ELSE gone
    /\ before' = before \ RowsOf(d)

(* The daemon.                                                             *)

\* chunk, encrypt each chunk, embed_batch: nothing shared is touched.
NewRows(d, text, orders) ==
    LET chunks == chunk(text)
        embeddings == embed_batch(chunks, orders)
    IN  [i \in 1..Len(chunks) |->
            [doc |-> d, index |-> i - 1, wire |-> encrypt(daemonKey, chunks[i]),
             embedding |-> embeddings[i]]]

\* Mutant: the rows of the version before are left in place.
KeepStale(d) == rows

\* DELETE FROM document_chunks WHERE source_item_id = d
WithoutDoc(d) == [i \in DOMAIN rows \ RowsOf(d) |-> rows[i]]

\* upsert_chunks: DELETE, then an INSERT per chunk under a random id, in one
\* transaction.  A failure anywhere before its commit leaves no trace, and one
\* there is when row-level security applies: WITH CHECK fails as USING does.  The
\* ids fall anywhere among those of other documents; which chunk gets which
\* of them makes no difference, since they come and go together.
UpsertChunks(d, text) ==
    LET n == Len(chunk(text))
    IN  /\ n > 0
        /\ exempt /\ Unlocked(d)
        /\ \E ids \in kSubset(n, Ids \ used), orders \in Orders(chunk(text)) :
            LET new == NewRows(d, text, orders)
                Inserted == [x \in ids |-> new[Place(ids, x) + 1]]
            IN  /\ Replace(Overlay(Inserted, WithoutDoc(d)), d)
                /\ used' = used \cup ids
        /\ source' = [source EXCEPT ![d] = text]
        /\ UNCHANGED <<exempt, daemonKey, rotationVars, runs, faults>>

\* A DELETE that matches no visible row succeeds and changes nothing.
DeleteChunks(d) ==
    /\ RowsOf(d) \cap Visible # {} /\ Unlocked(d)
    /\ Replace(WithoutDoc(d), d)
    /\ source' = [source EXCEPT ![d] = <<>>]
    /\ UNCHANGED <<used, exempt, daemonKey, rotationVars, runs, faults>>

\* The daemon is redeployed with another key.
Redeploy(k) ==
    /\ daemonKey # k /\ Fault
    /\ daemonKey' = k
    /\ UNCHANGED <<rows, used, source, writes, exempt, rotationVars, runs, historyVars>>

(* The rotation job.                                                       *)

\* Arguments parsed, keys distinct, connected, not a dry run.
StartRotation ==
    /\ ~Running /\ runs < MaxRuns
    /\ runs' = runs + 1
    /\ pc' = "fetch"
    /\ reembed' \in BOOLEAN
    /\ before' = DOMAIN rows /\ gone' = 0
    /\ UNCHANGED <<rows, daemonVars, offset, batch, todo, pending, faults>>

\* The place of row i in ORDER BY id, from 0.  Visible is all rows or none.
Rank(i) == Place(DOMAIN rows, i)

\* SELECT ... ORDER BY id LIMIT BatchSize OFFSET offset, outside the batch's
\* transaction.
fetch_batch ==
    LET page == {i \in Visible : Rank(i) \in offset..(offset + BatchSize - 1)}
    IN  [i \in page |-> rows[i].wire]

FetchBatch ==
    /\ pc = "fetch" /\ DOMAIN fetch_batch # {}
    /\ batch' = fetch_batch /\ todo' = DOMAIN fetch_batch
    /\ pc' = "batch"
    /\ UNCHANGED <<rows, daemonVars, offset, pending, reembed, runs, faults, historyVars>>

\* The process ends, and with it a transaction that is still open.
Exit(status) ==
    /\ pc' = status /\ pending' = <<>>
    /\ offset' = 0 /\ batch' = <<>> /\ todo' = {} /\ reembed' = FALSE
    /\ IF status = "done" THEN UNCHANGED historyVars ELSE before' = {} /\ gone' = 0

Complete ==
    /\ pc = "fetch" /\ DOMAIN fetch_batch = {}
    /\ Exit("done")
    /\ UNCHANGED <<rows, daemonVars, runs, faults>>

\* Mutant: every row of the batch gets the text of its first one.
UpdateWithFirst(i) ==
    IF i \in Visible
      THEN pending' = Overlay([x \in {i} |-> [rows[i] EXCEPT
                !.wire = encrypt(NewKey, batch[Min(DOMAIN batch)].plain)]], pending)
      ELSE UNCHANGED pending

\* The UPDATE finds the row, unless it is gone or hidden since the SELECT.
UpdateContent(i) ==
    IF i \in Visible
      THEN pending' = Overlay([x \in {i} |-> [rows[i] EXCEPT
                !.wire = encrypt(NewKey, batch[i].plain),
                !.embedding = IF reembed THEN batch[i].plain ELSE @]], pending)
      ELSE UNCHANGED pending

\* The next row of the page: for chunk in &batch.
IsNext(i) == i \in todo /\ \A j \in todo : i <= j

RotateRow ==
    /\ pc = "batch"
    /\ \E i \in todo :
        /\ IsNext(i)
        /\ \/ decrypts(OldKey, batch[i]) /\ UpdateContent(i)
           \/ decrypts(NewKey, batch[i]) /\ UNCHANGED pending
        /\ todo' = todo \ {i}
    /\ UNCHANGED <<rows, daemonVars, pc, offset, batch, reembed, runs, faults, historyVars>>

\* Mutant: the next page skips a row.
OffsetPastNext == offset + Cardinality(DOMAIN batch) + 1

\* Mutant: the next page is asked for from where this one began.
OffsetStays == offset

\* offset += batch_len
NextOffset == offset + Cardinality(DOMAIN batch)

CommitBatch ==
    /\ pc = "batch" /\ todo = {}
    /\ rows' = Overlay(pending, rows)
    /\ pending' = <<>> /\ batch' = <<>>
    /\ offset' = NextOffset
    /\ pc' = "fetch"
    /\ UNCHANGED <<daemonVars, todo, reembed, runs, faults, historyVars>>

Undecryptable ==
    /\ pc = "batch"
    /\ \E i \in todo :
        IsNext(i) /\ ~decrypts(OldKey, batch[i]) /\ ~decrypts(NewKey, batch[i])
    /\ Exit("failed")
    /\ UNCHANGED <<rows, daemonVars, runs, faults>>

\* A query, an embedding or the commit fails, or the job is killed.
RotationFails ==
    /\ Running /\ Fault
    /\ Exit("failed")
    /\ UNCHANGED <<rows, daemonVars, runs>>

-----------------------------------------------------------------------------
Rotation == FetchBatch \/ Complete \/ RotateRow \/ CommitBatch \/ Undecryptable

Daemon ==
    \E d \in Docs : DeleteChunks(d) \/ \E t \in Texts : UpsertChunks(d, t)

Next ==
    \/ Daemon \/ Harden \/ \E k \in Keys : Redeploy(k)
    \/ StartRotation \/ Rotation \/ RotationFails

\* The job awaits each call in turn; every call returns.
Spec == Init /\ [][Next]_vars /\ WF_vars(Rotation)

-----------------------------------------------------------------------------
(* Correctness.                                                            *)

TypeOK ==
    /\ DOMAIN rows \subseteq used /\ used \subseteq Ids
    /\ \A i \in DOMAIN rows : rows[i] \in Row
    /\ source \in [Docs -> Texts \cup {<<>>}]
    /\ exempt \in BOOLEAN /\ daemonKey \in Keys
    /\ pc \in {"idle", "fetch", "batch", "done", "failed"}
    /\ offset \in 0..Cardinality(Ids)
    /\ DOMAIN pending \subseteq DOMAIN rows
    /\ todo \subseteq DOMAIN batch /\ Cardinality(DOMAIN batch) <= BatchSize
    /\ before \subseteq DOMAIN rows

\* The characters of the rows of d, whatever key they are under.
Stored(d) == UNION {Range(rows[i].wire.plain) : i \in RowsOf(d)}

\* chunk_by_chars, upsert_chunks, main of key-rotation: whatever failed or was
\* interrupted, the rows of a document hold exactly the text last stored for
\* it, and every row but the first brings something its neighbour has not.
DocumentCovered ==
    \A d \in Docs :
        /\ Stored(d) \ {0} = Range(source[d]) \ {0}
        /\ \A i \in RowsOf(d) :
            rows[i].index > 0 => Len(rows[i].wire.plain) > OVERLAP_CHARS

\* embed_batch, update_content_and_embedding: a row's embedding belongs to its
\* own text, in whatever order the service answered.
EmbeddingsMatch ==
    \A i \in DOMAIN rows : rows[i].embedding = rows[i].wire.plain

\* main of key-rotation, "stable, restartable pagination": a run that ends
\* well, as a role that row-level security does not apply to, leaves no more of
\* the rows it started with under another key than rows were deleted under it.
\* As the role the documents ask for it reads an empty page, takes it for the end
\* of the table (main.rs:105) and ends well with any number of rows left.
LeftBehindBounded ==
    pc = "done" /\ exempt =>
        Cardinality({i \in before : ~decrypts(NewKey, rows[i].wire)}) <= gone

\* main of key-rotation, "rows already re-encrypted are skipped": no run,
\* not even one repeated after an interruption, takes a row off the new key
\* or changes its text.
NeverUndone ==
    [][\A i \in DOMAIN rows \cap DOMAIN rows' :
        /\ rows'[i].wire.plain = rows[i].wire.plain
        /\ decrypts(NewKey, rows[i].wire) => decrypts(NewKey, rows'[i].wire)]_vars

\* main of key-rotation: every run ends, although the table changes under it.
RotationEnds == Running ~> ~Running
=============================================================================
