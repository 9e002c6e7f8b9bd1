# A TLA+ model of mcp-data-gateway

The repository is a gateway that lets AI clients search and query internal data
through four MCP tools (Java, Spring), a daemon that ingests documents for it
(Rust), and a key-rotation tool (Rust).  They meet in one PostgreSQL database.
This directory holds TLA+ modules for the parts whose correctness depends on
interleavings, failures and time, TLC configurations that check them on small
instances, and TLAPS proofs of every safety property, action property and
refinement those configurations check, for instances of any size.

## Inventory

Paths are below `src/main/java/io/ancoris/mcp` unless they start with
`ingestion/`, `tools/` or `docs/`.

| Component | State | Operations | What makes it correct |
|---|---|---|---|
| Tool call pipeline: `security/ToolAllowlistAspect`, `security/RlsContextAspect`, `tools/*` | per call: transaction, connection, rows, result | allowlist check, open transaction and set the RLS context, run the tool, commit or roll back, reset | a caller sees only rows of its classification and workspaces, whichever pooled connection it gets; connections come back |
| RLS policies (`V14__rls_workspace_restrictive.sql`) | `app.mcp_role`, `app.mcp_client_id` per connection | evaluated on every SELECT | both gates hold, unset settings see nothing |
| Chunk budget: `security/ChunkBudgetEnforcer`, `RateLimitStatePruner` | `rate_limit_state` | UPSERT in a second transaction, hourly pruning | the cap holds per key and hour, no charge is lost, nobody waits for ever for the second connection |
| Audit: `audit/AuditService` | `audit_logs`, `/var/log/mcp/audit.json` | `log` from tools, aspects and guard | a delivered result is in both sinks |
| Authentication: `security/ApiKeyService`, `ApiKeyFilter`, `ApiKeyExpirySweeper` | `api_keys`, the cached key list | load, filter, serve; sweep | a revocation or demotion takes hold within a bounded time |
| OAuth: `oauth/AuthCodeStore`, `JwtTokenService`, `OAuthController` | codes in memory, tokens at clients, pending forms | authorize, redeem, validate | a code is used once, lifetimes are bounded |
| Rate limiter: `security/RateLimiterFilter` | a deque of times per address | admit or refuse | at most N requests per window and address |
| Query guard: `security/QueryGuard` | none | reject, strip, flag | every decision is logged |
| Connectors: `connector/*` | none | query, vector search, fetch and decrypt | column and table allowlists, empty text only for a row that is gone |
| Ingestion cycle: `ingestion/src/main.rs`, `db.rs`, `state.rs` | `document_chunks`, `ingestion_state` | list, delete, download, chunk, upsert, save the cursor | the cursor never runs ahead of the store, the store converges |
| Graph connector: `ingestion/src/connector/graph.rs` | delta link | list, download | every change is listed from some cursor on |
| Zoho connector: `ingestion/src/connector/zoho.rs` | breadth-first queue and watermark in the cursor, access token | list one folder per call, refresh the token once | every folder is visited, nothing changed is lost |
| Sanitizer and vault: `ingestion/src/sanitize/*` | `pii_token_map`, counters | scan, merge spans, allocate tokens | one token per value and workspace |
| Chunker: `ingestion/src/chunker.rs` | none | split with overlap | every token is in some chunk |
| Key rotation: `tools/key-rotation/src/*` | `document_chunks.encrypted_content` | batches of re-encryption | every row ends under the new key, a second run is harmless |

How they interact.  `ApiKeyFilter` authenticates a request and leaves an
`ApiKey` in the security context; the aspects and tools read it.  The aspects
wrap every tool method, the allowlist outermost.  The search tools call
`QueryGuard`, then SQL, then `ContentStore` per row, then
`ChunkBudgetEnforcer` in a `REQUIRES_NEW` transaction on a second connection of
the same pool, then `AuditService`.  The ingestion daemon and the key rotation
write the rows that the tools read.  The sweeper and the pruner are scheduled
jobs on tables that requests use.

What is hard: request threads that share a small pool and take two connections
each; settings that live on a connection and not on a call; an audit event that
is in a file at once and in a table only at commit; a cached key list against
an edited table; a cursor that is saved after writes that may have failed; a
crawl that is spread over many cycles while the drive changes; a table that is
paged through while it is rewritten; a statement that waits for a lock but reads
a snapshot from before the wait.  The
`hazards` list in `PROJECT.json` names each at its line.

## Modules

| Module | Models |
|---|---|
| `ToolCall` | a tool call from the allowlist to the returned connection; the pool; the RLS settings of each connection; `document_chunks` rows as the tools see them; the budget counters; both audit sinks; crashes |
| `ChunkBudget` | the abstract budget: a counter per key and hour |
| `ToolCallProofs` | the theorems about `ToolCall` |
| `Credentials` | requests by key, code and token; the cached list; the operator and the sweeper; restarts |
| `Ingestion` | the poll cycle with the Graph connector over a changing drive, with failures and restarts |
| `ZohoCrawl` | the poll cycle with the Zoho connector: the crawl in the cursor, date filters, paging, skewed clocks, failures and restarts |
| `AccessTokens` | the token caches of both connectors, the refresh gate, and the redirects of a download |
| `ChunkStore` | chunking, embedding and the rows of `document_chunks` between the ingestion daemon and the key rotation |
| `TokenMap` | the abstract vault: a value keeps its token, a token has one value |
| `Vault` | concurrent `tokenize` calls against `pii_token_map` and `pii_token_counter` |
| `Sanitize` | both scans, the merge and the substitution, by several tasks over one `Vault` |
| `CredentialsProofs`, `IngestionProofs`, `ZohoCrawlProofs`, `AccessTokensProofs`, `ChunkStoreProofs` | the theorems about the module each is named after |
| `SanitizeProofs` | the theorems about `Sanitize` and about `Vault`, as its tasks drive it |
| `Places` | order: what ORDER BY, `sort_by`, `sort_by_key`, a filter and a loop that only moves forward have in common |
| `PlacesProofs` | lemmas about `Places`, and the two forms of induction that the other proofs use |
| `MC*` | constants and symmetry for TLC; `MCZoho` also puts `ZohoCrawl` and `AccessTokens` side by side |

`ToolCall` implements `ChunkBudget` (`BudgetSpec`) and `Vault` implements
`TokenMap` (`TokenMapSpec`); both are checked as properties and proved.
`Sanitize` composes the scans with `Vault`.

### ToolCall

A step is what one request thread does between two points at which it can wait
or be overtaken.  `pc[c]` names the point; `conn[c]` is the connection of the
RLS transaction and `inner[c]` that of the budget transaction.

* `EnforceAllowlist`, `SaveDenial`, `LogDenial` are `enforceAllowlist`.  There
  is no transaction yet, so the row and the file entry are two steps; if the save
  fails, its exception ends the call before the file has an entry.
* `BeginTx` is `applyRlsRole` up to `pjp.proceed()`: it takes a free
  connection and sets both settings for the transaction.  `localGuc` and
  `sessionGuc` keep transaction-local and session-level settings apart, since
  only the first revert by themselves.
* `ListSources`, `QueryDatabase`, `QueryDenied`, `ValidateQuery`, `Search`,
  `FetchChunks` are the tool bodies; `FetchAborts` is an SQL error inside
  `fetchChunk`, which the code swallows but PostgreSQL does not; `ToolFails` is
  any exception of the embedding call or a statement.
* `BeginBudget`, `Upsert`, `CommitBudget`, `ExceedBudget`, `BudgetFails` are
  `commitChunks`.  `RowLocked` is the row lock between UPSERT and commit.
* `AuditSearch`, `CommitTx`, `CommitFails`, `Rollback`, `AfterCompletion` end
  the call.  The RESET in `AfterCompletion` may or may not happen.
* `PoolTimeout` is HikariCP giving up.  `NextHour`, `PruneStaleWindows`,
  `RemoveChunk`, `RekeyChunk` and `Crash` are the rest of the world.  A window is
  `Stale` once `Retention` hours have begun since its own: it begins with its hour
  and the pruner runs at minute 37, when that hour is more than 24 hours past.

Data is abstracted to what the properties distinguish: a query is the tier the
guard puts it in, a column is `id`, `salary` or one that is not listed, a chunk
is readable, sealed under another key, or absent.  Row identifiers are never
reused, since every ingested row has a fresh UUID.  Roles, grants and allowlists
are constant here; how stale they may be is the subject of `Credentials`.  A
call that reaches a tool is authenticated: `ApiKeyFilter` refuses others.  The
gateway's role is one that row-level security applies to, as
`V5__rls_document_chunks.sql` asks; `RemoveChunk` and `RekeyChunk` are whoever may
change rows.

### Credentials

`cache` is the single entry of `keyCache` with the time it was written;
`StartLoad` reads the table and `FinishLoad` stores the list, so that an edit
can fall between the two.  `list[t]` is what a request was given and may use
later.  `Serve`, `IssueCode` and `Reject` are the outcomes of the filters.
`ConsumeCode` and `IssueToken` are the token endpoint.  `retired`, `disabled`
and `served` are history.  A raw key stands for the row it hashes to; signatures
and hashes are taken to be unforgeable.  Operators edit the table with SQL, as
`docs/ARCHITECTURE.md` describes: no code in the gateway does it, and nothing
there calls `invalidateCache`, so it is not an action.

### Ingestion

The drive is the sequence of its changes, a document's version is the position
of its last change, and a cursor is a position.  `Delta` is what a listing
returns, `Served` what a download may return (the listed version or a later
one).  Items are processed in any order.  `missed` and `orphaned` are history:
documents whose item was skipped or had no effect, and stored documents that a
crawl without a cursor could not see deleted.

`exempt` says whether the database role is a superuser's.  `docker-compose.yaml`
makes `mcpuser` one (`POSTGRES_USER`), the documents have the operator take that
away, and the daemon sets none of the settings that the policies read.  `Harden` is the operator doing
so, before or between two steps.  From then on an INSERT fails (`UpsertFails`,
without a fault) and a DELETE succeeds with no rows, which `run_cycle` counts as
done.  `ingestion_state` has no policies, so the cursor still moves.

### ZohoCrawl

A cursor is the state that `ZohoCursor` serializes: `watermark`, `queue`,
`visited`, `run_started`.  `BeginListing` and `BeginNextCrawl` are the two ways
`list_changes` goes on after `load_cursor`; `ListPage` is one turn of its paging
loop, so the drive may change between two pages; `ProcessItem`, `ItemFails`,
`SaveCursor` and `Interrupted` are `run_cycle` and `main`.  `DeltaResult.more`
is ignored by `run_cycle`, so each cycle lists one folder and the next folder
waits for the next poll.  What `Ingestion` has in detail is brief here:
`ProcessItem` is the download and the write of one item, an item without text is
skipped as one that failed (`ItemFails`), and the role is exempt from row-level
security.

External, from the way the code uses it (no API documentation is in the
repository): a listing holds every child modified at or after the date given, in
a fixed order and with its deleted children; a change of a file also touches the
folders above it, without which the date filter would hide a changed file from
the first crawl after; the API says there is more only when there is; its clock
may be behind the daemon's by up to `Skew`, and `WATERMARK_OVERLAP_MS` is taken
to cover that.  The branch that puts a half-listed folder back in the queue
(`zoho.rs:694`) is never taken, since the paging loop ends only at the last
page.  `missed` is history as in `Ingestion`.

The drive is any that can be reached from its root: `Above[i]` is the least set of
folders closed under "the folder it is in", and `InTree(f)` says that whoever
starts at the root and goes into each folder above `f` comes to a folder that
holds `f`.  A listing is `Due`, the children that pass the date filter as the drive
is now, and a page is those of them whose place, the number of due children
before them, is in the page's range (`Places`).

### AccessTokens

`FastPath`, `PassGate`, `Refreshed` and `RefreshFails` are `refresh_if_needed`
with `call_oauth_refresh` for the Zoho tasks and `access_token` with
`fetch_token` for the Graph tasks, which have no gate.  `gate` is the FIFO queue
of tokio's mutex.  `Redirect` and `Answered` are a turn of
`download_with_trusted_auth`.  A cached token has two times: when the cache
counts it as expired, counted from the answer, and when it is, counted from the
request.  `left` and `cached` are history: how long the token a task has taken
still lived, and whether it came from the cache.

### ChunkStore

A text is a sequence of characters, an embedding is the text it was computed
from, a ciphertext is its text and key.  The loop of `chunk_by_chars` is given by
the places where its windows start (`Starts`: at 0, and a stride after each
window that does not reach the end) and by `Window`, which cuts one out; those
that are not blank are the chunks, in ascending order.  `embed_batch` sends one
`Slice` after the other to `embed_one_batch`; the service answers each in any of
its `Orders`, and `SortByIndex` puts the answers back.  `UpsertChunks` and
`DeleteChunks` are the daemon's transactions.  `StartRotation`,
`FetchBatch`, `RotateRow`, `CommitBatch`, `Complete` and `Undecryptable` are
`main` of the key rotation: the page is read outside the transaction that
updates it, so a row may be gone by the time it is updated, and pages count rows
from the start of a table that the daemon changes.  `pending` are the rows of
the open transaction, locked against the daemon.  `RotationFails` is any error or
a kill; `Redeploy` gives the daemon another key, before, during or after a
rotation.  Row ids are random, so new rows fall anywhere in the order.

Both programs connect with the gateway's secret, so as its role, and neither sets
`app.mcp_client_id`.  `Visible` is what the policies of `V14` leave them: all rows
while the role is `exempt`, none after `Harden`.  `fetch_batch`, `UpdateContent` and
`DeleteChunks` find visible rows only, and `UpsertChunks` needs an exempt role, for
its INSERT fails the same policy.

### Vault and Sanitize

A `tokenize` call is `LookUp`, then one SQL statement in three steps:
`StartStatement` takes the snapshot that its final SELECT reads, `Bump` takes
the row lock of the counter, and `InsertToken`, `LoseRace` or `TokenCollides`
ends it.  Normalization is by characters: white space, letters, upper case and a
ligature.  `Begin` is both scans and the merge, `CallVault`, `RenderToken`,
`RenderPlaceholder` and `Finish` are `substitute`.  A pattern's candidates and
the model's labels are inputs; the validators (`is_valid_nir`, `is_valid_iban`),
`bio_merge` and `merge_and_dedup` are operators translated from the code.
The loops are recursive functions over how far they have come: `Remainders` feeds
a number's characters to the check (a letter as the two digits it stands for),
`bio_merge` takes token after token, `merge_and_dedup` keeps or drops span after
span in the order of `Before`, and `Within` is what `substitute` does not pass
over: positions count characters, so its check of character boundaries
(`mod.rs:246`) never fires.  `Fits` is what the regex and tokenizer libraries promise: matches and tokens
are stretches of the text, and tokens come in its order.
The sanitizer is behind a feature and `run_cycle` does not call it: the model is of
the library.  Arm (a) of `sanitize` returns the text as it is and has no step.

## Runs

| Run | Configuration | Checks | States |
|---|---|---|---|
| `toolcall` | 2 calls, 2 connections, 2 keys, 3 chunks, 10 requests | isolation, scope, connections, audit | 1 286 523 |
| `budget` | 2 searches, 1 key, 4 connections, cap 1, 3 hours | cap, charges, refinement of `ChunkBudget` | 147 482 |
| `pool` | 2 searches, 2 connections, fairness | every call ends | 33 510 |
| `denials` | as `toolcall` | violation: a denial in one sink only | |
| `credentials` | 1 key, 3 requests, 2 codes, 5 instants, 1 edit | staleness, single use, lifetimes | 1 232 685 |
| `credentials_status` | as `credentials` | violation: the sweeper undoes a disabled key | |
| `ingestion` | 2 files, 4 changes, 2 faults, either role, fairness | cursor, monotony, convergence | 1 318 134 |
| `ingestion_restart` | as `ingestion` | violation: an interrupted first crawl leaves an orphan | |
| `chunkstore` | 2 documents, 4 row ids, 2 texts, 3 writes, 2 rotations, 1 fault, either role, fairness | coverage, embeddings, rotation | 463 716 |
| `sanitize` | 2 tasks, 2 workspaces, 1 033 pairs of texts | merge, tokens, refinement of `TokenMap`, validators | 41 736 |
| `vault_race` | 2 tasks, the same text | violation: the loser of a race gets an error | |
| `zoho` | 2 files in 2 folders, 3 changes, 1 fault, fairness; 2 tasks per connector, 6 instants | watermark, convergence, tokens | 594 782 |

What the properties say:

* `ContextBelongsToHolder`: a connection carries a caller's settings only while
  it runs that caller's transaction, with or without the RESET.
* `RowsWithinScope`: every row selected is in the caller's scope.
* `ConnectionsReturned`: connections are exclusive, an ended call holds none.
* `AuditedBeforeDelivered`: a delivered result is in both sinks.
* `DbEventsInFile`: short of a crash, `audit_logs` has nothing the file lacks.
* `BlankMeansGone`: an empty fragment means the row is deleted or re-encrypted.
* `DeliveredWithinCap`, `EveryDeliveryCharged`, `BudgetSpec`: the budget.
* `EveryCallEnds`: calls that hold one connection and want another still end.
* `ServedOnRecentRow`: every request is let through on a version of its key's
  row at most `CacheTtl + 2 * Delay` old, with that version's role.
* `CodeBuysOneToken`, `TokenLifetimeBounded`: codes and tokens.
* `CursorBehindStore`: wherever a cycle was interrupted, every document is as
  new as the saved cursor says, but for those counted in `missed` and
  `orphaned`.
* `NeverBackwards`: no replay puts an older version over a newer one.
* `EventuallyCaughtUp`: the store converges once changes and failures stop.
* `DocumentCovered`: the rows of a document hold exactly the text last stored,
  whatever was interrupted, and no chunk is only overlap.
* `EmbeddingsMatch`: a row's embedding is that of its own text, in whatever
  order answers came and whichever job wrote it.
* `LeftBehindBounded`: a rotation that reports success, as a role that row-level
  security does not apply to, leaves at most as many of the rows it began with
  under an old key as rows were deleted while it ran: a deletion shifts the pages
  by a row.  It shows what a run of a superuser against a live daemon is worth, and
  that one against an idle daemon misses nothing.  Without the premise it is false
  (see Findings).
* `NeverUndone`: nothing takes a row off the new key or changes its text.
* `RotationEnds`: a rotation ends although rows come and go.
* `TokenMapSpec`: the vault implements `TokenMap`.
* `CallsAgree`, `TokensDecode`: a call, and a text, gets only the token stored
  for its own value in its own workspace.
* `FailuresExplained`: without a database failure a call fails for two reasons
  only, a lost race and a token of another workspace.
* `NothingShowsThrough`: a finding is readable in the output only where it
  sticks out of an earlier finding; all other text comes through once, in order.
* `BioMergeFindsRuns`: `bio_merge` finds the maximal runs of a kind.
* `WrongDigitRejected`: no number with one wrong digit passes its check.
* `WatermarkBehindStore`: what the date filter hides is in the store.
* `CrawlCatchesUp`: crawl after crawl brings the store up to date, although each
  cycle lists one folder only.
* `NoNeedlessRefresh`: one refresh per lapse, however many tasks meet it.
* `CachedTokenLives`: a token from the cache outlives the safety margin.
* `TokenStaysHome`: along any redirects the token goes to trusted hosts only.

### Bounds

Two calls are enough for every conflict in the code, which is always between a
connection's holder and its next one or between two charges of one row; the
proofs remove the bound for the safety properties.  Two connections exhaust the
pool and make each connection be reused by the other key; four let both budget
transactions be open at once.  Of the three chunks the reader may read one, one is
kept from it by the classification gate alone and one by both gates; the workspace
gate alone keeps one from the ADMIN key.  A cap of 1 with one-chunk searches puts
the second search at the boundary.  `MaxHour` 2 with `Retention` 2 lets a window
become stale and a charge run into the next hour.  Three requests are the shortest chain of code, token and use, and
a loader with two others.  Five instants exceed every lifetime used plus the
delays.  Four changes over two files allow a file to be stored, deleted and
restored while the other changes; two faults interrupt a cycle and its
repetition.

Four row ids hold the three chunks of one document and one of another, with a
page of two rows between them; three writes store both and replace one under a
rotation, and the second rotation follows a failed one.  The longer text has a
blank window in the middle and a short last one.  Two tasks are enough for a
race for one counter; the texts of the first task go through all sequences of
four labels out of four, with each of four lists of candidates.  A root with one
folder, in pages of one item, makes a listing take several pages and a crawl
several cycles; three instants are one overlap and a crawl on either side of it.
Two tasks per connector meet at the gate; three redirects pass a trusted, a
foreign and a trusted host again.

### Fairness

`pool`: weak fairness of each call's steps.  Request threads are virtual threads
and always runnable unless they wait for a connection or a row lock; the first
wait ends in a connection or a timeout, the second when the other transaction
ends.  Nothing is assumed of crashes, of the clock or of new calls.
`ingestion`: weak fairness of the daemon's next step; the loop never ends and
every call it awaits returns or fails.  Failures are finite in number
(`MaxFaults`), which is the premise of convergence.
`zoho`: the same, for the cycle with the Zoho connector.
`chunkstore`: weak fairness of the rotation's next step; `main` awaits each call
in turn and nothing of the daemon's blocks it for ever.

## Findings

* `denials`: `authz_denial` and `chunk_budget_exceeded` are saved in a
  transaction that the denial itself rolls back, so only the file has them.
* `credentials_status`: a status set by hand is recomputed by the sweeper.
* `ingestion_restart`: before the first cursor is saved there is no link to
  resume from; a file deleted between two first crawls keeps its chunks.
* `vault_race`: the comment on `upsert` says that both of two concurrent calls
  converge on one token.  The loser's SELECT reads the snapshot from before it
  waited for the counter's lock, finds no row, and `fetch_one` is an error, so
  its text gets a placeholder.

Met while modelling, and named in properties rather than as violations, because
no document says otherwise: `pii_token_map` has the token alone as its primary
key while counters are per workspace, so the first token of a kind in a second
workspace collides (`FailuresExplained`); a finding that starts inside an
earlier one is dropped with the tail that sticks out of it
(`NothingShowsThrough`); a deleted folder left in a crawl's queue fails every
cycle from then on (`CrawlCatchesUp` exempts it); a rotation next to a running
daemon can miss rows (`LeftBehindBounded`); the comment at
`connector/mod.rs:43` says callers go on while `more` is set, and `run_cycle`
does not.

Row-level security and the two Rust programs do not fit together, and the premises
of two properties say where.  `V5__rls_document_chunks.sql:9` and
`docs/SECURITY_HARDENING.md` want `mcpuser` to be no superuser, and
`V14__rls_workspace_restrictive.sql:14-15` then shows no row to a connection that
has not set `app.mcp_client_id`, as neither program does.

* The key rotation's first page is empty, which it takes for the end
  (`tools/key-rotation/src/main.rs:105`): it reports "Complete" with every row
  under the old key.  `LeftBehindBounded` therefore speaks of an exempt role; with
  `exempt` taken out of it TLC finds `UpsertChunks`, `Harden`, `StartRotation`,
  `Complete`.
* The daemon's DELETE matches no row and is no error (`ingestion/src/main.rs:202`),
  so the cursor moves past a deletion while the chunks stay and can be found,
  although `V10__ingestion_state.sql:27` says that the daemon may delete chunks;
  its INSERTs fail, so every new document is skipped.  `CursorBehindStore` and
  `EventuallyCaughtUp` count such documents in `missed`.  (`docs/OVH_DEPLOYMENT.md`
  does not even grant DELETE; there the error is logged and the cursor moves on.)

## Proofs

`ToolCallProofs` proves, from `ConstantsAssumption` alone (finite sets of calls
and chunks; any keys, pool, cap and retention of at least one hour):

* `TypeCorrect`: `Spec => []TypeOK`;
* `Invariance`: the inductive invariant `Inv`, and from it
* `ContextIsolation`, `ScopeEnforced`, `NoConnectionLeak`, `DeliveryAudited`;
* `DbNeverAhead` (`DbEventsInFile`) and `NoFalseBlank` (`BlankMeansGone`);
* `BudgetRefinement`: `Spec => BudgetSpec`, and `BudgetCapped`: the abstract
  budget's promise, no counter above the cap, holds of the tool calls;
* `DeliveriesCapped` (`DeliveredWithinCap`) and `DeliveriesCharged`
  (`EveryDeliveryCharged`): the same promise for what clients have received.

`Inv` adds four facts to the type invariant and `RowsWithinScope`.  `ConnInv`
ties holding a connection to the point a call is at and makes holders exclusive;
without it a freed connection might still be someone's.  `ContextInv` says that
session-level settings are never set and that local ones are those of the open
RLS transaction; `RowsWithinScope` follows for the rows a step selects because
the settings are the caller's.  `ChargeInv` says that the total a call is about
to commit was computed from the count that is still committed, because the row
lock excludes a second charge, and that its window is still kept; this is what
makes `CommitBudget` a `Charge` of the abstract budget.  `AuditInv` follows an
"ok" from the open transaction to both sinks.  Each conjunct has a lemma with
one case per action.  Two further invariants rest on these.  `SinksInv` says that
the file already has what an open transaction has saved and that only a denial is
in the table first, for one step.  `FetchInv` says that a call which has fetched
in a healthy transaction has the text of every row it can read, and that an
aborted transaction never ends well; it needs `RowsWithinScope` and `ContextInv`,
for a readable row would also come out empty on a connection with another
caller's settings.

A counter within the cap says nothing yet of what was delivered: between the two
lie the second transaction's commit, the outer one's commit or rollback, and the
pruner.  `ChargedInv` spans them.  A call is `Charged` from `CommitBudget` until it
ends otherwise than well, and `ChargedChunks` are the pairs of such a call and a
chunk it holds against a key and a window; there are never more of them than the
cap, nor, while the window is kept, than the counter says.  Only `CommitBudget` adds
pairs (`NoOtherCharge`, `NoChargeElsewhere`), at most as many as its call has rows
(`PairsJoined`), and `ChargeInv` says that the total it writes counts these rows on
top of the committed count; every other step leaves the counter of a window that is
not stale as it is (`CountersKept`).  What is delivered was charged
(`DeliveredIsCharged`).  Sums over calls are cardinalities of sets of pairs here,
so the library's facts about finite sets are all the arithmetic needs.

`CredentialsProofs` proves `TypeCorrect`, `RevocationTakesHold`
(`ServedOnRecentRow`), `CodesAreSingleUse` (`CodeBuysOneToken`) and `TokensExpire`
(`TokenLifetimeBounded`) for any keys, requests, codes and lifetimes; the cache's
lifetime is at least one tick (it is 60 seconds).  `ServedOnRecentRow` says what
a request was served on and is not inductive: `LoadInv` says how old the rows of
a list are while it is being loaded, while it is in the cache and while a request
filters with it, and each hand-over adds one term of `CacheTtl + 2 * Delay`.
`DelayInv` bounds what a request may take.  `CodeInv` says that a code is in the
store, with one request that redeems it or in one token, never in two of them,
because `consume` removes what it returns; `LifeInv` that a request which redeems
a code took it before it expired.

`IngestionProofs` proves `TypeCorrect`, `CursorNeverAhead` (`CursorBehindStore`)
and, from the same invariant, the action property `StoreNeverBackwards`
(`NeverBackwards`), for any documents and any number of changes and faults.
`CycleInv` carries the cursor's promise to the cursor that the cycle is about to
save: each document is up to date with it or still in `todo`.  `TodoInv`,
`BodyInv` and `PositionInv` say that what is in hand was listed or downloaded at a
version between the stored one and the latest one, whatever happened to the drive
in between; that is why a replay cannot go backwards.  The version of a document
is the maximum of a set of positions; that it exists is proved from `WFMin` of the
library, by a least bound.

`AccessTokensProofs` proves `TypeCorrect` (`TokenTypeOK`), `OneRefreshPerLapse`
(`NoNeedlessRefresh`), `CachedTokensAlive` (`CachedTokenLives`) and
`TokensStayHome` (`TokenStaysHome`) of `TokenSpec`, the specification of that
module alone.  In `MCZoho` every step is a `TokenNext(t)` or leaves `tokenVars`
alone, so the run's behaviours are behaviours of `TokenSpec`.  `GateInv` is about
the FIFO queue: it has no task twice, it holds the Zoho tasks inside
`refresh_if_needed`, and only its head refreshes.  `LatencyInv` and `CacheInv`
say that what the cache takes off a token's life makes up for the time of the
answer, from `MaxLatency <= Safety`.  `TaskInv` says that a task which asks for a
token is about to talk to a trusted host.

`ZohoCrawlProofs` proves `TypeCorrect` (`CrawlTypeOK`) and `WatermarkHidesNothing`
(`WatermarkBehindStore`) of `CrawlSpec`, whose steps are those of `MCZoho` with
the tokens left alone, from `CrawlAssumption`: any drive that can be reached from
its root, any page size and number of changes and faults, and a drive whose clock
is no further behind than the overlap.  `WatermarkBehindStore` is not inductive:
it says nothing of the crawl that will set the next watermark. `StateInv`, which
holds of the cursor and of the state of the running cycle, adds that a file which
was changed before the crawl began and is not stored (not `Settled`) is listed
already, or the crawl has `Followed` it: in each folder it is through with, it has
come upon every folder above the file, and not upon the file.  When the queue is
drained, `InTree` makes that impossible (`DrainedCrawl`), so the start of the
crawl may become the watermark.  `PagesInv` says the same of the folder being
listed, up to the offset; it holds although the drive changes between pages,
because modified times only grow, so places only grow (`PlaceGrows` of
`PlacesProofs`) and nothing slips before the offset unseen; `PagePlaces` says that
a page leaves no place out. `DueChildren` is where the overlap is needed: a file
with a change to store, and the folders above it, pass the date filter.  `TodoInv`
says that an item listed as deleted still is, unless the file was changed since
the crawl began.  `SettledKept`, with one case per action, carries what is settled
over every step, whoever takes it.

`SanitizeProofs` proves, of the vault, `VaultTypeCorrect`, `CallsConverge`
(`CallsAgree`), `OnlyTheseFailures` (`FailuresExplained`), `TokensAlwaysDecode`
(`TokensDecode`) and `VaultRefines` (`Spec => TokenMapSpec`) for any tasks, texts
and workspaces, from `VaultAssumption`: `NoToken` and `Failed` are no tokens.
`MapInv` says that a stored token was minted by the counter of its value's
workspace and kind, below its present value; `LockInv` that the row lock keeps
others from the counter between the bump and the insert, so the number is new in
its workspace.  `CallInv` and `JobInv` tie what a call has seen and returned to
the map and to the span its task is at, and `OutInv` carries that to the output.
Nothing is assumed there about where the spans come from.

Of the sanitizer it proves `TypeCorrect` (`TypeOK`), `FindingsHidden`
(`NothingShowsThrough`), `RunsFound` (`BioMergeFindsRuns`) and `CheckDigitsTell`
(`WrongDigitRejected`), with `InputsAssumption` (every text `Fits` its matches and
tokens; TLC evaluates it on the run's texts).

* Check digits: changing one digit changes every remainder from there on, since 10 and
  100 have inverses modulo 97 (`FeedApart`, `OneDigitTells`), so neither validator
  accepts both numbers (`NirRejects`, `IbanRejects`).  A wrong digit of the NIR's
  department cannot turn it into a Corsican one, whose second character is a letter.
* `bio_merge`: after k tokens the open span is the run that reaches token k, or there
  is none (`OpenRun`); the closed ones are the runs that ended before
  (`ClosedRuns`); and all lie in the order of the text (`SpansPlaced`).  A token
  either extends the open run (`ExtendedStep`) or closes it and perhaps opens the
  next (`OtherStep`), so at the end all runs are found (`BioMergeMarks`).
* `merge_and_dedup`: the order of `Before` is total (`BeforeOrders`), and after k spans
  in that order each of the k is kept or begins inside one that is kept and that
  comes before it (`DedupedTo`, `DedupStep`, `MergeHides`).
* Substitution: `ClearInv`, on top of the vault's invariant, says of each task that
  up to where its text has been written each position is shown or was found, in
  order (`OutputInv`, `WrittenTo`), and that each finding starts under a span yet
  to be replaced or under one that has been (`FindingsInv`, `Hidden`).  `ClearBegun`,
  `ClearSubstituted` and `ClearFinished` carry it over the three kinds of steps;
  calls of the vault do not touch it.

`ChunkStoreProofs` proves `LittleLeftBehind` (`LeftBehindBounded`) and
`NothingUndone` (the action property `NeverUndone`) for any table, page size,
texts and number of rotations, writes, failures and redeployments.  `BatchInv`: a
row of the page is as it was read or gone for good, since ids are random.
`PendingInv`: the open transaction holds the row's own text under the new key, and
its locks keep the row there.  `HardenInv`: a role once hardened stays so.
`DoneInv`: what an exempt role has looked at is rewritten or needs nothing.  `CountInv` is the heart: the rows that lie behind the page and are not
under the new key are no more than the rows deleted since the run began.  A
deletion of n rows moves a row by at most n places (`RankAfterRemoval`), places
are not shared (`RowsFitPlaces`), so at most n rows slip behind the page; and an
empty page means that all rows lie behind it, because places have no gap
(`NoGap`).  What `chunk` and `embed_batch` return plays no part in these two.

It plays the whole part in `TypeCorrect` (`TypeOK`), `TextsCovered`
(`DocumentCovered`) and `EmbeddingsOwn` (`EmbeddingsMatch`), for texts of any
length, any window, stride and overlap that `ConstantsAssumption` allows, slices
of any size and answers in any order.  Three lemmas are about the operators: a
window that is not the first starts after one that did not reach the end, so it
has more than the overlap (`ChunksLong`); the windows leave out nothing but white
space, because a stride is no longer than a window (`ChunksCover`); and each text
gets its own embedding, because the indices of a slice are places
(`OneBatchEmbedded`, `BatchEmbedded`).  `ContentInv` carries that over the steps:
`TextInv` says it of the rows that are stored, `UpdateInv` of those the open
transaction is about to store (`BatchInv` has it that what was read is still the
row's text), and `PageInv` keeps the job's place within the table.

`PlacesProofs` proves what is true of any total order of a finite set: each
element has a place, places differ and have no gap, and so the arrangement lists
each element once, in order (`ArrangedHolds`, `AscendingHolds`, `SelectedHolds`).
It also holds the two forms of induction used above: a set of numbers that has 0
and the successor of each of its members up to n has all of 0..n (`Upwards`), and
a recursive function on 0..n takes the values its equation says (`Recursion`).
Both come from the least member of a set of naturals (`NatLessThanWellFounded` and
`WFMin` of the library).  That is why the loops of the model are recursive
functions on 0..n, and places cardinalities: nothing is proved by an induction
that takes an operator as a parameter.

Only model-checked, and why:

* `EveryCallEnds`, `EventuallyCaughtUp`, `RotationEnds`, `CrawlCatchesUp`:
  fairness and ENABLED are out of the prover's reach;
* the four violations, which are counterexamples and need no proof.

What `normalize` of the vault computes plays no part in any theorem: they hold
whatever value a text normalizes to.

## Limits

* The Graph listing is one step; that paging is consistent is Graph's promise.
* The time a call spends in `commitChunks` is assumed shorter than the
  retention (24 hours), and a request shorter than `Delay`.
* SQL runs at READ COMMITTED, the default the code never changes.
* The gateway, the daemon and the key rotation share one database role.  Whether
  row-level security applies to it decides what they can do: `ToolCall` assumes that
  it does, `ZohoCrawl` that it does not, and `Ingestion` and `ChunkStore` have both
  and the change between them, which takes effect at the next statement.  With the
  role the documents ask for, the gateway's scope is enforced and the daemon stores
  nothing; with a superuser's it is the other way round.
* `ZohoCrawl` leaves out that files and folders move, and `CursorInvalid` of
  `from_json` (`zoho.rs:609`), which only a cursor of another origin can cause.
* The round trip of an OAuth refresh is assumed no longer than the safety
  margin, and the clock of the Zoho API no further behind than the overlap.
* `Ingestion` and `ZohoCrawl` treat a document's chunks as one value;
  `ChunkStore` treats what the daemon stores as given.  They meet in
  `upsert_chunks`, which is one transaction.
* Not modelled yet: the rate limiter, the authorize form with its recovery
  cache, the embedding backfill, a second daemon during a rolling update.
* Not modelled: redirect validation and hashing (pure functions of strings),
  regular expressions, inference and tokenization of the NER model, the cipher,
  text extraction, HTTP clients and their retries, metrics, configuration.

## Plan

1. Done: `ToolCall`, `ChunkBudget`, their runs and proofs; `Credentials`;
   `Ingestion`; `ChunkStore` with the key rotation and the chunker; `Vault`,
   `TokenMap` and `Sanitize`; `ZohoCrawl` and `AccessTokens`.
2. Done: the proofs of all safety properties, action properties and refinements of
   `ToolCall`, `Credentials`, `Ingestion`, `ZohoCrawl`, `AccessTokens`, `ChunkStore`,
   `Vault` and `Sanitize`.
3. `RateLimiter`: the deque per address with the clock read before the lock and
   with eviction; how many requests a window can admit.
4. A second ingestion daemon during a rolling update; the authorize form.
