------------------------------ MODULE Ingestion ------------------------------
(***************************************************************************)
(* The ingestion daemon's poll cycle with the Microsoft Graph connector:   *)
(* load the cursor, list the changes since, delete or download and replace *)
(* each document's chunks, save the new cursor.  The drive changes while   *)
(* the cycle runs, every step may fail, and the daemon may be restarted    *)
(* between any two of them.  The daemon connects as the role of the        *)
(* gateway without the settings that the row-level-security policies read, *)
(* so what it may write depends on whether they apply to that role.        *)
(*                                                                         *)
(* The drive is the sequence of its changes; a document's version is the   *)
(* position of its last change, and a cursor is a position in the          *)
(* sequence.                                                               *)
(***************************************************************************)
EXTENDS Integers, Sequences, FiniteSetsExt

CONSTANTS
    Docs,        \* ids of the drive's files
    MaxChanges,  \* bound on the changes made to the drive
    MaxFaults,   \* bound on failed calls and restarts
    NoCursor,    \* no row in ingestion_state
    NoItem

VARIABLES
    feed,      \* the changes of the drive, oldest first
    exempt,    \* the role is a superuser's, which bypasses row-level security
    store,     \* store[d] : the version whose chunks are stored, 0 for none
    cursor,    \* ingestion_state.delta_token
    pc,        \* where run_cycle is
    todo,      \* the listed items not yet processed
    next,      \* next_cursor of the listing
    item,      \* the item that has been downloaded
    body,      \* the version of it that was downloaded
    faults,    \* failures so far
    missed,    \* history: documents whose last item ended without a write
    orphaned   \* history: stored documents that a full crawl did not list

vars == <<feed, exempt, store, cursor, pc, todo, next, item, body, faults, missed, orphaned>>
worldVars == <<feed, exempt>>
dbVars == <<store, cursor>>
cycleVars == <<pc, todo, next, item, body>>
historyVars == <<missed, orphaned>>

-----------------------------------------------------------------------------
\* What a change leaves behind: a file with text, a file extract_text or the
\* chunker makes nothing of, or no file.
Kinds == {"text", "empty", "gone"}
Versions == 0..MaxChanges

ASSUME ConstantsAssumption ==
    /\ MaxChanges \in Nat /\ MaxFaults \in Nat
    /\ NoCursor \notin Versions /\ NoItem \notin Docs

\* The last change of d among the first n, 0 if there is none.
VersionAt(d, n) == Max({0} \cup {i \in 1..n : feed[i].doc = d})
Version(d) == VersionAt(d, Len(feed))
KindOf(v) == IF v = 0 THEN "gone" ELSE feed[v].kind

Item == [doc : Docs, deleted : BOOLEAN]

\* Mutant: a listing without a cursor starts from now, as if nothing were new.
NothingNew(c) == {}

\* run_delta_cycle: without a cursor all files there are, with one every file
\* changed or deleted since, once each and as it is now.
Delta(c) ==
    {i \in Item :
        /\ i.deleted = (KindOf(Version(i.doc)) = "gone")
        /\ IF c = NoCursor THEN ~i.deleted ELSE Version(i.doc) > c}

-----------------------------------------------------------------------------
Init ==
    /\ feed = <<>> /\ exempt \in BOOLEAN
    /\ store = [d \in Docs |-> 0]
    /\ cursor = NoCursor
    /\ pc = "idle"
    /\ todo = {} /\ next = 0
    /\ item = NoItem /\ body = 0
    /\ faults = 0
    /\ missed = {} /\ orphaned = {}

\* A user adds, edits, restores or deletes a file.
ChangeDrive(d) ==
    /\ Len(feed) < MaxChanges
    /\ \E k \in Kinds :
        /\ k = "gone" => KindOf(Version(d)) # "gone"
        /\ feed' = Append(feed, [doc |-> d, kind |-> k])
    /\ UNCHANGED <<exempt, dbVars, cycleVars, faults, historyVars>>

\* The operator re-creates the role as NOSUPERUSER.
Harden ==
    /\ exempt /\ exempt' = FALSE
    /\ UNCHANGED <<feed, dbVars, cycleVars, faults, historyVars>>

Fault == faults < MaxFaults /\ faults' = faults + 1

\* Mutant: the cursor points past the last change.
NextCursorPastEnd == Len(feed) + 1

\* The @odata.deltaLink of the listing's last page.
NextCursor == Len(feed)

\* load_cursor and list_changes.
ListChanges ==
    /\ pc = "idle"
    /\ todo' = Delta(cursor)
    /\ next' = NextCursor
    /\ pc' = "items"
    /\ orphaned' = IF cursor = NoCursor
                     THEN {d \in Docs : store[d] # 0 /\ KindOf(Version(d)) = "gone"}
                     ELSE orphaned
    /\ UNCHANGED <<worldVars, dbVars, item, body, faults, missed>>

\* Either call fails and the cycle ends.
ListFails ==
    /\ pc = "idle" /\ Fault
    /\ UNCHANGED <<worldVars, dbVars, cycleVars, historyVars>>

\* The item is done with; the loop goes on whatever became of it.
Written(i) == /\ todo' = todo \ {i}
              /\ missed' = missed \ {i.doc} /\ orphaned' = orphaned \ {i.doc}
Skipped(i) == /\ todo' = todo \ {i}
              /\ missed' = missed \cup {i.doc} /\ UNCHANGED orphaned

\* The DELETE succeeds in either case; as a role that the policies apply to it
\* finds no row.  ingestion_state has no policies.
DeleteChunks(i) ==
    /\ pc = "items" /\ item = NoItem
    /\ i \in todo /\ i.deleted
    /\ \/ exempt /\ store' = [store EXCEPT ![i.doc] = 0] /\ Written(i) /\ UNCHANGED faults
       \/ ~exempt /\ Skipped(i) /\ UNCHANGED <<store, faults>>
       \/ Fault /\ Skipped(i) /\ UNCHANGED store
    /\ UNCHANGED <<worldVars, cursor, pc, next, item, body>>

\* Mutant: the bytes come from a cache that outlives the listing.
OnceServed(d) == {VersionAt(d, n) : n \in 0..Len(feed)}

\* What the pre-signed URL of a listed file may serve: the version listed or
\* any that has replaced it since.
Served(d) == {VersionAt(d, n) : n \in next..Len(feed)}

Download(i) ==
    /\ pc = "items" /\ item = NoItem
    /\ i \in todo /\ ~i.deleted
    /\ \E v \in Served(i.doc) :
        /\ KindOf(v) # "gone"
        /\ body' = v
    /\ item' = i.doc
    /\ UNCHANGED <<worldVars, dbVars, pc, todo, next, faults, historyVars>>

\* The file has been deleted since, or the request fails.
DownloadFails(i) ==
    /\ pc = "items" /\ item = NoItem
    /\ i \in todo /\ ~i.deleted
    /\ \/ KindOf(Version(i.doc)) = "gone" /\ UNCHANGED faults
       \/ Fault
    /\ Skipped(i)
    /\ UNCHANGED <<worldVars, dbVars, pc, next, item, body>>

\* No text or no chunks: continue, and the chunks of the version before stay.
NothingToStore(i) ==
    /\ item = i.doc /\ i \in todo
    /\ KindOf(body) = "empty"
    /\ Skipped(i)
    /\ item' = NoItem /\ body' = 0
    /\ UNCHANGED <<worldVars, dbVars, pc, next, faults>>

\* Chunk, encrypt, embed, then upsert_chunks: DELETE and INSERT in one
\* transaction.
UpsertChunks(i) ==
    /\ item = i.doc /\ i \in todo
    /\ KindOf(body) = "text" /\ exempt
    /\ store' = [store EXCEPT ![i.doc] = body]
    /\ Written(i)
    /\ item' = NoItem /\ body' = 0
    /\ UNCHANGED <<worldVars, cursor, pc, next, faults>>

\* One of those calls fails; the INSERT does when the policies apply.
UpsertFails(i) ==
    /\ item = i.doc /\ i \in todo
    /\ KindOf(body) = "text"
    /\ \/ Fault
       \/ ~exempt /\ UNCHANGED faults
    /\ Skipped(i)
    /\ item' = NoItem /\ body' = 0
    /\ UNCHANGED <<worldVars, dbVars, pc, next>>

\* Mutant: the cursor is saved as soon as the changes are listed.
SavesEarly == pc = "items" /\ item = NoItem

\* The loop over the changes is over.
ItemsDone == pc = "items" /\ item = NoItem /\ todo = {}

SaveCursor ==
    /\ ItemsDone
    /\ cursor' = next
    /\ pc' = "idle"
    /\ todo' = {} /\ next' = 0
    /\ UNCHANGED <<worldVars, store, item, body, faults, historyVars>>

\* save_cursor fails: the next cycle lists the same changes again.
SaveFails ==
    /\ ItemsDone /\ Fault
    /\ pc' = "idle" /\ next' = 0
    /\ UNCHANGED <<worldVars, dbVars, todo, item, body, historyVars>>

\* The pod is replaced in the middle of a cycle.
Restart ==
    /\ pc # "idle" /\ Fault
    /\ pc' = "idle" /\ todo' = {} /\ next' = 0
    /\ item' = NoItem /\ body' = 0
    /\ UNCHANGED <<worldVars, dbVars, historyVars>>

-----------------------------------------------------------------------------
ProcessItem ==
    \E i \in todo :
        \/ DeleteChunks(i) \/ Download(i) \/ DownloadFails(i) \/ NothingToStore(i)
        \/ UpsertChunks(i) \/ UpsertFails(i)

Daemon == ListChanges \/ ListFails \/ ProcessItem \/ SaveCursor \/ SaveFails

Next == Daemon \/ Restart \/ Harden \/ \E d \in Docs : ChangeDrive(d)

Spec == Init /\ [][Next]_vars

\* main's loop polls for ever and awaits every call, each of which returns.
FairSpec == Spec /\ WF_vars(Daemon)

-----------------------------------------------------------------------------
(* Correctness.                                                            *)

TypeOK ==
    /\ feed \in Seq([doc : Docs, kind : Kinds]) /\ Len(feed) <= MaxChanges
    /\ exempt \in BOOLEAN /\ store \in [Docs -> Versions]
    /\ cursor \in Versions \cup {NoCursor}
    /\ pc \in {"idle", "items"}
    /\ todo \subseteq Item
    /\ next \in Versions
    /\ item \in Docs \cup {NoItem}
    /\ body \in Versions
    /\ faults \in 0..MaxFaults
    /\ missed \subseteq Docs /\ orphaned \subseteq Docs

\* What is stored of d is what the drive held at position n or at a later one.
UpToDate(d, n) ==
    LET v == VersionAt(d, n)
    IN  \/ store[d] >= v
        \/ /\ store[d] = 0
           /\ \E w \in v..Len(feed) : feed[w] = [doc |-> d, kind |-> "gone"]

\* run_cycle, save_cursor: the cursor never runs ahead of the store.  Wherever
\* a restart or a failed save interrupted the cycle, every document is as new
\* as the saved cursor says, unless its own item failed or had no text, or it
\* vanished before a first crawl was completed.
CursorBehindStore ==
    cursor # NoCursor =>
        \A d \in Docs : d \in missed \cup orphaned \/ UpToDate(d, cursor)

\* upsert_chunks, delete_chunks: replaying a listing after a restart never
\* puts an older version back over a newer one.
NeverBackwards ==
    [][\A d \in Docs : store'[d] # 0 => store'[d] >= store[d]]_vars

\* main: once the drive stops changing and the failures are over, the store
\* catches up with it, but for the documents lost on the way.
EventuallyCaughtUp ==
    <>[](\A d \in Docs : d \in missed \cup orphaned \/ UpToDate(d, Len(feed)))

\* ingestion-deployment.yaml, "any restart resumes cleanly from the last saved
\* @odata.deltaLink": when no item failed, a completed cycle leaves nothing
\* stored that the drive had dropped.  It may: a first crawl that is cut short
\* has no link to resume from, and a second one does not list what is gone.
RestartResumesCleanly ==
    cursor # NoCursor =>
        \A d \in Docs : d \in missed \/ UpToDate(d, cursor)
=============================================================================
