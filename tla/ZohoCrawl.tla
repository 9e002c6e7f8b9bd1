------------------------------ MODULE ZohoCrawl ------------------------------
(***************************************************************************)
(* The ingestion daemon's cycle with the Zoho WorkDrive connector.  A      *)
(* cycle lists one folder of a breadth-first crawl, page by page and from  *)
(* a date on, processes the files listed and saves the crawl's state as    *)
(* the cursor.  When the queue of folders is drained a cycle starts the    *)
(* next crawl, whose dates count from the start of the one before.         *)
(*                                                                         *)
(* The drive changes meanwhile, and its clock may be behind the daemon's.  *)
(* External, from how the code uses it: a listing holds every child whose  *)
(* modified_time is at or after the date given, in a fixed order and with  *)
(* its deleted children, and a change of a file touches the folders above. *)
(* The daemon's role is taken to be one that row-level security does not   *)
(* apply to; Ingestion has both roles.                                     *)
(***************************************************************************)
EXTENDS Integers, SequencesExt, FiniteSetsExt, Places

CONSTANTS
    Files, Folders, Root,
    Children,    \* Children[d] : the files and folders of folder d, in order
    PageSize,    \* items per page
    Overlap,     \* WATERMARK_OVERLAP_MS
    Skew,        \* how far the drive's clock may be behind
    MaxTime, MaxChanges, MaxFaults,   \* bounds of the model
    NoCursor

VARIABLES
    now,      \* now_ms()
    file,     \* file[f].ver counts its changes, file[f].at is when the last was
    mtime,    \* modified_time of files and folders
    gone,     \* folders deleted: listing one fails from then on
    store,    \* store[f] : the version whose chunks are stored, 0 for none
    cursor,   \* ingestion_state.delta_token
    cycle,    \* run_cycle
    changes,  \* changes of the drive so far
    faults,
    missed    \* history: files whose last item failed

crawlVars == <<now, file, mtime, gone, store, cursor, cycle, changes, faults, missed>>
driveVars == <<now, file, mtime, gone, changes>>

\* The folders an item is in, and all the folders above it: the fewest that
\* hold its parents and theirs.
Parents(i) == {d \in Folders : i \in Range(Children[d])}
Above ==
    [i \in Files \cup Folders |->
        {d \in Folders :
            \A S \in SUBSET Folders :
                Parents(i) \subseteq S /\ (\A e \in S : Parents(e) \subseteq S) => d \in S}]

\* From the root down, always through folders above it, one comes to the file.
InTree(f) ==
    \A S \in SUBSET Folders :
        /\ Root \in S
        /\ \A d \in S : Range(Children[d]) \cap Above[f] \subseteq S
        => S \cap Parents(f) # {}

ASSUME CrawlAssumption ==
    /\ Root \in Folders /\ Files \cap Folders = {}
    /\ Children \in [Folders -> Seq(Files \cup Folders)]
    /\ \A d \in Folders : IsInjective(Children[d]) /\ Root \notin Range(Children[d])
    /\ \A f \in Files : InTree(f)
    /\ PageSize \in Nat \ {0}
    /\ Overlap \in Nat /\ Skew \in 0..Overlap
    /\ MaxTime \in Nat /\ Overlap <= MaxTime /\ MaxChanges \in Nat /\ MaxFaults \in Nat

Content(f) == IF file[f].alive THEN file[f].ver ELSE 0

-----------------------------------------------------------------------------
Idle == [pc |-> "idle", state |-> NoCursor, folder |-> Root, offset |-> 0, todo |-> <<>>]

CrawlInit ==
    /\ now = Overlap
    /\ file = [f \in Files |-> [ver |-> 0, alive |-> FALSE, at |-> 0]]
    /\ mtime = [i \in Files \cup Folders |-> 0]
    /\ gone = {}
    /\ store = [f \in Files |-> 0]
    /\ cursor = NoCursor
    /\ cycle = Idle
    /\ changes = 0 /\ faults = 0 /\ missed = {}

(* The drive and its users.                                                *)

Tick == now < MaxTime /\ now' = now + 1
        /\ UNCHANGED <<file, mtime, gone, store, cursor, cycle, changes, faults, missed>>

Touch(i) ==
    \E m \in (now - Skew)..now :
        /\ m >= mtime[i]
        /\ mtime' = [j \in DOMAIN mtime |->
                        IF j = i \/ j \in Above[i] THEN Max({m, mtime[j]}) ELSE mtime[j]]

Changed == changes < MaxChanges /\ changes' = changes + 1

\* A user adds, edits, restores or deletes a file.
ChangeFile(f) ==
    /\ Changed /\ gone \cap Above[f] = {}
    /\ \E alive \in BOOLEAN :
        /\ alive \/ file[f].alive
        /\ file' = [file EXCEPT ![f] = [ver |-> @.ver + 1, alive |-> alive, at |-> now]]
    /\ Touch(f)
    /\ UNCHANGED <<now, gone, store, cursor, cycle, faults, missed>>

DeleteFolder(d) ==
    /\ Changed /\ d # Root /\ d \notin gone
    /\ gone' = gone \cup {d}
    /\ Touch(d)
    /\ UNCHANGED <<now, file, store, cursor, cycle, faults, missed>>

-----------------------------------------------------------------------------
(* list_changes.                                                           *)

bootstrap == [watermark |-> 0, queue |-> <<Root>>, visited |-> {}, run_started |-> now]

\* Mutant: the next crawl counts from the end of this one.
FromEnd(s) == [watermark |-> now, queue |-> <<Root>>, visited |-> {}, run_started |-> now]

\* Mutant: the folders visited are not forgotten.
StillVisited(s) == [watermark |-> s.run_started, queue |-> <<Root>>, visited |-> s.visited,
                    run_started |-> now]

\* The queue is drained: start the next crawl.
NextCrawl(s) == [watermark |-> s.run_started, queue |-> <<Root>>, visited |-> {},
                 run_started |-> now]

\* Mutant: no overlap.
FromWatermark(s) == s.watermark

from_ms(s) == Max({s.watermark - Overlap, 0})

Listed(i, from) == mtime[i] >= from /\ (i \in Files => file[i].ver > 0)

\* The children of d, by number, that a listing holds as the drive is now.
Due(d, from) == {n \in DOMAIN Children[d] : Listed(Children[d][n], from)}

\* One page: PageSize of them from an offset on.
Page(d, offset, from) ==
    {n \in Due(d, from) : Place(Due(d, from), n) \in offset..(offset + PageSize - 1)}

\* There are more behind it.
More(d, offset, from) == \E n \in Due(d, from) : Place(Due(d, from), n) >= offset + PageSize

LoadCursor == IF cursor = NoCursor THEN bootstrap ELSE cursor

\* A cycle begins: load_cursor, and pop a folder off the queue.
BeginListing ==
    /\ cycle.pc = "idle" /\ LoadCursor.queue # <<>>
    /\ cycle' = [pc |-> "list", state |-> [LoadCursor EXCEPT !.queue = Tail(@)],
                 folder |-> Head(LoadCursor.queue), offset |-> 0, todo |-> <<>>]
    /\ UNCHANGED <<driveVars, store, cursor, faults, missed>>

BeginNextCrawl ==
    /\ cycle.pc = "idle" /\ LoadCursor.queue = <<>>
    /\ cycle' = [Idle EXCEPT !.pc = "items", !.state = NextCrawl(LoadCursor)]
    /\ UNCHANGED <<driveVars, store, cursor, faults, missed>>

\* Mutant: the folders queued are not marked.
EnqueueUnmarked(s, new) == [s EXCEPT !.queue = @ \o new]

\* New subfolders are queued, deleted ones too, and marked as seen.
Enqueue(s, new) == [s EXCEPT !.queue = @ \o new, !.visited = @ \cup Range(new)]

Item(f) == [file |-> f, deleted |-> ~file[f].alive]

\* One turn of the loop.  The listing ends with the folder's last page, so the
\* branch that puts a half-listed folder back is never taken.
ListPage ==
    /\ cycle.pc = "list" /\ cycle.folder \notin gone
    /\ LET from == from_ms(cycle.state)
           page == Page(cycle.folder, cycle.offset, from)
           more == More(cycle.folder, cycle.offset, from)
           child == Children[cycle.folder]
           files == Ascending({n \in page : child[n] \in Files})
           unseen == Ascending({n \in page : child[n] \in Folders \ cycle.state.visited})
       IN  cycle' = [cycle EXCEPT
                !.state = Enqueue(@, [k \in DOMAIN unseen |-> child[unseen[k]]]),
                !.offset = IF more THEN @ + Cardinality(page) ELSE 0,
                !.todo = @ \o [k \in DOMAIN files |-> Item(child[files[k]])],
                !.pc = IF more THEN "list" ELSE "items"]
    /\ UNCHANGED <<driveVars, store, cursor, faults, missed>>

Fault == faults < MaxFaults /\ faults' = faults + 1

\* No token, throttled, an error status or a page that cannot be read: the
\* cycle ends and what it listed is lost.
ListFails ==
    /\ cycle.pc = "list"
    /\ \/ cycle.folder \in gone /\ UNCHANGED faults
       \/ cycle.folder \notin gone /\ Fault
    /\ cycle' = Idle
    /\ UNCHANGED <<driveVars, store, cursor, missed>>

-----------------------------------------------------------------------------
(* run_cycle.                                                              *)

NextItem == cycle' = [cycle EXCEPT !.todo = Tail(@)]

\* Deleted: remove the chunks.  Otherwise download the file as it is now and
\* replace them.
ProcessItem ==
    /\ cycle.pc = "items" /\ cycle.todo # <<>>
    /\ LET f == Head(cycle.todo).file
       IN  /\ Head(cycle.todo).deleted \/ (file[f].alive /\ gone \cap Above[f] = {})
           /\ store' = [store EXCEPT ![f] = IF Head(cycle.todo).deleted THEN 0 ELSE file[f].ver]
           /\ missed' = missed \ {f}
           /\ NextItem
    /\ UNCHANGED <<driveVars, cursor, faults>>

\* The file is gone, or a call fails: the loop goes on.
ItemFails ==
    /\ cycle.pc = "items" /\ cycle.todo # <<>>
    /\ LET f == Head(cycle.todo).file
       IN  /\ \/ /\ ~Head(cycle.todo).deleted
                 /\ ~file[f].alive \/ gone \cap Above[f] # {}
                 /\ UNCHANGED faults
              \/ Fault
           /\ missed' = missed \cup {f}
           /\ NextItem
    /\ UNCHANGED <<driveVars, store, cursor>>

ItemsDone == cycle.pc = "items" /\ cycle.todo = <<>>

SaveCursor ==
    /\ ItemsDone
    /\ cursor' = cycle.state
    /\ cycle' = Idle
    /\ UNCHANGED <<driveVars, store, faults, missed>>

\* save_cursor fails, or the daemon is restarted.
Interrupted ==
    /\ cycle.pc # "idle" /\ Fault
    /\ cycle' = Idle
    /\ UNCHANGED <<driveVars, store, cursor, missed>>

CrawlDaemon == BeginListing \/ BeginNextCrawl \/ ListPage \/ ListFails
               \/ ProcessItem \/ ItemFails \/ SaveCursor

CrawlNext ==
    \/ CrawlDaemon \/ Interrupted \/ Tick
    \/ \E f \in Files : ChangeFile(f)
    \/ \E d \in Folders : DeleteFolder(d)

CrawlSpec == CrawlInit /\ [][CrawlNext]_crawlVars

-----------------------------------------------------------------------------
(* Correctness.                                                            *)

CrawlTypeOK ==
    /\ now \in 0..MaxTime
    /\ file \in [Files -> [ver : 0..MaxChanges, alive : BOOLEAN, at : 0..MaxTime]]
    /\ mtime \in [Files \cup Folders -> 0..MaxTime]
    /\ gone \subseteq Folders
    /\ store \in [Files -> 0..MaxChanges]
    /\ cursor # NoCursor =>
        /\ cursor.watermark <= cursor.run_started /\ cursor.run_started <= now
        /\ Range(cursor.queue) \subseteq cursor.visited \cup {Root}
        /\ IsInjective(cursor.queue)
    /\ cycle.pc \in {"idle", "list", "items"}
    /\ Range(cycle.todo) \subseteq [file : Files, deleted : BOOLEAN]
    /\ missed \subseteq Files

\* Lost to the crawl: its last item failed, or it was in a deleted folder.
Lost(f) == f \in missed \/ gone \cap Above[f] # {}

\* list_changes, run_cycle: whatever interrupted the cycles, a change made
\* before the saved watermark is in the store, so the date filter of this and
\* of every later crawl hides nothing that is still to be stored.
WatermarkBehindStore ==
    cursor # NoCursor =>
        \A f \in Files :
            \/ Lost(f)
            \/ file[f].at >= cursor.watermark
            \/ store[f] = Content(f)

\* run_cycle, list_changes: once the drive stops changing, crawl after crawl
\* brings the store up to date, but for files whose item failed; a deleted
\* folder is exempt, for listing it fails each time and stops the crawl.
CrawlCatchesUp ==
    <>[](gone # {} \/ \A f \in Files : Lost(f) \/ store[f] = Content(f))
=============================================================================
