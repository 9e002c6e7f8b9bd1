--------------------------- MODULE ZohoCrawlProofs ---------------------------
(***************************************************************************)
(* Proofs about ZohoCrawl for every drive, page size, overlap and number   *)
(* of changes and faults.                                                  *)
(***************************************************************************)
EXTENDS ZohoCrawl, PlacesProofs, SequenceTheorems

-----------------------------------------------------------------------------
(* The inductive invariant.                                                *)

States == [watermark : Nat, queue : Seq(Folders), visited : SUBSET Folders, run_started : Nat]

\* A change shows in the listings of all the folders above the file, but for
\* the drive's clock.
DriveInv ==
    /\ now \in 0..MaxTime /\ changes \in 0..MaxChanges
    /\ file \in [Files -> [ver : 0..MaxChanges, alive : BOOLEAN, at : 0..MaxTime]]
    /\ mtime \in [Files \cup Folders -> 0..MaxTime]
    /\ gone \subseteq Folders
    /\ store \in [Files -> Nat]
    /\ missed \subseteq Files
    /\ \A f \in Files :
        /\ store[f] <= file[f].ver /\ file[f].ver <= changes
        /\ file[f].alive => file[f].ver > 0
        /\ \A i \in {f} \cup Above[f] : mtime[i] + Skew >= file[f].at

\* Nothing that was changed before w is left to store.
Settled(f, w) == Lost(f) \/ file[f].at >= w \/ store[f] = Content(f)

\* The folders a crawl has listed to the end.
Through(s, current) == ({Root} \cup s.visited) \ (Range(s.queue) \cup current)

\* It has come upon every folder above f in them, and not upon f.
Followed(f, s, current) ==
    \A d \in Through(s, current) :
        Range(Children[d]) \cap ({f} \cup Above[f]) \subseteq {Root} \cup s.visited

\* A crawl hides nothing that is still to be stored.  What was changed before
\* it began is stored, listed, or in a folder it has not come to.
StateInv(s, current, files) ==
    /\ s \in States
    /\ s.watermark <= s.run_started /\ s.run_started <= now
    /\ Range(s.queue) \subseteq s.visited \cup {Root}
    /\ IsInjective(s.queue)
    /\ \A f \in Files :
        /\ Settled(f, s.watermark)
        /\ Settled(f, s.run_started) \/ f \in files \/ Followed(f, s, current)

CursorInv == cursor # NoCursor => StateInv(cursor, {}, {})

Waiting == {cycle.todo[k].file : k \in DOMAIN cycle.todo}
Current == IF cycle.pc = "list" THEN {cycle.folder} ELSE {}

\* Of the folder a cycle is listing, the same up to the offset.
PagesInv ==
    LET s == cycle.state
        child == Children[cycle.folder]
    IN  \A f \in Files :
            \/ Settled(f, s.run_started) \/ f \in Waiting
            \/ \A n \in DOMAIN child :
                /\ child[n] \in {f} \cup Above[f]
                /\ Place(Due(cycle.folder, from_ms(s)), n) < cycle.offset
                => child[n] \in {Root} \cup s.visited

\* An item listed as deleted is, unless the file was restored meanwhile.
TodoInv ==
    \A k \in DOMAIN cycle.todo :
        LET f == cycle.todo[k].file
        IN  cycle.todo[k].deleted => ~file[f].alive \/ file[f].at >= cycle.state.run_started

Cycles == [pc : {"idle", "list", "items"}, state : States \cup {NoCursor}, folder : Folders,
           offset : Nat, todo : Seq([file : Files, deleted : BOOLEAN])]

CycleInv ==
    /\ cycle \in Cycles
    /\ cycle.pc # "idle" =>
        /\ StateInv(cycle.state, Current, Waiting)
        /\ cursor # NoCursor => cursor.run_started <= cycle.state.run_started
        /\ TodoInv
    /\ cycle.pc = "list" => PagesInv

Inv == DriveInv /\ CursorInv /\ CycleInv

-----------------------------------------------------------------------------
(* The drive.                                                              *)

LEMMA MaxOfTwo ==
    ASSUME NEW a \in Int, NEW b \in Int
    PROVE  Max({a, b}) \in {a, b} /\ Max({a, b}) >= a /\ Max({a, b}) >= b
  <1>1. \E x \in {a, b} : \A y \in {a, b} : x >= y
    <2>1. CASE a >= b
      BY <2>1
    <2>2. CASE ~(a >= b)
      <3>1. b >= a
        BY <2>2
      <3> QED
        BY <3>1
    <2> QED
      BY <2>1, <2>2
  <1>2. Max({a, b}) \in {a, b} /\ \A y \in {a, b} : Max({a, b}) >= y
    BY <1>1 DEF Max
  <1> QED
    BY <1>2

LEMMA AboveAreFolders == \A i \in Files \cup Folders : Above[i] \subseteq Folders
  BY DEF Above

\* Modified times only grow, up to now.
LEMMA TouchGrows ==
    ASSUME DriveInv, NEW i \in Files \cup Folders, Touch(i)
    PROVE  /\ mtime' \in [Files \cup Folders -> 0..MaxTime]
           /\ \A j \in Files \cup Folders : mtime'[j] >= mtime[j]
           /\ \A j \in {i} \cup Above[i] : mtime'[j] + Skew >= now
  <1>1. PICK m \in (now - Skew)..now :
            /\ m >= mtime[i]
            /\ mtime' = [j \in DOMAIN mtime |->
                            IF j = i \/ j \in Above[i] THEN Max({m, mtime[j]}) ELSE mtime[j]]
    BY DEF Touch
  <1>2. now \in 0..MaxTime /\ DOMAIN mtime = Files \cup Folders /\ Skew \in Nat /\ MaxTime \in Nat
    BY CrawlAssumption DEF DriveInv
  <1>3. \A j \in Files \cup Folders : mtime[j] \in 0..MaxTime
    BY DEF DriveInv
  <1>4. m \in 0..MaxTime /\ m + Skew >= now
    BY <1>1, <1>2, <1>3
  <1>5. m \in Int /\ \A j \in Files \cup Folders : mtime[j] \in Int
    BY <1>3, <1>4
  <1>6. \A j \in Files \cup Folders : mtime'[j] \in 0..MaxTime /\ mtime'[j] >= mtime[j]
    <2> SUFFICES ASSUME NEW j \in Files \cup Folders
                 PROVE  mtime'[j] \in 0..MaxTime /\ mtime'[j] >= mtime[j]
      OBVIOUS
    <2>1. mtime'[j] = mtime[j] \/ mtime'[j] = Max({m, mtime[j]})
      BY <1>1, <1>2
    <2>2. Max({m, mtime[j]}) \in {m, mtime[j]} /\ Max({m, mtime[j]}) >= mtime[j]
      BY <1>5, MaxOfTwo
    <2> QED
      BY <1>3, <1>4, <2>1, <2>2
  <1>7. \A j \in {i} \cup Above[i] : mtime'[j] >= m
    <2> SUFFICES ASSUME NEW j \in {i} \cup Above[i] PROVE mtime'[j] >= m
      OBVIOUS
    <2>1. j \in Files \cup Folders
      BY AboveAreFolders
    <2>2. mtime'[j] = Max({m, mtime[j]})
      BY <1>1, <1>2, <2>1
    <2>3. Max({m, mtime[j]}) >= m
      BY <1>5, <2>1, MaxOfTwo
    <2> QED
      BY <2>2, <2>3
  <1>8. \A j \in {i} \cup Above[i] : mtime'[j] + Skew >= now
    <2> SUFFICES ASSUME NEW j \in {i} \cup Above[i] PROVE mtime'[j] + Skew >= now
      OBVIOUS
    <2>1. j \in Files \cup Folders
      BY AboveAreFolders
    <2> QED
      BY <1>2, <1>4, <1>6, <1>7, <2>1
  <1>9. mtime' \in [Files \cup Folders -> 0..MaxTime]
    BY <1>1, <1>2, <1>6
  <1> QED
    BY <1>6, <1>8, <1>9

LEMMA ChangeFileDrive ==
    ASSUME DriveInv, NEW g \in Files, ChangeFile(g)
    PROVE  /\ DriveInv'
           /\ \A f \in Files : file'[f].ver >= file[f].ver
           /\ \A f \in Files : file'[f] = file[f] \/ file'[f].at = now
  <1>1. /\ mtime' \in [Files \cup Folders -> 0..MaxTime]
        /\ \A j \in Files \cup Folders : mtime'[j] >= mtime[j]
        /\ \A j \in {g} \cup Above[g] : mtime'[j] + Skew >= now
    <2>1. g \in Files \cup Folders /\ Touch(g)
      BY DEF ChangeFile
    <2> QED
      BY <2>1, TouchGrows
  <1>2. PICK alive \in BOOLEAN :
            /\ alive \/ file[g].alive
            /\ file' = [file EXCEPT ![g] = [ver |-> @.ver + 1, alive |-> alive, at |-> now]]
    BY DEF ChangeFile
  <1>3. /\ changes < MaxChanges /\ changes' = changes + 1 /\ now' = now /\ gone' = gone
        /\ store' = store /\ missed' = missed
    BY DEF ChangeFile, Changed
  <1>4. /\ changes \in 0..MaxChanges /\ MaxChanges \in Nat /\ MaxTime \in Nat /\ Skew \in Nat
        /\ now \in 0..MaxTime
    BY CrawlAssumption DEF DriveInv
  <1>5. \A f \in Files :
            /\ file[f] \in [ver : 0..MaxChanges, alive : BOOLEAN, at : 0..MaxTime]
            /\ file[f].ver <= changes /\ store[f] <= file[f].ver /\ store[f] \in Nat
            /\ file[f].alive => file[f].ver > 0
            /\ \A i \in {f} \cup Above[f] : mtime[i] + Skew >= file[f].at
    BY DEF DriveInv
  <1>6. file'[g] = [ver |-> file[g].ver + 1, alive |-> alive, at |-> now]
    BY <1>2 DEF DriveInv
  <1>7. \A f \in Files \ {g} : file'[f] = file[f]
    BY <1>2 DEF DriveInv
  <1>8. file' \in [Files -> [ver : 0..MaxChanges, alive : BOOLEAN, at : 0..MaxTime]]
    <2>1. file[g].ver + 1 \in 0..MaxChanges
      BY <1>3, <1>4, <1>5
    <2>2. file'[g] \in [ver : 0..MaxChanges, alive : BOOLEAN, at : 0..MaxTime]
      BY <1>4, <1>6, <2>1
    <2>3. DOMAIN file' = Files
      BY <1>2 DEF DriveInv
    <2>4. file' = [f \in Files |-> file'[f]]
      BY <1>2, <2>3 DEF DriveInv
    <2>5. \A f \in Files : file'[f] \in [ver : 0..MaxChanges, alive : BOOLEAN, at : 0..MaxTime]
      BY <1>5, <1>7, <2>2
    <2> QED
      BY <2>4, <2>5
  <1>9. ASSUME NEW f \in Files
        PROVE  /\ store'[f] <= file'[f].ver /\ file'[f].ver <= changes'
               /\ file'[f].alive => file'[f].ver > 0
               /\ \A i \in {f} \cup Above[f] : mtime'[i] + Skew >= file'[f].at
               /\ file'[f].ver >= file[f].ver
               /\ file'[f] = file[f] \/ file'[f].at = now
    <2>1. CASE f = g
      <3>1. file'[f].ver = file[f].ver + 1 /\ file'[f].at = now
        BY <1>6, <2>1
      <3>2. file[f].ver \in Nat /\ store[f] \in Nat
        BY <1>5
      <3>3. store'[f] <= file'[f].ver /\ file'[f].ver <= changes' /\ file'[f].ver > 0
        BY <1>3, <1>4, <1>5, <3>1, <3>2
      <3>4. \A i \in {f} \cup Above[f] : mtime'[i] + Skew >= file'[f].at
        BY <1>1, <2>1, <3>1
      <3>5. file'[f].ver >= file[f].ver
        BY <3>1, <3>2
      <3> QED
        BY <3>1, <3>3, <3>4, <3>5
    <2>2. CASE f # g
      <3>1. file'[f] = file[f]
        BY <1>7, <2>2
      <3>2. \A i \in {f} \cup Above[f] : mtime'[i] + Skew >= file[f].at
        <4> SUFFICES ASSUME NEW i \in {f} \cup Above[f] PROVE mtime'[i] + Skew >= file[f].at
          OBVIOUS
        <4>1. i \in Files \cup Folders
          BY AboveAreFolders
        <4>2. mtime'[i] >= mtime[i] /\ mtime'[i] \in Int /\ mtime[i] \in Int
          BY <1>1, <4>1 DEF DriveInv
        <4>3. mtime[i] + Skew >= file[f].at /\ file[f].at \in Int
          BY <1>5
        <4> QED
          BY <1>4, <4>2, <4>3
      <3> QED
        BY <1>3, <1>4, <1>5, <3>1, <3>2
    <2> QED
      BY <2>1, <2>2
  <1>10. changes' \in 0..MaxChanges
    BY <1>3, <1>4
  <1>11. DriveInv'
    BY <1>1, <1>3, <1>8, <1>9, <1>10 DEF DriveInv
  <1> QED
    BY <1>9, <1>11

LEMMA DeleteFolderDrive ==
    ASSUME DriveInv, NEW d \in Folders, DeleteFolder(d)
    PROVE  DriveInv'
  <1>1. /\ mtime' \in [Files \cup Folders -> 0..MaxTime]
        /\ \A j \in Files \cup Folders : mtime'[j] >= mtime[j]
    <2>1. d \in Files \cup Folders /\ Touch(d)
      BY DEF DeleteFolder
    <2> QED
      BY <2>1, TouchGrows
  <1>2. /\ changes < MaxChanges /\ changes' = changes + 1 /\ now' = now /\ gone' = gone \cup {d}
        /\ store' = store /\ missed' = missed /\ file' = file
    BY DEF DeleteFolder, Changed
  <1>3. changes \in 0..MaxChanges /\ MaxChanges \in Nat /\ Skew \in Nat
    BY CrawlAssumption DEF DriveInv
  <1>4. ASSUME NEW f \in Files, NEW i \in {f} \cup Above[f]
        PROVE  mtime'[i] + Skew >= file[f].at
    <2>1. i \in Files \cup Folders
      BY AboveAreFolders
    <2>2. mtime'[i] >= mtime[i] /\ mtime'[i] \in Int /\ mtime[i] \in Int
      BY <1>1, <2>1 DEF DriveInv
    <2>3. mtime[i] + Skew >= file[f].at /\ file[f].at \in Int
      BY DEF DriveInv
    <2> QED
      BY <1>3, <2>2, <2>3
  <1>5. \A f \in Files : file[f].ver <= changes'
    <2>1. \A f \in Files : file[f].ver <= changes /\ file[f].ver \in Int
      BY DEF DriveInv
    <2> QED
      BY <1>2, <1>3, <2>1
  <1>6. changes' \in 0..MaxChanges
    BY <1>2, <1>3
  <1> QED
    BY <1>1, <1>2, <1>4, <1>5, <1>6 DEF DriveInv
-----------------------------------------------------------------------------
(* Items.                                                                  *)

Items == [file : Files, deleted : BOOLEAN]

LEMMA HeadItem ==
    ASSUME NEW todo \in Seq(Items), todo # <<>>
    PROVE  /\ 1 \in DOMAIN todo /\ Head(todo) = todo[1] /\ Head(todo) \in Items
           /\ Tail(todo) \in Seq(Items)
           /\ \A k \in DOMAIN Tail(todo) : k + 1 \in DOMAIN todo /\ Tail(todo)[k] = todo[k + 1]
           /\ \A k \in DOMAIN todo :
                k = 1 \/ (k - 1 \in DOMAIN Tail(todo) /\ Tail(todo)[k - 1] = todo[k])
  <1>1. Len(todo) \in Nat \ {0} /\ DOMAIN todo = 1..Len(todo)
    BY EmptySeq, LenProperties
  <1>2. /\ Head(todo) = todo[1] /\ Head(todo) \in Items
        /\ Tail(todo) \in Seq(Items) /\ Len(Tail(todo)) = Len(todo) - 1
        /\ \A k \in 1..Len(Tail(todo)) : Tail(todo)[k] = todo[k + 1]
    BY HeadTailProperties
  <1>3. DOMAIN Tail(todo) = 1..(Len(todo) - 1)
    BY <1>2, LenProperties
  <1> QED
    BY <1>1, <1>2, <1>3

LEMMA ItemTypes ==
    ASSUME Inv, ProcessItem \/ ItemFails
    PROVE  /\ cycle.todo \in Seq(Items) /\ cycle.todo # <<>> /\ cycle.pc = "items"
           /\ Head(cycle.todo).file \in Files
           /\ cycle.state \in States
           /\ cycle' = [cycle EXCEPT !.todo = Tail(@)]
  <1>1. cycle.todo # <<>> /\ cycle.pc = "items" /\ NextItem
    BY DEF ProcessItem, ItemFails
  <1>2. cycle.todo \in Seq(Items) /\ cycle.state \in States
    BY <1>1 DEF Inv, CycleInv, Cycles, StateInv, Items
  <1>3. Head(cycle.todo) \in Items
    BY <1>1, <1>2, HeadItem
  <1> QED
    BY <1>1, <1>2, <1>3 DEF NextItem, Items

\* What a step does with an item, the store then shows, unless the file has
\* been changed since the crawl began.
LEMMA ItemSettled ==
    ASSUME Inv, ProcessItem \/ ItemFails, NEW f, f = Head(cycle.todo).file,
           NEW w \in Nat, w <= cycle.state.run_started
    PROVE  Settled(f, w)'
  <1>1. f \in Files /\ cycle.todo \in Seq(Items) /\ cycle.todo # <<>> /\ cycle.pc = "items"
    BY ItemTypes
  <1>2. /\ file[f] \in [ver : 0..MaxChanges, alive : BOOLEAN, at : 0..MaxTime]
        /\ DOMAIN store = Files
    BY <1>1 DEF Inv, DriveInv
  <1>3. CASE ItemFails
    BY <1>3 DEF ItemFails, Settled, Lost, driveVars
  <1>4. CASE ProcessItem
    <2>1. /\ file' = file
          /\ Head(cycle.todo).deleted \/ file[f].alive
          /\ store'[f] = IF Head(cycle.todo).deleted THEN 0 ELSE file[f].ver
      BY <1>1, <1>2, <1>4 DEF ProcessItem, driveVars
    <2>2. CASE ~Head(cycle.todo).deleted
      <3>1. store'[f] = file[f].ver /\ file[f].alive
        BY <2>1, <2>2
      <3> QED
        BY <2>1, <3>1 DEF Settled, Content
    <2>3. CASE Head(cycle.todo).deleted
      <3>1. store'[f] = 0
        BY <2>1, <2>3
      <3>2. ~file[f].alive \/ file[f].at >= cycle.state.run_started
        <4>1. TodoInv
          BY <1>1 DEF Inv, CycleInv
        <4> QED
          BY <1>1, <2>3, <4>1, HeadItem DEF TodoInv
      <3>3. ~file[f].alive \/ file[f].at >= w
        <4>1. cycle.state.run_started \in Nat /\ file[f].at \in Nat
          BY <1>2, ItemTypes DEF States
        <4> QED
          BY <3>2, <4>1
      <3> QED
        BY <2>1, <3>1, <3>3 DEF Settled, Content
    <2> QED
      BY <2>2, <2>3
  <1> QED
    BY <1>3, <1>4

\* What is in the store at a time stays there.
LEMMA SettledKept ==
    ASSUME Inv, CrawlNext, NEW f \in Files, NEW w \in Nat, w <= now,
           cycle.pc = "items" => w <= cycle.state.run_started,
           Settled(f, w)
    PROVE  Settled(f, w)'
  <1>1. CASE \E g \in Files : ChangeFile(g)
    <2>1. PICK g \in Files : ChangeFile(g)
      BY <1>1
    <2>2. file'[f] = file[f] \/ file'[f].at = now
      BY <2>1, ChangeFileDrive DEF Inv
    <2>3. store' = store /\ gone' = gone /\ missed' = missed
      BY <2>1 DEF ChangeFile
    <2>4. now \in Nat
      BY CrawlAssumption DEF Inv, DriveInv
    <2> QED
      BY <2>2, <2>3, <2>4 DEF Settled, Lost, Content
  <1>2. CASE \E d \in Folders : DeleteFolder(d)
    BY <1>2 DEF DeleteFolder, Settled, Lost, Content
  <1>3. CASE ProcessItem \/ ItemFails
    <2>1. cycle.pc = "items"
      BY <1>3, ItemTypes
    <2>2. CASE f = Head(cycle.todo).file
      BY <1>3, <2>1, <2>2, ItemSettled
    <2>3. CASE f # Head(cycle.todo).file
      <3>1. CASE ProcessItem
        <4>1. store'[f] = store[f] /\ (f \in missed => f \in missed') /\ file' = file /\ gone' = gone
          BY <2>3, <3>1 DEF ProcessItem, driveVars, Inv, DriveInv
        <4> QED
          BY <4>1 DEF Settled, Lost, Content
      <3>2. CASE ItemFails
        BY <3>2 DEF ItemFails, driveVars, Settled, Lost, Content
      <3> QED
        BY <1>3, <3>1, <3>2
    <2> QED
      BY <2>2, <2>3
  <1>4. CASE Tick \/ BeginListing \/ BeginNextCrawl \/ ListPage \/ ListFails \/ SaveCursor
             \/ Interrupted
    <2>1. file' = file /\ store' = store /\ gone' = gone /\ missed' = missed
      BY <1>4 DEF Tick, BeginListing, BeginNextCrawl, ListPage, ListFails, SaveCursor,
                  Interrupted, driveVars
    <2> QED
      BY <2>1 DEF Settled, Lost, Content
  <1> QED
    BY <1>1, <1>2, <1>3, <1>4 DEF CrawlNext, CrawlDaemon

LEMMA DriveKept ==
    ASSUME Inv, CrawlNext
    PROVE  DriveInv' /\ now' >= now /\ now' \in Nat
  <1>1. now \in 0..MaxTime /\ MaxTime \in Nat
    BY CrawlAssumption DEF Inv, DriveInv
  <1>2. CASE \E g \in Files : ChangeFile(g)
    <2>1. PICK g \in Files : ChangeFile(g)
      BY <1>2
    <2>2. DriveInv'
      BY <2>1, ChangeFileDrive DEF Inv
    <2> QED
      BY <1>1, <2>1, <2>2 DEF ChangeFile
  <1>3. CASE \E d \in Folders : DeleteFolder(d)
    <2>1. PICK d \in Folders : DeleteFolder(d)
      BY <1>3
    <2>2. DriveInv'
      BY <2>1, DeleteFolderDrive DEF Inv
    <2> QED
      BY <1>1, <2>1, <2>2 DEF DeleteFolder
  <1>4. CASE Tick
    <2>1. now' \in 0..MaxTime /\ now' >= now
      BY <1>1, <1>4 DEF Tick
    <2> QED
      BY <1>4, <2>1 DEF Tick, Inv, DriveInv
  <1>5. CASE ProcessItem \/ ItemFails
    <2>1. UNCHANGED driveVars /\ missed' \subseteq Files
      BY <1>5, ItemTypes DEF ProcessItem, ItemFails, Inv, DriveInv
    <2>2. store' \in [Files -> Nat] /\ \A f \in Files : store'[f] <= file[f].ver
      <3>1. CASE ItemFails
        BY <3>1 DEF ItemFails, Inv, DriveInv
      <3>2. CASE ProcessItem
        <4> DEFINE g == Head(cycle.todo).file
        <4>1. g \in Files /\ file[g].ver \in Nat /\ store \in [Files -> Nat]
          BY <1>5, ItemTypes DEF Inv, DriveInv
        <4>2. PICK v \in {0, file[g].ver} : store' = [store EXCEPT ![g] = v]
          BY <3>2 DEF ProcessItem
        <4>3. v \in Nat /\ v <= file[g].ver
          BY <4>1
        <4> HIDE DEF g
        <4>4. \A f \in Files : store'[f] = IF f = g THEN v ELSE store[f]
          BY <4>1, <4>2
        <4>5. store' \in [Files -> Nat]
          BY <4>1, <4>2, <4>3
        <4> QED
          BY <4>3, <4>4, <4>5 DEF Inv, DriveInv
      <3> QED
        BY <1>5, <3>1, <3>2
    <2> QED
      BY <1>1, <2>1, <2>2 DEF Inv, DriveInv, driveVars
  <1>6. CASE BeginListing \/ BeginNextCrawl \/ ListPage \/ ListFails \/ SaveCursor
             \/ Interrupted
    <2>1. UNCHANGED <<driveVars, store, missed>>
      BY <1>6 DEF BeginListing, BeginNextCrawl, ListPage, ListFails, SaveCursor, Interrupted
    <2> QED
      BY <1>1, <2>1 DEF Inv, DriveInv, driveVars
  <1> QED
    BY <1>2, <1>3, <1>4, <1>5, <1>6 DEF CrawlNext, CrawlDaemon
-----------------------------------------------------------------------------
(* Crawls.                                                                 *)

\* A crawl that is not advanced loses nothing.
LEMMA StateKept ==
    ASSUME Inv, CrawlNext, NEW s, NEW current, NEW T, NEW U, StateInv(s, current, T),
           cycle.pc = "items" => s.run_started <= cycle.state.run_started,
           \A f \in T : f \in U \/ Settled(f, s.run_started)'
    PROVE  StateInv(s, current, U)'
  <1>1. s \in States /\ s.watermark \in Nat /\ s.run_started \in Nat
    BY DEF StateInv, States
  <1>2. s.watermark <= s.run_started /\ s.run_started <= now /\ now \in Nat
    BY CrawlAssumption DEF StateInv, Inv, DriveInv
  <1>3. cycle.pc = "items" => cycle.state.run_started \in Nat
    BY DEF Inv, CycleInv, StateInv, States
  <1>4. s.run_started <= now'
    BY <1>1, <1>2, DriveKept
  <1>5. ASSUME NEW f \in Files
        PROVE  /\ Settled(f, s.watermark)'
               /\ Settled(f, s.run_started)' \/ f \in U \/ Followed(f, s, current)
    <2>1. Settled(f, s.watermark) => Settled(f, s.watermark)'
      BY <1>1, <1>2, <1>3, SettledKept
    <2>2. Settled(f, s.run_started) => Settled(f, s.run_started)'
      BY <1>1, <1>2, <1>3, SettledKept
    <2> QED
      BY <2>1, <2>2 DEF StateInv
  <1>6. /\ s \in States /\ s.watermark <= s.run_started
        /\ Range(s.queue) \subseteq s.visited \cup {Root} /\ IsInjective(s.queue)
    BY DEF StateInv
  <1> QED
    BY <1>4, <1>5, <1>6 DEF StateInv

LEMMA CursorKept ==
    ASSUME Inv, CrawlNext, cursor' = cursor
    PROVE  CursorInv'
  <1> SUFFICES ASSUME cursor # NoCursor PROVE StateInv(cursor, {}, {})'
    BY DEF CursorInv
  <1>1. PICK s : s = cursor
    OBVIOUS
  <1>2. StateInv(s, {}, {})
    BY <1>1 DEF Inv, CursorInv
  <1>3. cycle.pc = "items" => s.run_started <= cycle.state.run_started
    BY <1>1 DEF Inv, CycleInv
  <1>4. StateInv(s, {}, {})'
    BY <1>2, <1>3, StateKept
  <1>5. s = cursor'
    BY <1>1
  <1> QED
    BY <1>4, <1>5 DEF StateInv, Settled, Lost, Content

\* The same for the state and the items of a cycle that does not list.
LEMMA CycleKept ==
    ASSUME Inv, CrawlNext, cursor' = cursor, cycle.pc # "idle",
           cycle'.pc = cycle.pc, cycle'.state = cycle.state, cycle'.folder = cycle.folder,
           \A f \in Waiting : f \in Waiting' \/ Settled(f, cycle.state.run_started)'
    PROVE  StateInv(cycle.state, Current, Waiting)'
  <1>1. PICK s : s = cycle.state
    OBVIOUS
  <1>2. PICK current : current = Current
    OBVIOUS
  <1>3. PICK T : T = Waiting
    OBVIOUS
  <1>4. PICK U : U = Waiting'
    OBVIOUS
  <1>5. StateInv(s, current, T)
    BY <1>1, <1>2, <1>3 DEF Inv, CycleInv
  <1>6. s.run_started <= cycle.state.run_started
    BY <1>1, <1>5 DEF StateInv, States
  <1>7. \A f \in T : f \in U \/ Settled(f, s.run_started)'
    BY <1>1, <1>3, <1>4 DEF Settled, Lost, Content
  <1>8. StateInv(s, current, U)'
    BY <1>5, <1>6, <1>7, StateKept
  <1>9. s = cycle'.state /\ current = Current'
    BY <1>1, <1>2 DEF Current
  <1> QED
    BY <1>4, <1>8, <1>9 DEF StateInv, Settled, Lost, Content
LEMMA ChildNumbers ==
    ASSUME NEW d \in Folders, NEW S, S \subseteq DOMAIN Children[d]
    PROVE  IsFiniteSet(S) /\ S \subseteq Nat
  <1>1. Children[d] \in Seq(Files \cup Folders)
    BY CrawlAssumption
  <1>2. Len(Children[d]) \in Nat /\ DOMAIN Children[d] = 1..Len(Children[d])
    BY <1>1, LenProperties
  <1>3. IsFiniteSet(1..Len(Children[d]))
    BY <1>2, FS_Interval
  <1> QED
    BY <1>2, <1>3, FS_Subset

LEMMA DriveStep ==
    ASSUME Inv, CrawlNext, UNCHANGED <<store, cursor, cycle, missed>>
    PROVE  Inv'
  <1>1. DriveInv' /\ CursorInv'
    BY DriveKept, CursorKept
  <1>2. ASSUME cycle.pc # "idle"
        PROVE  StateInv(cycle.state, Current, Waiting)'
    BY <1>2, CycleKept DEF Waiting
  <1>3. /\ \A i \in Files \cup Folders : mtime'[i] >= mtime[i]
        /\ \A f \in Files : file'[f].ver >= file[f].ver
        /\ \A f \in Files : file'[f] = file[f] \/ file'[f].at = now
    <2>1. CASE \E g \in Files : ChangeFile(g)
      <3>1. PICK g \in Files : ChangeFile(g)
        BY <2>1
      <3>2. Touch(g) /\ g \in Files \cup Folders
        BY <3>1 DEF ChangeFile
      <3> QED
        BY <3>1, <3>2, ChangeFileDrive, TouchGrows DEF Inv
    <2>2. CASE \E d \in Folders : DeleteFolder(d)
      <3>1. PICK d \in Folders : DeleteFolder(d)
        BY <2>2
      <3>2. Touch(d) /\ d \in Files \cup Folders /\ file' = file
        BY <3>1 DEF DeleteFolder
      <3>3. \A f \in Files : file[f].ver \in Int
        BY DEF Inv, DriveInv
      <3> QED
        BY <3>2, <3>3, TouchGrows DEF Inv
    <2>3. CASE UNCHANGED <<file, mtime>>
      <3>1. /\ \A f \in Files : file[f].ver \in Int
            /\ \A i \in Files \cup Folders : mtime[i] \in Int
        BY DEF Inv, DriveInv
      <3> QED
        BY <2>3, <3>1
    <2> QED
      BY <2>1, <2>2, <2>3 DEF CrawlNext, CrawlDaemon, Tick, BeginListing, BeginNextCrawl,
         ListPage, ListFails, ProcessItem, ItemFails, SaveCursor, Interrupted, driveVars
  <1>4. ASSUME cycle.pc # "idle"
        PROVE  TodoInv'
    <2>1. TodoInv /\ cycle.state.run_started <= now
      BY <1>4 DEF Inv, CycleInv, StateInv
    <2>2. cycle.todo \in Seq(Items)
      BY DEF Inv, CycleInv, Cycles, Items
    <2>3. \A k \in DOMAIN cycle.todo : cycle.todo[k].file \in Files
      <3>1. \A k \in DOMAIN cycle.todo : cycle.todo[k] \in Items
        BY <2>2, ElementOfSeq, LenProperties
      <3> QED
        BY <3>1 DEF Items
    <2> QED
      BY <1>3, <2>1, <2>3 DEF TodoInv
  <1>5. ASSUME cycle.pc = "list"
        PROVE  PagesInv'
    <2> DEFINE d == cycle.folder  s == cycle.state  due == Due(d, from_ms(s))
    <2>1. d \in Folders /\ Children[d] \in Seq(Files \cup Folders) /\ cycle.offset \in Nat
      BY CrawlAssumption DEF Inv, CycleInv, Cycles
    <2>2. \A n \in DOMAIN Children[d] : Children[d][n] \in Files \cup Folders
      BY <2>1, ElementOfSeq, LenProperties
    <2>3. from_ms(s)' = from_ms(s)
      BY DEF from_ms
    <2>4. from_ms(s) \in Int
      <3>1. s \in States
        BY <1>5 DEF Inv, CycleInv, StateInv
      <3>2. s.watermark - Overlap \in Int /\ 0 \in Int
        BY <3>1, CrawlAssumption DEF States
      <3> QED
        BY <3>2, MaxOfTwo DEF from_ms
    <2>5. due \subseteq due'
      <3> SUFFICES ASSUME NEW n \in due PROVE n \in due'
        OBVIOUS
      <3>1. n \in DOMAIN Children[d] /\ Children[d][n] \in Files \cup Folders
        BY <2>2 DEF Due
      <3> DEFINE i == Children[d][n]
      <3>2. mtime[i] >= from_ms(s) /\ (i \in Files => file[i].ver > 0)
        BY DEF Due, Listed
      <3>3. /\ mtime'[i] >= mtime[i] /\ mtime'[i] \in Int /\ mtime[i] \in Int
            /\ i \in Files => /\ file'[i].ver >= file[i].ver
                            /\ file'[i].ver \in Int /\ file[i].ver \in Int
        BY <1>1, <1>3, <3>1 DEF Inv, DriveInv
      <3>4. mtime'[i] >= from_ms(s) /\ (i \in Files => file'[i].ver > 0)
        BY <2>4, <3>2, <3>3
      <3> QED
        BY <2>3, <3>1, <3>4 DEF Due, Listed
    <2>6. due' \subseteq DOMAIN Children[d] /\ due \subseteq DOMAIN Children[d]
      BY DEF Due
    <2>7. \A n : Place(due, n) <= Place(due', n) /\ Place(due, n) \in Nat /\ Place(due', n) \in Nat
      <3>1. IsFiniteSet(due') /\ IsFiniteSet(due)
        BY <2>1, <2>6, ChildNumbers
      <3> QED
        BY <2>5, <3>1, PlaceGrows, PlaceType
    <2>8. \A n : Place(due', n) < cycle.offset => Place(due, n) < cycle.offset
      <3> SUFFICES ASSUME NEW n, Place(due', n) < cycle.offset PROVE Place(due, n) < cycle.offset
        OBVIOUS
      <3>1. /\ Place(due, n) <= Place(due', n) /\ Place(due, n) \in Nat /\ Place(due', n) \in Nat
            /\ cycle.offset \in Nat
        BY <2>1, <2>7
      <3> HIDE DEF due
      <3> QED
        BY <3>1
    <2>9. PagesInv
      BY <1>5 DEF Inv, CycleInv
    <2>10. \A f \in Files : Settled(f, s.run_started) => Settled(f, s.run_started)'
      <3> SUFFICES ASSUME NEW f \in Files, Settled(f, s.run_started)
                   PROVE  Settled(f, s.run_started)'
        OBVIOUS
      <3>1. PICK w : w = s.run_started
        OBVIOUS
      <3>2. w \in Nat /\ w <= now
        BY <1>5, <3>1 DEF Inv, CycleInv, StateInv, States
      <3>3. Settled(f, w)'
        BY <1>5, <3>1, <3>2, SettledKept
      <3> QED
        BY <3>1, <3>3 DEF Settled, Lost, Content
    <2>11. Waiting' = Waiting
      BY DEF Waiting
    <2> HIDE DEF due
    <2>12. \A f \in Files :
            \/ Settled(f, s.run_started)' \/ f \in Waiting'
            \/ \A n \in DOMAIN Children[d] :
                Children[d][n] \in {f} \cup Above[f] /\ Place(due', n) < cycle.offset
                => Children[d][n] \in {Root} \cup s.visited
      BY <2>8, <2>9, <2>10, <2>11 DEF PagesInv, due
    <2> QED
      BY <2>12 DEF PagesInv, due
  <1> QED
    BY <1>1, <1>2, <1>4, <1>5 DEF Inv, CycleInv
LEMMA ItemStep ==
    ASSUME Inv, CrawlNext, ProcessItem \/ ItemFails
    PROVE  Inv'
  <1>1. /\ cycle.todo \in Seq(Items) /\ cycle.todo # <<>> /\ cycle.pc = "items"
        /\ cycle' = [cycle EXCEPT !.todo = Tail(@)]
    BY ItemTypes
  <1>2. cursor' = cursor /\ file' = file
    BY DEF ProcessItem, ItemFails, driveVars
  <1>3. cycle \in Cycles
    BY DEF Inv, CycleInv
  <1>4. /\ cycle' \in Cycles /\ cycle'.pc = "items" /\ cycle'.state = cycle.state
        /\ cycle'.folder = cycle.folder /\ cycle'.todo = Tail(cycle.todo)
    <2>1. Tail(cycle.todo) \in Seq(Items)
      BY <1>1, HeadItem
    <2> QED
      BY <1>1, <1>3, <2>1 DEF Cycles, Items
  <1>5. DriveInv' /\ CursorInv'
    BY <1>2, DriveKept, CursorKept
  <1>6. \A f \in Waiting : f \in Waiting' \/ Settled(f, cycle.state.run_started)'
    <2> SUFFICES ASSUME NEW f \in Waiting
                 PROVE  f \in Waiting' \/ Settled(f, cycle.state.run_started)'
      OBVIOUS
    <2> PICK k \in DOMAIN cycle.todo : f = cycle.todo[k].file
      BY DEF Waiting
    <2>1. CASE k = 1
      <3>1. PICK w : w = cycle.state.run_started
        OBVIOUS
      <3>2. w \in Nat /\ w <= cycle.state.run_started
        BY <3>1, ItemTypes DEF States
      <3>3. f = Head(cycle.todo).file
        BY <1>1, <2>1, HeadItem
      <3>4. Settled(f, w)'
        BY <3>2, <3>3, ItemSettled
      <3> QED
        BY <1>4, <3>1, <3>4 DEF Settled, Lost, Content
    <2>2. CASE k # 1
      <3>1. k - 1 \in DOMAIN cycle'.todo /\ cycle'.todo[k - 1] = cycle.todo[k]
        BY <1>1, <1>4, <2>2, HeadItem
      <3> QED
        BY <3>1 DEF Waiting
    <2> QED
      BY <2>1, <2>2
  <1>7. StateInv(cycle.state, Current, Waiting)'
    BY <1>1, <1>2, <1>4, <1>6, CycleKept
  <1>8. TodoInv'
    <2>1. TodoInv
      BY <1>1 DEF Inv, CycleInv
    <2>2. \A k \in DOMAIN cycle'.todo :
            k + 1 \in DOMAIN cycle.todo /\ cycle'.todo[k] = cycle.todo[k + 1]
      BY <1>1, <1>4, HeadItem
    <2> QED
      BY <1>2, <1>4, <2>1, <2>2 DEF TodoInv
  <1>9. cursor' # NoCursor => cursor'.run_started <= cycle'.state.run_started
    BY <1>1, <1>2, <1>4 DEF Inv, CycleInv
  <1> QED
    BY <1>4, <1>5, <1>7, <1>8, <1>9 DEF Inv, CycleInv

LEMMA IdleCycle == Idle \in Cycles /\ Idle.pc = "idle"
  <1>1. Root \in Folders /\ <<>> \in Seq(Items)
    BY CrawlAssumption
  <1> QED
    BY <1>1 DEF Idle, Cycles, Items

\* A cycle that ends early loses what it listed and keeps the cursor.
LEMMA AbortStep ==
    ASSUME Inv, CrawlNext, ListFails \/ Interrupted
    PROVE  Inv'
  <1>1. cycle' = Idle /\ cursor' = cursor
    BY DEF ListFails, Interrupted
  <1>2. DriveInv' /\ CursorInv'
    BY <1>1, DriveKept, CursorKept
  <1> QED
    BY <1>1, <1>2, IdleCycle DEF Inv, CycleInv

LEMMA SaveCursorStep ==
    ASSUME Inv, CrawlNext, SaveCursor
    PROVE  Inv'
  <1>1. /\ cycle' = Idle /\ cursor' = cycle.state /\ cycle.pc = "items" /\ cycle.todo = <<>>
        /\ UNCHANGED <<driveVars, store, missed>>
    BY DEF SaveCursor, ItemsDone
  <1>2. Current = {} /\ Waiting = {}
    BY <1>1 DEF Current, Waiting
  <1>3. StateInv(cycle.state, {}, {})
    BY <1>1, <1>2 DEF Inv, CycleInv
  <1>4. StateInv(cursor, {}, {})'
    BY <1>1, <1>3 DEF StateInv, Settled, Lost, Content, driveVars
  <1>5. DriveInv'
    BY DriveKept
  <1> QED
    BY <1>1, <1>4, <1>5, IdleCycle DEF Inv, CursorInv, CycleInv

-----------------------------------------------------------------------------
(* Listing.                                                                *)

LEMMA TailOfQueue ==
    ASSUME NEW q \in Seq(Folders), q # <<>>
    PROVE  /\ Head(q) \in Folders /\ Tail(q) \in Seq(Folders)
           /\ Range(q) = {Head(q)} \cup Range(Tail(q))
           /\ IsInjective(q) => IsInjective(Tail(q))
  <1>1. Len(q) \in Nat \ {0} /\ DOMAIN q = 1..Len(q)
    BY EmptySeq, LenProperties
  <1>2. /\ Head(q) = q[1] /\ Head(q) \in Folders
        /\ Tail(q) \in Seq(Folders) /\ Len(Tail(q)) = Len(q) - 1
        /\ \A k \in 1..Len(Tail(q)) : Tail(q)[k] = q[k + 1]
    BY HeadTailProperties
  <1>3. DOMAIN Tail(q) = 1..(Len(q) - 1)
    BY <1>2, LenProperties
  <1>4. \A k \in DOMAIN q : k = 1 \/ (k - 1 \in DOMAIN Tail(q) /\ q[k] = Tail(q)[k - 1])
    BY <1>1, <1>2, <1>3
  <1>5. \A k \in DOMAIN Tail(q) : k + 1 \in DOMAIN q /\ Tail(q)[k] = q[k + 1]
    BY <1>1, <1>2, <1>3
  <1>6. Range(q) = {Head(q)} \cup Range(Tail(q))
    <2>1. \A k \in DOMAIN q : q[k] \in {Head(q)} \cup Range(Tail(q))
      BY <1>2, <1>4 DEF Range
    <2>2. 1 \in DOMAIN q
      BY <1>1
    <2> QED
      BY <1>2, <1>5, <2>1, <2>2 DEF Range
  <1>7. ASSUME IsInjective(q)
        PROVE  IsInjective(Tail(q))
    <2> SUFFICES ASSUME NEW j \in DOMAIN Tail(q), NEW k \in DOMAIN Tail(q),
                        Tail(q)[j] = Tail(q)[k]
                 PROVE  j = k
      BY DEF IsInjective
    <2>1. j + 1 = k + 1
      BY <1>5, <1>7 DEF IsInjective
    <2> QED
      BY <1>1, <1>3, <2>1
  <1> QED
    BY <1>2, <1>6, <1>7

LEMMA LoadedInv ==
    ASSUME Inv
    PROVE  StateInv(LoadCursor, {}, {})
  <1>1. CASE cursor # NoCursor
    BY <1>1 DEF Inv, CursorInv, LoadCursor
  <1>2. CASE cursor = NoCursor
    <2>1. /\ LoadCursor = bootstrap
          /\ now \in Nat /\ Root \in Folders
      BY <1>2, CrawlAssumption DEF LoadCursor, Inv, DriveInv
    <2>2. bootstrap \in States /\ IsInjective(bootstrap.queue) /\ Range(bootstrap.queue) = {Root}
      BY <2>1 DEF bootstrap, States, IsInjective, Range
    <2>3. /\ bootstrap.watermark = 0 /\ bootstrap.run_started = now
          /\ bootstrap.visited = {}
      BY DEF bootstrap
    <2>4. \A f \in Files : Settled(f, 0) /\ Followed(f, bootstrap, {})
      <3>1. \A f \in Files : file[f].at >= 0
        BY DEF Inv, DriveInv
      <3> QED
        BY <2>2, <2>3, <3>1 DEF Settled, Followed, Through
    <2> QED
      BY <2>1, <2>2, <2>3, <2>4 DEF StateInv
  <1> QED
    BY <1>1, <1>2

LEMMA BeginListingStep ==
    ASSUME Inv, CrawlNext, BeginListing
    PROVE  Inv'
  <1> DEFINE s == LoadCursor  t == [s EXCEPT !.queue = Tail(@)]
  <1>1. /\ s.queue # <<>> /\ cycle' = [pc |-> "list", state |-> t, folder |-> Head(s.queue),
                                       offset |-> 0, todo |-> <<>>]
        /\ UNCHANGED <<driveVars, store, cursor, missed>>
    BY DEF BeginListing
  <1>2. StateInv(s, {}, {})
    BY LoadedInv
  <1>3. s \in States /\ s.queue \in Seq(Folders)
    BY <1>2 DEF StateInv, States
  <1>4. /\ Head(s.queue) \in Folders /\ Tail(s.queue) \in Seq(Folders)
        /\ Range(s.queue) = {Head(s.queue)} \cup Range(Tail(s.queue))
        /\ IsInjective(s.queue) => IsInjective(Tail(s.queue))
    BY <1>1, <1>3, TailOfQueue
  <1> HIDE DEF s
  <1>5. /\ t \in States /\ t.queue = Tail(s.queue) /\ t.watermark = s.watermark
        /\ t.visited = s.visited /\ t.run_started = s.run_started
    BY <1>3, <1>4 DEF States
  <1> HIDE DEF t
  <1>6. StateInv(t, {Head(s.queue)}, {})
    <2>1. \A f : Followed(f, t, {Head(s.queue)}) <=> Followed(f, s, {})
      BY <1>4, <1>5 DEF Followed, Through
    <2> QED
      BY <1>2, <1>4, <1>5, <2>1 DEF StateInv
  <1>7. Waiting' = {} /\ Current' = {Head(s.queue)} /\ cycle'.state = t
    BY <1>1 DEF Waiting, Current
  <1>8. StateInv(cycle.state, Current, Waiting)'
    BY <1>1, <1>6, <1>7 DEF StateInv, Settled, Lost, Content, driveVars
  <1>9. TodoInv'
    BY <1>1 DEF TodoInv
  <1>10. PagesInv'
    <2>1. \A n \in DOMAIN Children[Head(s.queue)] :
            ~(Place(Due(cycle.folder, from_ms(cycle.state))', n) < 0)
      <3>1. Due(cycle.folder, from_ms(cycle.state))' \subseteq DOMAIN Children[Head(s.queue)]
        BY <1>1 DEF Due
      <3>2. IsFiniteSet(Due(cycle.folder, from_ms(cycle.state))')
        BY <1>4, <3>1, ChildNumbers
      <3>3. \A n : Place(Due(cycle.folder, from_ms(cycle.state))', n) \in Nat
        BY <3>2, PlaceType
      <3> QED
        BY <3>3
    <2> QED
      BY <1>1, <2>1 DEF PagesInv
  <1>11. cursor' # NoCursor => cursor'.run_started <= cycle'.state.run_started
    <2>1. cursor # NoCursor => s = cursor
      BY DEF LoadCursor, s
    <2>2. s.run_started <= s.run_started
      BY <1>3 DEF States
    <2> QED
      BY <1>1, <1>5, <2>1, <2>2
  <1>12. cycle' \in Cycles
    <2>1. <<>> \in Seq([file : Files, deleted : BOOLEAN])
      OBVIOUS
    <2> QED
      BY <1>1, <1>4, <1>5, <2>1 DEF Cycles
  <1>13. DriveInv' /\ CursorInv'
    BY <1>1, DriveKept, CursorKept
  <1> QED
    BY <1>8, <1>9, <1>10, <1>11, <1>12, <1>13 DEF Inv, CycleInv
\* A crawl whose queue is drained has come to every file: from the root it
\* followed the folders above it.
LEMMA DrainedCrawl ==
    ASSUME NEW s, StateInv(s, {}, {}), s.queue = <<>>
    PROVE  \A f \in Files : Settled(f, s.run_started)
  <1> SUFFICES ASSUME NEW f \in Files, ~Settled(f, s.run_started) PROVE FALSE
    OBVIOUS
  <1> DEFINE S == {Root} \cup s.visited
  <1>1. S \subseteq Folders /\ Root \in S
    BY CrawlAssumption DEF StateInv, States
  <1>2. Followed(f, s, {})
    BY DEF StateInv
  <1>3. Through(s, {}) = S
    BY DEF Through, Range
  <1>4. \A d \in S : Range(Children[d]) \cap ({f} \cup Above[f]) \subseteq S
    BY <1>2, <1>3 DEF Followed
  <1>5. InTree(f)
    BY CrawlAssumption
  <1>6. PICK d \in S : d \in Parents(f)
    BY <1>1, <1>4, <1>5 DEF InTree
  <1>7. f \in S
    BY <1>4, <1>6 DEF Parents
  <1> QED
    BY <1>1, <1>7, CrawlAssumption

LEMMA BeginNextCrawlStep ==
    ASSUME Inv, CrawlNext, BeginNextCrawl
    PROVE  Inv'
  <1> DEFINE s == LoadCursor  t == NextCrawl(s)
  <1>1. /\ s.queue = <<>> /\ cycle' = [Idle EXCEPT !.pc = "items", !.state = t]
        /\ UNCHANGED <<driveVars, store, cursor, missed>>
    BY DEF BeginNextCrawl
  <1>2. StateInv(s, {}, {})
    BY LoadedInv
  <1>3. /\ t.watermark = s.run_started /\ t.queue = <<Root>> /\ t.visited = {}
        /\ t.run_started = now
    BY DEF NextCrawl
  <1>4. /\ now \in Nat /\ Root \in Folders
        /\ s.run_started \in Nat /\ s.run_started <= now
    BY <1>2, CrawlAssumption DEF StateInv, States, Inv, DriveInv
  <1>5. t \in States
    BY <1>4 DEF NextCrawl, States
  <1>6. \A f \in Files : Settled(f, s.run_started)
    BY <1>1, <1>2, DrainedCrawl
  <1> HIDE DEF s, t
  <1>7. StateInv(t, {}, {})
    <2>1. Range(t.queue) = {Root} /\ IsInjective(t.queue)
      BY <1>3 DEF Range, IsInjective
    <2>2. \A f \in Files : Followed(f, t, {})
      BY <1>3, <2>1 DEF Followed, Through
    <2> QED
      BY <1>3, <1>4, <1>5, <1>6, <2>1, <2>2 DEF StateInv
  <1>8. cycle'.pc = "items" /\ cycle'.state = t /\ cycle'.todo = <<>> /\ cycle' \in Cycles
    BY <1>1, <1>5, IdleCycle DEF Idle, Cycles
  <1>9. Waiting' = {} /\ Current' = {}
    BY <1>8 DEF Waiting, Current
  <1>10. StateInv(cycle.state, Current, Waiting)'
    BY <1>1, <1>7, <1>8, <1>9 DEF StateInv, Settled, Lost, Content, driveVars
  <1>11. TodoInv'
    BY <1>8 DEF TodoInv
  <1>12. cursor' # NoCursor => cursor'.run_started <= cycle'.state.run_started
    BY <1>1, <1>3, <1>4, <1>8 DEF LoadCursor, s
  <1>13. DriveInv' /\ CursorInv'
    BY <1>1, DriveKept, CursorKept
  <1> QED
    BY <1>8, <1>10, <1>11, <1>12, <1>13 DEF Inv, CycleInv

\* The children with the numbers N, in their order.
Taken(d, N) == [k \in DOMAIN Ascending(N) |-> Children[d][Ascending(N)[k]]]

LEMMA TakenChildren ==
    ASSUME NEW d \in Folders, NEW N, N \subseteq DOMAIN Children[d], NEW S,
           \A n \in N : Children[d][n] \in S
    PROVE  /\ Taken(d, N) \in Seq(S) /\ IsInjective(Taken(d, N))
           /\ \A k \in DOMAIN Taken(d, N) : \E n \in N : Taken(d, N)[k] = Children[d][n]
           /\ \A n \in N : \E k \in DOMAIN Taken(d, N) : Taken(d, N)[k] = Children[d][n]
  <1>1. IsFiniteSet(N) /\ N \subseteq Nat
    BY ChildNumbers
  <1> DEFINE a == Ascending(N)  c == Taken(d, N)
  <1>2. /\ Cardinality(N) \in Nat /\ DOMAIN a = 1..Cardinality(N)
        /\ \A k \in DOMAIN a : a[k] \in N
        /\ \A n \in N : \E k \in DOMAIN a : a[k] = n
        /\ IsInjective(a)
    BY <1>1, AscendingHolds
  <1>3. c = [k \in DOMAIN a |-> Children[d][a[k]]]
    BY DEF Taken
  <1> HIDE DEF a, c
  <1>4. DOMAIN c = DOMAIN a /\ \A k \in DOMAIN a : c[k] = Children[d][a[k]]
    BY <1>3
  <1>5. c \in Seq(S)
    <2>1. \A k \in 1..Cardinality(N) : c[k] \in S
      BY <1>2, <1>4
    <2>2. c \in [1..Cardinality(N) -> S]
      BY <1>2, <1>3, <1>4, <2>1
    <2> QED
      BY <1>2, <2>2
  <1>6. IsInjective(c)
    <2>1. IsInjective(Children[d])
      BY CrawlAssumption
    <2> QED
      BY <1>2, <1>4, <2>1 DEF IsInjective
  <1>7. \A k \in DOMAIN c : \E n \in N : c[k] = Children[d][n]
    BY <1>2, <1>4
  <1>8. \A n \in N : \E k \in DOMAIN c : c[k] = Children[d][n]
    BY <1>2, <1>4
  <1> QED
    BY <1>5, <1>6, <1>7, <1>8 DEF c

LEMMA SeqExtended ==
    ASSUME NEW S, NEW q \in Seq(S), NEW new \in Seq(S)
    PROVE  /\ q \o new \in Seq(S) /\ Range(q \o new) = Range(q) \cup Range(new)
           /\ IsInjective(q) /\ IsInjective(new) /\ Range(q) \cap Range(new) = {}
              => IsInjective(q \o new)
  <1>1. /\ Len(q) \in Nat /\ DOMAIN q = 1..Len(q)
        /\ Len(new) \in Nat /\ DOMAIN new = 1..Len(new)
    BY LenProperties
  <1>2. /\ q \o new \in Seq(S) /\ Len(q \o new) = Len(q) + Len(new)
        /\ \A k \in 1..(Len(q) + Len(new)) :
            (q \o new)[k] = IF k <= Len(q) THEN q[k] ELSE new[k - Len(q)]
    BY ConcatProperties
  <1>3. DOMAIN (q \o new) = 1..(Len(q) + Len(new))
    BY <1>2, LenProperties
  <1>4. \A k \in DOMAIN (q \o new) :
            \/ k \in DOMAIN q /\ (q \o new)[k] = q[k]
            \/ k \notin DOMAIN q /\ k - Len(q) \in DOMAIN new /\ (q \o new)[k] = new[k - Len(q)]
    BY <1>1, <1>2, <1>3
  <1>5. /\ \A k \in DOMAIN q : k \in DOMAIN (q \o new) /\ (q \o new)[k] = q[k]
        /\ \A k \in DOMAIN new :
            k + Len(q) \in DOMAIN (q \o new) /\ (q \o new)[k + Len(q)] = new[k]
    BY <1>1, <1>2, <1>3
  <1>6. Range(q \o new) = Range(q) \cup Range(new)
    <2>1. \A x \in Range(q \o new) : x \in Range(q) \cup Range(new)
      <3> SUFFICES ASSUME NEW k \in DOMAIN (q \o new)
                   PROVE  (q \o new)[k] \in Range(q) \cup Range(new)
        BY DEF Range
      <3> QED
        BY <1>4 DEF Range
    <2>2. \A x \in Range(q) : x \in Range(q \o new)
      BY <1>5 DEF Range
    <2>3. \A x \in Range(new) : x \in Range(q \o new)
      BY <1>5 DEF Range
    <2> QED
      BY <2>1, <2>2, <2>3
  <1>7. ASSUME IsInjective(q), IsInjective(new), Range(q) \cap Range(new) = {}
        PROVE  IsInjective(q \o new)
    <2> SUFFICES ASSUME NEW j \in DOMAIN (q \o new), NEW k \in DOMAIN (q \o new),
                        (q \o new)[j] = (q \o new)[k]
                 PROVE  j = k
      BY DEF IsInjective
    <2>1. CASE j \in DOMAIN q /\ k \in DOMAIN q
      BY <1>4, <1>7, <2>1 DEF IsInjective
    <2>2. CASE j \notin DOMAIN q /\ k \notin DOMAIN q
      <3>1. j - Len(q) = k - Len(q)
        BY <1>4, <1>7, <2>2 DEF IsInjective
      <3> QED
        BY <1>1, <1>3, <3>1
    <2>3. CASE j \in DOMAIN q /\ k \notin DOMAIN q
      <3>1. (q \o new)[j] \in Range(q) /\ (q \o new)[k] \in Range(new)
        BY <1>4, <2>3 DEF Range
      <3> QED
        BY <1>7, <3>1
    <2>4. CASE j \notin DOMAIN q /\ k \in DOMAIN q
      <3>1. (q \o new)[j] \in Range(new) /\ (q \o new)[k] \in Range(q)
        BY <1>4, <2>4 DEF Range
      <3> QED
        BY <1>7, <3>1
    <2> QED
      BY <2>1, <2>2, <2>3, <2>4
  <1> QED
    BY <1>2, <1>6, <1>7
\* A page holds what lies between its offset and the next one, and the last
\* page the rest.
LEMMA PagePlaces ==
    ASSUME NEW d \in Folders, NEW from, NEW offset \in Nat
    PROVE  /\ Page(d, offset, from) \subseteq DOMAIN Children[d]
           /\ Cardinality(Page(d, offset, from)) \in Nat
           /\ \A n \in Due(d, from) :
                \/ Place(Due(d, from), n) < offset
                \/ n \in Page(d, offset, from)
                \/ /\ More(d, offset, from)
                   /\ ~(Place(Due(d, from), n) < offset + Cardinality(Page(d, offset, from)))
  <1> DEFINE due == Due(d, from)  page == Page(d, offset, from)
  <1>1. due \subseteq DOMAIN Children[d] /\ page \subseteq due
    BY DEF Due, Page
  <1>2. IsFiniteSet(due) /\ due \subseteq Nat
    BY <1>1, ChildNumbers
  <1>3. PageSize \in Nat
    BY CrawlAssumption
  <1>4. \A n \in page : Place(due, n) \in offset..(offset + PageSize - 1)
    BY DEF Page
  <1>5. \A n \in due : Place(due, n) \in offset..(offset + PageSize - 1) => n \in page
    BY DEF Page
  <1>6. \A n \in due : Place(due, n) >= offset + PageSize => More(d, offset, from)
    BY DEF More
  <1> HIDE DEF due, page
  <1>7. Cardinality(page) \in Nat /\ Cardinality(page) <= PageSize
    BY <1>1, <1>2, <1>3, <1>4, FewPlaces
  <1>8. ASSUME NEW n \in due
        PROVE  \/ Place(due, n) < offset
               \/ n \in page
               \/ More(d, offset, from) /\ ~(Place(due, n) < offset + Cardinality(page))
    <2>1. Place(due, n) \in Nat
      BY <1>2, PlaceType
    <2>2. CASE Place(due, n) < offset + PageSize
      BY <1>3, <1>5, <2>1, <2>2
    <2>3. CASE ~(Place(due, n) < offset + PageSize)
      <3>1. Place(due, n) >= offset + PageSize
        BY <1>3, <2>1, <2>3
      <3>2. ~(Place(due, n) < offset + Cardinality(page))
        BY <1>3, <1>7, <2>1, <3>1
      <3> QED
        BY <1>6, <3>1, <3>2
    <2> QED
      BY <2>2, <2>3
  <1> QED
    BY <1>1, <1>7, <1>8 DEF due, page

\* A file with a change to store, and the folders above it, are listed: the
\* overlap is no less than what the drive's clock is behind.
LEMMA DueChildren ==
    ASSUME Inv, cycle.pc = "list", NEW f \in Files, ~Settled(f, cycle.state.run_started),
           NEW n \in DOMAIN Children[cycle.folder],
           Children[cycle.folder][n] \in {f} \cup Above[f]
    PROVE  n \in Due(cycle.folder, from_ms(cycle.state))
  <1> DEFINE s == cycle.state  i == Children[cycle.folder][n]
  <1>1. s \in States /\ Settled(f, s.watermark)
    BY DEF Inv, CycleInv, StateInv
  <1>2. file[f].at >= s.watermark /\ store[f] # Content(f)
    BY <1>1 DEF Settled
  <1>3. /\ file[f] \in [ver : 0..MaxChanges, alive : BOOLEAN, at : 0..MaxTime]
        /\ store[f] \in Nat /\ store[f] <= file[f].ver
        /\ file[f].alive => file[f].ver > 0
        /\ mtime[i] + Skew >= file[f].at
    BY DEF Inv, DriveInv
  <1>4. i \in Files \cup Folders
    BY AboveAreFolders
  <1>5. mtime[i] \in Nat
    BY <1>4 DEF Inv, DriveInv
  <1>6. file[f].ver > 0
    BY <1>2, <1>3 DEF Content
  <1>7. mtime[i] >= from_ms(s)
    <2>1. s.watermark - Overlap \in Int /\ s.watermark \in Nat
      BY <1>1, CrawlAssumption DEF States
    <2>2. from_ms(s) \in {s.watermark - Overlap, 0}
      <3>1. from_ms(s) = Max({s.watermark - Overlap, 0}) /\ 0 \in Int
        BY DEF from_ms
      <3> QED
        BY <2>1, <3>1, MaxOfTwo
    <2>3. mtime[i] >= s.watermark - Overlap
      <3>1. Skew \in Nat /\ Overlap \in Nat /\ Skew <= Overlap /\ file[f].at \in Int
        BY <1>3, CrawlAssumption
      <3> HIDE DEF s, i
      <3> QED
        BY <1>2, <1>3, <1>5, <2>1, <3>1
    <2> QED
      BY <1>5, <2>2, <2>3
  <1>8. i \in Files => i = f
    BY AboveAreFolders, CrawlAssumption
  <1> QED
    BY <1>6, <1>7, <1>8 DEF Due, Listed

LEMMA ListedItems ==
    ASSUME Inv, NEW d \in Folders, NEW N, N \subseteq DOMAIN Children[d],
           \A n \in N : Children[d][n] \in Files,
           NEW listed, listed = [k \in DOMAIN Ascending(N) |-> Item(Children[d][Ascending(N)[k]])]
    PROVE  /\ listed \in Seq(Items)
           /\ \A k \in DOMAIN listed : listed[k].deleted => ~file[listed[k].file].alive
           /\ \A n \in N : \E k \in DOMAIN listed : listed[k].file = Children[d][n]
  <1> DEFINE c == Taken(d, N)
  <1>1. /\ c \in Seq(Files)
        /\ \A n \in N : \E k \in DOMAIN c : c[k] = Children[d][n]
    BY TakenChildren
  <1>2. DOMAIN listed = DOMAIN c /\ \A k \in DOMAIN c : listed[k] = Item(c[k])
    BY DEF Taken
  <1>3. listed = [k \in DOMAIN c |-> Item(c[k])]
    BY DEF Taken
  <1> HIDE DEF c
  <1>4. DOMAIN c = 1..Len(c) /\ Len(c) \in Nat /\ \A k \in DOMAIN c : c[k] \in Files
    BY <1>1, LenProperties, ElementOfSeq
  <1>5. \A k \in DOMAIN c : listed[k] \in Items
    BY <1>2, <1>4 DEF Item, Items, Inv, DriveInv
  <1>6. listed \in Seq(Items)
    BY <1>3, <1>4, <1>5
  <1>7. \A k \in DOMAIN c : listed[k].deleted = ~file[listed[k].file].alive
    BY <1>2 DEF Item
  <1>8. \A n \in N : \E k \in DOMAIN listed : listed[k].file = Children[d][n]
    <2>1. \A k \in DOMAIN c : listed[k].file = c[k]
      BY <1>2 DEF Item
    <2> QED
      BY <1>1, <1>2, <2>1
  <1> QED
    BY <1>2, <1>6, <1>7, <1>8
LEMMA ListPageStep ==
    ASSUME Inv, CrawlNext, ListPage
    PROVE  Inv'
  <1> DEFINE s == cycle.state  d == cycle.folder  child == Children[d]
             from == from_ms(s)  due == Due(d, from)
             page == Page(d, cycle.offset, from)  more == More(d, cycle.offset, from)
             files == {n \in page : child[n] \in Files}
             unseen == {n \in page : child[n] \in Folders \ s.visited}
             listed == [k \in DOMAIN Ascending(files) |-> Item(child[Ascending(files)[k]])]
             new == Taken(d, unseen)
             t == Enqueue(s, new)
  <1>1. /\ cycle.pc = "list"
        /\ cycle' = [cycle EXCEPT !.state = t,
                                  !.offset = IF more THEN @ + Cardinality(page) ELSE 0,
                                  !.todo = @ \o listed,
                                  !.pc = IF more THEN "list" ELSE "items"]
        /\ UNCHANGED <<driveVars, store, cursor, missed>>
    BY DEF ListPage, Taken
  <1>2. /\ StateInv(s, {d}, Waiting) /\ s \in States /\ d \in Folders /\ cycle.offset \in Nat
        /\ cycle.todo \in Seq(Items) /\ cycle \in Cycles
    BY <1>1 DEF Inv, CycleInv, Cycles, StateInv, Items, Current
  <1>3. /\ page \subseteq DOMAIN child /\ Cardinality(page) \in Nat
        /\ \A n \in due :
            \/ Place(due, n) < cycle.offset \/ n \in page
            \/ more /\ ~(Place(due, n) < cycle.offset + Cardinality(page))
    BY <1>2, PagePlaces
  <1>4. \A n \in DOMAIN child : child[n] \in Files \cup Folders
    BY <1>2, CrawlAssumption, LenProperties, ElementOfSeq
  <1>5. /\ listed \in Seq(Items)
        /\ \A k \in DOMAIN listed : listed[k].deleted => ~file[listed[k].file].alive
        /\ \A n \in files : \E k \in DOMAIN listed : listed[k].file = child[n]
    <2>1. files \subseteq DOMAIN child /\ \A n \in files : child[n] \in Files
      BY <1>3
    <2> HIDE DEF files, page
    <2> QED
      BY <1>2, <2>1, ListedItems
  <1>6. /\ new \in Seq(Folders) /\ IsInjective(new)
        /\ Range(new) = {child[n] : n \in unseen}
    <2>1. unseen \subseteq DOMAIN child /\ \A n \in unseen : child[n] \in Folders
      BY <1>3
    <2> HIDE DEF unseen, page
    <2>2. /\ new \in Seq(Folders) /\ IsInjective(new)
          /\ \A k \in DOMAIN new : \E n \in unseen : new[k] = child[n]
          /\ \A n \in unseen : \E k \in DOMAIN new : new[k] = child[n]
      <3>1. d \in Folders
        BY <1>2
      <3> HIDE DEF d
      <3> QED
        BY <2>1, <3>1, TakenChildren
    <2> HIDE DEF d, new
    <2> QED
      BY <2>2 DEF Range
  <1>7. Range(new) \subseteq Folders \ ({Root} \cup s.visited)
    <2>1. Root \notin Range(child)
      BY <1>2, CrawlAssumption
    <2>2. \A n \in unseen : child[n] \in Folders \ s.visited /\ child[n] \in Range(child)
      BY <1>3 DEF Range
    <2> QED
      BY <1>6, <2>1, <2>2
  <1> HIDE DEF s, d, due, page, more, files, unseen, listed, new
  <1>8. /\ t \in States /\ t.watermark = s.watermark /\ t.run_started = s.run_started
        /\ t.queue = s.queue \o new /\ t.visited = s.visited \cup Range(new)
    <2>1. s.queue \o new \in Seq(Folders) /\ s.visited \cup Range(new) \in SUBSET Folders
      BY <1>2, <1>6, <1>7, SeqExtended DEF States
    <2> QED
      BY <1>2, <2>1 DEF Enqueue, States
  <1>9. Range(t.queue) = Range(s.queue) \cup Range(new) /\ IsInjective(t.queue)
    <2>1. /\ s.queue \in Seq(Folders) /\ IsInjective(s.queue)
          /\ Range(s.queue) \subseteq s.visited \cup {Root}
      BY <1>2 DEF StateInv, States
    <2>2. Range(s.queue) \cap Range(new) = {}
      BY <1>7, <2>1
    <2>3. /\ Range(s.queue \o new) = Range(s.queue) \cup Range(new)
          /\ IsInjective(s.queue \o new)
      BY <1>6, <2>1, <2>2, SeqExtended
    <2> QED
      BY <1>8, <2>3
  <1> HIDE DEF t
  <1>10. /\ cycle'.state = t /\ cycle'.folder = d /\ cycle'.todo = cycle.todo \o listed
         /\ cycle'.offset = (IF more THEN cycle.offset + Cardinality(page) ELSE 0)
         /\ cycle'.pc = (IF more THEN "list" ELSE "items")
         /\ cycle' \in Cycles
    <2>1. cycle.todo \o listed \in Seq(Items)
      BY <1>2, <1>5, SeqExtended
    <2>2. /\ cycle'.state = t /\ cycle'.folder = cycle.folder
          /\ cycle'.todo = cycle.todo \o listed
          /\ cycle'.offset = (IF more THEN cycle.offset + Cardinality(page) ELSE 0)
          /\ cycle'.pc = (IF more THEN "list" ELSE "items")
      BY <1>1, <1>2 DEF Cycles
    <2>3. cycle'.offset \in Nat /\ cycle'.pc \in {"idle", "list", "items"}
      BY <1>2, <1>3, <2>2
    <2>4. cycle' \in Cycles
      BY <1>1, <1>2, <1>8, <2>1, <2>2, <2>3 DEF Cycles, Items
    <2> QED
      BY <2>2, <2>4 DEF d
  <1>11. Range(cycle'.todo) = Range(cycle.todo) \cup Range(listed)
    BY <1>2, <1>5, <1>10, SeqExtended
  <1>12. /\ \A f \in Waiting : f \in Waiting'
         /\ \A n \in files : child[n] \in Waiting'
    <2>1. Waiting = {x.file : x \in Range(cycle.todo)}
      BY DEF Waiting, Range
    <2>2. Waiting' = {x.file : x \in Range(cycle'.todo)}
      BY DEF Waiting, Range
    <2>3. \A n \in files : \E x \in Range(listed) : x.file = child[n]
      BY <1>5 DEF Range
    <2> QED
      BY <1>11, <2>1, <2>2, <2>3
  <1>13. ASSUME NEW f \in Files, ~Settled(f, s.run_started), f \notin Waiting'
         PROVE  \A n \in DOMAIN child :
                    child[n] \in {f} \cup Above[f] =>
                        \/ child[n] \in {Root} \cup t.visited
                        \/ more /\ ~(Place(due, n) < cycle.offset + Cardinality(page))
    <2> SUFFICES ASSUME NEW n \in DOMAIN child, child[n] \in {f} \cup Above[f],
                        ~(more /\ ~(Place(due, n) < cycle.offset + Cardinality(page)))
                 PROVE  child[n] \in {Root} \cup t.visited
      OBVIOUS
    <2>1. n \in due
      BY <1>1, <1>13, DueChildren DEF s, d, due
    <2>2. CASE Place(due, n) < cycle.offset
      <3>1. PagesInv /\ f \notin Waiting
        BY <1>1, <1>12, <1>13 DEF Inv, CycleInv
      <3>2. child[n] \in {Root} \cup s.visited
        BY <1>13, <2>2, <3>1 DEF PagesInv, s, d, due
      <3> QED
        BY <1>8, <3>2
    <2>3. CASE n \in page
      <3>1. n \notin files
        <4>1. child[n] \in Files => child[n] = f
          BY AboveAreFolders, CrawlAssumption
        <4> QED
          BY <1>12, <1>13, <4>1 DEF files
      <3>2. child[n] \in s.visited \/ n \in unseen
        BY <1>4, <2>3, <3>1 DEF files, unseen
      <3> QED
        BY <1>6, <1>8, <3>2
    <2> QED
      BY <1>3, <2>1, <2>2, <2>3
  <1>14. Through(t, {d}) \subseteq Through(s, {d}) /\ Through(t, {}) \subseteq Through(s, {d}) \cup {d}
    BY <1>8, <1>9 DEF Through
  <1>15. ASSUME NEW f \in Files, ~Settled(f, s.run_started), f \notin Waiting'
         PROVE  Followed(f, t, IF more THEN {d} ELSE {})
    <2>1. Followed(f, s, {d})
      BY <1>2, <1>12, <1>15 DEF StateInv
    <2>2. \A e \in Through(s, {d}) :
            Range(Children[e]) \cap ({f} \cup Above[f]) \subseteq {Root} \cup t.visited
      BY <1>8, <2>1 DEF Followed
    <2>3. ~more => Range(child) \cap ({f} \cup Above[f]) \subseteq {Root} \cup t.visited
      BY <1>13, <1>15 DEF Range
    <2> QED
      BY <1>14, <2>2, <2>3 DEF Followed
  <1>16. PICK current : current = IF more THEN {d} ELSE {}
    OBVIOUS
  <1>17. PICK W : W = Waiting'
    OBVIOUS
  <1>18. StateInv(t, current, W)
    <2>1. /\ s.watermark <= s.run_started /\ s.run_started <= now
          /\ Range(s.queue) \subseteq s.visited \cup {Root}
          /\ \A f \in Files : Settled(f, s.watermark)
      BY <1>2 DEF StateInv
    <2>2. Range(t.queue) \subseteq t.visited \cup {Root}
      BY <1>8, <1>9, <2>1
    <2> QED
      BY <1>8, <1>9, <1>15, <1>16, <1>17, <2>1, <2>2 DEF StateInv
  <1>19. current = Current'
    BY <1>10, <1>16 DEF Current
  <1>20. StateInv(cycle.state, Current, Waiting)'
    BY <1>1, <1>10, <1>17, <1>18, <1>19 DEF StateInv, Settled, Lost, Content, driveVars
  <1>21. TodoInv'
    <2>1. TodoInv
      BY <1>1 DEF Inv, CycleInv
    <2>2. \A x \in Range(cycle.todo) :
            x.deleted => ~file[x.file].alive \/ file[x.file].at >= s.run_started
      BY <2>1 DEF TodoInv, Range, s
    <2>3. \A x \in Range(listed) : x.deleted => ~file[x.file].alive
      BY <1>5 DEF Range
    <2>4. \A x \in Range(cycle'.todo) :
            x.deleted => ~file[x.file].alive \/ file[x.file].at >= t.run_started
      BY <1>8, <1>11, <2>2, <2>3
    <2>5. \A k \in DOMAIN cycle'.todo : cycle'.todo[k] \in Range(cycle'.todo)
      BY DEF Range
    <2> QED
      BY <1>1, <1>10, <2>4, <2>5 DEF TodoInv, driveVars
  <1>22. ASSUME more
         PROVE  PagesInv'
    <2>1. Due(cycle.folder, from_ms(cycle.state))' = due
      <3>1. from_ms(cycle.state)' = from
        BY <1>8, <1>10 DEF from_ms, s
      <3> QED
        BY <1>1, <1>10, <3>1 DEF Due, Listed, driveVars, due, d
    <2>2. \A f \in Files : Settled(f, s.run_started) => Settled(f, cycle.state.run_started)'
      BY <1>1, <1>8, <1>10 DEF Settled, Lost, Content, driveVars
    <2>3. cycle'.offset = cycle.offset + Cardinality(page)
      BY <1>10, <1>22
    <2> QED
      BY <1>10, <1>13, <2>1, <2>2, <2>3 DEF PagesInv
  <1>23. cursor' # NoCursor => cursor'.run_started <= cycle'.state.run_started
    BY <1>1, <1>8, <1>10 DEF Inv, CycleInv, s
  <1>24. DriveInv' /\ CursorInv'
    BY <1>1, DriveKept, CursorKept
  <1>25. cycle'.pc = "list" => more
    BY <1>10
  <1> QED
    BY <1>10, <1>20, <1>21, <1>22, <1>23, <1>24, <1>25 DEF Inv, CycleInv
-----------------------------------------------------------------------------
(* The theorems.                                                           *)

LEMMA InitInv == CrawlInit => Inv
  <1> SUFFICES ASSUME CrawlInit PROVE Inv
    OBVIOUS
  <1>1. /\ Overlap \in Nat /\ Skew \in Nat /\ MaxTime \in Nat /\ Overlap <= MaxTime
        /\ MaxChanges \in Nat
    BY CrawlAssumption
  <1>2. /\ now = Overlap /\ changes = 0 /\ gone = {} /\ missed = {}
        /\ file = [f \in Files |-> [ver |-> 0, alive |-> FALSE, at |-> 0]]
        /\ mtime = [i \in Files \cup Folders |-> 0]
        /\ store = [f \in Files |-> 0]
        /\ cursor = NoCursor /\ cycle = Idle
    BY DEF CrawlInit
  <1>3. \A f \in Files : \A i \in {f} \cup Above[f] : mtime[i] + Skew >= file[f].at
    BY <1>1, <1>2, AboveAreFolders
  <1>4. DriveInv
    BY <1>1, <1>2, <1>3 DEF DriveInv
  <1> QED
    BY <1>2, <1>4, IdleCycle DEF Inv, CursorInv, CycleInv

LEMMA NextInv == Inv /\ [CrawlNext]_crawlVars => Inv'
  <1> SUFFICES ASSUME Inv, [CrawlNext]_crawlVars PROVE Inv'
    OBVIOUS
  <1>1. CASE CrawlNext
    <2>1. CASE Tick
      BY <1>1, <2>1, DriveStep DEF Tick
    <2>2. CASE \E f \in Files : ChangeFile(f)
      BY <1>1, <2>2, DriveStep DEF ChangeFile
    <2>3. CASE \E d \in Folders : DeleteFolder(d)
      BY <1>1, <2>3, DriveStep DEF DeleteFolder
    <2>4. CASE BeginListing
      BY <1>1, <2>4, BeginListingStep
    <2>5. CASE BeginNextCrawl
      BY <1>1, <2>5, BeginNextCrawlStep
    <2>6. CASE ListPage
      BY <1>1, <2>6, ListPageStep
    <2>7. CASE ListFails \/ Interrupted
      BY <1>1, <2>7, AbortStep
    <2>8. CASE ProcessItem \/ ItemFails
      BY <1>1, <2>8, ItemStep
    <2>9. CASE SaveCursor
      BY <1>1, <2>9, SaveCursorStep
    <2> QED
      BY <1>1, <2>1, <2>2, <2>3, <2>4, <2>5, <2>6, <2>7, <2>8, <2>9 DEF CrawlNext, CrawlDaemon
  <1>2. CASE UNCHANGED crawlVars
    <2>1. DriveInv'
      BY <1>2 DEF crawlVars, Inv, DriveInv
    <2>2. CursorInv'
      BY <1>2 DEF crawlVars, Inv, CursorInv, StateInv, Settled, Lost, Content
    <2>3. (cycle.pc # "idle" => StateInv(cycle.state, Current, Waiting))'
      BY <1>2 DEF crawlVars, Inv, CycleInv, StateInv, Settled, Lost, Content, Current, Waiting
    <2>4. (cycle.pc # "idle" => TodoInv)'
      BY <1>2 DEF crawlVars, Inv, CycleInv, TodoInv
    <2>5. (cycle.pc = "list" => PagesInv)'
      BY <1>2 DEF crawlVars, Inv, CycleInv, PagesInv, Settled, Lost, Content, Waiting,
                  Due, Listed, from_ms
    <2> QED
      BY <1>2, <2>1, <2>2, <2>3, <2>4, <2>5 DEF crawlVars, Inv, CycleInv
  <1> QED
    BY <1>1, <1>2

\* The invariant holds of every behaviour of the cycle and the drive.
THEOREM InvHolds == CrawlSpec => []Inv
  BY InitInv, NextInv, PTL DEF CrawlSpec

LEMMA InvType == Inv => CrawlTypeOK
  <1> SUFFICES ASSUME Inv PROVE CrawlTypeOK
    OBVIOUS
  <1>1. store \in [Files -> 0..MaxChanges]
    <2>1. \A f \in Files : store[f] \in 0..MaxChanges
      <3> SUFFICES ASSUME NEW f \in Files PROVE store[f] \in 0..MaxChanges
        OBVIOUS
      <3>1. store[f] \in Nat /\ store[f] <= file[f].ver /\ file[f].ver \in 0..MaxChanges
        BY DEF Inv, DriveInv
      <3>2. MaxChanges \in Nat
        BY CrawlAssumption
      <3> QED
        BY <3>1, <3>2
    <2> QED
      BY <2>1 DEF Inv, DriveInv
  <1>2. Range(cycle.todo) \subseteq [file : Files, deleted : BOOLEAN]
    <2>1. cycle.todo \in Seq(Items)
      BY DEF Inv, CycleInv, Cycles, Items
    <2>2. \A k \in DOMAIN cycle.todo : cycle.todo[k] \in Items
      BY <2>1, LenProperties, ElementOfSeq
    <2> QED
      BY <2>2 DEF Range, Items
  <1>3. cursor # NoCursor =>
            /\ cursor.watermark <= cursor.run_started /\ cursor.run_started <= now
            /\ Range(cursor.queue) \subseteq cursor.visited \cup {Root}
            /\ IsInjective(cursor.queue)
    BY DEF Inv, CursorInv, StateInv
  <1>4. cycle.pc \in {"idle", "list", "items"}
    BY DEF Inv, CycleInv, Cycles
  <1> QED
    BY <1>1, <1>2, <1>3, <1>4 DEF Inv, DriveInv, CrawlTypeOK

\* The values keep their types, and a saved crawl's queue holds no folder twice.
THEOREM TypeCorrect == CrawlSpec => []CrawlTypeOK
  BY InvHolds, InvType, PTL

LEMMA InvWatermark == Inv => WatermarkBehindStore
  BY DEF Inv, CursorInv, StateInv, Settled, WatermarkBehindStore

\* list_changes, run_cycle: however the drive's changes, the pages, failures
\* and restarts fall, a change made before the saved watermark is in the store,
\* or the file's last item failed, or it was in a deleted folder.
THEOREM WatermarkHidesNothing == CrawlSpec => []WatermarkBehindStore
  BY InvHolds, InvWatermark, PTL
=============================================================================
