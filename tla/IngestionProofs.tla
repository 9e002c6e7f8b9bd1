--------------------------- MODULE IngestionProofs ---------------------------
(***************************************************************************)
(* Proofs about Ingestion for every set of documents and every number of   *)
(* changes and failures.                                                   *)
(***************************************************************************)
EXTENDS Ingestion, WellFoundedInduction, SequenceTheorems, TLAPS

-----------------------------------------------------------------------------
(* The last change of a document.                                          *)

\* A set of naturals bounded by n has a greatest element.
LEMMA MaxExists ==
    ASSUME NEW n \in Nat, NEW S, S \subseteq 0..n, S # {}
    PROVE  Max(S) \in S /\ \A x \in S : x <= Max(S)
  <1> DEFINE T == {n - x : x \in S}
  <1>1. T \subseteq Nat /\ T # {}
    <2>1. \A x \in S : x \in Nat /\ n - x \in Nat
      OBVIOUS
    <2> QED
      BY <2>1
  <1> HIDE DEF T
  <1> DEFINE Less == {ss \in Nat \X Nat : ss[1] < ss[2]}
  <1>w. IsWellFoundedOn(Less, Nat)
    BY NatLessThanWellFounded DEF OpToRel
  <1>2. PICK m \in T : \A y \in T : ~(<<y, m>> \in Less)
    BY <1>1, <1>w, WFMin
  <1>3. \A y \in T : ~(y < m)
    BY <1>1, <1>2
  <1>4. \E x \in S : \A y \in S : x >= y
    <2>1. PICK x \in S : m = n - x
      BY DEF T
    <2>2. ASSUME NEW y \in S PROVE x >= y
      <3>1. ~(n - y < n - x)
        BY <1>3, <2>1 DEF T
      <3> QED
        BY <3>1
    <2> QED
      BY <2>2
  <1>5. Max(S) \in S /\ \A y \in S : Max(S) >= y
    BY <1>4 DEF Max
  <1> QED
    BY <1>5

\* What VersionAt is: a position of d's, or 0, that no later one of d's among
\* the first n exceeds.
LEMMA VersionAtIs ==
    ASSUME NEW d, NEW n \in Nat
    PROVE  /\ VersionAt(d, n) \in 0..n
           /\ VersionAt(d, n) # 0 => feed[VersionAt(d, n)].doc = d
           /\ \A i \in 1..n : feed[i].doc = d => i <= VersionAt(d, n)
  <1> DEFINE S == {0} \cup {i \in 1..n : feed[i].doc = d}
  <1>1. S \subseteq 0..n /\ S # {}
    OBVIOUS
  <1>2. Max(S) \in S /\ \A x \in S : x <= Max(S)
    BY <1>1, MaxExists
  <1> QED
    BY <1>1, <1>2 DEF VersionAt

\* A longer prefix has the same last change or a later one.
LEMMA VersionAtGrows ==
    ASSUME NEW d, NEW m \in Nat, NEW n \in Nat, m <= n
    PROVE  VersionAt(d, m) <= VersionAt(d, n)
  <1>1. VersionAt(d, m) \in 0..m /\ VersionAt(d, n) \in 0..n
    BY VersionAtIs
  <1>2. VersionAt(d, m) # 0 => feed[VersionAt(d, m)].doc = d
    BY VersionAtIs
  <1>3. \A i \in 1..n : feed[i].doc = d => i <= VersionAt(d, n)
    BY VersionAtIs
  <1> QED
    BY <1>1, <1>2, <1>3

\* Where nothing of d's lies between, it is the same.
LEMMA VersionAtSame ==
    ASSUME NEW d, NEW m \in Nat, NEW n \in Nat, m <= n, VersionAt(d, n) <= m
    PROVE  VersionAt(d, m) = VersionAt(d, n)
  <1>1. VersionAt(d, m) \in 0..m /\ VersionAt(d, n) \in 0..n
    BY VersionAtIs
  <1>2. VersionAt(d, n) # 0 => feed[VersionAt(d, n)].doc = d
    BY VersionAtIs
  <1>3. \A i \in 1..m : feed[i].doc = d => i <= VersionAt(d, m)
    BY VersionAtIs
  <1>4. VersionAt(d, m) <= VersionAt(d, n)
    BY VersionAtGrows
  <1>5. VersionAt(d, n) <= VersionAt(d, m)
    BY <1>1, <1>2, <1>3
  <1> QED
    BY <1>1, <1>4, <1>5

\* A change of the drive rewrites no history.
LEMMA VersionAtKept ==
    ASSUME NEW d, NEW n \in Nat, \A i \in 1..n : feed'[i] = feed[i]
    PROVE  VersionAt(d, n)' = VersionAt(d, n)
  <1>1. {i \in 1..n : feed'[i].doc = d} = {i \in 1..n : feed[i].doc = d}
    OBVIOUS
  <1> QED
    BY <1>1 DEF VersionAt
-----------------------------------------------------------------------------
(* The inductive invariant.                                                *)

\* A listing lies ahead of the saved cursor, and what is stored of a document
\* lies behind what the drive holds.
PositionInv ==
    /\ cursor # NoCursor => cursor <= Len(feed)
    /\ \A d \in Docs : store[d] <= Version(d)
    /\ pc = "items" =>
        /\ next <= Len(feed)
        /\ cursor # NoCursor => cursor <= next

\* An item still to be processed shows its document as it was when listed.
TodoInv ==
    pc = "items" =>
        \A i \in todo :
            /\ store[i.doc] <= VersionAt(i.doc, next)
            /\ i.deleted = (KindOf(VersionAt(i.doc, next)) = "gone")

\* What was downloaded is the listed version or a later one.
BodyInv ==
    item # NoItem =>
        /\ pc = "items"
        /\ \E i \in todo : i.doc = item /\ ~i.deleted
        /\ VersionAt(item, next) <= body /\ body <= Version(item)

\* When a cycle has nothing left to do, the store is as new as its listing.
CycleInv ==
    pc = "items" =>
        \A d \in Docs : \/ d \in missed \cup orphaned
                        \/ UpToDate(d, next)
                        \/ \E i \in todo : i.doc = d

Inv == TypeOK /\ PositionInv /\ TodoInv /\ BodyInv /\ CycleInv /\ CursorBehindStore
LEMMA NextTypes ==
    ASSUME TypeOK
    PROVE  /\ Len(feed) \in Nat /\ Len(feed) <= MaxChanges /\ MaxChanges \in Nat
           /\ faults \in Nat /\ MaxFaults \in Nat /\ next \in Nat /\ body \in Nat
           /\ cursor # NoCursor => cursor \in Nat
           /\ \A d \in Docs : store[d] \in Nat
  BY ConstantsAssumption DEF TypeOK, Versions

LEMMA ListType ==
    ASSUME TypeOK, ListChanges \/ ListFails
    PROVE  TypeOK'
  <1> USE NextTypes DEF worldVars, dbVars, cycleVars, historyVars
  <1>1. CASE ListChanges
    <2>1. Delta(cursor) \subseteq Item /\ NextCursor \in Versions
      BY DEF Delta, NextCursor, Versions
    <2>2. orphaned' \subseteq Docs
      BY <1>1 DEF ListChanges, TypeOK
    <2> QED
      BY <1>1, <2>1, <2>2 DEF ListChanges, TypeOK
  <1>2. CASE ListFails
    BY <1>2 DEF ListFails, Fault, TypeOK
  <1> QED
    BY <1>1, <1>2

LEMMA ItemType ==
    ASSUME TypeOK, NEW i \in todo,
           \/ DeleteChunks(i) \/ Download(i) \/ DownloadFails(i) \/ NothingToStore(i)
           \/ UpsertChunks(i) \/ UpsertFails(i)
    PROVE  TypeOK'
  <1> USE NextTypes DEF worldVars, dbVars, cycleVars, historyVars
  <1>i. i \in Item /\ i.doc \in Docs /\ todo \ {i} \subseteq Item
    BY DEF TypeOK, Item
  <1>f. Fault => faults' \in 0..MaxFaults
    BY DEF Fault
  <1>v. 0 \in Versions
    BY DEF Versions
  <1>1. CASE DeleteChunks(i)
    BY <1>1, <1>i, <1>f, <1>v DEF DeleteChunks, Written, Skipped, TypeOK
  <1>2. CASE Download(i)
    <2>1. \A n \in next..Len(feed) : VersionAt(i.doc, n) \in Versions
      BY VersionAtIs DEF Versions
    <2>2. body' \in Versions
      BY <1>2, <2>1 DEF Download, Served
    <2> QED
      BY <1>2, <1>i, <2>2 DEF Download, TypeOK
  <1>3. CASE DownloadFails(i)
    BY <1>3, <1>i, <1>f DEF DownloadFails, Skipped, TypeOK
  <1>4. CASE NothingToStore(i)
    BY <1>4, <1>i, <1>v DEF NothingToStore, Skipped, TypeOK
  <1>5. CASE UpsertChunks(i)
    BY <1>5, <1>i, <1>v DEF UpsertChunks, Written, TypeOK
  <1>6. CASE UpsertFails(i)
    BY <1>6, <1>i, <1>f, <1>v DEF UpsertFails, Skipped, TypeOK
  <1> QED
    BY <1>1, <1>2, <1>3, <1>4, <1>5, <1>6

LEMMA OtherType ==
    ASSUME TypeOK, SaveCursor \/ SaveFails \/ Restart \/ Harden \/ \E d \in Docs : ChangeDrive(d)
    PROVE  TypeOK'
  <1> USE NextTypes DEF worldVars, dbVars, cycleVars, historyVars
  <1>v. 0 \in Versions
    BY DEF Versions
  <1>f. Fault => faults' \in 0..MaxFaults
    BY DEF Fault
  <1>1. CASE SaveCursor
    BY <1>1, <1>v DEF SaveCursor, TypeOK
  <1>2. CASE SaveFails
    BY <1>2, <1>v, <1>f DEF SaveFails, TypeOK
  <1>3. CASE Restart
    BY <1>3, <1>v, <1>f DEF Restart, TypeOK
  <1>4. ASSUME NEW d \in Docs, ChangeDrive(d)
        PROVE  TypeOK'
    <2>1. PICK k \in Kinds : feed' = Append(feed, [doc |-> d, kind |-> k])
      BY <1>4 DEF ChangeDrive
    <2>2. /\ feed' \in Seq([doc : Docs, kind : Kinds])
          /\ Len(feed') = Len(feed) + 1 /\ Len(feed) < MaxChanges
      BY <1>4, <2>1 DEF ChangeDrive, TypeOK
    <2> QED
      BY <1>4, <2>2 DEF ChangeDrive, TypeOK
  <1>5. CASE Harden
    BY <1>5 DEF Harden, TypeOK
  <1> QED
    BY <1>1, <1>2, <1>3, <1>4, <1>5

-----------------------------------------------------------------------------
(* What stays true of a document that a step leaves alone.                 *)

\* A feed that only grows keeps what is known of its prefixes.
FeedGrows == /\ Len(feed') \in Nat /\ Len(feed) <= Len(feed')
             /\ \A i \in 1..Len(feed) : feed'[i] = feed[i]

LEMMA FeedStep ==
    ASSUME TypeOK, [Next]_vars
    PROVE  FeedGrows
  <1> USE NextTypes DEF worldVars, dbVars, cycleVars, historyVars
  <1>1. CASE UNCHANGED feed
    BY <1>1 DEF FeedGrows
  <1>2. ASSUME NEW d \in Docs, ChangeDrive(d)
        PROVE  FeedGrows
    <2>1. PICK k \in Kinds : feed' = Append(feed, [doc |-> d, kind |-> k])
      BY <1>2 DEF ChangeDrive
    <2> QED
      BY <2>1 DEF TypeOK, FeedGrows
  <1>3. CASE Daemon \/ Restart \/ Harden \/ UNCHANGED vars
    BY <1>1, <1>3 DEF Daemon, ListChanges, ListFails, ProcessItem, DeleteChunks, Download,
        DownloadFails, NothingToStore, UpsertChunks, UpsertFails, SaveCursor, SaveFails,
        Restart, Harden, vars
  <1> QED
    BY <1>2, <1>3 DEF Next

LEMMA PrefixKept ==
    ASSUME TypeOK, FeedGrows, NEW d, NEW n \in Nat, n <= Len(feed)
    PROVE  /\ VersionAt(d, n)' = VersionAt(d, n)
           /\ KindOf(VersionAt(d, n))' = KindOf(VersionAt(d, n))
  <1>1. \A i \in 1..n : feed'[i] = feed[i]
    BY NextTypes DEF FeedGrows
  <1>2. VersionAt(d, n)' = VersionAt(d, n)
    BY <1>1, VersionAtKept
  <1>3. VersionAt(d, n) \in 0..n
    BY VersionAtIs
  <1> QED
    BY <1>1, <1>2, <1>3 DEF KindOf

LEMMA VersionKept ==
    ASSUME TypeOK, FeedGrows, NEW d
    PROVE  Version(d) \in Nat /\ Version(d)' \in Nat /\ Version(d) <= Version(d)'
  <1>1. /\ Version(d) \in 0..Len(feed)
        /\ Version(d) # 0 => feed[Version(d)].doc = d
    BY VersionAtIs, NextTypes DEF Version
  <1>2. /\ Version(d)' \in 0..Len(feed')
        /\ \A i \in 1..Len(feed') : feed'[i].doc = d => i <= Version(d)'
    <2> DEFINE S == {0} \cup {i \in 1..Len(feed') : feed'[i].doc = d}
    <2>1. Len(feed') \in Nat /\ S \subseteq 0..Len(feed') /\ S # {}
      BY DEF FeedGrows
    <2>2. Max(S) \in S /\ \A x \in S : x <= Max(S)
      BY <2>1, MaxExists
    <2>3. Version(d)' = Max(S)
      BY DEF Version, VersionAt
    <2> QED
      BY <2>1, <2>2, <2>3
  <1>3. Version(d) # 0 => feed'[Version(d)].doc = d /\ Version(d) \in 1..Len(feed')
    BY <1>1, NextTypes DEF FeedGrows
  <1> QED
    BY <1>1, <1>2, <1>3, NextTypes DEF FeedGrows

\* A document that was as new as position n stays so while its rows stay.
LEMMA UpToDateKept ==
    ASSUME TypeOK, FeedGrows, NEW d, NEW n \in Nat, n <= Len(feed), UpToDate(d, n),
           store'[d] = store[d]
    PROVE  UpToDate(d, n)'
  <1>1. VersionAt(d, n)' = VersionAt(d, n) /\ VersionAt(d, n) \in 0..n
    BY PrefixKept, VersionAtIs
  <1>2. \A w \in VersionAt(d, n)..Len(feed) :
            w # 0 => w \in VersionAt(d, n)..Len(feed') /\ feed'[w] = feed[w]
    BY <1>1, NextTypes DEF FeedGrows
  <1>3. CASE store[d] >= VersionAt(d, n)
    BY <1>1, <1>3 DEF UpToDate
  <1>4. CASE ~(store[d] >= VersionAt(d, n))
    <2>1. VersionAt(d, n) # 0
      BY <1>1, <1>4 DEF UpToDate
    <2> QED
      BY <1>1, <1>2, <1>4, <2>1 DEF UpToDate
  <1> QED
    BY <1>3, <1>4

\* A deletion in the feed, as UpToDate looks for it.
LEMMA GoneEntry ==
    ASSUME TypeOK, NEW d, NEW v \in 1..Len(feed), feed[v].doc = d, KindOf(v) = "gone"
    PROVE  feed[v] = [doc |-> d, kind |-> "gone"]
  <1>1. feed[v] \in [doc : Docs, kind : Kinds]
    BY ElementOfSeq DEF TypeOK
  <1>2. v # 0
    OBVIOUS
  <1>3. feed[v].kind = "gone"
    BY <1>2 DEF KindOf
  <1> QED
    BY <1>1, <1>3

\* A document whose last change is not listed has not changed since the cursor,
\* or is gone where there is no cursor.
LEMMA NotListed ==
    ASSUME NEW d \in Docs, NEW c, \A i \in Delta(c) : i.doc # d
    PROVE  IF c = NoCursor THEN KindOf(Version(d)) = "gone" ELSE ~(Version(d) > c)
  <1> DEFINE b == (KindOf(Version(d)) = "gone")
             i == [doc |-> d, deleted |-> b]
  <1>1. b \in BOOLEAN
    OBVIOUS
  <1> HIDE DEF b
  <1>2. i \in Item /\ i.doc = d /\ i.deleted = b
    BY <1>1 DEF Item
  <1> HIDE DEF i
  <1>3. ~(IF c = NoCursor THEN ~i.deleted ELSE Version(i.doc) > c)
    <2>1. i \notin Delta(c)
      BY <1>2
    <2>2. i.deleted = (KindOf(Version(i.doc)) = "gone")
      BY <1>2 DEF b
    <2> QED
      BY <1>2, <2>1, <2>2 DEF Delta
  <1>4. CASE c = NoCursor
    <2>1. i.deleted
      BY <1>3, <1>4
    <2> QED
      BY <1>2, <1>4, <2>1 DEF b
  <1>5. CASE c # NoCursor
    BY <1>2, <1>3, <1>5
  <1> QED
    BY <1>4, <1>5
-----------------------------------------------------------------------------
(* Each kind of step preserves the invariant.                              *)

\* The facts of Inv that the steps below use, with their types.
LEMMA InvFacts ==
    ASSUME Inv
    PROVE  /\ Len(feed) \in Nat /\ next \in Nat /\ body \in Nat
           /\ cursor # NoCursor => cursor \in Nat /\ cursor <= Len(feed)
           /\ \A d \in Docs : store[d] \in Nat
           /\ pc = "items" => next <= Len(feed) /\ (cursor # NoCursor => cursor <= next)
  BY NextTypes DEF Inv, PositionInv

LEMMA DriveInv ==
    ASSUME Inv, NEW d \in Docs, ChangeDrive(d)
    PROVE  Inv'
  <1> USE DEF worldVars, dbVars, cycleVars, historyVars
  <1>g. FeedGrows /\ TypeOK /\ TypeOK'
    BY FeedStep, OtherType DEF Inv, Next
  <1>f. /\ UNCHANGED <<store, cursor, pc, todo, next, item, body, missed, orphaned>>
        /\ Len(feed) <= Len(feed') /\ Len(feed') \in Nat
    BY <1>g DEF ChangeDrive, FeedGrows
  <1>1. PositionInv'
    <2>1. \A e \in Docs : store[e] <= Version(e)'
      BY <1>g, VersionKept, InvFacts DEF Inv, PositionInv
    <2> QED
      BY <1>f, <2>1, InvFacts DEF Inv, PositionInv
  <1>2. TodoInv'
    <2>1. ASSUME pc = "items", NEW i \in todo
          PROVE  (/\ store[i.doc] <= VersionAt(i.doc, next)
                  /\ i.deleted = (KindOf(VersionAt(i.doc, next)) = "gone"))'
      <3>1. /\ VersionAt(i.doc, next)' = VersionAt(i.doc, next)
            /\ KindOf(VersionAt(i.doc, next))' = KindOf(VersionAt(i.doc, next))
        BY <1>f, <1>g, <2>1, PrefixKept, InvFacts
      <3> QED
        BY <1>f, <2>1, <3>1 DEF Inv, TodoInv
    <2> QED
      BY <1>f, <2>1 DEF TodoInv
  <1>3. BodyInv'
    <2>1. pc = "items" => VersionAt(item, next)' = VersionAt(item, next)
      BY <1>f, <1>g, PrefixKept, InvFacts
    <2>2. Version(item) \in Nat /\ Version(item)' \in Nat /\ Version(item) <= Version(item)'
      BY <1>f, <1>g, VersionKept
    <2> QED
      BY <1>f, <2>1, <2>2, InvFacts DEF Inv, BodyInv
  <1>4. CycleInv'
    <2>1. \A e \in Docs : pc = "items" /\ UpToDate(e, next) => UpToDate(e, next)'
      BY <1>f, <1>g, UpToDateKept, InvFacts
    <2> QED
      BY <1>f, <2>1 DEF Inv, CycleInv
  <1>5. CursorBehindStore'
    <2>1. \A e \in Docs : cursor # NoCursor /\ UpToDate(e, cursor) => UpToDate(e, cursor)'
      BY <1>f, <1>g, UpToDateKept, InvFacts
    <2> QED
      BY <1>f, <2>1 DEF Inv, CursorBehindStore
  <1> QED
    BY <1>g, <1>1, <1>2, <1>3, <1>4, <1>5 DEF Inv

LEMMA ListInv ==
    ASSUME Inv, ListChanges
    PROVE  Inv'
  <1> USE DEF worldVars, dbVars, historyVars
  <1>g. TypeOK /\ TypeOK'
    BY ListType DEF Inv
  <1>f. /\ UNCHANGED <<feed, store, cursor, item, body, missed>>
        /\ pc = "idle" /\ pc' = "items" /\ next' = Len(feed) /\ todo' = Delta(cursor)
        /\ item = NoItem
    BY DEF ListChanges, NextCursor, Inv, BodyInv
  <1>v. \A d \in Docs : VersionAt(d, next)' = Version(d) /\ Version(d)' = Version(d)
    BY <1>f DEF Version, VersionAt
  <1>1. PositionInv'
    BY <1>f, <1>v, InvFacts DEF Inv, PositionInv
  <1>2. TodoInv'
    <2>1. ASSUME NEW i \in Delta(cursor)
          PROVE  /\ i.doc \in Docs /\ store[i.doc] <= Version(i.doc)
                 /\ i.deleted = (KindOf(Version(i.doc)) = "gone")
      BY DEF Delta, Item, Inv, PositionInv
    <2>2. \A d \in Docs : KindOf(VersionAt(d, next))' = KindOf(Version(d))
      BY <1>f, <1>v DEF KindOf
    <2> QED
      BY <1>f, <1>v, <2>1, <2>2 DEF TodoInv
  <1>3. BodyInv'
    BY <1>f DEF BodyInv
  <1>4. CycleInv'
    <2> SUFFICES ASSUME NEW d \in Docs, d \notin missed \cup orphaned',
                        \A i \in Delta(cursor) : i.doc # d
                 PROVE  UpToDate(d, next)'
      BY <1>f DEF CycleInv
    <2> DEFINE v == Version(d)
    <2>1. /\ v \in 0..Len(feed) /\ (v # 0 => feed[v].doc = d)
          /\ Len(feed) \in Nat /\ store[d] \in Nat
      BY VersionAtIs, InvFacts DEF Version
    <2>v. VersionAt(d, next)' = v
      BY <1>v
    <2>2. CASE cursor = NoCursor
      <3>1. KindOf(v) = "gone"
        BY <2>2, NotListed
      <3>2. store[d] = 0
        BY <2>2, <3>1 DEF ListChanges
      <3>3. CASE v = 0
        BY <1>f, <2>v, <3>2, <3>3 DEF UpToDate
      <3>4. CASE v # 0
        <4>1. v \in 1..Len(feed) /\ v \in v..Len(feed)
          BY <2>1, <3>4
        <4>2. feed[v] = [doc |-> d, kind |-> "gone"]
          BY <1>g, <2>1, <3>1, <3>4, <4>1, GoneEntry
        <4> HIDE DEF v
        <4> QED
          BY <1>f, <2>v, <3>2, <4>1, <4>2 DEF UpToDate
      <3> QED
        BY <3>3, <3>4
    <2>3. CASE cursor # NoCursor
      <3>1. cursor \in Nat /\ cursor <= Len(feed)
        BY <2>3, InvFacts
      <3>2. v <= cursor
        BY <2>1, <2>3, <3>1, NotListed
      <3>3. VersionAt(d, cursor) = v
        BY <2>1, <3>1, <3>2, VersionAtSame DEF Version
      <3>4. orphaned' = orphaned
        BY <2>3 DEF ListChanges
      <3>5. UpToDate(d, cursor)
        BY <2>3, <3>4 DEF Inv, CursorBehindStore
      <3> QED
        BY <1>f, <1>v, <3>3, <3>5 DEF UpToDate
    <2> QED
      BY <2>2, <2>3
  <1>5. CursorBehindStore'
    <2>1. cursor # NoCursor => orphaned' = orphaned
      BY DEF ListChanges
    <2> QED
      BY <1>f, <2>1 DEF Inv, CursorBehindStore, UpToDate, VersionAt
  <1> QED
    BY <1>g, <1>1, <1>2, <1>3, <1>4, <1>5 DEF Inv

\* A listing has one item per document.
LEMMA OneItem ==
    ASSUME Inv, pc = "items", NEW i \in todo, NEW j \in todo, i.doc = j.doc
    PROVE  i = j
  <1>1. i \in Item /\ j \in Item
    BY DEF Inv, TypeOK
  <1>2. i.deleted = j.deleted
    BY DEF Inv, TodoInv
  <1> QED
    BY <1>1, <1>2 DEF Item

\* An item that ends without a write.
LEMMA SkipInv ==
    ASSUME Inv, TypeOK', NEW i \in todo, pc = "items", Skipped(i), item' = NoItem,
           UNCHANGED <<feed, store, cursor, pc, next>>
    PROVE  Inv'
  <1>d. i.doc \in Docs
    BY DEF Inv, TypeOK, Item
  <1>f. /\ todo' = todo \ {i} /\ missed' = missed \cup {i.doc} /\ orphaned' = orphaned
    BY DEF Skipped
  <1>1. PositionInv'
    BY DEF Inv, PositionInv, Version, VersionAt
  <1>2. TodoInv'
    BY <1>f DEF Inv, TodoInv, VersionAt, KindOf
  <1>3. BodyInv'
    BY DEF BodyInv
  <1>4. CycleInv'
    BY <1>d, <1>f DEF Inv, CycleInv, UpToDate, VersionAt
  <1>5. CursorBehindStore'
    BY <1>f DEF Inv, CursorBehindStore, UpToDate, VersionAt
  <1> QED
    BY <1>1, <1>2, <1>3, <1>4, <1>5 DEF Inv

\* An item that ends with a write of version v: the listed one or a later, or
\* nothing where the listing says the file is gone.
LEMMA WriteInv ==
    ASSUME Inv, TypeOK', NEW i \in todo, pc = "items", Written(i), item' = NoItem,
           UNCHANGED <<feed, cursor, pc, next>>,
           NEW v \in Nat, store' = [store EXCEPT ![i.doc] = v], v <= Version(i.doc),
           \/ v >= VersionAt(i.doc, next)
           \/ v = 0 /\ KindOf(VersionAt(i.doc, next)) = "gone"
    PROVE  Inv'
  <1> DEFINE d == i.doc
  <1>d. d \in Docs /\ store \in [Docs -> Versions] /\ TypeOK
    BY DEF Inv, TypeOK, Item
  <1>f. /\ todo' = todo \ {i} /\ missed' = missed \ {d} /\ orphaned' = orphaned \ {d}
        /\ store'[d] = v /\ \A e \in Docs \ {d} : store'[e] = store[e]
    BY <1>d DEF Written
  <1>n. /\ next \in Nat /\ next <= Len(feed) /\ Len(feed) \in Nat
        /\ cursor # NoCursor => cursor \in Nat /\ cursor <= next
    BY InvFacts
  <1>u. ASSUME NEW n \in Nat, n <= next
        PROVE  UpToDate(d, n)'
    <2> DEFINE w == VersionAt(d, next)
    <2>1. /\ w \in 0..next /\ (w # 0 => feed[w].doc = d)
          /\ VersionAt(d, n) \in 0..n /\ VersionAt(d, n) <= w
      BY <1>n, <1>u, VersionAtIs, VersionAtGrows
    <2>2. VersionAt(d, n)' = VersionAt(d, n)
      BY DEF VersionAt
    <2> HIDE DEF d, w
    <2>3. CASE v >= w
      <3>1. store'[d] >= VersionAt(d, n)
        BY <1>f, <2>1, <2>3
      <3> QED
        BY <2>2, <3>1 DEF UpToDate
    <2>4. CASE v = 0 /\ KindOf(w) = "gone" /\ w # 0
      <3>1. w \in 1..Len(feed) /\ w \in VersionAt(d, n)..Len(feed)
        BY <1>n, <2>1, <2>4
      <3>2. feed[w] = [doc |-> d, kind |-> "gone"]
        BY <1>d, <2>1, <2>4, <3>1, GoneEntry
      <3>3. store'[d] = 0
        BY <1>f, <2>4
      <3> QED
        BY <2>2, <3>1, <3>2, <3>3 DEF UpToDate
    <2> QED
      BY <2>1, <2>3, <2>4 DEF d, w
  <1>o. \A e \in Docs \ {d}, n \in Nat : UpToDate(e, n) => UpToDate(e, n)'
    BY <1>f DEF UpToDate, VersionAt
  <1>1. PositionInv'
    <2>1. \A e \in Docs : Version(e)' = Version(e)
      BY DEF Version, VersionAt
    <2>2. \A e \in Docs : store'[e] <= Version(e)'
      BY <1>f, <2>1 DEF Inv, PositionInv
    <2> QED
      BY <2>2 DEF Inv, PositionInv
  <1>2. TodoInv'
    <2>1. \A j \in todo' : j \in todo /\ j.doc \in Docs \ {d}
      BY <1>f, OneItem DEF Inv, TypeOK, Item
    <2> QED
      BY <1>f, <2>1 DEF Inv, TodoInv, VersionAt, KindOf
  <1>3. BodyInv'
    BY DEF BodyInv
  <1>4. CycleInv'
    <2>1. UpToDate(d, next)'
      BY <1>n, <1>u
    <2>2. \A e \in Docs \ {d} : UpToDate(e, next) => UpToDate(e, next)'
      BY <1>n, <1>o
    <2> QED
      BY <1>f, <2>1, <2>2 DEF Inv, CycleInv
  <1>5. CursorBehindStore'
    <2>1. cursor # NoCursor => UpToDate(d, cursor)'
      BY <1>n, <1>u
    <2>2. \A e \in Docs \ {d} : cursor # NoCursor /\ UpToDate(e, cursor) => UpToDate(e, cursor)'
      BY <1>n, <1>o
    <2> QED
      BY <1>f, <2>1, <2>2 DEF Inv, CursorBehindStore
  <1> QED
    BY <1>1, <1>2, <1>3, <1>4, <1>5 DEF Inv

\* The version an item is downloaded in.
LEMMA DownloadInv ==
    ASSUME Inv, TypeOK', NEW i \in todo, Download(i)
    PROVE  Inv'
  <1> USE DEF worldVars, dbVars, historyVars
  <1>f. /\ UNCHANGED <<feed, store, cursor, pc, todo, next, missed, orphaned>>
        /\ pc = "items" /\ item' = i.doc /\ ~i.deleted
    BY DEF Download
  <1>n. next \in Nat /\ next <= Len(feed) /\ Len(feed) \in Nat
    BY <1>f, InvFacts
  <1>1. PICK n \in next..Len(feed) : body' = VersionAt(i.doc, n)
    BY DEF Download, Served
  <1>2. VersionAt(i.doc, next) <= body' /\ body' <= Version(i.doc)
    BY <1>n, <1>1, VersionAtGrows DEF Version
  <1>3. VersionAt(item, next)' = VersionAt(i.doc, next) /\ Version(item)' = Version(i.doc)
    BY <1>f DEF Version, VersionAt
  <1>4. BodyInv'
    BY <1>f, <1>2, <1>3 DEF BodyInv
  <1>5. PositionInv' /\ TodoInv' /\ CycleInv' /\ CursorBehindStore'
    BY <1>f DEF Inv, PositionInv, TodoInv, CycleInv, CursorBehindStore, UpToDate, Version,
        VersionAt, KindOf
  <1> QED
    BY <1>4, <1>5 DEF Inv

LEMMA ItemInv ==
    ASSUME Inv, NEW i \in todo,
           \/ DeleteChunks(i) \/ Download(i) \/ DownloadFails(i) \/ NothingToStore(i)
           \/ UpsertChunks(i) \/ UpsertFails(i)
    PROVE  Inv'
  <1> USE DEF worldVars, dbVars
  <1>g. TypeOK'
    BY ItemType DEF Inv
  <1>d. i.doc \in Docs /\ i.doc # NoItem
    BY ConstantsAssumption DEF Inv, TypeOK, Item
  <1>p. pc = "items"
    BY <1>d DEF DeleteChunks, Download, DownloadFails, NothingToStore, UpsertChunks, UpsertFails,
        Inv, BodyInv
  <1>n. next \in Nat /\ Len(feed) \in Nat /\ next <= Len(feed) /\ body \in Nat
    BY <1>p, InvFacts
  <1>1. CASE DeleteChunks(i)
    <2>1. CASE Skipped(i) /\ UNCHANGED store
      BY <1>1, <1>g, <1>p, <2>1, SkipInv DEF DeleteChunks
    <2>2. CASE Written(i) /\ store' = [store EXCEPT ![i.doc] = 0]
      <3>1. KindOf(VersionAt(i.doc, next)) = "gone"
        BY <1>1, <1>p DEF DeleteChunks, Inv, TodoInv
      <3>2. 0 <= Version(i.doc)
        BY <1>n, VersionAtIs DEF Version
      <3> QED
        BY <1>1, <1>g, <1>p, <2>2, <3>1, <3>2, WriteInv DEF DeleteChunks
    <2> QED
      BY <1>1, <2>1, <2>2 DEF DeleteChunks
  <1>2. CASE Download(i)
    BY <1>2, <1>g, DownloadInv
  <1>3. CASE DownloadFails(i)
    BY <1>3, <1>g, <1>p, SkipInv DEF DownloadFails
  <1>4. CASE NothingToStore(i)
    BY <1>4, <1>g, <1>p, SkipInv DEF NothingToStore
  <1>5. CASE UpsertChunks(i)
    <2>1. VersionAt(i.doc, next) <= body /\ body <= Version(i.doc)
      BY <1>5, <1>d DEF UpsertChunks, Inv, BodyInv
    <2>2. VersionAt(i.doc, next) \in Nat
      BY <1>n, VersionAtIs
    <2> QED
      BY <1>5, <1>g, <1>n, <1>p, <2>1, <2>2, WriteInv DEF UpsertChunks
  <1>6. CASE UpsertFails(i)
    BY <1>6, <1>g, <1>p, SkipInv DEF UpsertFails
  <1> QED
    BY <1>1, <1>2, <1>3, <1>4, <1>5, <1>6

\* The end of a cycle, however it comes about.
LEMMA EndInv ==
    ASSUME Inv, SaveCursor \/ SaveFails \/ Restart
    PROVE  Inv'
  <1> USE DEF worldVars, dbVars, historyVars
  <1>g. TypeOK'
    BY OtherType DEF Inv
  <1>f. UNCHANGED <<feed, store, missed, orphaned>> /\ pc' = "idle" /\ item' = NoItem
    BY DEF SaveCursor, SaveFails, Restart, ItemsDone
  <1>1. TodoInv' /\ BodyInv' /\ CycleInv'
    BY <1>f DEF TodoInv, BodyInv, CycleInv
  <1>2. CASE UNCHANGED cursor
    BY <1>f, <1>g, <1>1, <1>2 DEF Inv, PositionInv, CursorBehindStore, UpToDate, Version, VersionAt
  <1>3. CASE SaveCursor
    <2>1. pc = "items" /\ todo = {} /\ cursor' = next
      BY <1>3 DEF SaveCursor, ItemsDone
    <2>2. PositionInv'
      BY <1>f, <2>1, InvFacts DEF Inv, PositionInv, Version, VersionAt
    <2>3. CursorBehindStore'
      BY <1>f, <2>1 DEF Inv, CycleInv, CursorBehindStore, UpToDate, VersionAt
    <2> QED
      BY <1>g, <1>1, <2>2, <2>3 DEF Inv
  <1> QED
    BY <1>2, <1>3 DEF SaveFails, Restart

-----------------------------------------------------------------------------
(* The theorems.                                                           *)

\* An empty store with no cursor, as the migrations leave the database.
LEMMA InvInit == Init => Inv
  <1> SUFFICES ASSUME Init PROVE Inv
    OBVIOUS
  <1>1. TypeOK
    <2>1. 0 \in Versions /\ 0 \in 0..MaxFaults
      BY ConstantsAssumption DEF Versions
    <2> QED
      BY <2>1, ConstantsAssumption DEF Init, TypeOK
  <1>2. \A d \in Docs : store[d] <= Version(d)
    <2>1. Len(feed) \in Nat
      BY <1>1, NextTypes
    <2>2. \A d \in Docs : Version(d) \in 0..Len(feed)
      BY <2>1, VersionAtIs DEF Version
    <2> QED
      BY <2>1, <2>2 DEF Init
  <1> QED
    BY <1>1, <1>2 DEF Init, Inv, PositionInv, TodoInv, BodyInv, CycleInv, CursorBehindStore

LEMMA InvNext == Inv /\ [Next]_vars => Inv'
  <1> SUFFICES ASSUME Inv, [Next]_vars PROVE Inv'
    OBVIOUS
  <1>1. CASE ListChanges
    BY <1>1, ListInv
  <1>2. CASE ListFails \/ Harden \/ UNCHANGED vars
    <2>1. UNCHANGED <<feed, store, cursor, pc, todo, next, item, body, missed, orphaned>>
      BY <1>2 DEF ListFails, Harden, worldVars, dbVars, cycleVars, historyVars, vars
    <2>2. TypeOK'
      BY <1>2, ListType, OtherType DEF Inv, TypeOK, vars
    <2> QED
      BY <2>1, <2>2 DEF Inv, PositionInv, TodoInv, BodyInv, CycleInv, CursorBehindStore, UpToDate,
          Version, VersionAt, KindOf
  <1>3. CASE ProcessItem
    BY <1>3, ItemInv DEF ProcessItem
  <1>4. CASE SaveCursor \/ SaveFails \/ Restart
    BY <1>4, EndInv
  <1>5. CASE \E d \in Docs : ChangeDrive(d)
    BY <1>5, DriveInv
  <1> QED
    BY <1>1, <1>2, <1>3, <1>4, <1>5 DEF Next, Daemon

\* The facts of every state of the daemon from which the theorems follow.
THEOREM Invariance == Spec => []Inv
  BY InvInit, InvNext, PTL DEF Spec

\* Every variable keeps its type, for any drive and any bounds.
THEOREM TypeCorrect == Spec => []TypeOK
  <1>1. Inv => TypeOK
    BY DEF Inv
  <1> QED
    BY <1>1, Invariance, PTL

\* run_cycle, save_cursor: wherever a failure or a restart cuts a cycle, no
\* document is older in the store than the saved cursor says, but for those
\* whose own item failed and those that vanished during a first crawl.
THEOREM CursorNeverAhead == Spec => []CursorBehindStore
  <1>1. Inv => CursorBehindStore
    BY DEF Inv
  <1> QED
    BY <1>1, Invariance, PTL

\* upsert_chunks, delete_chunks: whatever is replayed, no stored document goes
\* back to an older version.
THEOREM StoreNeverBackwards == Spec => NeverBackwards
  <1>1. Inv /\ [Next]_vars => [\A d \in Docs : store'[d] # 0 => store'[d] >= store[d]]_vars
    <2> SUFFICES ASSUME Inv, Next, NEW d \in Docs, store'[d] # 0
                 PROVE  store'[d] >= store[d]
      OBVIOUS
    <2>t. store[d] \in Nat /\ store \in [Docs -> Versions]
      BY InvFacts DEF Inv, TypeOK
    <2>1. CASE UNCHANGED store
      BY <2>t, <2>1
    <2>2. ASSUME NEW i \in todo, store' = [store EXCEPT ![i.doc] = 0]
          PROVE  store'[d] >= store[d]
      BY <2>t, <2>2
    <2>3. ASSUME NEW i \in todo, UpsertChunks(i)
          PROVE  store'[d] >= store[d]
      <3>1. i.doc \in Docs /\ i.doc # NoItem
        BY ConstantsAssumption DEF Inv, TypeOK, Item
      <3>2. pc = "items" /\ VersionAt(i.doc, next) <= body
        BY <2>3, <3>1 DEF UpsertChunks, Inv, BodyInv
      <3>3. store[i.doc] <= VersionAt(i.doc, next)
        BY <3>2 DEF Inv, TodoInv
      <3>4. VersionAt(i.doc, next) \in Nat /\ body \in Nat /\ store[i.doc] \in Nat
        BY <3>1, InvFacts, VersionAtIs
      <3>5. store'[d] = IF d = i.doc THEN body ELSE store[d]
        BY <2>3, <2>t DEF UpsertChunks
      <3> QED
        BY <2>t, <3>2, <3>3, <3>4, <3>5
    <2> QED
      BY <2>1, <2>2, <2>3 DEF Next, Daemon, ListChanges, ListFails, ProcessItem, DeleteChunks,
          Download, DownloadFails, NothingToStore, UpsertFails, SaveCursor, SaveFails, Restart,
          ChangeDrive, Harden, dbVars
  <1> QED
    BY <1>1, Invariance, PTL DEF Spec, NeverBackwards
=============================================================================
