-------------------------- MODULE ChunkStoreProofs --------------------------
(***************************************************************************)
(* Proofs about the key rotation of ChunkStore for every set of documents, *)
(* texts and row ids, every page size and every number of runs, writes and *)
(* failures.                                                               *)
(***************************************************************************)
EXTENDS ChunkStore, PlacesProofs, SequenceTheorems

-----------------------------------------------------------------------------
(* The inductive invariant.                                                *)

RowShape(r) == r = [doc |-> r.doc, index |-> r.index, wire |-> r.wire,
                    embedding |-> r.embedding]

StoreInv ==
    /\ DOMAIN rows \subseteq used /\ used \subseteq Ids
    /\ \A i \in DOMAIN rows : RowShape(rows[i])
    /\ before \subseteq DOMAIN rows
    /\ exempt \in BOOLEAN

\* A page is held, and a transaction open, only in the middle of a batch.
JobInv ==
    /\ pc \in {"idle", "fetch", "batch", "done", "failed"}
    /\ offset \in Nat /\ gone \in Nat
    /\ DOMAIN batch \subseteq used
    /\ DOMAIN pending \subseteq DOMAIN batch /\ todo \subseteq DOMAIN batch
    /\ pc # "batch" => DOMAIN batch = {}
    /\ ~Running => offset = 0

\* A row of the page is as it was read, or it is gone: its id is not used again.
BatchInv == \A i \in DOMAIN batch \cap DOMAIN rows : rows[i].wire = batch[i]

\* What the transaction is about to write is the row's own text under the new
\* key, and the row is still there, because the transaction has locked it.
PendingInv ==
    \A i \in DOMAIN pending :
        /\ i \in DOMAIN rows /\ RowShape(pending[i])
        /\ pending[i].wire.plain = rows[i].wire.plain
        /\ decrypts(NewKey, pending[i].wire)

\* A row of the page that was looked at is gone, rewritten, or needed nothing,
\* unless it is hidden by now and the UPDATE did not find it.
DoneInv ==
    exempt =>
        \A i \in DOMAIN batch \ todo :
            i \in DOMAIN rows =>
                i \in DOMAIN pending \/ decrypts(NewKey, rows[i].wire)

\* The rows the run began with that it will not see any more, although they
\* are not under the new key: the page it holds or asks for next lies behind.
Reached == offset + Cardinality(DOMAIN batch)
Passed == {i \in before \ DOMAIN batch : ~decrypts(NewKey, rows[i].wire) /\ Rank(i) < Reached}

\* They slipped back by a place for each row deleted, as long as pages are taken
\* from all the rows; a role that is exempt has been so since the run began.
CountInv ==
    /\ Running /\ exempt => Cardinality(Passed) <= gone
    /\ LeftBehindBounded

Inv == StoreInv /\ JobInv /\ BatchInv /\ PendingInv /\ DoneInv /\ CountInv

-----------------------------------------------------------------------------
(* Places in the order of the ids.                                         *)

LEMMA IdSets ==
    ASSUME NEW S, S \subseteq Ids
    PROVE  IsFiniteSet(S) /\ Cardinality(S) \in Nat /\ \A i \in S : i \in Nat
  BY ConstantsAssumption, FS_Subset, FS_CardinalityType

LEMMA PlaceOfId ==
    ASSUME NEW S, S \subseteq Ids, NEW i
    PROVE  Place(S, i) \in Nat
  BY IdSets, PlaceType

\* There are no more rows than places.
LEMMA RowsFitPlaces ==
    ASSUME NEW S, S \subseteq Ids, NEW T, T \subseteq S, NEW a \in Nat, NEW n \in Nat,
           \A i \in T : a <= Place(S, i) /\ Place(S, i) < a + n
    PROVE  IsFiniteSet(T) /\ Cardinality(T) <= n
  <1>1. IsFiniteSet(S) /\ S \subseteq Nat /\ IsFiniteSet(T)
    BY IdSets
  <1>2. \A i \in T : Place(S, i) \in a..(a + n - 1)
    BY PlaceOfId
  <1> QED
    BY <1>1, <1>2, FewPlaces

\* Taking rows out of a table moves a row down by at most their number.
LEMMA RankAfterRemoval ==
    ASSUME NEW S, S \subseteq Ids, NEW R, R \subseteq Ids, NEW D, D \subseteq Ids,
           S \ D \subseteq R, NEW i
    PROVE  Place(S, i) <= Place(R, i) + Cardinality(D)
  <1> DEFINE A == {k \in S : k < i}  B == {k \in R : k < i}
  <1>1. A \subseteq Ids /\ B \subseteq Ids /\ B \cup D \subseteq Ids /\ B \cap D \subseteq Ids
    OBVIOUS
  <1>2. A \subseteq B \cup D
    OBVIOUS
  <1>3. Cardinality(A) <= Cardinality(B \cup D)
    BY <1>1, <1>2, IdSets, FS_Subset
  <1>4. Cardinality(B \cup D) = Cardinality(B) + Cardinality(D) - Cardinality(B \cap D)
    BY <1>1, IdSets, FS_Union
  <1>5. /\ Cardinality(A) \in Nat /\ Cardinality(B) \in Nat /\ Cardinality(D) \in Nat
        /\ Cardinality(B \cap D) \in Nat /\ Cardinality(B \cup D) \in Nat
    BY <1>1, IdSets
  <1>6. Cardinality(A) <= Cardinality(B) + Cardinality(D)
    BY <1>3, <1>4, <1>5
  <1> QED
    BY <1>6 DEF Place

\* The places are taken from 0 on without a gap.
LEMMA NoGap ==
    ASSUME NEW S, S \subseteq Ids, NEW n \in Nat, \A i \in S : Place(S, i) # n
    PROVE  \A i \in S : Place(S, i) < n
  <1> SUFFICES ASSUME NEW h \in S, ~(Place(S, h) < n) PROVE FALSE
    OBVIOUS
  <1> DEFINE T == {i \in S : ~(Place(S, i) < n)}
  <1>1. T \subseteq Nat /\ T # {}
    BY IdSets
  <1> DEFINE lower == {ss \in Nat \X Nat : ss[1] < ss[2]}
  <1>2. IsWellFoundedOn(lower, Nat)
    BY NatLessThanWellFounded DEF OpToRel
  <1>3. PICK m \in T : \A y \in T : ~(<<y, m>> \in lower)
    <2> HIDE DEF T, lower
    <2> QED
      BY <1>1, <1>2, WFMin
  <1>4. \A y \in T : ~(y < m)
    BY <1>1, <1>3
  <1> DEFINE P == {k \in S : k < m}
  <1>5. \A k \in P : 0 <= Place(S, k) /\ Place(S, k) < 0 + n
    <2> SUFFICES ASSUME NEW k \in P PROVE 0 <= Place(S, k) /\ Place(S, k) < 0 + n
      OBVIOUS
    <2>1. k \in S /\ k < m /\ Place(S, k) \in Nat
      BY PlaceOfId
    <2>2. k \notin T
      BY <1>4, <2>1
    <2> QED
      BY <2>1, <2>2
  <1>6. Cardinality(P) <= n
    <2> P \subseteq S
      OBVIOUS
    <2> HIDE DEF P
    <2> QED
      BY <1>5, RowsFitPlaces
  <1>7. Place(S, m) <= n /\ Place(S, m) \in Nat
    BY <1>6, PlaceOfId DEF Place
  <1>8. m \in S /\ ~(Place(S, m) < n) /\ Place(S, m) # n
    OBVIOUS
  <1> QED
    BY <1>7, <1>8

LEMMA PassedRows ==
    ASSUME Inv
    PROVE  /\ DOMAIN rows \subseteq Ids /\ Passed \subseteq Ids /\ Cardinality(Passed) \in Nat
           /\ \A i : Rank(i) = Place(DOMAIN rows, i) /\ Rank(i) \in Nat
           /\ offset \in Nat /\ gone \in Nat /\ Reached \in Nat
           /\ IsFiniteSet(DOMAIN batch) /\ Cardinality(DOMAIN batch) \in Nat
           /\ BatchSize \in Nat \ {0}
  <1>1. DOMAIN rows \subseteq Ids /\ before \subseteq Ids /\ DOMAIN batch \subseteq Ids
    BY DEF Inv, StoreInv, JobInv
  <1>2. Passed \subseteq Ids
    BY <1>1 DEF Passed
  <1>3. \A i : Rank(i) = Place(DOMAIN rows, i)
    BY DEF Rank
  <1>4. offset \in Nat /\ gone \in Nat
    BY DEF Inv, JobInv
  <1>5. IsFiniteSet(DOMAIN batch) /\ Cardinality(DOMAIN batch) \in Nat
    BY <1>1, IdSets
  <1>6. Cardinality(Passed) \in Nat
    BY <1>2, IdSets
  <1>7. \A i : Rank(i) \in Nat
    BY <1>1, <1>3, PlaceOfId
  <1>8. Reached \in Nat
    BY <1>4, <1>5 DEF Reached
  <1>9. BatchSize \in Nat \ {0}
    BY ConstantsAssumption
  <1> QED
    BY <1>1, <1>2, <1>3, <1>4, <1>5, <1>6, <1>7, <1>8, <1>9

\* A part of a finite set of ids is no larger.
LEMMA Fewer ==
    ASSUME NEW S, S \subseteq Ids, NEW T, T \subseteq S
    PROVE  Cardinality(T) <= Cardinality(S) /\ Cardinality(T) \in Nat
  <1>1. T \subseteq Ids
    OBVIOUS
  <1> QED
    BY <1>1, IdSets, FS_Subset

-----------------------------------------------------------------------------
(* Cutting a text into windows.                                            *)

LEMMA Lengths ==
    /\ CHUNK_CHARS \in Nat /\ OVERLAP_CHARS \in Nat /\ STRIDE_CHARS \in Nat /\ STRIDE_CHARS > 0
    /\ CHUNK_CHARS = STRIDE_CHARS + OVERLAP_CHARS
  BY ConstantsAssumption DEF STRIDE_CHARS

LEMMA MinOfTwo ==
    ASSUME NEW a \in Int, NEW b \in Int
    PROVE  Min({a, b}) \in {a, b} /\ Min({a, b}) <= a /\ Min({a, b}) <= b
  <1>1. \E x \in {a, b} : \A y \in {a, b} : x <= y
    <2>1. CASE a <= b
      BY <2>1
    <2>2. CASE ~(a <= b)
      <3>1. b <= a
        BY <2>2
      <3> QED
        BY <3>1
    <2> QED
      BY <2>1, <2>2
  <1>2. Min({a, b}) \in {a, b} /\ \A y \in {a, b} : Min({a, b}) <= y
    BY <1>1 DEF Min
  <1> QED
    BY <1>2

\* A piece of a sequence, from behind start up to n more elements.
LEMMA PieceIs ==
    ASSUME NEW S, NEW s \in Seq(S), NEW start \in Nat, start < Len(s), NEW n \in Nat, n > 0
    PROVE  LET piece == SubSeq(s, start + 1, Min({start + n, Len(s)}))
           IN  /\ piece \in Seq(S) /\ Len(piece) \in Nat
               /\ Len(piece) > 0 /\ Len(piece) <= n /\ start + Len(piece) <= Len(s)
               /\ Len(piece) = n \/ start + Len(piece) = Len(s)
               /\ \A i \in 1..Len(piece) : piece[i] = s[start + i]
  <1>1. PICK m : m = Min({start + n, Len(s)})
    OBVIOUS
  <1>2. Len(s) \in Nat
    OBVIOUS
  <1>3. /\ m \in Int /\ m - start \in Nat /\ start + 1 <= m
        /\ m - (start + 1) + 1 = m - start
        /\ m - start > 0 /\ m - start <= n /\ start + (m - start) <= Len(s)
        /\ m - start = n \/ start + (m - start) = Len(s)
    <2>1. PICK len : len = Len(s)
      OBVIOUS
    <2>2. len \in Nat /\ start < len /\ m = Min({start + n, len})
      BY <1>1, <1>2, <2>1
    <2>3. /\ m \in Int /\ m - start \in Nat /\ start + 1 <= m
          /\ m - (start + 1) + 1 = m - start
          /\ m - start > 0 /\ m - start <= n /\ start + (m - start) <= len
          /\ m - start = n \/ start + (m - start) = len
      <3>1. start + n \in Int /\ len \in Int
        BY <2>2
      <3>2. m \in {start + n, len} /\ m <= start + n /\ m <= len
        BY <2>2, <3>1, MinOfTwo
      <3>3. CASE m = start + n
        BY <2>2, <3>2, <3>3
      <3>4. CASE m = len
        BY <2>2, <3>2, <3>4
      <3> QED
        BY <3>2, <3>3, <3>4
    <2> QED
      BY <2>1, <2>3, Zenon
  <1>4. PICK a : a = start + 1
    OBVIOUS
  <1>5. a \in Int /\ a <= m /\ m - a + 1 = m - start
    BY <1>3, <1>4
  <1>6. \A i \in a..m : s[i] \in S
    <2>1. \A i \in a..m : i \in 1..Len(s)
      BY <1>2, <1>3, <1>4
    <2>2. \A i \in 1..Len(s) : s[i] \in S
      OBVIOUS
    <2> QED
      BY <2>1, <2>2
  <1> DEFINE piece == SubSeq(s, a, m)
  <1>7. /\ piece \in Seq(S)
        /\ Len(piece) = IF a <= m THEN m - a + 1 ELSE 0
        /\ \A i \in 1..(m - a + 1) : piece[i] = s[a + i - 1]
    <2>1. m \in Int /\ a \in Int
      BY <1>3, <1>5
    <2> QED
      <3>1. piece \in Seq(S)
        BY <1>6, <2>1, SubSeqProperties
      <3>2. Len(piece) = IF a <= m THEN m - a + 1 ELSE 0
        BY <1>6, <2>1, SubSeqProperties
      <3>3. \A i \in 1..(m - a + 1) : piece[i] = s[a + i - 1]
        BY <1>6, <2>1, SubSeqProperties
      <3> QED
        BY <3>1, <3>2, <3>3, Zenon
  <1>8. piece = SubSeq(s, start + 1, Min({start + n, Len(s)}))
    BY <1>1, <1>4
  <1> HIDE DEF piece
  <1>9. Len(piece) = m - start
    BY <1>5, <1>7, Zenon
  <1>10. \A i \in 1..Len(piece) : piece[i] = s[start + i]
    <2> SUFFICES ASSUME NEW i \in 1..Len(piece) PROVE piece[i] = s[start + i]
      OBVIOUS
    <2>1. i \in 1..(m - a + 1) /\ i \in Int
      BY <1>3, <1>5, <1>9
    <2>2. a + i - 1 = start + i
      BY <1>4, <2>1
    <2> QED
      BY <1>7, <2>1, <2>2, Zenon
  <1>11. /\ piece \in Seq(S) /\ Len(piece) \in Nat
         /\ Len(piece) > 0 /\ Len(piece) <= n /\ start + Len(piece) <= Len(s)
         /\ Len(piece) = n \/ start + Len(piece) = Len(s)
    BY <1>3, <1>7, <1>9, Zenon
  <1> QED
    BY <1>8, <1>10, <1>11, Zenon

\* Every window starts within the text, and all but the first so that more than
\* the overlap is left.
LEMMA StartsAre ==
    ASSUME NEW text \in Seq(Nat), text # <<>>
    PROVE  /\ Starts(text) \subseteq Nat /\ IsFiniteSet(Starts(text)) /\ 0 \in Starts(text)
           /\ \A start \in Starts(text) : start < Len(text)
           /\ \A start \in Starts(text) : start > 0 => start + OVERLAP_CHARS < Len(text)
           /\ \A start \in Starts(text) :
                ~LastWindow(start, text) => start + STRIDE_CHARS \in Starts(text)
  <1>1. Len(text) \in Nat /\ Len(text) > 0
    OBVIOUS
  <1>2. \A k \in Nat : k * STRIDE_CHARS \in Nat /\ k <= k * STRIDE_CHARS
    BY Lengths
  <1>3. Starts(text) \subseteq Nat
    BY <1>2 DEF Starts
  <1>4. \A start \in Starts(text) : start > 0 => start + OVERLAP_CHARS < Len(text)
    <2> SUFFICES ASSUME NEW start \in Starts(text), start > 0
                 PROVE  start + OVERLAP_CHARS < Len(text)
      OBVIOUS
    <2>1. ~LastWindow(start - STRIDE_CHARS, text) /\ start \in Nat
      BY <1>3 DEF Starts
    <2>2. ~((start - STRIDE_CHARS) + CHUNK_CHARS >= Len(text))
      BY <2>1 DEF LastWindow
    <2> QED
      BY <1>1, <2>1, <2>2, Lengths
  <1>5. \A start \in Starts(text) : start < Len(text)
    <2> SUFFICES ASSUME NEW start \in Starts(text) PROVE start < Len(text)
      OBVIOUS
    <2>1. start \in Nat /\ (start > 0 => start + OVERLAP_CHARS < Len(text))
      BY <1>3, <1>4
    <2> QED
      BY <1>1, <2>1, Lengths
  <1>6. IsFiniteSet(Starts(text))
    <2>1. Starts(text) \in SUBSET (0..Len(text))
      BY <1>1, <1>3, <1>5
    <2>2. IsFiniteSet(0..Len(text))
      BY <1>1, FS_Interval
    <2> QED
      BY <2>1, <2>2, FS_Subset
  <1>7. 0 \in Starts(text)
    <2>1. 0 \in 0..Len(text) /\ 0 = 0 * STRIDE_CHARS
      BY <1>1, Lengths
    <2> QED
      BY <2>1 DEF Starts
  <1>8. ASSUME NEW start \in Starts(text), ~LastWindow(start, text)
        PROVE  start + STRIDE_CHARS \in Starts(text)
    <2>1. PICK k \in 0..Len(text) : start = k * STRIDE_CHARS
      BY DEF Starts
    <2>2. ~(start + CHUNK_CHARS >= Len(text)) /\ start \in Nat
      BY <1>3, <1>8 DEF LastWindow
    <2>3. k <= start /\ k \in Nat
      BY <1>2, <2>1
    <2>4. k + 1 \in 0..Len(text)
      BY <1>1, <2>2, <2>3, Lengths
    <2>5. start + STRIDE_CHARS = (k + 1) * STRIDE_CHARS
      BY <2>1, <2>3, Lengths
    <2>6. (start + STRIDE_CHARS) - STRIDE_CHARS = start
      BY <2>2, Lengths
    <2> QED
      BY <1>8, <2>4, <2>5, <2>6 DEF Starts
  <1> QED
    BY <1>3, <1>4, <1>5, <1>6, <1>7, <1>8

LEMMA WindowIs ==
    ASSUME NEW text \in Seq(Nat), text # <<>>, NEW start \in Starts(text)
    PROVE  /\ start \in Nat /\ Window(start, text) \in Seq(Nat)
           /\ start > 0 => Len(Window(start, text)) > OVERLAP_CHARS
           /\ \A i \in 1..Len(Window(start, text)) :
                /\ start + i \in 1..Len(text) /\ Window(start, text)[i] = text[start + i]
           /\ \A i \in 1..Len(text) : start < i /\ i <= start + CHUNK_CHARS =>
                /\ i - start \in 1..Len(Window(start, text))
                /\ Window(start, text)[i - start] = text[i]
  <1>1. start \in Nat /\ start < Len(text) /\ Len(text) \in Nat
    BY StartsAre
  <1>2. CHUNK_CHARS \in Nat /\ CHUNK_CHARS > 0
    BY Lengths
  <1> DEFINE w == Window(start, text)
  <1>3. /\ w \in Seq(Nat)
        /\ Len(w) > 0 /\ Len(w) <= CHUNK_CHARS /\ start + Len(w) <= Len(text)
        /\ Len(w) = CHUNK_CHARS \/ start + Len(w) = Len(text)
        /\ \A i \in 1..Len(w) : w[i] = text[start + i]
    <2>1. w = SubSeq(text, start + 1, Min({start + CHUNK_CHARS, Len(text)}))
      BY DEF Window
    <2> HIDE DEF w
    <2> QED
      BY <1>1, <1>2, <2>1, PieceIs, Zenon
  <1> HIDE DEF w
  <1>4. Len(w) \in Nat
    BY <1>3
  <1>5. start > 0 => Len(w) > OVERLAP_CHARS
    <2>1. start > 0 => start + OVERLAP_CHARS < Len(text)
      BY StartsAre
    <2> QED
      BY <1>1, <1>3, <1>4, <2>1, Lengths
  <1>6. \A i \in 1..Len(w) : start + i \in 1..Len(text)
    BY <1>1, <1>3, <1>4
  <1>7. ASSUME NEW i \in 1..Len(text), start < i, i <= start + CHUNK_CHARS
        PROVE  i - start \in 1..Len(w) /\ w[i - start] = text[i]
    <2>1. i - start \in 1..Len(w) /\ start + (i - start) = i
      BY <1>1, <1>2, <1>3, <1>4, <1>7
    <2> QED
      BY <1>3, <2>1
  <1> QED
    BY <1>1, <1>3, <1>5, <1>6, <1>7 DEF w

\* The windows of a text: where each of them starts.
KeptStarts(text) == {start \in Starts(text) : ~Blank(Window(start, text))}

LEMMA ChunkIs ==
    ASSUME NEW text \in Seq(Nat), ~Blank(text)
    PROVE  /\ text # <<>> /\ IsFiniteSet(KeptStarts(text)) /\ KeptStarts(text) \subseteq Nat
           /\ chunk(text) \in Seq(Seq(Nat))
           /\ DOMAIN chunk(text) = DOMAIN Ascending(KeptStarts(text))
           /\ \A k \in DOMAIN chunk(text) :
                /\ Ascending(KeptStarts(text))[k] \in KeptStarts(text)
                /\ chunk(text)[k] = Window(Ascending(KeptStarts(text))[k], text)
  <1>1. text # <<>>
    BY DEF Blank
  <1>2. KeptStarts(text) \subseteq Starts(text) /\ KeptStarts(text) \in SUBSET Starts(text)
    BY DEF KeptStarts
  <1>3. IsFiniteSet(KeptStarts(text)) /\ KeptStarts(text) \subseteq Nat
    BY <1>1, <1>2, StartsAre, FS_Subset
  <1> DEFINE order == Ascending(KeptStarts(text))
  <1>4. /\ Cardinality(KeptStarts(text)) \in Nat /\ DOMAIN order = 1..Cardinality(KeptStarts(text))
        /\ \A k \in DOMAIN order : order[k] \in KeptStarts(text)
    BY <1>3, AscendingHolds
  <1>5. chunk(text) = [k \in DOMAIN order |-> Window(order[k], text)]
    BY DEF chunk, chunk_by_chars, KeptStarts
  <1> HIDE DEF order
  <1>6. \A k \in DOMAIN order : Window(order[k], text) \in Seq(Nat)
    BY <1>1, <1>2, <1>4, WindowIs
  <1>7. chunk(text) \in Seq(Seq(Nat))
    BY <1>4, <1>5, <1>6
  <1> QED
    BY <1>1, <1>3, <1>4, <1>5, <1>7 DEF order

LEMMA ChunkType ==
    ASSUME NEW text \in Seq(Nat)
    PROVE  chunk(text) \in Seq(Seq(Nat))
  <1>1. CASE Blank(text)
    BY <1>1 DEF chunk
  <1>2. CASE ~Blank(text)
    BY <1>2, ChunkIs
  <1> QED
    BY <1>1, <1>2

\* chunk_by_chars: together the windows hold every character of the text that
\* is not white space, and no other.
LEMMA ChunksCover ==
    ASSUME NEW text \in Seq(Nat), ~Blank(text)
    PROVE  (UNION {Range(chunk(text)[k]) : k \in DOMAIN chunk(text)}) \ {0} = Range(text) \ {0}
  <1>t. text # <<>> /\ Len(text) \in Nat
    BY ChunkIs
  <1>1. ASSUME NEW k \in DOMAIN chunk(text), NEW x \in Range(chunk(text)[k])
        PROVE  x \in Range(text)
    <2> DEFINE start == Ascending(KeptStarts(text))[k]
    <2>1. start \in Starts(text) /\ chunk(text)[k] = Window(start, text)
      BY ChunkIs DEF KeptStarts
    <2> HIDE DEF start
    <2>2. Window(start, text) \in Seq(Nat)
      BY <1>t, <2>1, WindowIs
    <2>3. PICK i \in 1..Len(Window(start, text)) : x = Window(start, text)[i]
      BY <2>1, <2>2 DEF Range
    <2>4. start + i \in 1..Len(text) /\ x = text[start + i]
      BY <1>t, <2>1, <2>3, WindowIs
    <2> QED
      BY <2>4 DEF Range
  <1>2. ASSUME NEW i \in 1..Len(text), text[i] # 0
        PROVE  \E k \in DOMAIN chunk(text) : text[i] \in Range(chunk(text)[k])
    <2> DEFINE before_i == {start \in Starts(text) : start < i}
    <2>1. Starts(text) \subseteq Nat /\ IsFiniteSet(Starts(text)) /\ 0 \in Starts(text)
      BY <1>t, StartsAre
    <2>2. before_i \subseteq Nat /\ IsFiniteSet(before_i) /\ before_i # {}
      <3>1. before_i \in SUBSET Starts(text) /\ 0 \in before_i
        BY <2>1
      <3> QED
        BY <2>1, <3>1, FS_Subset
    <2>3. PICK m \in before_i : \A n \in before_i : n <= m
      <3> HIDE DEF before_i
      <3> QED
        BY <2>2, Greatest
    <2>4. m \in Starts(text) /\ m \in Nat /\ m < i
      BY <2>2, <2>3
    <2>5. i <= m + CHUNK_CHARS
      <3> SUFFICES ASSUME ~(i <= m + CHUNK_CHARS) PROVE FALSE
        OBVIOUS
      <3>1. ~LastWindow(m, text)
        BY <1>t, <2>4, Lengths DEF LastWindow
      <3>2. m + STRIDE_CHARS \in Starts(text)
        BY <1>t, <2>4, <3>1, StartsAre
      <3>3. m + STRIDE_CHARS < i
        BY <2>4, Lengths
      <3>4. m + STRIDE_CHARS <= m
        BY <2>3, <3>2, <3>3
      <3> QED
        BY <2>4, <3>4, Lengths
    <2>6. /\ Window(m, text) \in Seq(Nat)
          /\ i - m \in 1..Len(Window(m, text)) /\ Window(m, text)[i - m] = text[i]
      BY <1>t, <2>4, <2>5, WindowIs
    <2>7. text[i] \in Range(Window(m, text)) /\ ~Blank(Window(m, text))
      BY <1>2, <2>6 DEF Range, Blank
    <2>8. m \in KeptStarts(text)
      BY <2>4, <2>7 DEF KeptStarts
    <2>9. PICK k \in DOMAIN Ascending(KeptStarts(text)) : Ascending(KeptStarts(text))[k] = m
      BY <2>8, ChunkIs, AscendingHolds
    <2>10. k \in DOMAIN chunk(text) /\ chunk(text)[k] = Window(m, text)
      BY <2>9, ChunkIs
    <2> QED
      BY <2>7, <2>10
  <1>3. \A x \in Range(text) : \E i \in 1..Len(text) : x = text[i]
    BY DEF Range
  <1>4. ASSUME NEW x \in Range(text), x # 0
        PROVE  \E k \in DOMAIN chunk(text) : x \in Range(chunk(text)[k])
    <2>1. PICK i \in 1..Len(text) : x = text[i]
      BY <1>3
    <2> QED
      BY <1>2, <1>4, <2>1
  <1> DEFINE all == UNION {Range(chunk(text)[k]) : k \in DOMAIN chunk(text)}
  <1>5. \A x : x \in all <=> \E k \in DOMAIN chunk(text) : x \in Range(chunk(text)[k])
    OBVIOUS
  <1> HIDE DEF all
  <1>6. \A x : x \in all \ {0} <=> x \in Range(text) \ {0}
    BY <1>1, <1>4, <1>5
  <1>7. all \ {0} = Range(text) \ {0}
    BY <1>6
  <1> QED
    BY <1>7 DEF all

\* chunk_by_chars: no window but the first repeats only what its neighbour has.
LEMMA ChunksLong ==
    ASSUME NEW text \in Seq(Nat), ~Blank(text), NEW k \in DOMAIN chunk(text), k > 1
    PROVE  Len(chunk(text)[k]) > OVERLAP_CHARS
  <1> DEFINE start == Ascending(KeptStarts(text))[k]
  <1>1. /\ IsFiniteSet(KeptStarts(text)) /\ KeptStarts(text) \subseteq Nat /\ text # <<>>
        /\ k \in DOMAIN Ascending(KeptStarts(text))
        /\ start \in KeptStarts(text) /\ chunk(text)[k] = Window(start, text)
    BY ChunkIs
  <1>2. Place(KeptStarts(text), start) = k - 1
    BY <1>1, AscendingHolds
  <1> HIDE DEF start
  <1>3. start > 0
    <2> SUFFICES ASSUME ~(start > 0) PROVE FALSE
      OBVIOUS
    <2>1. \A m \in KeptStarts(text) : ~(m < start)
      BY <1>1
    <2>2. {m \in KeptStarts(text) : m < start} = {}
      BY <2>1
    <2>3. Place(KeptStarts(text), start) = 0
      BY <2>2, FS_EmptySet DEF Place
    <2>4. k \in Nat
      <3>1. DOMAIN Ascending(KeptStarts(text)) = 1..Cardinality(KeptStarts(text)) /\ Cardinality(KeptStarts(text)) \in Nat
        BY <1>1, AscendingHolds
      <3> QED
        BY <1>1, <3>1
    <2> QED
      BY <1>2, <2>3, <2>4
  <1>4. start \in Starts(text)
    BY <1>1 DEF KeptStarts
  <1> QED
    BY <1>1, <1>3, <1>4, WindowIs

-----------------------------------------------------------------------------
(* Embedding.                                                              *)

\* embed_one_batch: sorted by index, the answers are in the order of the texts.
LEMMA OneBatchEmbedded ==
    ASSUME NEW S, NEW texts \in Seq(S), NEW order \in Bijection(1..Len(texts), 1..Len(texts)),
           NEW k \in 1..Len(texts)
    PROVE  embed_one_batch(texts, order)[k] = texts[k]
  <1> DEFINE n == Len(texts)
             data == [j \in DOMAIN texts |-> [index |-> order[j] - 1, embedding |-> texts[order[j]]]]
             indices == {data[j].index : j \in DOMAIN data}
  <1>1. n \in Nat /\ DOMAIN texts = 1..n /\ DOMAIN data = 1..n
    OBVIOUS
  <1>2. /\ \A j \in 1..n : order[j] \in 1..n
        /\ \A i \in 1..n : \E j \in 1..n : order[j] = i
    BY DEF Bijection, Injection, Surjection
  <1>3. \A j \in 1..n : data[j].index = order[j] - 1 /\ data[j].embedding = texts[order[j]]
    BY <1>1
  <1> HIDE DEF n
  <1>4. indices = 0..(n - 1)
    <2> HIDE DEF data
    <2>1. ASSUME NEW j \in 1..n PROVE data[j].index \in 0..(n - 1)
      <3>1. order[j] \in 1..n /\ n \in Int /\ data[j].index = order[j] - 1
        <4>1. order[j] \in 1..n /\ data[j].index = order[j] - 1
          BY <1>2, <1>3, Zenon
        <4> QED
          BY <1>1, <4>1
      <3>2. \A o \in 1..n : o - 1 \in 0..(n - 1)
        BY <3>1
      <3> QED
        BY <3>1, <3>2
    <2>2. ASSUME NEW i \in 0..(n - 1) PROVE \E j \in 1..n : data[j].index = i
      <3>1. i + 1 \in 1..n
        BY <1>1
      <3>2. PICK j \in 1..n : order[j] = i + 1
        BY <1>2, <3>1
      <3>3. data[j].index = (i + 1) - 1
        BY <1>3, <3>2
      <3> QED
        BY <3>3
    <2> QED
      BY <1>1, <2>1, <2>2
  <1> HIDE DEF data, indices
  <1>5. \A j \in 1..n : Place(indices, data[j].index) = order[j] - 1
    <2> SUFFICES ASSUME NEW j \in 1..n PROVE Place(indices, data[j].index) = order[j] - 1
      OBVIOUS
    <2>1. order[j] - 1 \in 0..(n - 1)
      <3>1. order[j] \in 1..n /\ n \in Int
        BY <1>1, <1>2
      <3>2. \A o \in 1..n : o - 1 \in 0..(n - 1)
        BY <3>1
      <3> QED
        BY <3>1, <3>2
    <2> QED
      BY <1>1, <1>3, <1>4, <2>1, PlaceInInterval
  <1> DEFINE j0 == CHOOSE j \in DOMAIN data : Place(indices, data[j].index) = k - 1
  <1>6. j0 \in 1..n /\ order[j0] = k
    <2>1. k \in 1..n
      BY DEF n
    <2>2. PICK h \in 1..n : order[h] = k
      BY <1>2, <2>1
    <2>3. \E j \in DOMAIN data : Place(indices, data[j].index) = k - 1
      BY <1>1, <1>5, <2>2
    <2>4. j0 \in DOMAIN data /\ Place(indices, data[j0].index) = k - 1
      BY <2>3
    <2> HIDE DEF j0
    <2>5. order[j0] - 1 = k - 1 /\ order[j0] \in 1..n
      BY <1>1, <1>2, <1>5, <2>4
    <2> QED
      BY <1>1, <2>1, <2>4, <2>5
  <1>7. SortByIndex(data)[k] = data[j0]
    <2>1. k \in DOMAIN data
      BY <1>1 DEF n
    <2> QED
      BY <2>1 DEF SortByIndex, indices
  <1>8. embed_one_batch(texts, order)[k] = SortByIndex(data)[k].embedding
    BY <1>1 DEF embed_one_batch, data
  <1> HIDE DEF j0
  <1> QED
    BY <1>3, <1>6, <1>7, <1>8

LEMMA SliceBegins ==
    ASSUME NEW i \in Nat, i > 0
    PROVE  /\ SliceStart(i) \in Nat /\ SliceStart(i) < i
           /\ i <= SliceStart(i) + EmbedBatchSize
  <1>1. EmbedBatchSize \in Nat /\ EmbedBatchSize > 0
    BY ConstantsAssumption
  <1> DEFINE a == i - 1  q == a \div EmbedBatchSize
  <1>2. a \in Nat
    OBVIOUS
  <1> HIDE DEF a
  <1>3. q \in Nat /\ EmbedBatchSize * q <= a /\ a < EmbedBatchSize * q + EmbedBatchSize
    BY <1>1, <1>2
  <1>4. SliceStart(i) = EmbedBatchSize * q
    BY DEF SliceStart, a
  <1> HIDE DEF q
  <1>5. EmbedBatchSize * q \in Nat
    BY <1>1, <1>3
  <1> QED
    BY <1>1, <1>3, <1>4, <1>5 DEF a

\* embed_batch: each text gets its own embedding, in whatever order the
\* answers for each slice come.
LEMMA BatchEmbedded ==
    ASSUME NEW S, NEW texts \in Seq(S), NEW orders \in Orders(texts), NEW i \in 1..Len(texts)
    PROVE  embed_batch(texts, orders)[i] = texts[i]
  <1> DEFINE start == SliceStart(i)
             slice == Slice(start, texts)
  <1>1. start \in Nat /\ start < i /\ i <= start + EmbedBatchSize /\ i \in Nat /\ Len(texts) \in Nat
    BY SliceBegins
  <1>2. EmbedBatchSize \in Nat /\ EmbedBatchSize > 0
    BY ConstantsAssumption
  <1>3. /\ slice \in Seq(S)
        /\ Len(slice) > 0 /\ Len(slice) <= EmbedBatchSize
        /\ Len(slice) = EmbedBatchSize \/ start + Len(slice) = Len(texts)
        /\ \A j \in 1..Len(slice) : slice[j] = texts[start + j]
    <2> HIDE DEF start
    <2>1. start < Len(texts)
      BY <1>1
    <2> QED
      <3>1. slice = SubSeq(texts, start + 1, Min({start + EmbedBatchSize, Len(texts)}))
        BY DEF Slice
      <3> HIDE DEF slice
      <3> QED
        BY <1>1, <1>2, <2>1, <3>1, PieceIs, Zenon
  <1>4. orders[start] \in Bijection(1..Len(slice), 1..Len(slice))
    <2>1. start \in {SliceStart(j) : j \in DOMAIN texts}
      OBVIOUS
    <2>2. PICK m \in 1..EmbedBatchSize : orders[start] \in Bijection(1..m, 1..m)
      BY <2>1 DEF Orders
    <2>3. DOMAIN orders[start] = DOMAIN slice
      BY <2>1 DEF Orders
    <2>4. DOMAIN orders[start] = 1..m /\ DOMAIN slice = 1..Len(slice) /\ Len(slice) \in Nat
      BY <1>3, <2>2 DEF Bijection, Injection
    <2>5. m = Len(slice)
      <3>1. PICK l : l = Len(slice)
        OBVIOUS
      <3>2. 1..m = 1..l /\ l \in Nat /\ l > 0
        BY <1>3, <2>3, <2>4, <3>1, Zenon
      <3>3. m \in Nat /\ m > 0
        BY <1>2
      <3>4. m \in 1..l /\ l \in 1..m
        <4>1. m \in 1..m /\ l \in 1..l
          BY <3>2, <3>3
        <4> QED
          BY <3>2, <4>1, Zenon
      <3>5. m = l
        BY <3>2, <3>3, <3>4
      <3> QED
        BY <3>1, <3>5, Zenon
    <2> QED
      BY <2>2, <2>5
  <1>5. i - start \in 1..Len(slice) /\ start + (i - start) = i
    <2> HIDE DEF start, slice
    <2>1. Len(slice) \in Nat
      BY <1>3
    <2> QED
      BY <1>1, <1>2, <1>3, <2>1
  <1>6. embed_one_batch(slice, orders[start])[i - start] = slice[i - start]
    <2> HIDE DEF start, slice
    <2> QED
      BY <1>3, <1>4, <1>5, OneBatchEmbedded
  <1>7. embed_batch(texts, orders)[i] = embed_one_batch(slice, orders[start])[i - start]
    BY DEF embed_batch
  <1> HIDE DEF start, slice
  <1> QED
    BY <1>3, <1>5, <1>6, <1>7

-----------------------------------------------------------------------------
(* The daemon.                                                             *)

\* The rows of d make room for rows under fresh ids.
Replaced(d, ids) ==
    /\ ids \subseteq Ids /\ ids \cap used = {}
    /\ DOMAIN rows' = (DOMAIN rows \ RowsOf(d)) \cup ids
    /\ \A i \in DOMAIN rows \ RowsOf(d) : rows'[i] = rows[i]
    /\ \A i \in ids : RowShape(rows'[i])
    /\ used' = used \cup ids
    /\ before' = before \ RowsOf(d)
    /\ gone' = IF Running THEN gone + Cardinality(RowsOf(d)) ELSE gone
    /\ RowsOf(d) \cap DOMAIN pending = {}
    /\ exempt /\ exempt' = exempt
    /\ UNCHANGED rotationVars

LEMMA DeleteReplaces ==
    ASSUME NEW d \in Docs, DeleteChunks(d)
    PROVE  Replaced(d, {})
  BY DEF DeleteChunks, Replace, WithoutDoc, Unlocked, Replaced, historyVars, Visible

LEMMA RowRecord ==
    ASSUME NEW d, NEW index, NEW wire, NEW embedding
    PROVE  RowShape([doc |-> d, index |-> index, wire |-> wire, embedding |-> embedding])
  BY DEF RowShape

\* The row of the k-th window of a text, embedded as the window it is.
RowOf(d, text, k) ==
    [doc |-> d, index |-> k - 1, wire |-> encrypt(daemonKey, chunk(text)[k]),
     embedding |-> chunk(text)[k]]

\* Each window of the text in a row of its own.
TextInserted(d, text, ids) ==
    /\ \A x \in ids : /\ Place(ids, x) + 1 \in DOMAIN chunk(text)
                      /\ rows'[x] = RowOf(d, text, Place(ids, x) + 1)
    /\ \A k \in DOMAIN chunk(text) : \E x \in ids : Place(ids, x) + 1 = k

LEMMA UpsertReplaces ==
    ASSUME Inv, NEW d \in Docs, NEW text \in Texts, UpsertChunks(d, text)
    PROVE  \E ids : Replaced(d, ids) /\ TextInserted(d, text, ids)
  <1>1. PICK ids \in kSubset(Len(chunk(text)), Ids \ used), orders \in Orders(chunk(text)) :
            LET new == NewRows(d, text, orders)
                Inserted == [x \in ids |-> new[Place(ids, x) + 1]]
            IN  /\ Replace(Overlay(Inserted, WithoutDoc(d)), d)
                /\ used' = used \cup ids
    BY DEF UpsertChunks
  <1> DEFINE n == Len(chunk(text))
             new == NewRows(d, text, orders)
             Inserted == [x \in ids |-> new[Place(ids, x) + 1]]
  <1>2. ids \subseteq Ids \ used /\ Cardinality(ids) = n
    BY <1>1 DEF kSubset
  <1>3. n \in Nat /\ IsFiniteSet(ids) /\ ids \subseteq Nat
    BY <1>2, IdSets
  <1>4. chunk(text) \in Seq(Seq(Nat)) /\ DOMAIN chunk(text) = 1..n
    <2>1. text \in Seq(Nat)
      BY ConstantsAssumption
    <2>2. chunk(text) \in Seq(Seq(Nat))
      BY <2>1, ChunkType
    <2> QED
      BY <2>2
  <1>5. \A x \in ids : Place(ids, x) + 1 \in 1..n
    <2> SUFFICES ASSUME NEW x \in ids PROVE Place(ids, x) + 1 \in 1..n
      OBVIOUS
    <2>1. Place(ids, x) < Cardinality(ids) /\ Place(ids, x) \in Nat
      BY <1>3, PlaceBelow, PlaceType
    <2> QED
      BY <1>2, <1>3, <2>1
  <1>6. \A k \in 1..n : \E x \in ids : Place(ids, x) + 1 = k
    <2> SUFFICES ASSUME NEW k \in 1..n PROVE \E x \in ids : Place(ids, x) + 1 = k
      OBVIOUS
    <2>1. DOMAIN Ascending(ids) = 1..Cardinality(ids)
      BY <1>3, AscendingHolds
    <2>2. k \in DOMAIN Ascending(ids)
      BY <1>2, <2>1
    <2>3. Ascending(ids)[k] \in ids /\ Place(ids, Ascending(ids)[k]) = k - 1
      BY <1>3, <2>2, AscendingHolds
    <2>4. Place(ids, Ascending(ids)[k]) + 1 = k
      BY <1>3, <2>3
    <2> QED
      BY <2>3, <2>4
  <1>7. \A k \in 1..n : new[k] = RowOf(d, text, k)
    <2> SUFFICES ASSUME NEW k \in 1..n PROVE new[k] = RowOf(d, text, k)
      OBVIOUS
    <2>1. embed_batch(chunk(text), orders)[k] = chunk(text)[k]
      BY <1>1, <1>4, BatchEmbedded
    <2>2. new[k] = [doc |-> d, index |-> k - 1, wire |-> encrypt(daemonKey, chunk(text)[k]),
                    embedding |-> embed_batch(chunk(text), orders)[k]]
      BY DEF NewRows
    <2> QED
      BY <2>1, <2>2 DEF RowOf
  <1> HIDE DEF new
  <1>8. \A x \in ids : Inserted[x] = RowOf(d, text, Place(ids, x) + 1)
    BY <1>5, <1>7
  <1>9. \A x \in ids : RowShape(Inserted[x])
    BY <1>8, RowRecord DEF RowOf
  <1>10. rows' = Overlay(Inserted, WithoutDoc(d)) /\ Replace(Overlay(Inserted, WithoutDoc(d)), d)
    BY <1>1 DEF Replace, new
  <1>11. used' = used \cup ids
    BY <1>1
  <1>12. DOMAIN Inserted = ids
    OBVIOUS
  <1> HIDE DEF Inserted, n
  <1>13. /\ DOMAIN rows' = ids \cup (DOMAIN rows \ RowsOf(d))
         /\ \A i \in ids : rows'[i] = Inserted[i]
         /\ \A i \in DOMAIN rows \ RowsOf(d) : i \notin ids => rows'[i] = rows[i]
    BY <1>10, <1>12 DEF Overlay, WithoutDoc
  <1>14. DOMAIN rows \cap ids = {}
    BY <1>2 DEF Inv, StoreInv
  <1>15. Unlocked(d) /\ exempt /\ exempt' = exempt /\ UNCHANGED rotationVars
    BY DEF UpsertChunks
  <1>16. Replaced(d, ids)
    BY <1>2, <1>9, <1>10, <1>11, <1>13, <1>14, <1>15 DEF Replaced, Replace, Unlocked
  <1>17. TextInserted(d, text, ids)
    BY <1>4, <1>5, <1>6, <1>8, <1>13 DEF TextInserted
  <1> QED
    BY <1>16, <1>17

\* Rows that the daemon takes away bring back no more rows behind the page.
LEMMA ReplacedCount ==
    ASSUME Inv, NEW d, NEW ids, Replaced(d, ids), Running
    PROVE  Cardinality(Passed') <= gone'
  <1> DEFINE D == RowsOf(d)
             R == DOMAIN rows'
             Slipped == {i \in DOMAIN rows : Reached <= Rank(i) /\ Rank(i) < Reached + Cardinality(D)}
  <1>1. D \subseteq DOMAIN rows /\ D \subseteq Ids /\ R \subseteq Ids /\ DOMAIN rows \ D \subseteq R
    BY PassedRows DEF RowsOf, Replaced
  <1>2. Cardinality(D) \in Nat
    BY <1>1, IdSets
  <1>3. Slipped \subseteq Ids /\ Cardinality(Slipped) <= Cardinality(D)
    <2>1. Slipped \subseteq DOMAIN rows
      OBVIOUS
    <2>2. \A i \in Slipped : /\ Reached <= Place(DOMAIN rows, i)
                             /\ Place(DOMAIN rows, i) < Reached + Cardinality(D)
      BY PassedRows
    <2> HIDE DEF Slipped, D
    <2> QED
      BY <2>1, <2>2, <1>2, PassedRows, RowsFitPlaces
  <1>4. Reached' = Reached /\ batch' = batch
    BY DEF Replaced, rotationVars, Reached
  <1>5. ASSUME NEW i \in Passed' PROVE i \in Passed \cup Slipped
    <2>1. i \in before \ D /\ i \notin DOMAIN batch /\ ~decrypts(NewKey, rows'[i].wire)
      BY <1>4 DEF Passed, Replaced
    <2>2. i \in DOMAIN rows \ D /\ rows'[i] = rows[i]
      BY <2>1 DEF Inv, StoreInv, Replaced
    <2>3. Place(R, i) < Reached /\ Place(R, i) \in Nat
      BY <1>1, <1>4, PlaceOfId DEF Passed, Rank
    <2>4. Rank(i) <= Place(R, i) + Cardinality(D)
      <3> HIDE DEF D, R
      <3> QED
        BY <1>1, PassedRows, RankAfterRemoval
    <2>5. Rank(i) < Reached + Cardinality(D) /\ Rank(i) \in Nat /\ Reached \in Nat
      BY <2>3, <2>4, <1>2, PassedRows
    <2>6. CASE Rank(i) < Reached
      BY <2>1, <2>2, <2>6 DEF Passed, Replaced
    <2>7. CASE ~(Rank(i) < Reached)
      BY <2>2, <2>5, <2>7
    <2> QED
      BY <2>6, <2>7
  <1> HIDE DEF Slipped, D, R
  <1>6. Passed \cup Slipped \subseteq Ids /\ Passed \cap Slipped \subseteq Ids
    BY <1>3, PassedRows
  <1>7. Cardinality(Passed') <= Cardinality(Passed \cup Slipped) /\ Cardinality(Passed') \in Nat
    BY <1>5, <1>6, Fewer
  <1>8. Cardinality(Passed \cup Slipped) =
            Cardinality(Passed) + Cardinality(Slipped) - Cardinality(Passed \cap Slipped)
    BY <1>3, PassedRows, IdSets, FS_Union
  <1>9. /\ Cardinality(Passed \cup Slipped) \in Nat /\ Cardinality(Passed \cap Slipped) \in Nat
        /\ Cardinality(Slipped) \in Nat /\ Cardinality(Passed) \in Nat
    BY <1>3, <1>6, PassedRows, IdSets
  <1>10. Cardinality(Passed) <= gone /\ gone \in Nat
    BY PassedRows DEF Inv, CountInv, Replaced
  <1>11. gone' = gone + Cardinality(D)
    BY DEF Replaced, D
  <1> QED
    BY <1>2, <1>3, <1>7, <1>8, <1>9, <1>10, <1>11

LEMMA ReplacedInv ==
    ASSUME Inv, NEW d, NEW ids, Replaced(d, ids)
    PROVE  Inv'
  <1>f. /\ UNCHANGED <<pc, offset, batch, todo, pending>> /\ Running' = Running
        /\ RowsOf(d) \subseteq DOMAIN rows /\ RowsOf(d) \subseteq Ids
    BY PassedRows DEF Replaced, rotationVars, Running, RowsOf
  <1>1. StoreInv'
    BY DEF Inv, StoreInv, Replaced
  <1>2. JobInv'
    <2>1. Cardinality(RowsOf(d)) \in Nat
      BY <1>f, IdSets
    <2>2. gone' \in Nat
      BY <2>1 DEF Replaced, Inv, JobInv
    <2>3. DOMAIN batch \subseteq used'
      BY DEF Replaced, Inv, JobInv
    <2> QED
      BY <1>f, <2>2, <2>3 DEF Inv, JobInv
  <1>3. ASSUME NEW i \in DOMAIN batch, i \in DOMAIN rows'
        PROVE  i \in DOMAIN rows /\ rows'[i] = rows[i]
    BY <1>3 DEF Replaced, Inv, JobInv
  <1>4. BatchInv'
    BY <1>f, <1>3 DEF Inv, BatchInv
  <1>5. PendingInv'
    <2>1. \A i \in DOMAIN pending : i \in DOMAIN rows' /\ rows'[i] = rows[i]
      BY DEF Replaced, Inv, PendingInv
    <2> QED
      BY <1>f, <2>1 DEF Inv, PendingInv
  <1>6. DoneInv'
    BY <1>f, <1>3 DEF Inv, DoneInv, Replaced
  <1>7. LeftBehindBounded'
    <2> DEFINE Left == {i \in before : ~decrypts(NewKey, rows[i].wire)}
    <2> SUFFICES ASSUME pc' = "done", exempt'
                 PROVE  Cardinality({i \in before' : ~decrypts(NewKey, rows'[i].wire)}) <= gone'
      BY DEF LeftBehindBounded
    <2>1. Cardinality(Left) <= gone /\ gone' = gone /\ gone \in Nat
      BY <1>f DEF Inv, CountInv, JobInv, LeftBehindBounded, Replaced, Running
    <2>2. {i \in before' : ~decrypts(NewKey, rows'[i].wire)} \subseteq Left /\ Left \subseteq Ids
      BY PassedRows DEF Replaced, Inv, StoreInv
    <2> HIDE DEF Left
    <2>3. /\ Cardinality({i \in before' : ~decrypts(NewKey, rows'[i].wire)}) <= Cardinality(Left)
          /\ Cardinality({i \in before' : ~decrypts(NewKey, rows'[i].wire)}) \in Nat
          /\ Cardinality(Left) \in Nat
      BY <2>2, Fewer, IdSets
    <2> QED
      BY <2>1, <2>3
  <1>8. CountInv'
    BY <1>f, <1>7, ReplacedCount DEF CountInv
  <1> QED
    BY <1>1, <1>2, <1>4, <1>5, <1>6, <1>8 DEF Inv

LEMMA DaemonInv ==
    ASSUME Inv, Daemon
    PROVE  Inv'
  BY DeleteReplaces, UpsertReplaces, ReplacedInv DEF Daemon

LEMMA RedeployInv ==
    ASSUME Inv, NEW k \in Keys, Redeploy(k)
    PROVE  Inv'
  <1>1. UNCHANGED <<rows, used, exempt, pc, offset, batch, todo, pending, before, gone>>
    BY DEF Redeploy, rotationVars, historyVars
  <1> QED
    BY <1>1 DEF Inv, StoreInv, JobInv, BatchInv, PendingInv, DoneInv, CountInv, Passed, Reached,
                Rank, Running, LeftBehindBounded

\* From here on a run that ends well promises nothing.
LEMMA HardenInv ==
    ASSUME Inv, Harden
    PROVE  Inv'
  <1>1. /\ exempt' = FALSE
        /\ UNCHANGED <<rows, used, pc, offset, batch, todo, pending, before, gone>>
    BY DEF Harden, rotationVars, historyVars
  <1> QED
    BY <1>1 DEF Inv, StoreInv, JobInv, BatchInv, PendingInv, DoneInv, CountInv, Running,
                LeftBehindBounded

-----------------------------------------------------------------------------
(* The rotation.                                                           *)

LEMMA StartInv ==
    ASSUME Inv, StartRotation
    PROVE  Inv'
  <1>f. /\ ~Running /\ pc' = "fetch" /\ before' = DOMAIN rows /\ gone' = 0
        /\ UNCHANGED <<rows, used, exempt, offset, batch, todo, pending>>
    BY DEF StartRotation, daemonVars
  <1>1. offset = 0 /\ DOMAIN batch = {} /\ DOMAIN pending = {} /\ todo = {}
    BY <1>f DEF Inv, JobInv, Running
  <1>2. StoreInv' /\ BatchInv' /\ PendingInv' /\ DoneInv'
    BY <1>f, <1>1 DEF Inv, StoreInv, BatchInv, PendingInv, DoneInv
  <1>3. JobInv'
    BY <1>f, <1>1 DEF Inv, JobInv, Running
  <1>4. Passed' = {}
    <2>1. Reached' = 0
      BY <1>f, <1>1, FS_EmptySet DEF Reached
    <2>2. \A i : Rank(i)' = Rank(i) /\ Rank(i) \in Nat
      BY <1>f, PassedRows DEF Rank
    <2> QED
      BY <2>1, <2>2 DEF Passed
  <1>5. CountInv'
    BY <1>f, <1>4, FS_EmptySet DEF CountInv, LeftBehindBounded
  <1> QED
    BY <1>2, <1>3, <1>5 DEF Inv

LEMMA FetchInv ==
    ASSUME Inv, FetchBatch
    PROVE  Inv'
  <1> DEFINE page == {i \in Visible : Rank(i) \in offset..(offset + BatchSize - 1)}
  <1>v. Visible \subseteq DOMAIN rows /\ (exempt => Visible = DOMAIN rows)
    BY DEF Visible
  <1>f. /\ pc = "fetch" /\ pc' = "batch"
        /\ batch' = [i \in page |-> rows[i].wire] /\ todo' = page
        /\ UNCHANGED <<rows, used, exempt, offset, pending, before, gone>>
    BY DEF FetchBatch, fetch_batch, daemonVars, historyVars
  <1>1. DOMAIN batch = {} /\ DOMAIN pending = {} /\ DOMAIN batch' = page
    BY <1>f DEF Inv, JobInv
  <1>2. StoreInv' /\ BatchInv' /\ PendingInv' /\ DoneInv'
    BY <1>f, <1>v, <1>1 DEF Inv, StoreInv, BatchInv, PendingInv, DoneInv
  <1>3. JobInv'
    BY <1>f, <1>v, <1>1 DEF Inv, JobInv, StoreInv, Running
  <1>4. Cardinality(page) <= BatchSize /\ Cardinality(page) \in Nat
    <2>1. page \subseteq DOMAIN rows
      BY <1>v
    <2>2. \A i \in page : offset <= Place(DOMAIN rows, i) /\ Place(DOMAIN rows, i) < offset + BatchSize
      BY PassedRows
    <2> HIDE DEF page
    <2>3. page \subseteq Ids
      BY <2>1, PassedRows
    <2> QED
      BY <2>1, <2>2, <2>3, PassedRows, RowsFitPlaces, IdSets
  <1>5. ASSUME exempt PROVE Passed' \subseteq Passed
    <2> SUFFICES ASSUME NEW i \in Passed' PROVE i \in Passed
      OBVIOUS
    <2>1. i \in before \ page /\ ~decrypts(NewKey, rows[i].wire) /\ i \in DOMAIN rows
      BY <1>f, <1>1 DEF Passed, Inv, StoreInv
    <2>2. Rank(i) < offset + Cardinality(page)
      <3> HIDE DEF page
      <3> QED
        BY <1>f, <1>1 DEF Passed, Rank, Reached
    <2>3. Rank(i) < offset
      BY <2>1, <2>2, <1>4, <1>5, <1>v, PassedRows
    <2>4. Reached = offset
      BY <1>1, FS_EmptySet, PassedRows DEF Reached
    <2> QED
      BY <2>1, <2>3, <2>4, <1>1 DEF Passed
  <1>6. CountInv'
    <2> SUFFICES ASSUME exempt PROVE Cardinality(Passed') <= gone
      BY <1>f DEF CountInv, LeftBehindBounded
    <2>1. Cardinality(Passed') <= Cardinality(Passed) /\ Cardinality(Passed') \in Nat
      BY <1>5, PassedRows, Fewer
    <2>2. Cardinality(Passed) <= gone
      BY <1>f DEF Inv, CountInv, Running
    <2> QED
      BY <2>1, <2>2, PassedRows
  <1> QED
    BY <1>2, <1>3, <1>6 DEF Inv

\* An UPDATE of the two columns leaves the others alone.
LEMMA RowUpdated ==
    ASSUME NEW r, RowShape(r), NEW wire, NEW embedding
    PROVE  [r EXCEPT !.wire = wire, !.embedding = embedding] =
                [doc |-> r.doc, index |-> r.index, wire |-> wire, embedding |-> embedding]
  <1> DEFINE s == [r EXCEPT !.wire = wire, !.embedding = embedding]
             Shape == [doc : {r.doc}, index : {r.index}, wire : {r.wire, wire},
                       embedding : {r.embedding, embedding}]
  <1>1. r \in Shape
    BY DEF RowShape
  <1>2. s \in Shape
    BY <1>1
  <1>3. s.doc = r.doc /\ s.index = r.index /\ s.wire = wire /\ s.embedding = embedding
    BY <1>1
  <1>4. s = [doc |-> s.doc, index |-> s.index, wire |-> s.wire, embedding |-> s.embedding]
    <2> HIDE DEF s
    <2> QED
      BY <1>2
  <1> QED
    BY <1>3, <1>4

\* What an UPDATE puts in the transaction.
LEMMA UpdateIs ==
    ASSUME Inv, NEW i \in DOMAIN batch, i \in Visible, UpdateContent(i)
    PROVE  /\ DOMAIN pending' = DOMAIN pending \cup {i}
           /\ \A x \in DOMAIN pending \ {i} : pending'[x] = pending[x]
           /\ RowShape(pending'[i]) /\ pending'[i].wire = encrypt(NewKey, batch[i].plain)
  <1> DEFINE new == [rows[i] EXCEPT !.wire = encrypt(NewKey, batch[i].plain),
                                    !.embedding = IF reembed THEN batch[i].plain ELSE @]
             first == [x \in {i} |-> new]
  <1>r. i \in DOMAIN rows
    BY DEF Visible
  <1>1. pending' = Overlay(first, pending)
    BY DEF UpdateContent
  <1>2. new = [doc |-> rows[i].doc, index |-> rows[i].index,
               wire |-> encrypt(NewKey, batch[i].plain),
               embedding |-> IF reembed THEN batch[i].plain ELSE rows[i].embedding]
    <2>1. RowShape(rows[i])
      BY <1>r DEF Inv, StoreInv
    <2> QED
      BY <2>1, RowUpdated
  <1> HIDE DEF new
  <1>3. RowShape(new) /\ new.wire = encrypt(NewKey, batch[i].plain)
    BY <1>2, RowRecord
  <1>4. /\ DOMAIN pending' = {i} \cup DOMAIN pending /\ pending'[i] = new
        /\ \A x \in DOMAIN pending \ {i} : pending'[x] = pending[x]
    BY <1>1 DEF Overlay
  <1> QED
    BY <1>3, <1>4

LEMMA RotateInv ==
    ASSUME Inv, RotateRow
    PROVE  Inv'
  <1>f. /\ UNCHANGED <<rows, used, exempt, pc, offset, batch, before, gone>> /\ pc = "batch"
    BY DEF RotateRow, daemonVars, historyVars
  <1>1. PICK i \in todo : /\ todo' = todo \ {i}
                          /\ \/ decrypts(OldKey, batch[i]) /\ UpdateContent(i)
                             \/ decrypts(NewKey, batch[i]) /\ UNCHANGED pending
    BY DEF RotateRow
  <1>2. i \in DOMAIN batch /\ (i \in DOMAIN rows => rows[i].wire = batch[i])
    BY DEF Inv, JobInv, BatchInv
  <1>3. StoreInv' /\ BatchInv' /\ CountInv'
    BY <1>f DEF Inv, StoreInv, BatchInv, CountInv, Passed, Reached, Rank, Running, LeftBehindBounded
  <1>4. CASE UpdateContent(i) /\ i \in Visible
    <2>1. /\ DOMAIN pending' = DOMAIN pending \cup {i}
          /\ \A x \in DOMAIN pending \ {i} : pending'[x] = pending[x]
          /\ RowShape(pending'[i]) /\ pending'[i].wire = encrypt(NewKey, batch[i].plain)
      BY <1>2, <1>4, UpdateIs
    <2>2. JobInv'
      BY <1>f, <1>1, <1>2, <2>1 DEF Inv, JobInv, Running
    <2>r. i \in DOMAIN rows
      BY <1>4 DEF Visible
    <2>3. pending'[i].wire.plain = rows[i].wire.plain /\ decrypts(NewKey, pending'[i].wire)
      BY <1>2, <2>r, <2>1 DEF encrypt, decrypts
    <2>4. PendingInv'
      BY <1>f, <2>r, <2>1, <2>3 DEF Inv, PendingInv
    <2>5. DoneInv'
      BY <1>f, <1>1, <2>1 DEF Inv, DoneInv
    <2> QED
      BY <1>3, <2>2, <2>4, <2>5 DEF Inv
  <1>5. CASE UNCHANGED pending /\ (i \in Visible => decrypts(NewKey, rows[i].wire))
    <2>1. JobInv' /\ PendingInv'
      BY <1>f, <1>1, <1>5 DEF Inv, JobInv, PendingInv, Running
    <2>2. DoneInv'
      BY <1>f, <1>1, <1>5 DEF Inv, DoneInv, Visible
    <2> QED
      BY <1>3, <2>1, <2>2 DEF Inv
  <1>6. Visible \subseteq DOMAIN rows
    BY DEF Visible
  <1> QED
    BY <1>1, <1>2, <1>4, <1>5, <1>6 DEF UpdateContent

\* At the commit every row of the page that is left is under the new key.
LEMMA CommitIs ==
    ASSUME Inv, CommitBatch
    PROVE  /\ DOMAIN rows' = DOMAIN rows
           /\ \A i \in DOMAIN rows : /\ i \in DOMAIN pending => rows'[i] = pending[i]
                                     /\ i \notin DOMAIN pending => rows'[i] = rows[i]
           /\ \A i \in DOMAIN rows : rows'[i].wire.plain = rows[i].wire.plain
           /\ \A i \in DOMAIN rows :
                decrypts(NewKey, rows[i].wire) => decrypts(NewKey, rows'[i].wire)
           /\ exempt => \A i \in DOMAIN rows \cap DOMAIN batch : decrypts(NewKey, rows'[i].wire)
  <1>1. rows' = Overlay(pending, rows) /\ todo = {}
    BY DEF CommitBatch
  <1>2. DOMAIN pending \subseteq DOMAIN rows
    BY DEF Inv, PendingInv
  <1>3. /\ DOMAIN rows' = DOMAIN rows
        /\ \A i \in DOMAIN rows : /\ i \in DOMAIN pending => rows'[i] = pending[i]
                                  /\ i \notin DOMAIN pending => rows'[i] = rows[i]
    BY <1>1, <1>2 DEF Overlay
  <1>4. exempt => \A i \in DOMAIN rows \cap DOMAIN batch :
            i \in DOMAIN pending \/ decrypts(NewKey, rows[i].wire)
    BY <1>1 DEF Inv, DoneInv
  <1> QED
    BY <1>3, <1>4 DEF Inv, PendingInv

LEMMA CommitInv ==
    ASSUME Inv, CommitBatch
    PROVE  Inv'
  <1>f. /\ pc = "batch" /\ pc' = "fetch" /\ DOMAIN pending' = {} /\ DOMAIN batch' = {} /\ todo' = {}
        /\ offset' = offset + Cardinality(DOMAIN batch)
        /\ UNCHANGED <<used, exempt, before, gone>>
    BY DEF CommitBatch, NextOffset, daemonVars, historyVars
  <1>1. StoreInv'
    BY <1>f, CommitIs DEF Inv, StoreInv, PendingInv
  <1>2. JobInv'
    BY <1>f, PassedRows DEF Inv, JobInv, Running
  <1>3. BatchInv' /\ PendingInv' /\ DoneInv'
    BY <1>f DEF BatchInv, PendingInv, DoneInv
  <1>4. Reached' = Reached
    <2>1. Cardinality(DOMAIN batch') = 0
      BY <1>f, FS_EmptySet
    <2> QED
      BY <1>f, <2>1, PassedRows DEF Reached
  <1>5. ASSUME exempt PROVE Passed' \subseteq Passed
    <2> SUFFICES ASSUME NEW i \in Passed' PROVE i \in Passed
      OBVIOUS
    <2>1. i \in before /\ i \in DOMAIN rows /\ ~decrypts(NewKey, rows'[i].wire) /\ Rank(i)' < Reached
      BY <1>f, <1>4 DEF Passed, Inv, StoreInv
    <2>2. i \notin DOMAIN batch /\ ~decrypts(NewKey, rows[i].wire)
      BY <2>1, <1>5, CommitIs
    <2>3. Rank(i)' = Rank(i)
      BY CommitIs DEF Rank
    <2> QED
      BY <2>1, <2>2, <2>3 DEF Passed
  <1>6. CountInv'
    <2> SUFFICES ASSUME exempt PROVE Cardinality(Passed') <= gone
      BY <1>f DEF CountInv, LeftBehindBounded
    <2>1. Cardinality(Passed') <= Cardinality(Passed) /\ Cardinality(Passed') \in Nat
      BY <1>5, PassedRows, Fewer
    <2>2. Cardinality(Passed) <= gone
      BY <1>f DEF Inv, CountInv, Running
    <2> QED
      BY <2>1, <2>2, PassedRows
  <1> QED
    BY <1>1, <1>2, <1>3, <1>6 DEF Inv

\* An empty page means that every row lies behind it, unless all are hidden.
LEMMA CompleteInv ==
    ASSUME Inv, Complete
    PROVE  Inv'
  <1>f. /\ pc = "fetch" /\ pc' = "done" /\ offset' = 0
        /\ DOMAIN pending' = {} /\ DOMAIN batch' = {} /\ todo' = {}
        /\ UNCHANGED <<rows, used, exempt, before, gone>>
    BY DEF Complete, Exit, daemonVars, historyVars
  <1>1. StoreInv' /\ BatchInv' /\ PendingInv' /\ DoneInv'
    BY <1>f DEF Inv, StoreInv, BatchInv, PendingInv, DoneInv
  <1>2. JobInv'
    BY <1>f DEF Inv, JobInv, Running
  <1>3. ASSUME exempt PROVE \A i \in DOMAIN rows : Rank(i) < offset
    <2>1. \A i \in DOMAIN rows : Rank(i) \notin offset..(offset + BatchSize - 1)
      BY <1>3 DEF Complete, fetch_batch, Visible
    <2>2. \A i \in DOMAIN rows : Place(DOMAIN rows, i) # offset
      BY <2>1, PassedRows
    <2> QED
      BY <2>2, PassedRows, NoGap
  <1>4. ASSUME exempt PROVE {i \in before : ~decrypts(NewKey, rows[i].wire)} = Passed
    <2>1. DOMAIN batch = {} /\ before \subseteq DOMAIN rows
      BY <1>f DEF Inv, JobInv, StoreInv
    <2>2. Reached = offset
      BY <2>1, FS_EmptySet, PassedRows DEF Reached
    <2> QED
      BY <1>3, <1>4, <2>1, <2>2 DEF Passed
  <1>5. ASSUME exempt PROVE Cardinality(Passed) <= gone
    BY <1>f, <1>5 DEF Inv, CountInv, Running
  <1>6. CountInv'
    BY <1>f, <1>4, <1>5 DEF CountInv, Running, LeftBehindBounded
  <1> QED
    BY <1>1, <1>2, <1>6 DEF Inv

LEMMA FailureInv ==
    ASSUME Inv, Undecryptable \/ RotationFails
    PROVE  Inv'
  <1>f. /\ pc' = "failed" /\ offset' = 0 /\ gone' = 0 /\ before' = {}
        /\ DOMAIN pending' = {} /\ DOMAIN batch' = {} /\ todo' = {}
        /\ UNCHANGED <<rows, used, exempt>>
    BY DEF Undecryptable, RotationFails, Exit, daemonVars
  <1>1. StoreInv' /\ BatchInv' /\ PendingInv' /\ DoneInv'
    BY <1>f DEF Inv, StoreInv, BatchInv, PendingInv, DoneInv
  <1>2. JobInv' /\ CountInv'
    BY <1>f DEF JobInv, CountInv, Running, LeftBehindBounded
  <1> QED
    BY <1>1, <1>2 DEF Inv

-----------------------------------------------------------------------------
(* What the runs of the rotation do to the table.                          *)

LEMMA InvInit == Init => Inv
  <1> SUFFICES ASSUME Init PROVE Inv
    OBVIOUS
  <1> USE DEF Init
  <1>1. StoreInv /\ BatchInv /\ PendingInv /\ DoneInv
    BY DEF StoreInv, BatchInv, PendingInv, DoneInv
  <1>2. JobInv /\ CountInv
    BY DEF JobInv, CountInv, Running, LeftBehindBounded
  <1> QED
    BY <1>1, <1>2 DEF Inv

LEMMA InvNext ==
    ASSUME Inv, [Next]_vars
    PROVE  Inv'
  <1>1. CASE UNCHANGED vars
    BY <1>1 DEF Inv, StoreInv, JobInv, BatchInv, PendingInv, DoneInv, CountInv, Passed, Reached,
                Rank, Running, LeftBehindBounded, vars, daemonVars, rotationVars, historyVars
  <1> QED
    BY <1>1, DaemonInv, HardenInv, RedeployInv, StartInv, FetchInv, RotateInv, CommitInv, CompleteInv,
       FailureInv DEF Next, Rotation

\* The inductive invariant holds in every reachable state.
THEOREM Invariance == Spec => []Inv
  BY InvInit, InvNext, PTL DEF Spec

\* main of key-rotation: a run that reports success, under a role that row-level
\* security does not apply to, has left no more of the rows it began with under
\* another key than rows were deleted while it ran, for tables and pages of any
\* size and any number of writes in between.
THEOREM LittleLeftBehind == Spec => []LeftBehindBounded
  <1>1. Inv => LeftBehindBounded
    BY DEF Inv, CountInv
  <1> QED
    BY <1>1, Invariance, PTL

\* main of key-rotation: no step of the rotation, of the daemon or of a failure
\* takes a row off the new key or changes the text of a row that stays.
THEOREM NothingUndone == Spec => NeverUndone
  <1> DEFINE Kept == \A i \in DOMAIN rows \cap DOMAIN rows' :
                /\ rows'[i].wire.plain = rows[i].wire.plain
                /\ decrypts(NewKey, rows[i].wire) => decrypts(NewKey, rows'[i].wire)
  <1>1. Inv /\ [Next]_vars => [Kept]_vars
    <2> SUFFICES ASSUME Inv, Next PROVE Kept
      OBVIOUS
    <2>1. ASSUME NEW d, NEW ids, Replaced(d, ids) PROVE Kept
      BY <2>1 DEF Replaced, Inv, StoreInv
    <2>2. CASE Daemon
      BY <2>1, <2>2, DeleteReplaces, UpsertReplaces DEF Daemon
    <2>3. CASE CommitBatch
      BY <2>3, CommitIs
    <2>4. CASE rows' = rows
      BY <2>4
    <2>5. Daemon \/ CommitBatch \/ rows' = rows
      BY DEF Next, Rotation, Harden, Redeploy, StartRotation, FetchBatch, Complete, RotateRow,
             Undecryptable, RotationFails
    <2> QED
      BY <2>2, <2>3, <2>4, <2>5
  <1> QED
    BY <1>1, Invariance, PTL DEF Spec, NeverUndone
-----------------------------------------------------------------------------
(* Texts, embeddings and types, on top of Inv.                             *)

\* The text of a document is what its rows hold.
Covered(d) ==
    /\ Stored(d) \ {0} = Range(source[d]) \ {0}
    /\ \A i \in RowsOf(d) : rows[i].index > 0 => Len(rows[i].wire.plain) > OVERLAP_CHARS

TextInv ==
    /\ source \in [Docs -> Texts \cup {<<>>}] /\ daemonKey \in Keys
    /\ \A i \in DOMAIN rows : rows[i] \in Row /\ rows[i].embedding = rows[i].wire.plain
    /\ \A d \in Docs : Covered(d)

\* A row that is about to be written differs from what it replaces in its key
\* only, and if it is embedded anew, then with the embedding of the same text.
UpdateInv ==
    \A i \in DOMAIN pending :
        /\ pending[i] \in Row
        /\ pending[i].doc = rows[i].doc /\ pending[i].index = rows[i].index
        /\ pending[i].embedding = rows[i].wire.plain

\* The job's place in the table never lies beyond all ids there are.
PageInv ==
    /\ Reached <= Cardinality(Ids)
    /\ Cardinality(DOMAIN batch) <= BatchSize

ContentInv == TextInv /\ UpdateInv /\ PageInv

\* Rows that keep their text, document and index cover it as before.
LEMMA CoveredKept ==
    ASSUME NEW d, Covered(d), RowsOf(d)' = RowsOf(d), source'[d] = source[d],
           \A i \in RowsOf(d) : /\ rows'[i].wire.plain = rows[i].wire.plain
                                /\ rows'[i].index = rows[i].index
    PROVE  Covered(d)'
  <1>1. Stored(d)' = Stored(d)
    BY DEF Stored
  <1> QED
    BY <1>1 DEF Covered

\* upsert_chunks: the new rows of a document cover its new text.
LEMMA UpsertCovers ==
    ASSUME Inv, NEW d \in Docs, NEW text \in Texts, ~Blank(text), NEW ids,
           RowsOf(d)' = ids, TextInserted(d, text, ids), source'[d] = text
    PROVE  Covered(d)'
  <1>1. text \in Seq(Nat)
    BY ConstantsAssumption
  <1>2. \A x \in ids : /\ Place(ids, x) + 1 \in DOMAIN chunk(text)
                       /\ rows'[x].index = (Place(ids, x) + 1) - 1
                       /\ rows'[x].wire.plain = chunk(text)[Place(ids, x) + 1]
    <2> SUFFICES ASSUME NEW x \in ids
                 PROVE  /\ Place(ids, x) + 1 \in DOMAIN chunk(text)
                        /\ rows'[x].index = (Place(ids, x) + 1) - 1
                        /\ rows'[x].wire.plain = chunk(text)[Place(ids, x) + 1]
      OBVIOUS
    <2>1. PICK k \in DOMAIN chunk(text) : k = Place(ids, x) + 1 /\ rows'[x] = RowOf(d, text, k)
      BY DEF TextInserted
    <2>2. rows'[x].index = k - 1 /\ rows'[x].wire.plain = chunk(text)[k]
      BY <2>1 DEF RowOf, encrypt
    <2> QED
      BY <2>1, <2>2
  <1>3. \A k \in DOMAIN chunk(text) : \E x \in ids : Place(ids, x) + 1 = k
    BY DEF TextInserted
  <1>4. Stored(d)' = UNION {Range(chunk(text)[k]) : k \in DOMAIN chunk(text)}
    <2>1. Stored(d)' = UNION {Range(rows'[x].wire.plain) : x \in ids}
      BY DEF Stored
    <2>2. {Range(rows'[x].wire.plain) : x \in ids} = {Range(chunk(text)[k]) : k \in DOMAIN chunk(text)}
      BY <1>2, <1>3
    <2> QED
      BY <2>1, <2>2
  <1>5. Stored(d)' \ {0} = Range(text) \ {0}
    BY <1>1, <1>4, ChunksCover
  <1>6. ASSUME NEW x \in ids, rows'[x].index > 0
        PROVE  Len(rows'[x].wire.plain) > OVERLAP_CHARS
    <2>1. PICK k \in DOMAIN chunk(text) : k = Place(ids, x) + 1
      BY <1>2
    <2>2. chunk(text) \in Seq(Seq(Nat))
      BY <1>1, ChunkType
    <2>3. k \in Nat /\ rows'[x].index = k - 1
      BY <1>2, <2>1, <2>2
    <2>4. k > 1
      BY <1>6, <2>3
    <2>5. Len(chunk(text)[k]) > OVERLAP_CHARS
      BY <1>1, <2>4, ChunksLong
    <2> QED
      BY <1>2, <2>1, <2>5
  <1> QED
    BY <1>5, <1>6 DEF Covered

\* The rows of the other documents are not touched.
LEMMA OthersKept ==
    ASSUME Inv, NEW d, NEW ids, Replaced(d, ids), \A i \in ids : rows'[i].doc = d
    PROVE  /\ RowsOf(d)' = ids
           /\ \A e : e # d => RowsOf(e)' = RowsOf(e)
           /\ \A i \in DOMAIN rows \ RowsOf(d) : rows'[i] = rows[i]
  <1>1. ids \cap DOMAIN rows = {}
    BY DEF Replaced, Inv, StoreInv
  <1>2. /\ DOMAIN rows' = (DOMAIN rows \ RowsOf(d)) \cup ids
        /\ \A i \in DOMAIN rows \ RowsOf(d) : rows'[i] = rows[i]
    BY DEF Replaced
  <1>3. RowsOf(d)' = ids
    BY <1>1, <1>2 DEF RowsOf
  <1>4. ASSUME NEW e, e # d PROVE RowsOf(e)' = RowsOf(e)
    BY <1>1, <1>2, <1>4 DEF RowsOf
  <1> QED
    BY <1>2, <1>3, <1>4

LEMMA ReplacedContent ==
    ASSUME Inv, ContentInv, NEW d \in Docs, NEW ids, NEW text \in Texts \cup {<<>>},
           Replaced(d, ids), UNCHANGED daemonKey,
           source' = [source EXCEPT ![d] = text], Covered(d)',
           \A i \in ids : /\ rows'[i] \in Row /\ rows'[i].doc = d
                          /\ rows'[i].embedding = rows'[i].wire.plain
    PROVE  ContentInv'
  <1>1. /\ DOMAIN rows' = (DOMAIN rows \ RowsOf(d)) \cup ids
        /\ RowsOf(d) \cap DOMAIN pending = {}
        /\ UNCHANGED <<offset, batch, pending>>
    BY DEF Replaced, rotationVars
  <1>2. \A i \in DOMAIN rows' : rows'[i] \in Row /\ rows'[i].embedding = rows'[i].wire.plain
    BY <1>1, OthersKept DEF ContentInv, TextInv
  <1>3. ASSUME NEW e \in Docs PROVE Covered(e)'
    <2>1. CASE e = d
      BY <2>1
    <2>2. CASE e # d
      <3>1. \A i \in RowsOf(e) : i \in DOMAIN rows \ RowsOf(d)
        BY <2>2 DEF RowsOf
      <3>2. source'[e] = source[e]
        BY <2>2 DEF ContentInv, TextInv
      <3>3. Covered(e) /\ RowsOf(e)' = RowsOf(e)
        BY <2>2, OthersKept DEF ContentInv, TextInv
      <3>4. \A i \in RowsOf(e) : rows'[i] = rows[i]
        BY <3>1, OthersKept
      <3> QED
        BY <3>2, <3>3, <3>4, CoveredKept
    <2> QED
      BY <2>1, <2>2
  <1>4. source' \in [Docs -> Texts \cup {<<>>}]
    BY DEF ContentInv, TextInv
  <1>5. TextInv'
    BY <1>2, <1>3, <1>4 DEF ContentInv, TextInv
  <1>6. UpdateInv'
    <2>1. \A i \in DOMAIN pending : rows'[i] = rows[i]
      BY <1>1, OthersKept DEF Inv, PendingInv
    <2> QED
      BY <1>1, <2>1 DEF ContentInv, UpdateInv
  <1>7. PageInv'
    BY <1>1 DEF ContentInv, PageInv, Reached
  <1> QED
    BY <1>5, <1>6, <1>7 DEF ContentInv

LEMMA DeleteContent ==
    ASSUME Inv, ContentInv, NEW d \in Docs, DeleteChunks(d)
    PROVE  ContentInv'
  <1>1. /\ Replaced(d, {}) /\ UNCHANGED daemonKey
        /\ source' = [source EXCEPT ![d] = <<>>]
    BY DeleteReplaces DEF DeleteChunks
  <1>2. RowsOf(d)' = {}
    BY <1>1, OthersKept
  <1>3. source'[d] = <<>>
    BY <1>1 DEF ContentInv, TextInv
  <1>4. Covered(d)'
    <2>1. Stored(d)' = {}
      BY <1>2 DEF Stored
    <2>2. Range(source'[d]) = {}
      BY <1>3 DEF Range
    <2> QED
      BY <1>2, <2>1, <2>2 DEF Covered
  <1>5. PICK text \in Texts \cup {<<>>} : text = <<>>
    OBVIOUS
  <1>6. source' = [source EXCEPT ![d] = text] /\ UNCHANGED daemonKey
    BY <1>1, <1>5
  <1>7. PICK ids : ids = {} /\ Replaced(d, ids)
    BY <1>1
  <1>8. \A i \in ids : /\ rows'[i] \in Row /\ rows'[i].doc = d
                      /\ rows'[i].embedding = rows'[i].wire.plain
    BY <1>7
  <1>9. Replaced(d, ids) /\ source' = [source EXCEPT ![d] = text] /\ UNCHANGED daemonKey
    BY <1>6, <1>7
  <1> QED
    BY <1>4, <1>8, <1>9, ReplacedContent

LEMMA UpsertContent ==
    ASSUME Inv, ContentInv, NEW d \in Docs, NEW text \in Texts, UpsertChunks(d, text)
    PROVE  ContentInv'
  <1>1. PICK ids : Replaced(d, ids) /\ TextInserted(d, text, ids)
    BY UpsertReplaces
  <1>2. /\ Len(chunk(text)) > 0 /\ UNCHANGED daemonKey
        /\ source' = [source EXCEPT ![d] = text]
    BY DEF UpsertChunks
  <1>3. ~Blank(text)
    BY <1>2 DEF chunk
  <1>4. text \in Seq(Nat) /\ chunk(text) \in Seq(Seq(Nat))
    BY ConstantsAssumption, ChunkType
  <1>5. ASSUME NEW i \in ids
        PROVE  /\ rows'[i] \in Row /\ rows'[i].doc = d
               /\ rows'[i].embedding = rows'[i].wire.plain
    <2>1. PICK k \in DOMAIN chunk(text) : k = Place(ids, i) + 1 /\ rows'[i] = RowOf(d, text, k)
      BY <1>1 DEF TextInserted
    <2>2. k - 1 \in Nat /\ chunk(text)[k] \in Seq(Nat)
      BY <1>4
    <2>3. daemonKey \in Keys
      BY DEF ContentInv, TextInv
    <2> QED
      BY <2>1, <2>2, <2>3 DEF RowOf, Row, encrypt
  <1>6. RowsOf(d)' = ids
    BY <1>1, <1>5, OthersKept
  <1>7. source'[d] = text
    BY <1>2 DEF ContentInv, TextInv
  <1>8. Covered(d)'
    BY <1>1, <1>3, <1>6, <1>7, UpsertCovers
  <1> QED
    BY <1>1, <1>2, <1>5, <1>8, ReplacedContent

LEMMA FetchContent ==
    ASSUME Inv, ContentInv, FetchBatch
    PROVE  ContentInv'
  <1> DEFINE page == {i \in Visible : Rank(i) \in offset..(offset + BatchSize - 1)}
  <1>1. /\ pc = "fetch" /\ DOMAIN batch' = page
        /\ UNCHANGED <<rows, source, daemonKey, offset, pending>>
    BY DEF FetchBatch, fetch_batch, daemonVars
  <1>2. TextInv' /\ UpdateInv'
    BY <1>1 DEF ContentInv, TextInv, UpdateInv, Covered, Stored, RowsOf
  <1>3. page \subseteq DOMAIN rows /\ DOMAIN rows \subseteq Ids /\ page \subseteq Ids
    BY PassedRows DEF Visible
  <1>4. PICK n : n = Cardinality(Ids)
    OBVIOUS
  <1>5. n \in Nat /\ IsFiniteSet(DOMAIN rows) /\ DOMAIN rows \subseteq Nat
    BY <1>3, <1>4, IdSets
  <1>6. offset \in Nat /\ offset <= n
    <2>1. DOMAIN batch = {}
      BY <1>1 DEF Inv, JobInv
    <2> QED
      BY <1>4, <2>1, PassedRows, FS_EmptySet DEF ContentInv, PageInv, Reached
  <1>7. \A i \in page : /\ offset <= Place(DOMAIN rows, i)
                        /\ Place(DOMAIN rows, i) < offset + BatchSize
                        /\ Place(DOMAIN rows, i) < offset + (n - offset)
    <2> SUFFICES ASSUME NEW i \in page
                 PROVE  /\ offset <= Place(DOMAIN rows, i)
                        /\ Place(DOMAIN rows, i) < offset + BatchSize
                        /\ Place(DOMAIN rows, i) < offset + (n - offset)
      OBVIOUS
    <2>1. Rank(i) = Place(DOMAIN rows, i) /\ Rank(i) \in Nat /\ BatchSize \in Nat
      BY PassedRows
    <2>2. Place(DOMAIN rows, i) < Cardinality(DOMAIN rows)
      BY <1>3, <1>5, PlaceBelow
    <2>3. Cardinality(DOMAIN rows) <= n /\ Cardinality(DOMAIN rows) \in Nat
      BY <1>3, <1>4, Fewer
    <2> QED
      BY <1>5, <1>6, <2>1, <2>2, <2>3
  <1> HIDE DEF page
  <1>8. Cardinality(page) <= BatchSize
    <2>1. \A i \in page : offset <= Place(DOMAIN rows, i) /\ Place(DOMAIN rows, i) < offset + BatchSize
      BY <1>7
    <2> QED
      BY <1>3, <2>1, PassedRows, RowsFitPlaces
  <1>9. Cardinality(page) <= n - offset
    <2>1. PICK m \in Nat : m = n - offset
      BY <1>5, <1>6
    <2>2. \A i \in page : offset <= Place(DOMAIN rows, i) /\ Place(DOMAIN rows, i) < offset + m
      BY <1>7, <2>1
    <2>3. Cardinality(page) <= m
      BY <1>3, <1>6, <2>2, RowsFitPlaces
    <2> QED
      BY <2>1, <2>3
  <1>10. PageInv'
    <2>1. Cardinality(page) \in Nat
      BY <1>3, IdSets
    <2>2. Reached' = offset + Cardinality(page)
      BY <1>1 DEF Reached
    <2>3. Cardinality(DOMAIN batch') <= BatchSize
      BY <1>1, <1>8
    <2> QED
      BY <1>4, <1>5, <1>6, <1>9, <2>1, <2>2, <2>3 DEF PageInv
  <1> QED
    BY <1>2, <1>10 DEF ContentInv

\* update_content, update_content_and_embedding: the row as it will be.
LEMMA RowToWrite ==
    ASSUME Inv, ContentInv, NEW i \in DOMAIN batch, i \in Visible, UpdateContent(i)
    PROVE  /\ pending'[i] \in Row
           /\ pending'[i].doc = rows[i].doc /\ pending'[i].index = rows[i].index
           /\ pending'[i].embedding = rows[i].wire.plain
  <1> DEFINE new == [rows[i] EXCEPT !.wire = encrypt(NewKey, batch[i].plain),
                                    !.embedding = IF reembed THEN batch[i].plain ELSE @]
             first == [x \in {i} |-> new]
  <1>r. i \in DOMAIN rows
    BY DEF Visible
  <1>1. pending' = Overlay(first, pending)
    BY DEF UpdateContent
  <1>2. pending'[i] = new
    <2> HIDE DEF new
    <2> QED
      BY <1>1 DEF Overlay
  <1>3. rows[i] \in Row /\ rows[i].embedding = rows[i].wire.plain /\ rows[i].wire = batch[i]
    BY <1>r DEF Inv, BatchInv, ContentInv, TextInv
  <1>4. batch[i].plain \in Seq(Nat) /\ rows[i].embedding = batch[i].plain
    BY <1>3 DEF Row
  <1>5. new = [doc |-> rows[i].doc, index |-> rows[i].index,
               wire |-> encrypt(NewKey, batch[i].plain), embedding |-> batch[i].plain]
    <2>1. RowShape(rows[i])
      BY <1>r DEF Inv, StoreInv
    <2>2. new = [doc |-> rows[i].doc, index |-> rows[i].index,
                 wire |-> encrypt(NewKey, batch[i].plain),
                 embedding |-> IF reembed THEN batch[i].plain ELSE rows[i].embedding]
      BY <2>1, RowUpdated
    <2>3. (IF reembed THEN batch[i].plain ELSE rows[i].embedding) = batch[i].plain
      BY <1>4
    <2> QED
      BY <2>2, <2>3
  <1>6. rows[i].doc \in Docs /\ rows[i].index \in Nat /\ NewKey \in Keys
    BY <1>3 DEF Row, Keys
  <1> HIDE DEF new
  <1>7. new \in Row
    BY <1>4, <1>5, <1>6 DEF Row, encrypt
  <1>8. new.doc = rows[i].doc /\ new.index = rows[i].index /\ new.embedding = batch[i].plain
    BY <1>5
  <1> QED
    BY <1>2, <1>3, <1>7, <1>8

LEMMA RotateContent ==
    ASSUME Inv, ContentInv, RotateRow
    PROVE  ContentInv'
  <1>1. UNCHANGED <<rows, source, daemonKey, offset, batch>>
    BY DEF RotateRow, daemonVars
  <1>2. TextInv' /\ PageInv'
    BY <1>1 DEF ContentInv, TextInv, PageInv, Covered, Stored, RowsOf, Reached
  <1>3. PICK i \in todo : \/ UpdateContent(i)
                          \/ UNCHANGED pending
    BY DEF RotateRow
  <1>4. i \in DOMAIN batch
    BY DEF Inv, JobInv
  <1>5. CASE UpdateContent(i) /\ i \in Visible
    <2>1. /\ DOMAIN pending' = DOMAIN pending \cup {i}
          /\ \A x \in DOMAIN pending \ {i} : pending'[x] = pending[x]
      BY <1>4, <1>5, UpdateIs
    <2>2. /\ pending'[i] \in Row
          /\ pending'[i].doc = rows[i].doc /\ pending'[i].index = rows[i].index
          /\ pending'[i].embedding = rows[i].wire.plain
      BY <1>4, <1>5, RowToWrite
    <2>3. UpdateInv'
      BY <1>1, <2>1, <2>2 DEF ContentInv, UpdateInv
    <2> QED
      BY <1>2, <2>3 DEF ContentInv
  <1>6. CASE UNCHANGED pending
    BY <1>1, <1>2, <1>6 DEF ContentInv, UpdateInv
  <1> QED
    BY <1>3, <1>5, <1>6 DEF UpdateContent

LEMMA CommitContent ==
    ASSUME Inv, ContentInv, CommitBatch
    PROVE  ContentInv'
  <1>1. /\ DOMAIN batch' = {} /\ DOMAIN pending' = {}
        /\ offset' = offset + Cardinality(DOMAIN batch)
        /\ UNCHANGED <<source, daemonKey>>
    BY DEF CommitBatch, NextOffset, daemonVars
  <1>2. ASSUME NEW i \in DOMAIN rows
        PROVE  /\ rows'[i] \in Row /\ rows'[i].embedding = rows'[i].wire.plain
               /\ rows'[i].doc = rows[i].doc /\ rows'[i].index = rows[i].index
               /\ rows'[i].wire.plain = rows[i].wire.plain
    <2>1. CASE i \in DOMAIN pending
      BY <2>1, CommitIs DEF Inv, PendingInv, ContentInv, UpdateInv
    <2>2. CASE i \notin DOMAIN pending
      BY <2>2, CommitIs DEF ContentInv, TextInv
    <2> QED
      BY <2>1, <2>2
  <1>3. DOMAIN rows' = DOMAIN rows
    BY CommitIs
  <1>4. ASSUME NEW d \in Docs PROVE Covered(d)'
    <2>1. RowsOf(d)' = RowsOf(d) /\ RowsOf(d) \subseteq DOMAIN rows
      BY <1>2, <1>3 DEF RowsOf
    <2>2. Covered(d) /\ source'[d] = source[d]
      BY <1>1 DEF ContentInv, TextInv
    <2> QED
      BY <1>2, <2>1, <2>2, CoveredKept
  <1>5. TextInv'
    BY <1>1, <1>2, <1>3, <1>4 DEF ContentInv, TextInv
  <1>6. UpdateInv'
    BY <1>1 DEF UpdateInv
  <1>7. PageInv'
    <2>1. Cardinality(DOMAIN batch') = 0
      BY <1>1, FS_EmptySet
    <2>2. Reached' = Reached
      BY <1>1, <2>1, PassedRows DEF Reached
    <2>3. 0 <= BatchSize
      BY PassedRows
    <2> QED
      BY <2>1, <2>2, <2>3 DEF ContentInv, PageInv
  <1> QED
    BY <1>5, <1>6, <1>7 DEF ContentInv

\* A run that ends leaves the rows alone and starts over.
LEMMA ExitContent ==
    ASSUME Inv, ContentInv, Complete \/ Undecryptable \/ RotationFails
    PROVE  ContentInv'
  <1>1. /\ offset' = 0 /\ DOMAIN pending' = {} /\ DOMAIN batch' = {}
        /\ UNCHANGED <<rows, source, daemonKey>>
    BY DEF Complete, Undecryptable, RotationFails, Exit, daemonVars
  <1>2. TextInv' /\ UpdateInv'
    BY <1>1 DEF ContentInv, TextInv, UpdateInv, Covered, Stored, RowsOf
  <1>3. PageInv'
    <2>1. Cardinality(DOMAIN batch') = 0
      BY <1>1, FS_EmptySet
    <2>2. Cardinality(Ids) \in Nat /\ BatchSize \in Nat
      BY IdSets, PassedRows
    <2> QED
      BY <1>1, <2>1, <2>2 DEF PageInv, Reached
  <1> QED
    BY <1>2, <1>3 DEF ContentInv

LEMMA OtherContent ==
    ASSUME Inv, ContentInv,
           StartRotation \/ Harden \/ (\E k \in Keys : Redeploy(k)) \/ UNCHANGED vars
    PROVE  ContentInv'
  <1>1. UNCHANGED <<rows, source, offset, batch, pending>> /\ daemonKey' \in Keys
    BY DEF StartRotation, Harden, Redeploy, vars, daemonVars, rotationVars, ContentInv, TextInv
  <1> QED
    BY <1>1 DEF ContentInv, TextInv, UpdateInv, PageInv, Covered, Stored, RowsOf, Reached

LEMMA ContentInit == Init => ContentInv
  <1> SUFFICES ASSUME Init PROVE ContentInv
    OBVIOUS
  <1>1. /\ rows = <<>> /\ source = [d \in Docs |-> <<>>] /\ daemonKey = OldKey
        /\ offset = 0 /\ batch = <<>> /\ pending = <<>>
    BY DEF Init
  <1>2. \A d \in Docs : Covered(d)
    <2> SUFFICES ASSUME NEW d \in Docs PROVE Covered(d)
      OBVIOUS
    <2>1. RowsOf(d) = {} /\ Stored(d) = {}
      BY <1>1 DEF RowsOf, Stored
    <2>2. Range(source[d]) = {}
      BY <1>1 DEF Range
    <2> QED
      BY <2>1, <2>2 DEF Covered
  <1>3. TextInv
    BY <1>1, <1>2 DEF TextInv, Keys
  <1>4. UpdateInv
    BY <1>1 DEF UpdateInv
  <1>5. PageInv
    <2>1. DOMAIN batch = {}
      BY <1>1
    <2>2. Cardinality(DOMAIN batch) = 0
      BY <2>1, FS_EmptySet
    <2>3. Cardinality(Ids) \in Nat /\ BatchSize \in Nat
      BY IdSets, ConstantsAssumption
    <2> QED
      BY <1>1, <2>2, <2>3 DEF PageInv, Reached
  <1> QED
    BY <1>3, <1>4, <1>5 DEF ContentInv

LEMMA ContentNext ==
    ASSUME Inv, ContentInv, [Next]_vars
    PROVE  ContentInv'
  BY DeleteContent, UpsertContent, FetchContent, RotateContent, CommitContent, ExitContent,
     OtherContent DEF Next, Daemon, Rotation

LEMMA ContentInvariance == Spec => [](Inv /\ ContentInv)
  <1>1. Init => Inv /\ ContentInv
    BY InvInit, ContentInit
  <1>2. Inv /\ ContentInv /\ [Next]_vars => (Inv /\ ContentInv)'
    BY InvNext, ContentNext
  <1> QED
    BY <1>1, <1>2, PTL DEF Spec

\* key_rotation and ingestion: ids are of rows, the open transaction is of rows
\* that are there, a page is no longer than it may be and the place in the table
\* never lies beyond the ids there are.
THEOREM TypeCorrect == Spec => []TypeOK
  <1>1. Inv /\ ContentInv => TypeOK
    <2> SUFFICES ASSUME Inv, ContentInv PROVE TypeOK
      OBVIOUS
    <2>1. /\ DOMAIN rows \subseteq used /\ used \subseteq Ids /\ before \subseteq DOMAIN rows
          /\ exempt \in BOOLEAN
      BY DEF Inv, StoreInv
    <2>2. pc \in {"idle", "fetch", "batch", "done", "failed"} /\ todo \subseteq DOMAIN batch
      BY DEF Inv, JobInv
    <2>3. DOMAIN pending \subseteq DOMAIN rows
      BY DEF Inv, PendingInv
    <2>4. offset \in 0..Cardinality(Ids)
      <3>1. Cardinality(Ids) \in Nat /\ Cardinality(DOMAIN batch) \in Nat
        BY IdSets, PassedRows
      <3>2. offset \in Nat /\ offset + Cardinality(DOMAIN batch) <= Cardinality(Ids)
        BY PassedRows DEF ContentInv, PageInv, Reached
      <3> QED
        BY <3>1, <3>2
    <2>5. /\ source \in [Docs -> Texts \cup {<<>>}] /\ daemonKey \in Keys
          /\ \A i \in DOMAIN rows : rows[i] \in Row
          /\ Cardinality(DOMAIN batch) <= BatchSize
      BY DEF ContentInv, TextInv, PageInv
    <2> QED
      BY <2>1, <2>2, <2>3, <2>4, <2>5 DEF TypeOK
  <1> QED
    BY <1>1, ContentInvariance, PTL

\* chunk_by_chars, upsert_chunks, main of key-rotation: for texts of any length,
\* windows and overlaps of any size, and whatever is written, rotated or
\* interrupted in between, the rows of a document hold exactly the characters of
\* the text last stored for it, and no row but the first only repeats.
THEOREM TextsCovered == Spec => []DocumentCovered
  <1>1. ContentInv => DocumentCovered
    BY DEF ContentInv, TextInv, Covered, DocumentCovered
  <1> QED
    BY <1>1, ContentInvariance, PTL

\* embed_batch, update_content_and_embedding: for slices of any size, answered
\* in any order, a row's embedding is that of its own text, and it stays so
\* when the rotation computes it anew.
THEOREM EmbeddingsOwn == Spec => []EmbeddingsMatch
  <1>1. ContentInv => EmbeddingsMatch
    BY DEF ContentInv, TextInv, EmbeddingsMatch
  <1> QED
    BY <1>1, ContentInvariance, PTL
=============================================================================
