---------------------------- MODULE PlacesProofs ----------------------------
(***************************************************************************)
(* Lemmas about Places, for every order of a finite set, and about what is *)
(* computed step by step along a sequence.                                 *)
(***************************************************************************)
EXTENDS Places, FiniteSetTheorems, SequenceTheorems, WellFoundedInduction, TLAPS

LEMMA PlaceType ==
    ASSUME NEW N, IsFiniteSet(N), NEW n
    PROVE  Place(N, n) \in Nat
  <1>1. {m \in N : m < n} \in SUBSET N
    OBVIOUS
  <1> QED
    BY <1>1, FS_Subset, FS_CardinalityType DEF Place

LEMMA PlaceGrows ==
    ASSUME NEW N, NEW M, IsFiniteSet(M), N \subseteq M, NEW n
    PROVE  Place(N, n) <= Place(M, n)
  <1>1. {m \in N : m < n} \in SUBSET {m \in M : m < n} /\ {m \in M : m < n} \in SUBSET M
    OBVIOUS
  <1>2. IsFiniteSet({m \in M : m < n})
    BY <1>1, FS_Subset
  <1> QED
    BY <1>1, <1>2, FS_Subset DEF Place

-----------------------------------------------------------------------------
(* Elements in the order of a relation.                                    *)

StrictOrder(R, N) ==
    /\ \A n \in N : <<n, n>> \notin R
    /\ \A l, m, n \in N : <<l, m>> \in R /\ <<m, n>> \in R => <<l, n>> \in R
    /\ \A m, n \in N : m = n \/ <<m, n>> \in R \/ <<n, m>> \in R

\* A place is less than the number of all, and no two elements have the same.
LEMMA PlaceByType ==
    ASSUME NEW R, NEW N, IsFiniteSet(N), NEW n
    PROVE  PlaceBy(R, N, n) \in Nat
  <1>1. {m \in N : <<m, n>> \in R} \in SUBSET N
    OBVIOUS
  <1> QED
    BY <1>1, FS_Subset, FS_CardinalityType DEF PlaceBy

LEMMA PlaceByIncreases ==
    ASSUME NEW R, NEW N, IsFiniteSet(N), StrictOrder(R, N), NEW m \in N, NEW n \in N,
           <<m, n>> \in R
    PROVE  PlaceBy(R, N, m) < PlaceBy(R, N, n)
  <1> DEFINE A == {k \in N : <<k, m>> \in R}  B == {k \in N : <<k, n>> \in R}
  <1>1. A \in SUBSET N /\ B \in SUBSET N /\ m \notin A /\ A \cup {m} \in SUBSET B
    BY DEF StrictOrder
  <1>2. IsFiniteSet(A) /\ IsFiniteSet(B)
    BY <1>1, FS_Subset
  <1>3. Cardinality(A \cup {m}) = Cardinality(A) + 1
    BY <1>1, <1>2, FS_AddElement
  <1>4. Cardinality(A \cup {m}) <= Cardinality(B)
    BY <1>1, <1>2, FS_Subset
  <1>5. Cardinality(A) \in Nat /\ Cardinality(B) \in Nat
    BY <1>2, FS_CardinalityType
  <1> HIDE DEF A, B
  <1>6. Cardinality(A) < Cardinality(B)
    BY <1>3, <1>4, <1>5
  <1> QED
    BY <1>6 DEF PlaceBy, A, B

LEMMA PlaceByBelow ==
    ASSUME NEW R, NEW N, IsFiniteSet(N), StrictOrder(R, N), NEW n \in N
    PROVE  PlaceBy(R, N, n) < Cardinality(N)
  <1> DEFINE A == {k \in N : <<k, n>> \in R}
  <1>1. A \in SUBSET N /\ n \notin A /\ A \cup {n} \in SUBSET N
    BY DEF StrictOrder
  <1>2. IsFiniteSet(A)
    BY <1>1, FS_Subset
  <1>3. Cardinality(A \cup {n}) = Cardinality(A) + 1
    BY <1>1, <1>2, FS_AddElement
  <1>4. Cardinality(A \cup {n}) <= Cardinality(N)
    BY <1>1, FS_Subset
  <1>5. Cardinality(A) \in Nat /\ Cardinality(N) \in Nat
    BY <1>2, FS_CardinalityType
  <1> HIDE DEF A
  <1>6. Cardinality(A) < Cardinality(N)
    BY <1>3, <1>4, <1>5
  <1> QED
    BY <1>6 DEF PlaceBy, A

LEMMA PlacesByDiffer ==
    ASSUME NEW R, NEW N, IsFiniteSet(N), StrictOrder(R, N), NEW m \in N, NEW n \in N,
           PlaceBy(R, N, m) = PlaceBy(R, N, n)
    PROVE  m = n
  <1>1. PlaceBy(R, N, m) \in Nat /\ PlaceBy(R, N, n) \in Nat
    BY PlaceByType
  <1>2. <<m, n>> \in R => PlaceBy(R, N, m) < PlaceBy(R, N, n)
    BY PlaceByIncreases
  <1>3. <<n, m>> \in R => PlaceBy(R, N, n) < PlaceBy(R, N, m)
    BY PlaceByIncreases
  <1> QED
    BY <1>1, <1>2, <1>3 DEF StrictOrder

\* Things that have places of their own are no more than the places.
LEMMA OwnPlaces ==
    ASSUME NEW T, NEW f, NEW places, IsFiniteSet(places), f \in Injection(T, places)
    PROVE  /\ Cardinality(T) \in Nat /\ Cardinality(T) <= Cardinality(places)
           /\ Cardinality(T) = Cardinality(places) => \A p \in places : \E n \in T : f[n] = p
  <1>1. /\ IsFiniteSet(T) /\ Cardinality(T) <= Cardinality(places)
        /\ Cardinality(T) = Cardinality(places) => f \in Surjection(T, places)
    BY FS_Injection
  <1>2. ASSUME f \in Surjection(T, places), NEW p \in places
        PROVE  \E n \in T : f[n] = p
    BY <1>2 DEF Surjection
  <1> QED
    BY <1>1, <1>2, FS_CardinalityType

\* Arranged(R, N) holds the elements of N, each one once and in order.
LEMMA ArrangedHolds ==
    ASSUME NEW R, NEW N, IsFiniteSet(N), StrictOrder(R, N)
    PROVE  /\ Cardinality(N) \in Nat /\ DOMAIN Arranged(R, N) = 1..Cardinality(N)
           /\ \A k \in DOMAIN Arranged(R, N) :
                Arranged(R, N)[k] \in N /\ PlaceBy(R, N, Arranged(R, N)[k]) = k - 1
           /\ \A n \in N : \E k \in DOMAIN Arranged(R, N) : Arranged(R, N)[k] = n
           /\ \A j, k \in DOMAIN Arranged(R, N) :
                j < k => <<Arranged(R, N)[j], Arranged(R, N)[k]>> \in R
  <1> DEFINE c == Cardinality(N)  f == [n \in N |-> PlaceBy(R, N, n)]  A == Arranged(R, N)
  <1>1. c = Cardinality(N) /\ c \in Nat
    BY FS_CardinalityType
  <1> HIDE DEF c
  <1>2. \A n \in N : PlaceBy(R, N, n) \in 0..(0 + c - 1)
    <2> SUFFICES ASSUME NEW n \in N PROVE PlaceBy(R, N, n) \in 0..(0 + c - 1)
      OBVIOUS
    <2>1. PlaceBy(R, N, n) \in Nat
      BY PlaceByType
    <2>2. PlaceBy(R, N, n) < c
      BY PlaceByBelow DEF c
    <2> QED
      BY <1>1, <2>1, <2>2
  <1>3. \A p \in 0..(0 + c - 1) : \E n \in N : PlaceBy(R, N, n) = p
    <2>1. f \in [N -> 0..(0 + c - 1)]
      BY <1>2
    <2>2. \A m, n \in N : f[m] = f[n] => m = n
      BY PlacesByDiffer
    <2>3. \A n \in N : f[n] = PlaceBy(R, N, n)
      OBVIOUS
    <2> HIDE DEF f
    <2>4. PICK places : places = 0..(0 + c - 1)
      OBVIOUS
    <2>5. IsFiniteSet(places) /\ Cardinality(places) = c
      BY <1>1, <2>4, FS_Interval
    <2>6. f \in Injection(N, places)
      BY <2>1, <2>2, <2>4 DEF Injection, IsInjective
    <2>7. \A p \in places : \E n \in N : f[n] = p
      BY <1>1, <2>5, <2>6, OwnPlaces
    <2> QED
      BY <2>3, <2>4, <2>7
  <1>4. \A k \in 1..c : A[k] \in N /\ PlaceBy(R, N, A[k]) = k - 1
    <2> TAKE k \in 1..c
    <2>1. k - 1 \in 0..(0 + c - 1)
      BY <1>1
    <2>2. \E n \in N : PlaceBy(R, N, n) = k - 1
      BY <1>3, <2>1
    <2>3. A[k] = CHOOSE n \in N : PlaceBy(R, N, n) = k - 1
      BY <1>1 DEF Arranged
    <2> QED
      BY <2>2, <2>3
  <1>5. DOMAIN A = 1..c
    BY <1>1 DEF Arranged
  <1> HIDE DEF A
  <1>6. \A n \in N : \E k \in 1..c : A[k] = n
    <2> TAKE n \in N
    <2>1. PlaceBy(R, N, n) + 1 \in 1..c /\ (PlaceBy(R, N, n) + 1) - 1 = PlaceBy(R, N, n)
      BY <1>1, <1>2
    <2>2. A[PlaceBy(R, N, n) + 1] = n
      BY <1>4, <2>1, PlacesByDiffer
    <2> QED
      BY <2>1, <2>2
  <1>7. ASSUME NEW j \in 1..c, NEW k \in 1..c, j < k PROVE <<A[j], A[k]>> \in R
    <2>1. PlaceBy(R, N, A[j]) = j - 1 /\ PlaceBy(R, N, A[k]) = k - 1 /\ A[j] \in N /\ A[k] \in N
      BY <1>4
    <2>2. j - 1 < k - 1 /\ ~(k - 1 < j - 1) /\ j - 1 # k - 1
      BY <1>1, <1>7
    <2>3. A[j] # A[k]
      BY <2>1, <2>2
    <2>4. <<A[k], A[j]>> \notin R
      BY <2>1, <2>2, PlaceByIncreases
    <2> QED
      BY <2>1, <2>3, <2>4 DEF StrictOrder
  <1> QED
    BY <1>1, <1>4, <1>5, <1>6, <1>7 DEF A

-----------------------------------------------------------------------------
(* Numbers.                                                                *)

LEMMA LessOrders ==
    ASSUME NEW N, N \subseteq Nat
    PROVE  /\ StrictOrder(Less(N), N)
           /\ \A m, n \in N : <<m, n>> \in Less(N) <=> m < n
           /\ \A n \in N : Place(N, n) = PlaceBy(Less(N), N, n)
  <1>1. \A m, n \in N : <<m, n>> \in Less(N) <=> m < n
    BY DEF Less
  <1>2. StrictOrder(Less(N), N)
    BY <1>1 DEF StrictOrder
  <1>3. \A n \in N : {m \in N : m < n} = {m \in N : <<m, n>> \in Less(N)}
    BY <1>1
  <1> QED
    BY <1>1, <1>2, <1>3 DEF Place, PlaceBy

LEMMA PlaceIncreases ==
    ASSUME NEW N, IsFiniteSet(N), N \subseteq Nat, NEW m \in N, NEW n \in N, m < n
    PROVE  Place(N, m) < Place(N, n)
  <1>1. StrictOrder(Less(N), N) /\ <<m, n>> \in Less(N)
    BY LessOrders
  <1>2. PlaceBy(Less(N), N, m) < PlaceBy(Less(N), N, n)
    BY <1>1, PlaceByIncreases
  <1> QED
    BY <1>2, LessOrders

LEMMA PlaceBelow ==
    ASSUME NEW N, IsFiniteSet(N), N \subseteq Nat, NEW n \in N
    PROVE  Place(N, n) < Cardinality(N)
  <1>1. StrictOrder(Less(N), N)
    BY LessOrders
  <1>2. PlaceBy(Less(N), N, n) < Cardinality(N)
    BY <1>1, PlaceByBelow
  <1> QED
    BY <1>2, LessOrders

LEMMA PlacesDiffer ==
    ASSUME NEW N, IsFiniteSet(N), N \subseteq Nat, NEW m \in N, NEW n \in N,
           Place(N, m) = Place(N, n)
    PROVE  m = n
  <1>1. StrictOrder(Less(N), N) /\ PlaceBy(Less(N), N, m) = PlaceBy(Less(N), N, n)
    BY LessOrders
  <1> QED
    BY <1>1, PlacesByDiffer

\* There are no more numbers than places.
LEMMA FewPlaces ==
    ASSUME NEW N, IsFiniteSet(N), N \subseteq Nat, NEW T, T \subseteq N,
           NEW a \in Nat, NEW k \in Nat,
           \A n \in T : Place(N, n) \in a..(a + k - 1)
    PROVE  /\ Cardinality(T) \in Nat /\ Cardinality(T) <= k
           /\ Cardinality(T) = k => \A p \in a..(a + k - 1) : \E n \in T : Place(N, n) = p
  <1> DEFINE places == a..(a + k - 1)  f == [n \in T |-> Place(N, n)]
  <1>1. f \in [T -> places]
    OBVIOUS
  <1>2. \A m, n \in T : f[m] = f[n] => m = n
    BY PlacesDiffer
  <1>3. f \in Injection(T, places)
    BY <1>1, <1>2 DEF Injection, IsInjective
  <1>4. IsFiniteSet(places) /\ Cardinality(places) = k
    BY FS_Interval
  <1> HIDE DEF places, f
  <1>5. /\ IsFiniteSet(T) /\ Cardinality(T) <= k
        /\ Cardinality(T) = k => f \in Surjection(T, places)
    BY <1>3, <1>4, FS_Injection
  <1>6. ASSUME f \in Surjection(T, places), NEW p \in places
        PROVE  \E n \in T : Place(N, n) = p
    BY <1>6 DEF Surjection, f
  <1> QED
    BY <1>5, <1>6, FS_CardinalityType DEF places

\* Ascending(N) holds the numbers of N, each one once and in order.
LEMMA AscendingHolds ==
    ASSUME NEW N, IsFiniteSet(N), N \subseteq Nat
    PROVE  /\ Cardinality(N) \in Nat /\ DOMAIN Ascending(N) = 1..Cardinality(N)
           /\ \A k \in DOMAIN Ascending(N) :
                Ascending(N)[k] \in N /\ Place(N, Ascending(N)[k]) = k - 1
           /\ \A n \in N : \E k \in DOMAIN Ascending(N) : Ascending(N)[k] = n
           /\ \A j, k \in DOMAIN Ascending(N) : j < k => Ascending(N)[j] < Ascending(N)[k]
           /\ IsInjective(Ascending(N))
  <1> DEFINE A == Arranged(Less(N), N)
  <1>1. Ascending(N) = A
    BY DEF Ascending
  <1>2. /\ Cardinality(N) \in Nat /\ DOMAIN A = 1..Cardinality(N)
        /\ \A k \in DOMAIN A : A[k] \in N /\ PlaceBy(Less(N), N, A[k]) = k - 1
        /\ \A n \in N : \E k \in DOMAIN A : A[k] = n
        /\ \A j, k \in DOMAIN A : j < k => <<A[j], A[k]>> \in Less(N)
    BY LessOrders, ArrangedHolds
  <1> HIDE DEF A
  <1>3. \A k \in DOMAIN A : Place(N, A[k]) = k - 1
    BY <1>2, LessOrders
  <1>4. \A j, k \in DOMAIN A : j < k => A[j] < A[k]
    BY <1>2, LessOrders
  <1>5. IsInjective(A)
    <2> SUFFICES ASSUME NEW j \in DOMAIN A, NEW k \in DOMAIN A, A[j] = A[k] PROVE j = k
      BY DEF IsInjective
    <2>1. j - 1 = k - 1
      BY <1>3
    <2>2. j \in Nat /\ k \in Nat
      BY <1>2
    <2> QED
      BY <2>1, <2>2
  <1> QED
    BY <1>1, <1>2, <1>3, <1>4, <1>5

\* A set of numbers has a greatest one.
LEMMA Greatest ==
    ASSUME NEW N, IsFiniteSet(N), N \subseteq Nat, N # {}
    PROVE  \E m \in N : \A n \in N : n <= m
  <1> DEFINE c == Cardinality(N)
  <1>1. c = Cardinality(N) /\ c \in Nat /\ c # 0
    BY FS_CardinalityType, FS_EmptySet
  <1> HIDE DEF c
  <1>2. c \in DOMAIN Ascending(N)
    <2>1. DOMAIN Ascending(N) = 1..Cardinality(N)
      BY AscendingHolds
    <2> QED
      BY <1>1, <2>1
  <1> DEFINE m == Ascending(N)[c]
  <1>3. m \in N /\ Place(N, m) = c - 1
    BY <1>2, AscendingHolds
  <1> HIDE DEF m
  <1>4. ASSUME NEW n \in N, m < n PROVE FALSE
    <2>1. Place(N, m) < Place(N, n)
      BY <1>3, <1>4, PlaceIncreases
    <2>2. Place(N, n) < c
      BY <1>1, PlaceBelow
    <2>3. Place(N, n) \in Nat
      BY PlaceType
    <2> QED
      BY <1>1, <1>3, <2>1, <2>2, <2>3
  <1>5. \A n \in N : n <= m
    <2> SUFFICES ASSUME NEW n \in N PROVE n <= m
      OBVIOUS
    <2>1. n \in Nat /\ m \in Nat
      BY <1>3
    <2> QED
      BY <1>4, <2>1
  <1> QED
    BY <1>3, <1>5

\* The first n numbers are in their places.
LEMMA PlaceInInterval ==
    ASSUME NEW n \in Nat, NEW k \in 0..(n - 1)
    PROVE  Place(0..(n - 1), k) = k
  <1>1. {m \in 0..(n - 1) : m < k} = 0..(k - 1)
    OBVIOUS
  <1>2. Cardinality(0..(k - 1)) = k
    BY FS_Interval
  <1> QED
    BY <1>1, <1>2 DEF Place
\* Selected(s, K) holds what s has at the places in K, in their order.
LEMMA SelectedHolds ==
    ASSUME NEW S, NEW s \in Seq(S), NEW K, K \subseteq DOMAIN s
    PROVE  /\ Selected(s, K) \in Seq(S)
           /\ \A i \in K : \E k \in DOMAIN Selected(s, K) : Selected(s, K)[k] = s[i]
           /\ \A k \in DOMAIN Selected(s, K) : \E i \in K : Selected(s, K)[k] = s[i]
           /\ \A j, k \in DOMAIN Selected(s, K) :
                j < k => \E h, i \in K : /\ h < i /\ Selected(s, K)[j] = s[h]
                                         /\ Selected(s, K)[k] = s[i]
  <1> DEFINE A == Ascending(K)  c == Cardinality(K)
  <1>1. K \subseteq 1..Len(s) /\ Len(s) \in Nat /\ \A i \in K : s[i] \in S
    BY LenProperties
  <1>2. IsFiniteSet(K) /\ K \subseteq Nat
    <2>1. IsFiniteSet(1..Len(s))
      BY <1>1, FS_Interval
    <2>2. K \in SUBSET (1..Len(s))
      BY <1>1
    <2>3. IsFiniteSet(K)
      BY <2>1, <2>2, FS_Subset
    <2> QED
      BY <1>1, <2>3
  <1>3. /\ c \in Nat /\ DOMAIN A = 1..c
        /\ \A k \in DOMAIN A : A[k] \in K
        /\ \A i \in K : \E k \in DOMAIN A : A[k] = i
        /\ \A j, k \in DOMAIN A : j < k => A[j] < A[k]
    BY <1>2, AscendingHolds
  <1>4. Selected(s, K) = [k \in DOMAIN A |-> s[A[k]]]
    BY DEF Selected
  <1> HIDE DEF A, c
  <1> DEFINE new == [k \in 1..c |-> s[A[k]]]
  <1>5. \A k \in 1..c : new[k] = s[A[k]] /\ s[A[k]] \in S
    BY <1>1, <1>3
  <1>6. new \in Seq(S) /\ DOMAIN new = 1..c
    <2>1. new \in [1..c -> S]
      BY <1>5
    <2> HIDE DEF new
    <2> QED
      BY <1>3, <2>1
  <1>7. Selected(s, K) = new
    BY <1>3, <1>4
  <1> HIDE DEF new
  <1>8. \A j, k \in 1..c :
          j < k => \E h, i \in K : h < i /\ new[j] = s[h] /\ new[k] = s[i]
    BY <1>3, <1>5
  <1> QED
    BY <1>3, <1>5, <1>6, <1>7, <1>8

-----------------------------------------------------------------------------
(* From each number to the next.                                           *)

\* Induction over 0..n, of a set.
LEMMA Upwards ==
    ASSUME NEW n \in Nat, NEW T, 0 \in T, \A k \in 1..n : k - 1 \in T => k \in T
    PROVE  0..n \subseteq T
  <1> SUFFICES ASSUME NEW h \in 0..n, h \notin T PROVE FALSE
    OBVIOUS
  <1> DEFINE rest == (0..n) \ T
             lower == {p \in Nat \X Nat : p[1] < p[2]}
  <1>1. rest \subseteq Nat /\ rest # {}
    OBVIOUS
  <1>2. IsWellFoundedOn(lower, Nat)
    BY NatLessThanWellFounded DEF OpToRel
  <1>3. PICK m \in rest : \A k \in rest : ~(<<k, m>> \in lower)
    <2> HIDE DEF rest, lower
    <2> QED
      BY <1>1, <1>2, WFMin
  <1>4. m \in Nat /\ \A k \in rest : ~(k < m)
    BY <1>1, <1>3
  <1>5. m # 0 /\ m <= n
    OBVIOUS
  <1>6. m - 1 \notin rest /\ m - 1 \in 0..n /\ m \in 1..n
    BY <1>4, <1>5
  <1> QED
    BY <1>6

\* What is computed from each number to the next has a value at every one.
Steps(n, S) == [S \X (1..n) -> S]
Computes(f, n, S, start, step) ==
    /\ f \in [0..n -> S] /\ f[0] = start
    /\ \A k \in 1..n : f[k] = step[<<f[k - 1], k>>]

LEMMA Recursion ==
    ASSUME NEW n \in Nat, NEW S, NEW start \in S, NEW step \in Steps(n, S)
    PROVE  \E f : Computes(f, n, S, start, step)
  <1> DEFINE Upto(m, f) == f[0] = start /\ \A k \in 1..m : f[k] = step[<<f[k - 1], k>>]
             T == {m \in 0..n : \E f \in [0..m -> S] : Upto(m, f)}
  <1>1. 0 \in T
    <2> DEFINE f == [k \in 0..0 |-> start]
    <2>1. f \in [0..0 -> S] /\ f[0] = start /\ 1..0 = {} /\ 0 \in 0..n
      OBVIOUS
    <2> HIDE DEF f
    <2>2. Upto(0, f)
      BY <2>1
    <2> HIDE DEF Upto
    <2> QED
      BY <2>1, <2>2
  <1>2. ASSUME NEW m \in 1..n, m - 1 \in T PROVE m \in T
    <2>1. PICK f \in [0..(m - 1) -> S] : Upto(m - 1, f)
      BY <1>2
    <2>2. f[m - 1] \in S /\ step[<<f[m - 1], m>>] \in S
      BY DEF Steps
    <2> DEFINE g == [k \in 0..m |-> IF k = m THEN step[<<f[m - 1], m>>] ELSE f[k]]
    <2>3. g \in [0..m -> S]
      <3>1. \A k \in 0..m : k # m => f[k] \in S
        OBVIOUS
      <3> QED
        BY <2>2, <3>1
    <2>4. \A k \in 0..(m - 1) : g[k] = f[k]
      OBVIOUS
    <2>5. g[m] = step[<<f[m - 1], m>>]
      OBVIOUS
    <2> HIDE DEF g
    <2>6. g[0] = start
      BY <2>1, <2>4
    <2>7. ASSUME NEW k \in 1..m PROVE g[k] = step[<<g[k - 1], k>>]
      <3>1. CASE k = m
        <4>1. g[m - 1] = f[m - 1]
          BY <2>4
        <4> QED
          BY <2>5, <3>1, <4>1
      <3>2. CASE k # m
        <4>1. k \in 1..(m - 1) /\ k \in 0..(m - 1) /\ k - 1 \in 0..(m - 1)
          BY <3>2
        <4> QED
          BY <2>1, <2>4, <4>1
      <3> QED
        BY <3>1, <3>2
    <2> QED
      BY <2>3, <2>6, <2>7
  <1>3. n \in T
    <2> HIDE DEF T
    <2>1. 0..n \subseteq T
      BY <1>1, <1>2, Upwards
    <2> QED
      BY <2>1
  <1> QED
    BY <1>3 DEF Computes
=============================================================================
