--------------------------- MODULE SanitizeProofs ---------------------------
(***************************************************************************)
(* Proofs about Sanitize and its Vault, for any number of tasks, any texts *)
(* and findings, and any number of database failures.  First the pure      *)
(* functions: the check digits, bio_merge and merge_and_dedup; then the    *)
(* invariant of the vault and its calls, and on top of it the one that     *)
(* relates a text's findings to its output.                                *)
(***************************************************************************)
EXTENDS Sanitize, PlacesProofs, SequenceTheorems, TLAPS

-----------------------------------------------------------------------------
(* The check digits.                                                       *)

Remaining == 0..96
Character == 0..35

\* No character makes two remainders one, and two digits never leave one.
LEMMA FeedApart ==
    ASSUME NEW rem \in Remaining, NEW other \in Remaining, NEW c \in Character
    PROVE  /\ Feed(rem, c) \in Remaining
           /\ rem # other => Feed(rem, c) # Feed(other, c)
           /\ \A d \in Character :
                IsDigit(c) /\ IsDigit(d) /\ c # d => Feed(rem, c) # Feed(rem, d)
  <1>1. \A n \in Nat : n % 97 \in Remaining /\ n = 97 * (n \div 97) + (n % 97) /\ n \div 97 \in Nat
    BY DEF Remaining
  <1>2. \A m, n \in Nat : m % 97 = n % 97 => \E k \in Int : m - n = 97 * k
    <2> SUFFICES ASSUME NEW m \in Nat, NEW n \in Nat, m % 97 = n % 97
                 PROVE  \E k \in Int : m - n = 97 * k
      OBVIOUS
    <2>1. m - n = 97 * (m \div 97 - n \div 97) /\ m \div 97 - n \div 97 \in Int
      BY <1>1
    <2> QED
      BY <2>1
  <1>3. Feed(rem, c) \in Remaining
    <2>1. rem * 10 + c \in Nat /\ rem * 100 + c \in Nat
      BY DEF Remaining, Character
    <2> QED
      BY <1>1, <2>1 DEF Feed
  <1>4. ASSUME rem # other PROVE Feed(rem, c) # Feed(other, c)
    <2>1. rem \in 0..96 /\ other \in 0..96 /\ c \in 0..35
      BY DEF Remaining, Character
    <2>2. CASE IsDigit(c)
      <3>1. (rem * 10 + c) % 97 # (other * 10 + c) % 97
        <4> SUFFICES ASSUME (rem * 10 + c) % 97 = (other * 10 + c) % 97 PROVE FALSE
          OBVIOUS
        <4>1. PICK m \in Nat : m = rem * 10 + c
          BY <2>1
        <4>2. PICK n \in Nat : n = other * 10 + c
          BY <2>1
        <4>3. PICK k \in Int : m - n = 97 * k
          BY <1>2, <4>1, <4>2
        <4> QED
          BY <1>4, <2>1, <4>1, <4>2, <4>3
      <3> QED
        BY <2>2, <3>1 DEF Feed
    <2>3. CASE ~IsDigit(c)
      <3>1. (rem * 100 + c) % 97 # (other * 100 + c) % 97
        <4> SUFFICES ASSUME (rem * 100 + c) % 97 = (other * 100 + c) % 97 PROVE FALSE
          OBVIOUS
        <4>1. PICK m \in Nat : m = rem * 100 + c
          BY <2>1
        <4>2. PICK n \in Nat : n = other * 100 + c
          BY <2>1
        <4>3. PICK k \in Int : m - n = 97 * k
          BY <1>2, <4>1, <4>2
        <4> QED
          BY <1>4, <2>1, <4>1, <4>2, <4>3
      <3> QED
        BY <2>3, <3>1 DEF Feed
    <2> QED
      BY <2>2, <2>3
  <1>5. ASSUME NEW d \in Character, IsDigit(c), IsDigit(d), c # d
        PROVE  Feed(rem, c) # Feed(rem, d)
    <2>1. rem \in 0..96 /\ c \in 0..9 /\ d \in 0..9
      BY <1>5 DEF Remaining, IsDigit
    <2>2. (rem * 10 + c) % 97 # (rem * 10 + d) % 97
      <3> SUFFICES ASSUME (rem * 10 + c) % 97 = (rem * 10 + d) % 97 PROVE FALSE
        OBVIOUS
      <3>1. PICK m \in Nat : m = rem * 10 + c
        BY <2>1
      <3>2. PICK n \in Nat : n = rem * 10 + d
        BY <2>1
      <3>3. PICK k \in Int : m - n = 97 * k
        BY <1>2, <3>1, <3>2
      <3> QED
        BY <1>5, <2>1, <3>1, <3>2, <3>3
    <2> QED
      BY <1>5, <2>2 DEF Feed
  <1> QED
    BY <1>3, <1>4, <1>5

LEMMA RemaindersAre ==
    ASSUME NEW chars \in Seq(Character)
    PROVE  /\ Len(chars) \in Nat /\ Mod97(chars) = Remainders(chars)[Len(chars)]
           /\ \A k \in 0..Len(chars) : Remainders(chars)[k] \in Remaining
           /\ Remainders(chars)[0] = 0
           /\ \A k \in 1..Len(chars) :
                Remainders(chars)[k] = Feed(Remainders(chars)[k - 1], chars[k])
  <1> DEFINE n == Len(chars)
             step == [p \in Remaining \X (1..n) |-> Feed(p[1], chars[p[2]])]
             Is(rem) == rem = [k \in 0..n |->
                                 IF k = 0 THEN 0 ELSE Feed(rem[k - 1], chars[k])]
  <1>1. n \in Nat /\ n = Len(chars) /\ \A k \in 1..n : chars[k] \in Character
    OBVIOUS
  <1> HIDE DEF n
  <1>2. \A rem \in Remaining, k \in 1..n : Feed(rem, chars[k]) \in Remaining
    BY <1>1, FeedApart
  <1>3. step \in Steps(n, Remaining)
    BY <1>2 DEF Steps
  <1>4. \A rem \in Remaining, k \in 1..n : step[<<rem, k>>] = Feed(rem, chars[k])
    OBVIOUS
  <1> HIDE DEF step
  <1>5. 0 \in Remaining
    BY DEF Remaining
  <1>6. PICK f : Computes(f, n, Remaining, 0, step)
    BY <1>1, <1>3, <1>5, Recursion
  <1>7. \A k \in 0..n : k # 0 => k \in 1..n /\ k - 1 \in 0..n
    BY <1>1
  <1>8. \A k \in 0..n : f[k] = IF k = 0 THEN 0 ELSE Feed(f[k - 1], chars[k])
    BY <1>4, <1>6, <1>7 DEF Computes
  <1>9. Is(f)
    <2>1. f = [k \in 0..n |-> f[k]]
      BY <1>6 DEF Computes
    <2> QED
      BY <1>8, <2>1
  <1>10. Remainders(chars) = CHOOSE rem : Is(rem)
    BY DEF Remainders, n
  <1>11. Is(Remainders(chars))
    <2> HIDE DEF Is
    <2> QED
      BY <1>9, <1>10
  <1>12. PICK rem : rem = Remainders(chars)
    OBVIOUS
  <1>13. rem = [k \in 0..n |-> IF k = 0 THEN 0 ELSE Feed(rem[k - 1], chars[k])]
    BY <1>11, <1>12
  <1>14. /\ rem[0] = 0 /\ \A k \in 1..n : rem[k] = Feed(rem[k - 1], chars[k])
    <2>1. 0 \in 0..n /\ \A k \in 1..n : k \in 0..n /\ k # 0
      BY <1>1
    <2> QED
      BY <1>13, <2>1
  <1>15. \A k \in 0..n : rem[k] \in Remaining
    <2> DEFINE T == {k \in 0..n : rem[k] \in Remaining}
    <2>1. 0 \in T
      BY <1>1, <1>5, <1>14
    <2>2. ASSUME NEW k \in 1..n, k - 1 \in T PROVE k \in T
      BY <1>1, <1>2, <1>14, <2>2
    <2> HIDE DEF T
    <2>3. 0..n \subseteq T
      BY <1>1, <2>1, <2>2, Upwards
    <2> QED
      BY <2>3 DEF T
  <1> QED
    BY <1>1, <1>12, <1>14, <1>15 DEF Mod97, n

\* Sequences that differ in one digit leave different remainders.
LEMMA OneDigitTells ==
    ASSUME NEW chars \in Seq(Character), NEW other \in Seq(Character),
           Len(chars) = Len(other), NEW at \in 1..Len(chars),
           \A k \in 1..Len(chars) : k # at => chars[k] = other[k],
           IsDigit(chars[at]), IsDigit(other[at]), chars[at] # other[at]
    PROVE  Mod97(chars) # Mod97(other)
  <1>n. PICK n \in Nat : n = Len(chars)
    OBVIOUS
  <1>r. PICK rem : rem = Remainders(chars)
    OBVIOUS
  <1>q. PICK oth : oth = Remainders(other)
    OBVIOUS
  <1>1. /\ Mod97(chars) = rem[n] /\ rem[0] = 0
        /\ \A k \in 0..n : rem[k] \in Remaining
        /\ \A k \in 1..n : rem[k] = Feed(rem[k - 1], chars[k])
    BY <1>n, <1>r, RemaindersAre
  <1>2. /\ Mod97(other) = oth[n] /\ oth[0] = 0
        /\ \A k \in 0..n : oth[k] \in Remaining
        /\ \A k \in 1..n : oth[k] = Feed(oth[k - 1], other[k])
    BY <1>n, <1>q, RemaindersAre
  <1>3. \A k \in 1..n : chars[k] \in Character /\ other[k] \in Character /\ k - 1 \in 0..n
    BY <1>n
  <1> DEFINE T == {k \in 0..n : IF k < at THEN rem[k] = oth[k] ELSE rem[k] # oth[k]}
  <1>4. 0 \in T
    BY <1>1, <1>2
  <1>5. ASSUME NEW k \in 1..n, k - 1 \in T PROVE k \in T
    <2>1. rem[k] = Feed(rem[k - 1], chars[k]) /\ oth[k] = Feed(oth[k - 1], other[k])
      BY <1>1, <1>2
    <2>2. rem[k - 1] \in Remaining /\ oth[k - 1] \in Remaining
      BY <1>1, <1>2, <1>3
    <2>3. CASE k < at
      <3>1. rem[k - 1] = oth[k - 1] /\ chars[k] = other[k]
        BY <1>5, <1>n, <2>3
      <3> QED
        BY <2>1, <2>3, <3>1
    <2>4. CASE k = at
      <3>1. rem[k - 1] = oth[k - 1] /\ ~(k < at)
        BY <1>5, <2>4
      <3>2. rem[k] # oth[k]
        BY <1>3, <2>1, <2>2, <2>4, <3>1, FeedApart
      <3> QED
        BY <3>1, <3>2
    <2>5. CASE k > at
      <3>1. rem[k - 1] # oth[k - 1] /\ ~(k < at) /\ chars[k] = other[k]
        BY <1>5, <1>n, <2>5
      <3>2. rem[k] # oth[k]
        BY <1>3, <2>1, <2>2, <3>1, FeedApart
      <3> QED
        BY <3>1, <3>2
    <2> QED
      BY <2>3, <2>4, <2>5
  <1> HIDE DEF T
  <1>6. 0..n \subseteq T
    BY <1>4, <1>5, Upwards
  <1>7. n \in T /\ ~(n < at)
    BY <1>6, <1>n
  <1> QED
    BY <1>1, <1>2, <1>7 DEF T

LEMMA AsFunction ==
    ASSUME NEW c \in Seq(Character)
    PROVE  Len(c) \in Nat /\ c \in [1..Len(c) -> Character]
  BY LenProperties

LEMMA AsSequence ==
    ASSUME NEW n \in Nat, NEW c \in [1..n -> Character]
    PROVE  c \in Seq(Character) /\ Len(c) = n
  OBVIOUS

\* a and b differ in the digit at i only.
OneDigitApart(a, b, n, i) ==
    /\ i \in 1..n /\ IsDigit(a[i]) /\ IsDigit(b[i]) /\ a[i] # b[i]
    /\ \A k \in 1..n : k # i => a[k] = b[k]

LEMMA DigitTells ==
    ASSUME NEW n \in Nat, NEW a \in [1..n -> Character], NEW b \in [1..n -> Character], NEW i,
           OneDigitApart(a, b, n, i)
    PROVE  Mod97(a) # Mod97(b)
  <1>1. a \in Seq(Character) /\ Len(a) = n /\ b \in Seq(Character) /\ Len(b) = n
    BY AsSequence
  <1> QED
    BY <1>1, OneDigitTells DEF OneDigitApart

LEMMA RemainderType ==
    ASSUME NEW n \in Nat, NEW a \in [1..n -> Character]
    PROVE  Mod97(a) \in Remaining
  <1>1. a \in Seq(Character) /\ Len(a) = n
    BY AsSequence
  <1> QED
    BY <1>1, RemaindersAre

\* The digits of a number as is_valid_nir reads them.
Digits(c) ==
    LET dep == Department(<<c[6], c[7]>>) IN [c EXCEPT ![6] = dep[1], ![7] = dep[2]]

LEMMA DigitsAre ==
    ASSUME NEW c \in [1..15 -> Character]
    PROVE  /\ Digits(c) \in [1..15 -> Character]
           /\ \A k \in 1..15 : k # 6 /\ k # 7 => Digits(c)[k] = c[k]
           /\ IF c[6] = 2 /\ c[7] \in {10, 11}
                THEN Digits(c)[6] = 1 /\ Digits(c)[7] = 19 - c[7]
                ELSE Digits(c)[6] = c[6] /\ Digits(c)[7] = c[7]
  <1> DEFINE dep == Department(<<c[6], c[7]>>)
  <1>1. c[6] \in Character /\ c[7] \in Character
    OBVIOUS
  <1>2. /\ dep[1] \in Character /\ dep[2] \in Character
        /\ IF c[6] = 2 /\ c[7] \in {10, 11}
             THEN dep[1] = 1 /\ dep[2] = 19 - c[7]
             ELSE dep[1] = c[6] /\ dep[2] = c[7]
    BY <1>1 DEF Department, Character
  <1> DEFINE d == dep[1]  e == dep[2]
  <1>3. Digits(c) = [[c EXCEPT ![6] = d] EXCEPT ![7] = e]
    BY DEF Digits
  <1> HIDE DEF dep
  <1>4. d \in Character /\ e \in Character /\ d = dep[1] /\ e = dep[2]
    BY <1>2
  <1> HIDE DEF d, e
  <1>5. /\ Digits(c) \in [1..15 -> Character]
        /\ \A k \in 1..15 : Digits(c)[k] = IF k = 7 THEN e ELSE IF k = 6 THEN d ELSE c[k]
    BY <1>3, <1>4
  <1> QED
    BY <1>2, <1>4, <1>5

\* The digits that the key of a NIR is computed from.
First13(n) == SubSeq(n, 1, 13)

LEMMA FirstThirteen ==
    ASSUME NEW n \in [1..15 -> Character]
    PROVE  First13(n) \in [1..13 -> Character] /\ \A k \in 1..13 : First13(n)[k] = n[k]
  <1>1. First13(n) = [k \in 1..13 |-> n[k]]
    BY DEF First13
  <1> QED
    BY <1>1

LEMMA NirIs ==
    ASSUME NEW c \in Seq(Character), is_valid_nir(c)
    PROVE  /\ c \in [1..15 -> Character] /\ \A k \in 1..15 : IsDigit(Digits(c)[k])
           /\ 97 - Mod97(First13(Digits(c))) = Digits(c)[14] * 10 + Digits(c)[15]
  <1>1. Len(c) = 15
    BY DEF is_valid_nir
  <1> QED
    BY <1>1, AsFunction DEF is_valid_nir, Digits, First13

LEMMA TwoDigits ==
    ASSUME NEW u \in 0..9, NEW v \in 0..9, NEW x \in 0..9, NEW y \in 0..9,
           u * 10 + v = x * 10 + y
    PROVE  u = x /\ v = y
  OBVIOUS

LEMMA Subtracted ==
    ASSUME NEW p \in Remaining, NEW q \in Remaining, 97 - p = 97 - q
    PROVE  p = q
  BY DEF Remaining

LEMMA SameFunction ==
    ASSUME NEW S, NEW T, NEW f \in [S -> T], NEW g \in [S -> T], \A k \in S : f[k] = g[k]
    PROVE  f = g
  OBVIOUS

\* One digit of a number written over.
Overwritten(chars, i, d) ==
    /\ i \in DOMAIN chars /\ d \in 0..9 /\ IsDigit(chars[i]) /\ d # chars[i]

LEMMA NirRejects ==
    ASSUME NEW c \in Seq(Character), is_valid_nir(c), NEW i, NEW d, Overwritten(c, i, d),
           NEW e \in Seq(Character), e = [c EXCEPT ![i] = d], is_valid_nir(e)
    PROVE  FALSE
  <1>1. PICK n : n = Digits(c)
    OBVIOUS
  <1>2. PICK m : m = Digits(e)
    OBVIOUS
  <1>3. /\ c \in [1..15 -> Character] /\ (\A k \in 1..15 : IsDigit(n[k]))
        /\ 97 - Mod97(First13(n)) = n[14] * 10 + n[15]
    BY <1>1, NirIs
  <1>4. /\ e \in [1..15 -> Character] /\ (\A k \in 1..15 : IsDigit(m[k]))
        /\ 97 - Mod97(First13(m)) = m[14] * 10 + m[15]
    BY <1>2, NirIs
  <1>5. /\ i \in 1..15 /\ e[i] = d /\ \A k \in 1..15 : k # i => e[k] = c[k]
    BY <1>3 DEF Overwritten
  <1>6. /\ n \in [1..15 -> Character] /\ \A k \in 1..15 : k # 6 /\ k # 7 => n[k] = c[k]
        /\ IF c[6] = 2 /\ c[7] \in {10, 11}
             THEN n[6] = 1 /\ n[7] = 19 - c[7] ELSE n[6] = c[6] /\ n[7] = c[7]
    BY <1>1, <1>3, DigitsAre
  <1>7. /\ m \in [1..15 -> Character] /\ \A k \in 1..15 : k # 6 /\ k # 7 => m[k] = e[k]
        /\ IF e[6] = 2 /\ e[7] \in {10, 11}
             THEN m[6] = 1 /\ m[7] = 19 - e[7] ELSE m[6] = e[6] /\ m[7] = e[7]
    BY <1>2, <1>4, DigitsAre
  <1>8. d # c[i] /\ d \in 0..9 /\ c[i] \in 0..9
    BY DEF Overwritten, IsDigit
  <1>s. /\ 6 \in 1..15 /\ 7 \in 1..15
        /\ c[6] \in 0..35 /\ c[7] \in 0..35 /\ e[6] \in 0..35 /\ e[7] \in 0..35
        /\ m[6] \in 0..9 /\ m[7] \in 0..9 /\ n[6] \in 0..9 /\ n[7] \in 0..9
    BY <1>3, <1>4 DEF Character, IsDigit
  <1>9. n[i] # m[i] /\ \A k \in 1..15 : k # i => n[k] = m[k]
    <2>1. CASE i # 6 /\ i # 7
      <3>1. n[i] = c[i] /\ m[i] = e[i]
        BY <1>5, <1>6, <1>7, <2>1
      <3>2. e[6] = c[6] /\ e[7] = c[7]
        BY <1>5, <1>s, <2>1
      <3>3. n[6] = m[6] /\ n[7] = m[7]
        BY <1>6, <1>7, <3>2
      <3>4. ASSUME NEW k \in 1..15, k # i, k # 6, k # 7 PROVE n[k] = m[k]
        BY <1>5, <1>6, <1>7, <3>4
      <3> QED
        BY <1>5, <1>8, <3>1, <3>3, <3>4
    <2>2. CASE i = 6
      <3>1. e[7] = c[7] /\ e[6] = d
        BY <1>5, <1>s, <2>2
      <3>2. c[6] \in 0..9 /\ c[6] # d
        BY <1>8, <2>2
      <3>3. c[7] \notin {10, 11}
        <4>1. CASE c[6] = 2
          BY <1>7, <1>8, <1>s, <3>1, <3>2, <4>1
        <4>2. CASE c[6] # 2
          BY <1>6, <1>s, <4>2
        <4> QED
          BY <4>1, <4>2
      <3>4. n[6] = c[6] /\ n[7] = c[7] /\ m[6] = d /\ m[7] = c[7]
        BY <1>6, <1>7, <3>1, <3>3
      <3>5. ASSUME NEW k \in 1..15, k # 6, k # 7 PROVE n[k] = m[k]
        BY <1>5, <1>6, <1>7, <2>2, <3>5
      <3> QED
        BY <2>2, <3>2, <3>4, <3>5
    <2>3. CASE i = 7
      <3>1. e[6] = c[6] /\ e[7] = d
        BY <1>5, <1>s, <2>3
      <3>2. c[7] \in 0..9 /\ c[7] # d
        BY <1>8, <2>3
      <3>5. c[7] \notin {10, 11} /\ e[7] \notin {10, 11}
        BY <1>8, <3>1, <3>2
      <3>3. n[6] = c[6] /\ n[7] = c[7] /\ m[6] = c[6] /\ m[7] = d
        BY <1>6, <1>7, <3>1, <3>5
      <3>4. ASSUME NEW k \in 1..15, k # 6, k # 7 PROVE n[k] = m[k]
        BY <1>5, <1>6, <1>7, <2>3, <3>4
      <3> QED
        BY <2>3, <3>2, <3>3, <3>4
    <2> QED
      BY <2>1, <2>2, <2>3
  <1>10. PICK a : a = First13(n)
    OBVIOUS
  <1>11. PICK b : b = First13(m)
    OBVIOUS
  <1>12. /\ a \in [1..13 -> Character] /\ b \in [1..13 -> Character]
         /\ \A k \in 1..13 : a[k] = n[k] /\ b[k] = m[k]
    BY <1>6, <1>7, <1>10, <1>11, FirstThirteen
  <1>13. Mod97(a) \in Remaining /\ Mod97(b) \in Remaining
    BY <1>12, RemainderType
  <1>14. /\ 97 - Mod97(a) = n[14] * 10 + n[15] /\ 97 - Mod97(b) = m[14] * 10 + m[15]
         /\ n[14] \in 0..9 /\ n[15] \in 0..9 /\ m[14] \in 0..9 /\ m[15] \in 0..9
    BY <1>3, <1>4, <1>10, <1>11 DEF IsDigit
  <1>15. CASE i <= 13
    <2>1. OneDigitApart(a, b, 13, i)
      BY <1>3, <1>4, <1>5, <1>9, <1>12, <1>15 DEF OneDigitApart
    <2>2. Mod97(a) # Mod97(b)
      BY <1>12, <2>1, DigitTells
    <2>3. n[14] = m[14] /\ n[15] = m[15]
      BY <1>5, <1>9, <1>15
    <2>4. 97 - Mod97(a) = 97 - Mod97(b)
      BY <1>14, <2>3
    <2> QED
      BY <1>13, <2>2, <2>4, Subtracted
  <1>16. CASE i > 13
    <2>1. i \in {14, 15} /\ \A k \in 1..13 : a[k] = b[k]
      BY <1>5, <1>9, <1>12, <1>16
    <2>2. a = b
      <3>1. PICK S : S = 1..13
        OBVIOUS
      <3>2. a \in [S -> Character] /\ b \in [S -> Character] /\ \A k \in S : a[k] = b[k]
        BY <1>12, <2>1, <3>1
      <3> QED
        BY <3>2, SameFunction
    <2>3. n[14] * 10 + n[15] = m[14] * 10 + m[15]
      BY <1>14, <2>2
    <2>4. n[14] = m[14] /\ n[15] = m[15]
      <3>1. PICK u \in 0..9, v \in 0..9, x \in 0..9, y \in 0..9 :
              u = n[14] /\ v = n[15] /\ x = m[14] /\ y = m[15]
        BY <1>14
      <3>2. u * 10 + v = x * 10 + y
        BY <2>3, <3>1
      <3>3. u = x /\ v = y
        BY <3>2, TwoDigits
      <3> QED
        BY <3>1, <3>3
    <2> QED
      BY <1>9, <2>1, <2>4
  <1> QED
    BY <1>5, <1>15, <1>16

\* The characters of an IBAN as is_valid_iban reads them.
Rotated(c) == SubSeq(c, 5, Len(c)) \o SubSeq(c, 1, 4)

LEMMA Turned ==
    ASSUME NEW n \in 15..34, NEW k \in 1..n, NEW i \in 1..n
    PROVE  /\ k <= n - 4 => k \in 1..(n - 4) /\ k + 4 \in 1..n
           /\ ~(k <= n - 4) => k - (n - 4) \in 1..4 /\ k - (n - 4) \in 1..n
           /\ \E at \in 1..n : at = IF i > 4 THEN i - 4 ELSE i + (n - 4)
           /\ k # (IF i > 4 THEN i - 4 ELSE i + (n - 4)) =>
                /\ k <= n - 4 => k + 4 # i
                /\ ~(k <= n - 4) => k - (n - 4) # i
  OBVIOUS

LEMMA RotatedIs ==
    ASSUME NEW c \in Seq(Character), NEW n \in Nat, n = Len(c), n \in 15..34
    PROVE  /\ Rotated(c) \in [1..n -> Character]
           /\ \A k \in 1..n : Rotated(c)[k] = IF k <= n - 4 THEN c[k + 4] ELSE c[k - (n - 4)]
  <1>1. \A k \in 1..n : c[k] \in Character
    BY AsFunction
  <1>2. PICK a : a = SubSeq(c, 5, n)
    OBVIOUS
  <1>3. PICK b : b = SubSeq(c, 1, 4)
    OBVIOUS
  <1>4. a \in Seq(Character) /\ Len(a) = n - 4 /\ \A k \in 1..(n - 4) : a[k] = c[k + 4]
    <2>1. PICK five \in Int : five = 5
      OBVIOUS
    <2>2. \A k \in five..n : c[k] \in Character
      BY <1>1, <2>1
    <2>3. /\ SubSeq(c, five, n) \in Seq(Character)
          /\ Len(SubSeq(c, five, n)) = IF five <= n THEN n - five + 1 ELSE 0
          /\ \A k \in 1..(n - five + 1) : SubSeq(c, five, n)[k] = c[five + k - 1]
      BY <2>2, SubSeqProperties
    <2> QED
      BY <1>2, <2>1, <2>3
  <1>5. b \in Seq(Character) /\ Len(b) = 4 /\ \A k \in 1..4 : b[k] = c[k]
    <2>1. PICK one \in Int, four \in Int : one = 1 /\ four = 4
      OBVIOUS
    <2>2. \A k \in one..four : c[k] \in Character
      BY <1>1, <2>1
    <2>3. /\ SubSeq(c, one, four) \in Seq(Character)
          /\ Len(SubSeq(c, one, four)) = IF one <= four THEN four - one + 1 ELSE 0
          /\ \A k \in 1..(four - one + 1) : SubSeq(c, one, four)[k] = c[one + k - 1]
      BY <2>2, SubSeqProperties
    <2> QED
      BY <1>3, <2>1, <2>3
  <1>6. PICK r : r = a \o b
    OBVIOUS
  <1>7. /\ r \in Seq(Character) /\ Len(r) = n
        /\ \A k \in 1..n : r[k] = IF k <= n - 4 THEN a[k] ELSE b[k - (n - 4)]
    <2>1. /\ r \in Seq(Character) /\ Len(r) = Len(a) + Len(b)
          /\ \A k \in 1..(Len(a) + Len(b)) :
                r[k] = IF k <= Len(a) THEN a[k] ELSE b[k - Len(a)]
      BY <1>4, <1>5, <1>6, ConcatProperties
    <2> QED
      BY <1>4, <1>5, <2>1
  <1>8. r \in [1..n -> Character]
    BY <1>7, AsFunction
  <1>9. \A k \in 1..n : r[k] = IF k <= n - 4 THEN c[k + 4] ELSE c[k - (n - 4)]
    <2> TAKE k \in 1..n
    <2>1. CASE k <= n - 4
      <3>1. k \in 1..(n - 4)
        BY <2>1, Turned
      <3> QED
        BY <1>4, <1>7, <2>1, <3>1
    <2>2. CASE ~(k <= n - 4)
      <3>1. k - (n - 4) \in 1..4
        BY <2>2, Turned
      <3> QED
        BY <1>5, <1>7, <2>2, <3>1
    <2> QED
      BY <2>1, <2>2
  <1> QED
    BY <1>2, <1>3, <1>6, <1>8, <1>9 DEF Rotated

LEMMA IbanRejects ==
    ASSUME NEW c \in Seq(Character), is_valid_iban(c), NEW e \in Seq(Character), is_valid_iban(e),
           NEW n \in Nat, n = Len(c), n = Len(e), NEW i, OneDigitApart(c, e, n, i)
    PROVE  FALSE
  <1>1. n \in 15..34
    BY DEF is_valid_iban
  <1>2. c \in [1..n -> Character] /\ e \in [1..n -> Character]
    BY AsFunction
  <1>3. i \in 1..n /\ \A k \in 1..n : k # i => c[k] = e[k]
    BY DEF OneDigitApart
  <1>5. PICK r : r = Rotated(c)
    OBVIOUS
  <1>6. PICK q : q = Rotated(e)
    OBVIOUS
  <1>7. /\ r \in [1..n -> Character]
        /\ \A k \in 1..n : r[k] = IF k <= n - 4 THEN c[k + 4] ELSE c[k - (n - 4)]
    BY <1>1, <1>5, RotatedIs
  <1>8. /\ q \in [1..n -> Character]
        /\ \A k \in 1..n : q[k] = IF k <= n - 4 THEN e[k + 4] ELSE e[k - (n - 4)]
    BY <1>1, <1>6, RotatedIs
  <1>9. Mod97(r) = 1 /\ Mod97(q) = 1
    BY <1>5, <1>6 DEF is_valid_iban, Rotated
  <1>10. IsDigit(c[i]) /\ IsDigit(e[i]) /\ c[i] # e[i]
    BY DEF OneDigitApart
  <1>11. PICK at \in 1..n : at = IF i > 4 THEN i - 4 ELSE i + (n - 4)
    BY <1>1, <1>3, Turned
  <1>12. r[at] = c[i] /\ q[at] = e[i]
    <2>1. CASE i > 4
      <3>1. at <= n - 4 /\ at + 4 = i
        BY <1>1, <1>3, <1>11, <2>1
      <3> QED
        BY <1>7, <1>8, <3>1
    <2>2. CASE ~(i > 4)
      <3>1. ~(at <= n - 4) /\ at - (n - 4) = i
        BY <1>1, <1>3, <1>11, <2>2
      <3> QED
        BY <1>7, <1>8, <3>1
    <2> QED
      BY <2>1, <2>2
  <1>13. ASSUME NEW k \in 1..n, k # at PROVE r[k] = q[k]
    <2>1. CASE k <= n - 4
      <3>1. k + 4 \in 1..n /\ k + 4 # i
        BY <1>1, <1>3, <1>11, <1>13, <2>1, Turned
      <3> QED
        BY <1>3, <1>7, <1>8, <2>1, <3>1
    <2>2. CASE ~(k <= n - 4)
      <3>1. k - (n - 4) \in 1..n /\ k - (n - 4) # i
        BY <1>1, <1>3, <1>11, <1>13, <2>2, Turned
      <3> QED
        BY <1>3, <1>7, <1>8, <2>2, <3>1
    <2> QED
      BY <2>1, <2>2
  <1>14. OneDigitApart(r, q, n, at)
    BY <1>3, <1>10, <1>12, <1>13 DEF OneDigitApart
  <1> QED
    BY <1>7, <1>8, <1>9, <1>14, DigitTells

LEMMA DigitRejected ==
    ASSUME NEW S, NEW T, NEW c \in [start : S, end : T, kind : Kinds, chars : Seq(Character)],
           c.kind \in {"NIR", "IBAN"}, Valid(c), NEW i, NEW d, Overwritten(c.chars, i, d)
    PROVE  ~Valid([c EXCEPT !.chars[i] = d])
  <1>1. PICK chars \in Seq(Character) : chars = c.chars
    OBVIOUS
  <1>2. PICK e : e = [chars EXCEPT ![i] = d]
    OBVIOUS
  <1>3. PICK n \in Nat : n = Len(chars) /\ chars \in [1..n -> Character]
    BY AsFunction
  <1>4. OneDigitApart(chars, e, n, i) /\ e \in [1..n -> Character]
    BY <1>1, <1>2, <1>3 DEF OneDigitApart, Overwritten, IsDigit, Character
  <1>5. e \in Seq(Character) /\ n = Len(e)
    BY <1>4, AsSequence
  <1>6. PICK new : new = [c EXCEPT !.chars[i] = d]
    OBVIOUS
  <1>7. new.kind = c.kind /\ new.chars = e
    BY <1>1, <1>2, <1>6
  <1>8. CASE c.kind = "NIR"
    <2>1. is_valid_nir(chars)
      BY <1>1, <1>8 DEF Valid
    <2>2. ~is_valid_nir(e)
      BY <1>1, <1>2, <1>5, <2>1, NirRejects
    <2> QED
      BY <1>6, <1>7, <1>8, <2>2 DEF Valid
  <1>9. CASE c.kind = "IBAN"
    <2>1. is_valid_iban(chars)
      BY <1>1, <1>9 DEF Valid
    <2>2. ~is_valid_iban(e)
      BY <1>3, <1>4, <1>5, <2>1, IbanRejects
    <2> QED
      BY <1>6, <1>7, <1>9, <2>2 DEF Valid
  <1> QED
    BY <1>8, <1>9

-----------------------------------------------------------------------------
(* Sequences of spans.                                                     *)

SpansIn(length) == {s \in [start : Nat, end : 1..length, kind : Kinds] : s.start < s.end}

InOrder(spans) == \A i, j \in DOMAIN spans : i < j => spans[i].end <= spans[j].start

LEMMA Appended ==
    ASSUME NEW S, NEW spans \in Seq(S), NEW s \in S
    PROVE  /\ spans \o <<s>> \in Seq(S) /\ Len(spans) \in Nat
           /\ Len(spans \o <<s>>) = Len(spans) + 1
           /\ \A i \in 1..Len(spans) : (spans \o <<s>>)[i] = spans[i]
           /\ (spans \o <<s>>)[Len(spans) + 1] = s
           /\ Range(spans \o <<s>>) = Range(spans) \cup {s}
  <1>1. PICK one : one = <<s>>
    OBVIOUS
  <1>2. one \in Seq(S) /\ Len(one) = 1 /\ one[1] = s /\ Range(one) = {s}
    BY <1>1 DEF Range
  <1>3. PICK new : new = spans \o one
    OBVIOUS
  <1>4. Len(spans) \in Nat /\ new \in Seq(S) /\ Len(new) = Len(spans) + Len(one)
    BY <1>2, <1>3, ConcatProperties, LenProperties
  <1>5. \A i \in 1..(Len(spans) + Len(one)) :
          new[i] = IF i <= Len(spans) THEN spans[i] ELSE one[i - Len(spans)]
    BY <1>2, <1>3, ConcatProperties
  <1>6. Range(new) = Range(spans) \cup Range(one)
    BY <1>2, <1>3, RangeConcatenation
  <1>7. PICK l \in Nat : l = Len(spans)
    BY <1>4
  <1>8. (\A i \in 1..l : new[i] = spans[i]) /\ new[l + 1] = one[1]
    <2>1. \A i \in 1..(l + 1) : new[i] = IF i <= l THEN spans[i] ELSE one[i - l]
      BY <1>2, <1>5, <1>7
    <2>2. l + 1 \in 1..(l + 1) /\ ~(l + 1 <= l) /\ (l + 1) - l = 1
      OBVIOUS
    <2>3. new[l + 1] = one[1]
      BY <2>1, <2>2
    <2>4. \A i \in 1..l : i \in 1..(l + 1) /\ i <= l
      OBVIOUS
    <2> QED
      BY <2>1, <2>3, <2>4
  <1> QED
    BY <1>1, <1>2, <1>3, <1>4, <1>6, <1>7, <1>8

LEMMA OrderAppended ==
    ASSUME NEW S, NEW spans \in Seq(S), NEW s \in S, InOrder(spans),
           \A r \in Range(spans) : r.end <= s.start
    PROVE  InOrder(spans \o <<s>>)
  <1>1. PICK new : new = spans \o <<s>>
    OBVIOUS
  <1>2. PICK l \in Nat : l = Len(spans)
    BY LenProperties
  <1>3. /\ new \in Seq(S) /\ Len(new) = l + 1 /\ new[l + 1] = s
        /\ \A i \in 1..l : new[i] = spans[i]
    BY <1>1, <1>2, Appended
  <1>4. DOMAIN new = 1..(l + 1) /\ DOMAIN spans = 1..l
    BY <1>2, <1>3, LenProperties
  <1>5. ASSUME NEW i \in 1..(l + 1), NEW j \in 1..(l + 1), i < j
        PROVE  new[i].end <= new[j].start
    <2>1. i \in 1..l /\ (j = l + 1 \/ j \in 1..l)
      BY <1>5
    <2>2. CASE j = l + 1
      <3>1. spans[i] \in Range(spans)
        BY <1>4, <2>1 DEF Range
      <3> QED
        BY <1>3, <2>1, <2>2, <3>1
    <2>3. CASE j \in 1..l
      BY <1>3, <1>4, <1>5, <2>1, <2>3 DEF InOrder
    <2> QED
      BY <2>1, <2>2, <2>3
  <1> QED
    BY <1>1, <1>4, <1>5 DEF InOrder

-----------------------------------------------------------------------------
(* bio_merge.                                                              *)

TokensIn(length) == [start : Nat, end : 0..length, label : STRING]
StretchesIn(length) == [start : Nat, end : 0..length, kind : Kinds]
Merging(length) == [out : Seq(StretchesIn(length)), open : Seq(StretchesIn(length))]

LEMMA LabelKinds == \A label : map_label(label) \in Kinds \cup {NoKind}
  BY DEF map_label, Kinds, NameKinds

NothingMerged == [out |-> <<>>, open |-> <<>>]

\* The two branches of BioStep.
LEMMA BioStepIs ==
    ASSUME NEW length \in Nat, NEW acc \in Merging(length), NEW token \in TokensIn(length)
    PROVE  /\ BioStep(acc, token) \in Merging(length)
           /\ Extends(acc, token) =>
                /\ BioStep(acc, token).out = acc.out
                /\ BioStep(acc, token).open =
                     <<Span(acc.open[1].start, token.end, acc.open[1].kind)>>
           /\ ~Extends(acc, token) =>
                /\ BioStep(acc, token).out = acc.out \o acc.open
                /\ BioStep(acc, token).open =
                     IF Special(token) \/ map_label(token.label) = NoKind THEN <<>>
                     ELSE <<Span(token.start, token.end, map_label(token.label))>>
  <1>1. PICK new : new = BioStep(acc, token)
    OBVIOUS
  <1>2. /\ acc.out \in Seq(StretchesIn(length)) /\ acc.open \in Seq(StretchesIn(length))
        /\ token.start \in Nat /\ token.end \in 0..length
    BY DEF Merging, TokensIn
  <1>3. CASE Extends(acc, token)
    <2>1. PICK one : one = Span(acc.open[1].start, token.end, acc.open[1].kind)
      OBVIOUS
    <2>2. acc.open # <<>>
      BY <1>3 DEF Extends
    <2>3. acc.open[1] \in StretchesIn(length)
      BY <1>2, <2>2, ElementOfSeq, EmptySeq
    <2>4. one \in StretchesIn(length)
      BY <1>2, <2>1, <2>3 DEF StretchesIn, Span
    <2>5. new = [acc EXCEPT !.open = <<one>>]
      BY <1>1, <1>3, <2>1 DEF BioStep
    <2>6. <<one>> \in Seq(StretchesIn(length))
      BY <2>4
    <2>7. new \in Merging(length) /\ new.out = acc.out /\ new.open = <<one>>
      BY <2>5, <2>6 DEF Merging
    <2> QED
      BY <1>1, <1>3, <2>1, <2>7
  <1>4. CASE ~Extends(acc, token)
    <2> DEFINE none == Special(token) \/ map_label(token.label) = NoKind
               open == IF none THEN <<>>
                       ELSE <<Span(token.start, token.end, map_label(token.label))>>
               out == acc.out \o acc.open
    <2>1. new = [out |-> out, open |-> open]
      BY <1>1, <1>4 DEF BioStep
    <2>2. open \in Seq(StretchesIn(length))
      <3>1. CASE none
        BY <3>1
      <3>2. CASE ~none
        <4>1. PICK one : one = Span(token.start, token.end, map_label(token.label))
          OBVIOUS
        <4>2. one \in StretchesIn(length)
          BY <1>2, <3>2, <4>1, LabelKinds DEF StretchesIn, Span
        <4> QED
          BY <3>2, <4>1, <4>2
      <3> QED
        BY <3>1, <3>2
    <2>3. out \in Seq(StretchesIn(length))
      BY <1>2, ConcatProperties
    <2> HIDE DEF out, none
    <2>4. new \in Merging(length) /\ new.out = out /\ new.open = open
      <3> HIDE DEF open
      <3> QED
        BY <2>1, <2>2, <2>3 DEF Merging
    <2> QED
      BY <1>1, <1>4, <2>4 DEF out, none
  <1> QED
    BY <1>3, <1>4

\* What is merged after each token.
Merges(tokens, length, n, acc) ==
    /\ n = Len(tokens) /\ acc[0] = NothingMerged
    /\ \A k \in 0..n : acc[k] \in Merging(length)
    /\ \A k \in 1..n : acc[k] = BioStep(acc[k - 1], tokens[k])
    /\ bio_merge(tokens) = acc[n].out \o acc[n].open

LEMMA BioMergeIs ==
    ASSUME NEW length \in Nat, NEW tokens \in Seq(TokensIn(length)), NEW n \in Nat, n = Len(tokens)
    PROVE  \E acc : Merges(tokens, length, n, acc)
  <1> DEFINE S == Merging(length)
             step == [p \in S \X (1..n) |-> BioStep(p[1], tokens[p[2]])]
             Is(acc) == acc = [k \in 0..n |->
                                 IF k = 0 THEN [out |-> <<>>, open |-> <<>>]
                                          ELSE BioStep(acc[k - 1], tokens[k])]
  <1>1. \A k \in 1..n : tokens[k] \in TokensIn(length)
    BY ElementOfSeq
  <1>2. \A acc \in S, k \in 1..n : BioStep(acc, tokens[k]) \in S
    BY <1>1, BioStepIs
  <1>3. NothingMerged \in S
    BY DEF NothingMerged, Merging
  <1> HIDE DEF S
  <1>4. step \in Steps(n, S)
    BY <1>2 DEF Steps
  <1>5. \A acc \in S, k \in 1..n : step[<<acc, k>>] = BioStep(acc, tokens[k])
    OBVIOUS
  <1> HIDE DEF step
  <1>6. PICK f : Computes(f, n, S, NothingMerged, step)
    BY <1>3, <1>4, Recursion
  <1>7. \A k \in 0..n : k # 0 => k \in 1..n /\ k - 1 \in 0..n
    OBVIOUS
  <1>8. \A k \in 0..n : f[k] = IF k = 0 THEN NothingMerged ELSE BioStep(f[k - 1], tokens[k])
    BY <1>5, <1>6, <1>7 DEF Computes
  <1>9. Is(f)
    <2>1. f = [k \in 0..n |-> f[k]]
      BY <1>6 DEF Computes
    <2> QED
      BY <1>8, <2>1 DEF NothingMerged
  <1> DEFINE all == CHOOSE acc : Is(acc)
  <1>10. Is(all)
    <2> HIDE DEF Is
    <2> QED
      BY <1>9
  <1>11. bio_merge(tokens) = all[n].out \o all[n].open
    BY DEF bio_merge
  <1> HIDE DEF all
  <1>12. /\ all[0] = NothingMerged
         /\ \A k \in 1..n : all[k] = BioStep(all[k - 1], tokens[k])
    <2>1. 0 \in 0..n /\ \A k \in 1..n : k \in 0..n /\ k # 0
      OBVIOUS
    <2> QED
      BY <1>10, <2>1 DEF NothingMerged
  <1>13. \A k \in 0..n : all[k] \in S
    <2> DEFINE T == {k \in 0..n : all[k] \in S}
    <2>1. 0 \in T
      BY <1>3, <1>12
    <2>2. ASSUME NEW k \in 1..n, k - 1 \in T PROVE k \in T
      BY <1>2, <1>12, <2>2
    <2> HIDE DEF T
    <2>3. 0..n \subseteq T
      BY <2>1, <2>2, Upwards
    <2> QED
      BY <2>3 DEF T
  <1> QED
    BY <1>11, <1>12, <1>13 DEF Merges, S

-----------------------------------------------------------------------------
(* The runs that bio_merge finds.                                          *)

Kind(tokens, i) == IF Special(tokens[i]) THEN NoKind ELSE map_label(tokens[i].label)
Inside(tokens, i) ==
    ~Begins(tokens[i].label) /\ i - 1 \in DOMAIN tokens /\ Kind(tokens, i) = Kind(tokens, i - 1)

\* A run that may go on after b.
Chain(tokens, a, b) ==
    /\ a \in DOMAIN tokens /\ b \in DOMAIN tokens /\ a <= b
    /\ Kind(tokens, a) # NoKind /\ ~Inside(tokens, a)
    /\ \A i \in (a + 1)..b : Inside(tokens, i)

SpanOf(tokens, a, b) == Span(tokens[a].start, tokens[b].end, map_label(tokens[a].label))

RunsAre(tokens) ==
    {r \in (DOMAIN tokens) \X (DOMAIN tokens) :
        Chain(tokens, r[1], r[2]) /\ (r[2] + 1 \in DOMAIN tokens => ~Inside(tokens, r[2] + 1))}

LEMMA RunsIs == \A tokens : Runs(tokens) = RunsAre(tokens)
  BY DEF Runs, RunsAre, Chain, Kind, Inside

LEMMA ChainKind ==
    ASSUME NEW n \in Nat, NEW tokens, DOMAIN tokens = 1..n, NEW a, NEW b, Chain(tokens, a, b)
    PROVE  a \in 1..n /\ b \in 1..n /\ Kind(tokens, b) = Kind(tokens, a)
  <1>1. a \in 1..n /\ b \in 1..n /\ a <= b /\ \A i \in (a + 1)..b : Inside(tokens, i)
    BY DEF Chain
  <1>2. PICK m \in Nat : m = b - a
    BY <1>1
  <1> DEFINE T == {k \in 0..m : Kind(tokens, a + k) = Kind(tokens, a)}
  <1>3. 0 \in T
    BY <1>1, <1>2
  <1>4. ASSUME NEW k \in 1..m, k - 1 \in T PROVE k \in T
    <2>1. a + k \in (a + 1)..b /\ (a + k) - 1 = a + (k - 1)
      BY <1>1, <1>2
    <2>2. PICK i : i = a + k
      OBVIOUS
    <2>3. Kind(tokens, i) = Kind(tokens, i - 1)
      BY <1>1, <2>1, <2>2 DEF Inside
    <2>4. Kind(tokens, a + (k - 1)) = Kind(tokens, a)
      BY <1>4
    <2> QED
      BY <2>1, <2>2, <2>3, <2>4
  <1> HIDE DEF T
  <1>5. 0..m \subseteq T
    BY <1>3, <1>4, Upwards
  <1>6. m \in T /\ a + m = b
    BY <1>1, <1>2, <1>5
  <1> QED
    BY <1>1, <1>6 DEF T

\* Two runs with the same end are one.
LEMMA OneChain ==
    ASSUME NEW n \in Nat, NEW tokens, DOMAIN tokens = 1..n, NEW a, NEW b, NEW c,
           Chain(tokens, a, c), Chain(tokens, b, c)
    PROVE  a = b
  <1>1. a \in 1..n /\ b \in 1..n /\ c \in 1..n /\ a <= c /\ b <= c
    BY DEF Chain
  <1>2. ~(a < b) /\ ~(b < a)
    <2>1. a < b => b \in (a + 1)..c
      BY <1>1
    <2>2. b < a => a \in (b + 1)..c
      BY <1>1
    <2> QED
      BY <2>1, <2>2 DEF Chain
  <1> QED
    BY <1>1, <1>2

\* What Fits says of the tokens.
TokensFit(tokens, length, n) ==
    /\ tokens \in Seq(TokensIn(length)) /\ n = Len(tokens)
    /\ \A i \in 1..n : ~Special(tokens[i]) =>
        /\ tokens[i].start < tokens[i].end
        /\ \A j \in (i + 1)..n : Special(tokens[j]) \/ tokens[i].end <= tokens[j].start

\* The run that ends with token k is open, those that ended before are found.
OpenRun(tokens, open, k) ==
    IF k = 0 \/ Kind(tokens, k) = NoKind
      THEN open = <<>>
      ELSE \E a \in 1..k : Chain(tokens, a, k) /\ open = <<SpanOf(tokens, a, k)>>

ClosedRuns(tokens, out, k) ==
    /\ \A s \in Range(out) :
        \E r \in RunsAre(tokens) : r[2] < k /\ s = SpanOf(tokens, r[1], r[2])
    /\ \A r \in RunsAre(tokens) : r[2] < k => SpanOf(tokens, r[1], r[2]) \in Range(out)

Ahead(tokens, n, s, k) ==
    /\ s.start < s.end
    /\ \A j \in (k + 1)..n : Special(tokens[j]) \/ s.end <= tokens[j].start

SpansPlaced(tokens, n, out, open, k) ==
    /\ InOrder(out)
    /\ \A r \in Range(out), s \in Range(open) : r.end <= s.start
    /\ \A s \in Range(out) \cup Range(open) : Ahead(tokens, n, s, k)

RunsMerged(tokens, n, acc, k) ==
    /\ OpenRun(tokens, acc.open, k) /\ ClosedRuns(tokens, acc.out, k)
    /\ SpansPlaced(tokens, n, acc.out, acc.open, k)

\* What is known of the open run.
LEMMA OpenRunIs ==
    ASSUME NEW length \in Nat, NEW n \in Nat, NEW tokens, TokensFit(tokens, length, n),
           NEW k \in 0..n, NEW open, OpenRun(tokens, open, k), open # <<>>
    PROVE  \E a \in 1..k :
                /\ k \in 1..n /\ Chain(tokens, a, k) /\ open = <<SpanOf(tokens, a, k)>>
                /\ Kind(tokens, k) = map_label(tokens[a].label) /\ Kind(tokens, k) # NoKind
                /\ Kind(tokens, a) = Kind(tokens, k)
                /\ Range(open) = {SpanOf(tokens, a, k)}
                /\ open[1].kind = Kind(tokens, k) /\ open[1].start = tokens[a].start
  <1>1. DOMAIN tokens = 1..n
    BY LenProperties DEF TokensFit
  <1>2. k # 0 /\ Kind(tokens, k) # NoKind
    BY DEF OpenRun
  <1>3. PICK a \in 1..k : Chain(tokens, a, k) /\ open = <<SpanOf(tokens, a, k)>>
    BY <1>2 DEF OpenRun
  <1>4. Kind(tokens, k) = Kind(tokens, a)
    BY <1>1, <1>3, ChainKind
  <1>5. Kind(tokens, a) = map_label(tokens[a].label)
    BY <1>2, <1>4 DEF Kind
  <1>6. Range(open) = {SpanOf(tokens, a, k)} /\ open[1] = SpanOf(tokens, a, k)
    BY <1>3 DEF Range
  <1>7. k \in 1..n
    BY <1>2
  <1> QED
    BY <1>2, <1>3, <1>4, <1>5, <1>6, <1>7 DEF SpanOf, Span

\* What is ahead of a span stays ahead of it.
LEMMA AheadKept ==
    ASSUME NEW tokens, NEW n \in Nat, NEW k \in 1..n, NEW s, Ahead(tokens, n, s, k - 1)
    PROVE  /\ Ahead(tokens, n, s, k) /\ s.start < s.end
           /\ ~Special(tokens[k]) => s.end <= tokens[k].start
  <1>1. k \in ((k - 1) + 1)..n /\ \A j \in (k + 1)..n : j \in ((k - 1) + 1)..n
    OBVIOUS
  <1> QED
    BY <1>1 DEF Ahead

LEMMA ExtendedStep ==
    ASSUME NEW length \in Nat, NEW n \in Nat, NEW tokens, TokensFit(tokens, length, n),
           NEW k \in 1..n, NEW acc \in Merging(length), RunsMerged(tokens, n, acc, k - 1),
           Extends(acc, tokens[k])
    PROVE  RunsMerged(tokens, n, BioStep(acc, tokens[k]), k)
  <1>1. DOMAIN tokens = 1..n /\ tokens[k] \in TokensIn(length)
    BY LenProperties, ElementOfSeq DEF TokensFit
  <1>2. PICK new \in Merging(length) :
          /\ new = BioStep(acc, tokens[k]) /\ new.out = acc.out
          /\ new.open = <<Span(acc.open[1].start, tokens[k].end, acc.open[1].kind)>>
    BY <1>1, BioStepIs
  <1>3. /\ ~Special(tokens[k]) /\ ~Begins(tokens[k].label) /\ acc.open # <<>>
        /\ map_label(tokens[k].label) = acc.open[1].kind
    BY DEF Extends
  <1>4. PICK p \in 0..n : p = k - 1
    OBVIOUS
  <1>o. OpenRun(tokens, acc.open, p)
    BY <1>4 DEF RunsMerged
  <1>p. PICK a \in 1..p :
          /\ p \in 1..n /\ Chain(tokens, a, p) /\ acc.open = <<SpanOf(tokens, a, p)>>
          /\ Kind(tokens, p) = map_label(tokens[a].label) /\ Kind(tokens, p) # NoKind
          /\ Kind(tokens, a) = Kind(tokens, p)
          /\ Range(acc.open) = {SpanOf(tokens, a, p)}
          /\ acc.open[1].kind = Kind(tokens, p) /\ acc.open[1].start = tokens[a].start
    BY <1>3, <1>o, OpenRunIs
  <1>5. /\ a \in 1..(k - 1)
        /\ k - 1 \in 1..n /\ Chain(tokens, a, k - 1) /\ acc.open = <<SpanOf(tokens, a, k - 1)>>
        /\ Kind(tokens, k - 1) = map_label(tokens[a].label) /\ Kind(tokens, k - 1) # NoKind
        /\ Kind(tokens, a) = Kind(tokens, k - 1)
        /\ Range(acc.open) = {SpanOf(tokens, a, k - 1)}
        /\ acc.open[1].kind = Kind(tokens, k - 1) /\ acc.open[1].start = tokens[a].start
    BY <1>4, <1>p
  <1>6. Kind(tokens, k) = Kind(tokens, k - 1)
    BY <1>3, <1>5 DEF Kind
  <1>7. Inside(tokens, k)
    BY <1>1, <1>3, <1>5, <1>6 DEF Inside
  <1>8. Chain(tokens, a, k)
    <2>1. \A i \in (a + 1)..k : i = k \/ i \in (a + 1)..(k - 1)
      OBVIOUS
    <2>2. a \in DOMAIN tokens /\ k \in DOMAIN tokens /\ a <= k
      BY <1>1, <1>5
    <2> QED
      BY <1>5, <1>7, <2>1, <2>2 DEF Chain
  <1>9. new.open = <<SpanOf(tokens, a, k)>> /\ Range(new.open) = {SpanOf(tokens, a, k)}
    BY <1>2, <1>5 DEF SpanOf, Range
  <1>10. OpenRun(tokens, new.open, k)
    <2>1. a \in 1..k /\ k # 0
      BY <1>5
    <2> QED
      BY <1>5, <1>6, <1>8, <1>9, <2>1 DEF OpenRun
  <1>11. ClosedRuns(tokens, new.out, k)
    <2>1. \A r \in RunsAre(tokens) : r[2] < k <=> r[2] < k - 1
      <3> SUFFICES ASSUME NEW r \in RunsAre(tokens), r[2] = k - 1 PROVE FALSE
        BY <1>1 DEF RunsAre
      <3> QED
        BY <1>1, <1>7 DEF RunsAre
    <2> QED
      BY <1>2, <2>1 DEF RunsMerged, ClosedRuns
  <1>12. SpansPlaced(tokens, n, new.out, new.open, k)
    <2> DEFINE s == SpanOf(tokens, a, k)
               o == SpanOf(tokens, a, k - 1)
    <2>1. s.start = o.start /\ s.start = tokens[a].start /\ s.end = tokens[k].end
      BY DEF SpanOf, Span
    <2>2. Ahead(tokens, n, o, k - 1) /\ \A r \in Range(acc.out) : r.end <= o.start
      BY <1>5 DEF RunsMerged, SpansPlaced
    <2>3. o.start < o.end /\ o.end <= tokens[k].start
      BY <1>3, <2>2, AheadKept
    <2>4. /\ tokens[k].start < tokens[k].end
          /\ \A j \in (k + 1)..n : Special(tokens[j]) \/ tokens[k].end <= tokens[j].start
      BY <1>3 DEF TokensFit
    <2>5. /\ tokens[k].start \in Nat /\ tokens[k].end \in Nat
          /\ tokens[a].start \in Nat /\ tokens[k - 1].end \in Nat
      <3>1. tokens[a] \in TokensIn(length) /\ tokens[k - 1] \in TokensIn(length)
        BY <1>5, ElementOfSeq DEF TokensFit
      <3> QED
        BY <1>1, <3>1 DEF TokensIn
    <2>6. o.end = tokens[k - 1].end
      BY DEF SpanOf, Span
    <2> HIDE DEF s, o
    <2>7. s.start < s.end
      BY <2>1, <2>3, <2>4, <2>5, <2>6
    <2>8. Ahead(tokens, n, s, k)
      BY <2>1, <2>4, <2>7 DEF Ahead
    <2>9. \A r \in Range(acc.out) : Ahead(tokens, n, r, k)
      BY AheadKept DEF RunsMerged, SpansPlaced
    <2>10. Range(new.open) = {s}
      BY <1>9 DEF s
    <2>11. InOrder(acc.out)
      BY DEF RunsMerged, SpansPlaced
    <2> QED
      BY <1>2, <2>1, <2>2, <2>8, <2>9, <2>10, <2>11 DEF SpansPlaced
  <1> QED
    BY <1>2, <1>10, <1>11, <1>12 DEF RunsMerged

\* The open run ends before token k, or with the text.
Closes(tokens, n, acc, out, p, k) ==
    /\ k = p + 1 /\ out = acc.out \o acc.open
    /\ (acc.open # <<>> /\ k \in 1..n) => ~Inside(tokens, k)

LEMMA RunsClosed ==
    ASSUME NEW length \in Nat, NEW n \in Nat, NEW tokens, TokensFit(tokens, length, n),
           NEW p \in 0..n, NEW acc \in Merging(length), RunsMerged(tokens, n, acc, p),
           NEW out, NEW k, Closes(tokens, n, acc, out, p, k)
    PROVE  /\ ClosedRuns(tokens, out, k) /\ InOrder(out)
           /\ Range(out) = Range(acc.out) \cup Range(acc.open)
           /\ out \in Seq(StretchesIn(length))
  <1>1. DOMAIN tokens = 1..n
    BY LenProperties DEF TokensFit
  <1>2. k \in Nat /\ k - 1 = p /\ k = p + 1 /\ out = acc.out \o acc.open
    BY DEF Closes
  <1>4. /\ OpenRun(tokens, acc.open, p) /\ ClosedRuns(tokens, acc.out, p)
        /\ SpansPlaced(tokens, n, acc.out, acc.open, p)
    BY DEF RunsMerged
  <1>5. acc.out \in Seq(StretchesIn(length)) /\ acc.open \in Seq(StretchesIn(length))
    BY DEF Merging
  <1>6. \A r \in RunsAre(tokens) : r[2] < k <=> (r[2] < p \/ r[2] = p)
    BY <1>1, <1>2 DEF RunsAre
  <1>10. CASE acc.open = <<>>
    <2>1. out = acc.out
      BY <1>2, <1>5, <1>10, ConcatEmptySeq
    <2>2. p = 0 \/ Kind(tokens, p) = NoKind
      BY <1>4, <1>10 DEF OpenRun
    <2>3. \A r \in RunsAre(tokens) : r[2] < k <=> r[2] < p
      <3> SUFFICES ASSUME NEW r \in RunsAre(tokens), r[2] = p PROVE FALSE
        BY <1>6
      <3>1. Chain(tokens, r[1], p)
        BY DEF RunsAre
      <3>2. p \in 1..n /\ Kind(tokens, p) = Kind(tokens, r[1]) /\ Kind(tokens, r[1]) # NoKind
        BY <1>1, <3>1, ChainKind DEF Chain
      <3> QED
        BY <2>2, <3>2
    <2>4. ClosedRuns(tokens, out, k)
      BY <1>4, <2>1, <2>3 DEF ClosedRuns
    <2>5. Range(acc.open) = {}
      BY <1>10 DEF Range
    <2> QED
      BY <1>4, <1>5, <2>1, <2>4, <2>5 DEF SpansPlaced
  <1>11. CASE acc.open # <<>>
    <2>1. PICK a \in 1..p :
            /\ p \in 1..n /\ Chain(tokens, a, p) /\ acc.open = <<SpanOf(tokens, a, p)>>
            /\ Kind(tokens, p) # NoKind /\ Range(acc.open) = {SpanOf(tokens, a, p)}
      BY <1>4, <1>11, OpenRunIs
    <2>2. PICK s \in StretchesIn(length) : s = SpanOf(tokens, a, p)
      <3>1. SpanOf(tokens, a, p) \in Range(acc.open)
        BY <2>1
      <3> QED
        BY <1>5, <3>1, RangeOfSeq
    <2>3. acc.open = <<s>> /\ Range(acc.open) = {s} /\ out = acc.out \o <<s>>
      BY <1>2, <2>1, <2>2
    <2>4. Range(out) = Range(acc.out) \cup {s} /\ out \in Seq(StretchesIn(length))
      BY <1>5, <2>3, Appended
    <2>5. p + 1 \in DOMAIN tokens => ~Inside(tokens, p + 1)
      BY <1>1, <1>2, <1>11 DEF Closes
    <2>7. /\ <<a, p>> \in RunsAre(tokens)
          /\ \A r \in RunsAre(tokens) : r[2] = p => r[1] = a
      <3>1. a \in DOMAIN tokens /\ p \in DOMAIN tokens
        BY <2>1 DEF Chain
      <3>2. <<a, p>> \in RunsAre(tokens)
        BY <2>1, <2>5, <3>1 DEF RunsAre
      <3> QED
        BY <1>1, <2>1, <3>2, OneChain DEF RunsAre
    <2>9. ClosedRuns(tokens, out, k)
      <3>1. ASSUME NEW q \in Range(out)
            PROVE  \E r \in RunsAre(tokens) : r[2] < k /\ q = SpanOf(tokens, r[1], r[2])
        <4>1. CASE q \in Range(acc.out)
          BY <1>4, <1>6, <4>1 DEF ClosedRuns
        <4>2. CASE q = s
          <5>1. PICK r \in RunsAre(tokens) : r[1] = a /\ r[2] = p
            BY <2>7
          <5> QED
            BY <1>6, <2>2, <4>2, <5>1
        <4> QED
          BY <2>4, <3>1, <4>1, <4>2
      <3>2. ASSUME NEW r \in RunsAre(tokens), r[2] < k
            PROVE  SpanOf(tokens, r[1], r[2]) \in Range(out)
        <4>1. CASE r[2] < p
          BY <1>4, <2>4, <4>1 DEF ClosedRuns
        <4>2. CASE r[2] = p
          BY <2>2, <2>4, <2>7, <4>2
        <4> QED
          BY <1>6, <3>2, <4>1, <4>2
      <3> QED
        BY <3>1, <3>2 DEF ClosedRuns
    <2>10. InOrder(acc.out) /\ \A r \in Range(acc.out) : r.end <= s.start
      BY <1>4, <2>3 DEF SpansPlaced
    <2>11. InOrder(out)
      BY <1>5, <2>3, <2>10, OrderAppended
    <2> QED
      BY <2>3, <2>4, <2>9, <2>11
  <1> QED
    BY <1>10, <1>11

LEMMA OtherStep ==
    ASSUME NEW length \in Nat, NEW n \in Nat, NEW tokens, TokensFit(tokens, length, n),
           NEW k \in 1..n, NEW acc \in Merging(length), RunsMerged(tokens, n, acc, k - 1),
           ~Extends(acc, tokens[k])
    PROVE  RunsMerged(tokens, n, BioStep(acc, tokens[k]), k)
  <1>1. DOMAIN tokens = 1..n /\ tokens[k] \in TokensIn(length)
    BY LenProperties, ElementOfSeq DEF TokensFit
  <1>2. PICK new \in Merging(length) :
          /\ new = BioStep(acc, tokens[k]) /\ new.out = acc.out \o acc.open
          /\ new.open =
                IF Special(tokens[k]) \/ map_label(tokens[k].label) = NoKind THEN <<>>
                ELSE <<Span(tokens[k].start, tokens[k].end, map_label(tokens[k].label))>>
    BY <1>1, BioStepIs
  <1>3. PICK p \in 0..n : p = k - 1
    OBVIOUS
  <1>4. /\ OpenRun(tokens, acc.open, p) /\ ClosedRuns(tokens, acc.out, p)
        /\ SpansPlaced(tokens, n, acc.out, acc.open, p)
    BY <1>3 DEF RunsMerged
  <1>5. acc.out \in Seq(StretchesIn(length)) /\ acc.open \in Seq(StretchesIn(length))
    BY DEF Merging
  <1>6. ASSUME Kind(tokens, k) # NoKind PROVE ~Inside(tokens, k)
    <2> SUFFICES ASSUME Inside(tokens, k) PROVE FALSE
      OBVIOUS
    <2>1. /\ ~Begins(tokens[k].label) /\ p \in 1..n /\ Kind(tokens, k) = Kind(tokens, p)
      BY <1>1, <1>3 DEF Inside
    <2>2. ~Special(tokens[k]) /\ Kind(tokens, k) = map_label(tokens[k].label)
      BY <1>6 DEF Kind
    <2>3. acc.open # <<>>
      <3>1. ~(p = 0 \/ Kind(tokens, p) = NoKind)
        BY <1>6, <2>1
      <3>2. PICK b \in 1..p : acc.open = <<SpanOf(tokens, b, p)>>
        BY <1>4, <3>1 DEF OpenRun
      <3> QED
        BY <3>2
    <2>4. acc.open[1].kind = Kind(tokens, p)
      <3>1. PICK a \in 1..p :
              acc.open = <<SpanOf(tokens, a, p)>> /\ acc.open[1].kind = Kind(tokens, p)
        BY <1>4, <2>3, OpenRunIs
      <3> QED
        BY <3>1
    <2> QED
      BY <2>1, <2>2, <2>3, <2>4 DEF Extends
  <1>7. OpenRun(tokens, new.open, k)
    <2>1. CASE Kind(tokens, k) = NoKind
      <3>1. new.open = <<>>
        BY <1>2, <2>1 DEF Kind
      <3> QED
        BY <2>1, <3>1 DEF OpenRun
    <2>2. CASE Kind(tokens, k) # NoKind
      <3>1. new.open = <<SpanOf(tokens, k, k)>>
        BY <1>2, <2>2 DEF Kind, SpanOf
      <3>2. Chain(tokens, k, k)
        BY <1>1, <1>6, <2>2 DEF Chain
      <3>3. k \in 1..k /\ k # 0
        OBVIOUS
      <3> QED
        BY <2>2, <3>1, <3>2, <3>3 DEF OpenRun
    <2> QED
      BY <2>1, <2>2
  <1>8. \A s \in Range(new.open) :
          /\ ~Special(tokens[k]) /\ Ahead(tokens, n, s, k) /\ s.start = tokens[k].start
    <2> SUFFICES ASSUME NEW s \in Range(new.open)
                 PROVE  /\ ~Special(tokens[k]) /\ Ahead(tokens, n, s, k)
                        /\ s.start = tokens[k].start
      OBVIOUS
    <2>1. new.open # <<>>
      BY DEF Range
    <2>2. /\ ~Special(tokens[k])
          /\ s = Span(tokens[k].start, tokens[k].end, map_label(tokens[k].label))
      BY <1>2, <2>1 DEF Range
    <2>3. s.start = tokens[k].start /\ s.end = tokens[k].end
      BY <2>2 DEF Span
    <2> QED
      BY <2>2, <2>3 DEF TokensFit, Ahead
  <1>9. \A s \in Range(acc.out) \cup Range(acc.open) :
          Ahead(tokens, n, s, k) /\ (~Special(tokens[k]) => s.end <= tokens[k].start)
    <2>1. \A s \in Range(acc.out) \cup Range(acc.open) : Ahead(tokens, n, s, k - 1)
      BY <1>3, <1>4 DEF SpansPlaced
    <2> QED
      BY <2>1, AheadKept
  <1>10. /\ ClosedRuns(tokens, new.out, k) /\ InOrder(new.out)
         /\ Range(new.out) = Range(acc.out) \cup Range(acc.open)
    <2>1. RunsMerged(tokens, n, acc, p)
      BY <1>3
    <2>2. acc.open # <<>> => ~Inside(tokens, k)
      <3>1. acc.open # <<>> => Kind(tokens, p) # NoKind
        BY <1>4 DEF OpenRun
      <3>2. Inside(tokens, k) => Kind(tokens, k) = Kind(tokens, p)
        BY <1>3 DEF Inside
      <3> QED
        BY <1>6, <3>1, <3>2
    <2>3. Closes(tokens, n, acc, new.out, p, k)
      BY <1>2, <1>3, <2>2 DEF Closes
    <2> QED
      BY <2>1, <2>3, RunsClosed
  <1>11. SpansPlaced(tokens, n, new.out, new.open, k)
    BY <1>8, <1>9, <1>10 DEF SpansPlaced
  <1> QED
    BY <1>2, <1>7, <1>10, <1>11 DEF RunsMerged

LEMMA AllMerged ==
    ASSUME NEW length \in Nat, NEW n \in Nat, NEW tokens, TokensFit(tokens, length, n),
           NEW acc, Merges(tokens, length, n, acc)
    PROVE  RunsMerged(tokens, n, acc[n], n)
  <1> DEFINE T == {k \in 0..n : RunsMerged(tokens, n, acc[k], k)}
  <1>1. 0 \in T
    <2>1. PICK first : first = acc[0]
      OBVIOUS
    <2>2. first.out = <<>> /\ first.open = <<>> /\ Range(<<>>) = {}
      BY <2>1 DEF Merges, NothingMerged, Range
    <2>3. DOMAIN tokens = 1..n
      BY LenProperties DEF TokensFit
    <2>4. \A r \in RunsAre(tokens) : ~(r[2] < 0)
      BY <2>3 DEF RunsAre
    <2>5. OpenRun(tokens, first.open, 0) /\ ClosedRuns(tokens, first.out, 0)
      BY <2>2, <2>4 DEF OpenRun, ClosedRuns
    <2>6. SpansPlaced(tokens, n, first.out, first.open, 0)
      BY <2>2 DEF SpansPlaced, InOrder
    <2> QED
      BY <2>1, <2>5, <2>6 DEF RunsMerged
  <1>2. ASSUME NEW k \in 1..n, k - 1 \in T PROVE k \in T
    <2>1. PICK p \in 0..n : p = k - 1
      OBVIOUS
    <2>2. PICK last \in Merging(length) : last = acc[p] /\ RunsMerged(tokens, n, last, p)
      BY <1>2, <2>1 DEF Merges
    <2>3. acc[k] = BioStep(last, tokens[k]) /\ RunsMerged(tokens, n, last, k - 1)
      BY <2>1, <2>2 DEF Merges
    <2>4. RunsMerged(tokens, n, BioStep(last, tokens[k]), k)
      BY <2>3, ExtendedStep, OtherStep
    <2> QED
      BY <2>3, <2>4
  <1> HIDE DEF T
  <1>3. 0..n \subseteq T
    BY <1>1, <1>2, Upwards
  <1> QED
    BY <1>3 DEF T

\* bio_merge finds the runs, in order, each inside the text.
LEMMA BioMergeMarks ==
    ASSUME NEW length \in Nat, NEW n \in Nat, NEW tokens, TokensFit(tokens, length, n)
    PROVE  /\ Range(bio_merge(tokens)) =
                  {SpanOf(tokens, r[1], r[2]) : r \in RunsAre(tokens)}
           /\ InOrder(bio_merge(tokens)) /\ bio_merge(tokens) \in Seq(SpansIn(length))
  <1>1. DOMAIN tokens = 1..n /\ tokens \in Seq(TokensIn(length)) /\ n = Len(tokens)
    BY LenProperties DEF TokensFit
  <1>2. PICK all : Merges(tokens, length, n, all)
    BY <1>1, BioMergeIs
  <1>3. PICK acc \in Merging(length) : acc = all[n] /\ RunsMerged(tokens, n, acc, n)
    <2>1. all[n] \in Merging(length)
      BY <1>2 DEF Merges
    <2>2. RunsMerged(tokens, n, all[n], n)
      BY <1>2, AllMerged, Zenon
    <2> QED
      BY <2>1, <2>2
  <1>4. PICK spans : spans = bio_merge(tokens)
    OBVIOUS
  <1>5. spans = acc.out \o acc.open
    BY <1>2, <1>3, <1>4 DEF Merges
  <1>6. PICK k \in Nat : k = n + 1 /\ k \notin 1..n
    OBVIOUS
  <1>7. /\ ClosedRuns(tokens, spans, k) /\ InOrder(spans)
        /\ Range(spans) = Range(acc.out) \cup Range(acc.open)
        /\ spans \in Seq(StretchesIn(length))
    <2>1. n \in 0..n /\ RunsMerged(tokens, n, acc, n)
      BY <1>3
    <2>2. Closes(tokens, n, acc, spans, n, k)
      BY <1>5, <1>6 DEF Closes
    <2> QED
      BY <2>1, <2>2, RunsClosed
  <1>8. Range(spans) = {SpanOf(tokens, r[1], r[2]) : r \in RunsAre(tokens)}
    <2>1. \A r \in RunsAre(tokens) : r[2] < k
      BY <1>1, <1>6 DEF RunsAre
    <2> QED
      BY <1>7, <2>1 DEF ClosedRuns
  <1>9. Range(spans) \subseteq SpansIn(length)
    <2> SUFFICES ASSUME NEW s \in Range(spans) PROVE s \in SpansIn(length)
      OBVIOUS
    <2>1. s \in StretchesIn(length)
      BY <1>7, RangeOfSeq
    <2>2. s.start < s.end
      BY <1>3, <1>7 DEF RunsMerged, SpansPlaced, Ahead
    <2>3. s.start \in Nat /\ s.end \in 0..length
      BY <2>1 DEF StretchesIn
    <2>4. s.end \in 1..length
      BY <2>2, <2>3
    <2> QED
      BY <2>1, <2>2, <2>4 DEF StretchesIn, SpansIn
  <1>10. spans \in Seq(SpansIn(length))
    <2>1. spans \in Seq(Range(spans))
      BY <1>7, SeqOfRange
    <2> QED
      BY <1>9, <2>1, SeqMonotonic
  <1> QED
    BY <1>4, <1>7, <1>8, <1>10

-----------------------------------------------------------------------------
(* merge_and_dedup.                                                        *)

\* The first begins no later; of two that begin together it is the longer.
Precedes(r, s) == r.start <= s.start /\ (r.start = s.start => s.end <= r.end)

\* What r is replaced by hides at least the start of s.
Hides(r, s) == Precedes(r, s) /\ s.start < r.end

LEMMA UpToFinite ==
    ASSUME NEW n \in Nat
    PROVE  IsFiniteSet(1..n) /\ Cardinality(1..n) = n
  <1>1. 1 \in Int /\ n \in Int
    OBVIOUS
  <1>2. IsFiniteSet(1..n) /\ Cardinality(1..n) = IF 1 > n THEN 0 ELSE n - 1 + 1
    BY <1>1, FS_Interval
  <1> QED
    BY <1>2

LEMMA BeforeOrders ==
    ASSUME NEW length \in Nat, NEW spans \in Seq(SpansIn(length)), NEW n \in Nat, n = Len(spans)
    PROVE  /\ StrictOrder(Before(spans), 1..n)
           /\ \A i, j \in 1..n : <<i, j>> \in Before(spans) => Precedes(spans[i], spans[j])
  <1> DEFINE size(k) == spans[k].end - spans[k].start
             before(i, j) == \/ spans[i].start < spans[j].start
                             \/ /\ spans[i].start = spans[j].start
                                /\ size(i) > size(j) \/ (size(i) = size(j) /\ i < j)
  <1>1. DOMAIN spans = 1..n /\ \A i \in 1..n : spans[i] \in SpansIn(length)
    BY LenProperties, ElementOfSeq
  <1>2. \A i, j \in 1..n : <<i, j>> \in Before(spans) <=> before(i, j)
    BY <1>1 DEF Before
  <1>3. \A i \in 1..n : spans[i].start \in Nat /\ spans[i].end \in Nat
    BY <1>1 DEF SpansIn
  <1>4. \A i \in 1..n : ~before(i, i)
    BY <1>3
  <1>5. \A i, j, k \in 1..n : before(i, j) /\ before(j, k) => before(i, k)
    BY <1>3
  <1>6. \A i, j \in 1..n : i = j \/ before(i, j) \/ before(j, i)
    BY <1>3
  <1>7. \A i, j \in 1..n : before(i, j) => Precedes(spans[i], spans[j])
    BY <1>3 DEF Precedes
  <1> HIDE DEF before
  <1> QED
    BY <1>2, <1>4, <1>5, <1>6, <1>7 DEF StrictOrder

\* What is kept after each span.
KeptStep(acc, s) == IF Overlapped(acc, s) THEN acc ELSE Append(acc, s)

Dedups(spans, length, n, order, kept) ==
    /\ order \in [1..n -> 1..n] /\ \A i \in 1..n : \E k \in 1..n : order[k] = i
    /\ \A j, k \in 1..n : j < k => Precedes(spans[order[j]], spans[order[k]])
    /\ kept[0] = <<>>
    /\ \A k \in 0..n : kept[k] \in Seq(SpansIn(length))
    /\ \A k \in 1..n : kept[k] = KeptStep(kept[k - 1], spans[order[k]])
    /\ merge_and_dedup(spans) = kept[n]

LEMMA KeptStepType ==
    ASSUME NEW S, NEW acc \in Seq(S), NEW s \in S
    PROVE  KeptStep(acc, s) \in Seq(S)
  BY AppendProperties DEF KeptStep

LEMMA MergeAndDedupIs ==
    ASSUME NEW length \in Nat, NEW spans \in Seq(SpansIn(length)), NEW n \in Nat, n = Len(spans)
    PROVE  \E order, kept : Dedups(spans, length, n, order, kept)
  <1> DEFINE S == Seq(SpansIn(length))
             order == Arranged(Before(spans), DOMAIN spans)
             step == [p \in S \X (1..n) |-> KeptStep(p[1], spans[order[p[2]]])]
             Is(kept) == kept = [k \in 0..n |->
                                    IF k = 0 THEN <<>>
                                    ELSE LET s == spans[order[k]]
                                         IN  IF Overlapped(kept[k - 1], s)
                                               THEN kept[k - 1] ELSE Append(kept[k - 1], s)]
  <1>1. DOMAIN spans = 1..n /\ \A i \in 1..n : spans[i] \in SpansIn(length)
    BY LenProperties, ElementOfSeq
  <1>2. /\ order \in [1..n -> 1..n] /\ \A i \in 1..n : \E k \in 1..n : order[k] = i
        /\ \A j, k \in 1..n : j < k => Precedes(spans[order[j]], spans[order[k]])
    <2>1. PICK all : all = 1..n
      OBVIOUS
    <2>2. IsFiniteSet(all) /\ Cardinality(all) = n
      <3>1. IsFiniteSet(1..n) /\ Cardinality(1..n) = n
        BY UpToFinite
      <3> QED
        BY <2>1, <3>1
    <2>3. StrictOrder(Before(spans), all)
      BY <2>1, BeforeOrders
    <2>4. PICK by : by = Arranged(Before(spans), all)
      OBVIOUS
    <2>5. /\ DOMAIN by = 1..n /\ \A k \in DOMAIN by : by[k] \in all
          /\ \A i \in all : \E k \in DOMAIN by : by[k] = i
          /\ \A j, k \in DOMAIN by : j < k => <<by[j], by[k]>> \in Before(spans)
      BY <2>2, <2>3, <2>4, ArrangedHolds
    <2>6. by = order
      BY <1>1, <2>1, <2>4
    <2> HIDE DEF order
    <2>7. order \in [1..n -> 1..n]
      <3>1. order = [k \in 1..n |-> order[k]]
        BY <1>1, <2>2, <2>1 DEF order, Arranged
      <3> QED
        BY <2>1, <2>5, <2>6, <3>1
    <2>8. \A j, k \in 1..n : j < k => Precedes(spans[order[j]], spans[order[k]])
      BY <2>1, <2>5, <2>6, BeforeOrders
    <2> QED
      BY <2>1, <2>5, <2>6, <2>7, <2>8
  <1> HIDE DEF order
  <1>3. <<>> \in S
    OBVIOUS
  <1>4. \A acc \in S, k \in 1..n : KeptStep(acc, spans[order[k]]) \in S
    BY <1>1, <1>2, KeptStepType
  <1> HIDE DEF S
  <1>5. step \in Steps(n, S)
    BY <1>4 DEF Steps
  <1>6. \A acc \in S, k \in 1..n : step[<<acc, k>>] = KeptStep(acc, spans[order[k]])
    OBVIOUS
  <1> HIDE DEF step
  <1>7. PICK f : Computes(f, n, S, <<>>, step)
    BY <1>3, <1>5, Recursion
  <1>8. \A k \in 0..n : k # 0 => k \in 1..n /\ k - 1 \in 0..n
    OBVIOUS
  <1>9. \A k \in 0..n : f[k] = IF k = 0 THEN <<>> ELSE KeptStep(f[k - 1], spans[order[k]])
    BY <1>6, <1>7, <1>8 DEF Computes
  <1>10. Is(f)
    <2>1. f = [k \in 0..n |-> f[k]]
      BY <1>7 DEF Computes
    <2> QED
      BY <1>9, <2>1 DEF KeptStep
  <1> DEFINE all == CHOOSE kept : Is(kept)
  <1>11. Is(all)
    <2> HIDE DEF Is
    <2> QED
      BY <1>10
  <1>12. merge_and_dedup(spans) = all[n]
    BY DEF merge_and_dedup, order
  <1> HIDE DEF all
  <1>13. /\ all[0] = <<>>
         /\ \A k \in 1..n : all[k] = KeptStep(all[k - 1], spans[order[k]])
    <2>1. 0 \in 0..n /\ \A k \in 1..n : k \in 0..n /\ k # 0
      OBVIOUS
    <2> QED
      BY <1>11, <2>1 DEF KeptStep
  <1>14. \A k \in 0..n : all[k] \in S
    <2> DEFINE T == {k \in 0..n : all[k] \in S}
    <2>1. 0 \in T
      BY <1>3, <1>13
    <2>2. ASSUME NEW k \in 1..n, k - 1 \in T PROVE k \in T
      BY <1>4, <1>13, <2>2
    <2> HIDE DEF T
    <2>3. 0..n \subseteq T
      BY <2>1, <2>2, Upwards
    <2> QED
      BY <2>3 DEF T
  <1>15. Dedups(spans, length, n, order, all)
    BY <1>2, <1>12, <1>13, <1>14 DEF Dedups, S
  <1> QED
    BY <1>15

\* After k spans in order: what is kept does not overlap, and hides them all.
DedupedTo(spans, order, acc, k) ==
    /\ InOrder(acc) /\ Range(acc) \subseteq Range(spans)
    /\ \A j \in 1..k : \E r \in Range(acc) : Hides(r, spans[order[j]])
    /\ acc # <<>> => \E j \in 1..k : Last(acc) = spans[order[j]]

\* Of spans in order the last ends last.
LEMMA LastEnds ==
    ASSUME NEW length \in Nat, NEW acc \in Seq(SpansIn(length)), InOrder(acc), acc # <<>>
    PROVE  Last(acc) \in Range(acc) /\ \A r \in Range(acc) : r.end <= Last(acc).end
  <1>1. PICK l \in Nat : l = Len(acc)
    BY LenProperties
  <1>2. DOMAIN acc = 1..l /\ l # 0 /\ \A i \in 1..l : acc[i] \in SpansIn(length)
    BY <1>1, LenProperties, EmptySeq, ElementOfSeq
  <1>3. l \in 1..l /\ \A i \in 1..l : i = l \/ i < l
    BY <1>2
  <1>4. \A i \in 1..l : acc[i].end \in Nat /\ acc[i].start \in Nat /\ acc[i].start < acc[i].end
    BY <1>2 DEF SpansIn
  <1>5. \A i \in 1..l : acc[i].end <= acc[l].end
    <2> SUFFICES ASSUME NEW i \in 1..l PROVE acc[i].end <= acc[l].end
      OBVIOUS
    <2>1. i < l => acc[i].end <= acc[l].start
      BY <1>2, <1>3 DEF InOrder
    <2> QED
      BY <1>3, <1>4, <2>1
  <1> QED
    BY <1>1, <1>2, <1>3, <1>5 DEF Last, Range

LEMMA DedupStep ==
    ASSUME NEW length \in Nat, NEW spans \in Seq(SpansIn(length)), NEW n \in Nat,
           NEW order, NEW kept, Dedups(spans, length, n, order, kept), n = Len(spans),
           NEW k \in 1..n, NEW acc \in Seq(SpansIn(length)),
           DedupedTo(spans, order, acc, k - 1)
    PROVE  DedupedTo(spans, order, KeptStep(acc, spans[order[k]]), k)
  <1>1. \A j \in 1..k : j \in 1..n /\ (j = k \/ (j \in 1..(k - 1) /\ j < k))
    OBVIOUS
  <1>2. PICK s \in SpansIn(length) : s = spans[order[k]] /\ s \in Range(spans)
    <2>1. order[k] \in 1..n /\ DOMAIN spans = 1..n
      BY LenProperties DEF Dedups
    <2> QED
      BY <2>1, ElementOfSeq DEF Range
  <1>3. s.start \in Nat /\ s.end \in Nat /\ s.start < s.end
    BY <1>2 DEF SpansIn
  <1>4. CASE Overlapped(acc, s)
    <2>1. KeptStep(acc, s) = acc /\ acc # <<>> /\ s.start < Last(acc).end
      BY <1>4 DEF KeptStep, Overlapped
    <2>2. PICK j \in 1..(k - 1) : Last(acc) = spans[order[j]]
      BY <2>1 DEF DedupedTo
    <2>3. Precedes(Last(acc), s)
      <3>1. j \in 1..n /\ j < k
        OBVIOUS
      <3> QED
        BY <1>2, <2>2, <3>1 DEF Dedups
    <2>4. Hides(Last(acc), s) /\ Last(acc) \in Range(acc)
      BY <2>1, <2>3, LastEnds DEF Hides, DedupedTo
    <2>5. \A i \in 1..k : \E r \in Range(acc) : Hides(r, spans[order[i]])
      BY <1>1, <1>2, <2>4 DEF DedupedTo
    <2>6. j \in 1..k
      BY <1>1
    <2> QED
      BY <1>2, <2>1, <2>2, <2>5, <2>6 DEF DedupedTo
  <1>5. CASE ~Overlapped(acc, s)
    <2>1. PICK new : new = KeptStep(acc, s)
      OBVIOUS
    <2>2. new = acc \o <<s>>
      <3>1. new = Append(acc, s)
        BY <1>5, <2>1 DEF KeptStep
      <3> QED
        BY <1>2, <3>1, AppendIsConcat
    <2>3. \A r \in Range(acc) : r.end <= s.start
      <3> SUFFICES ASSUME NEW r \in Range(acc) PROVE r.end <= s.start
        OBVIOUS
      <3>1. acc # <<>>
        BY DEF Range
      <3>2. ~(s.start < Last(acc).end)
        BY <1>5, <3>1 DEF Overlapped
      <3>3. Last(acc) \in Range(acc) /\ r.end <= Last(acc).end
        BY <3>1, LastEnds DEF DedupedTo
      <3>4. r.end \in Nat /\ Last(acc).end \in Nat
        BY <3>3, RangeOfSeq DEF SpansIn
      <3> QED
        BY <1>3, <3>2, <3>3, <3>4
    <2>4. InOrder(new)
      BY <2>2, <2>3, OrderAppended DEF DedupedTo
    <2>5. /\ Range(new) = Range(acc) \cup {s} /\ Len(new) = Len(acc) + 1
          /\ new[Len(acc) + 1] = s
      BY <2>2, Appended
    <2>6. Last(new) = s
      BY <2>5 DEF Last
    <2>7. Hides(s, s)
      BY <1>3 DEF Hides, Precedes
    <2>8. \A i \in 1..k : \E r \in Range(new) : Hides(r, spans[order[i]])
      BY <1>1, <1>2, <2>5, <2>7 DEF DedupedTo
    <2>9. k \in 1..k
      OBVIOUS
    <2> QED
      BY <1>2, <2>1, <2>4, <2>5, <2>6, <2>8, <2>9 DEF DedupedTo
  <1> QED
    BY <1>2, <1>4, <1>5

LEMMA MergeHides ==
    ASSUME NEW length \in Nat, NEW spans \in Seq(SpansIn(length))
    PROVE  /\ merge_and_dedup(spans) \in Seq(SpansIn(length))
           /\ Range(merge_and_dedup(spans)) \subseteq Range(spans)
           /\ InOrder(merge_and_dedup(spans))
           /\ \A s \in Range(spans) : \E r \in Range(merge_and_dedup(spans)) : Hides(r, s)
  <1>1. PICK n \in Nat : n = Len(spans)
    BY LenProperties
  <1>2. PICK order, kept : Dedups(spans, length, n, order, kept)
    BY <1>1, MergeAndDedupIs
  <1> DEFINE T == {k \in 0..n : DedupedTo(spans, order, kept[k], k)}
  <1>3. 0 \in T
    <2>1. PICK first : first = kept[0]
      OBVIOUS
    <2>2. first = <<>> /\ Range(<<>>) = {} /\ 1..0 = {}
      BY <1>2, <2>1 DEF Dedups, Range
    <2>3. DedupedTo(spans, order, first, 0)
      BY <2>2 DEF DedupedTo, InOrder
    <2> QED
      BY <2>1, <2>3
  <1>4. ASSUME NEW k \in 1..n, k - 1 \in T PROVE k \in T
    <2>1. PICK acc \in Seq(SpansIn(length)) :
            /\ acc = kept[k - 1] /\ DedupedTo(spans, order, acc, k - 1)
            /\ kept[k] = KeptStep(acc, spans[order[k]])
      BY <1>2, <1>4 DEF Dedups
    <2>2. DedupedTo(spans, order, KeptStep(acc, spans[order[k]]), k)
      BY <1>1, <1>2, <2>1, DedupStep
    <2> QED
      BY <2>1, <2>2
  <1> HIDE DEF T
  <1>5. 0..n \subseteq T
    BY <1>3, <1>4, Upwards
  <1>6. PICK acc \in Seq(SpansIn(length)) :
          acc = merge_and_dedup(spans) /\ DedupedTo(spans, order, acc, n)
    BY <1>2, <1>5 DEF T, Dedups
  <1>7. ASSUME NEW s \in Range(spans) PROVE \E r \in Range(acc) : Hides(r, s)
    <2>1. PICK i \in 1..n : s = spans[i]
      BY <1>1, LenProperties DEF Range
    <2>2. PICK k \in 1..n : order[k] = i
      BY <1>2 DEF Dedups
    <2> QED
      BY <1>6, <2>1, <2>2 DEF DedupedTo
  <1> QED
    BY <1>6, <1>7 DEF DedupedTo

-----------------------------------------------------------------------------
(* The inductive invariant.                                                *)

CallSteps == {"idle", "lookup", "start", "bump", "insert", "done"}

\* Values and spans have no set to belong to: what is known of a call and of a
\* job is that it is a record with these fields.
CallShape(c) == c = [pc |-> c.pc, value |-> c.value, seen |-> c.seen, id |-> c.id,
                     result |-> c.result]
JobShape(j) == j = [pc |-> j.pc, input |-> j.input, found |-> j.found, spans |-> j.spans,
                    cursor |-> j.cursor, out |-> j.out]

Shapes ==
    /\ call = [t \in Tasks |-> call[t]] /\ job = [t \in Tasks |-> job[t]]
    /\ \A t \in Tasks : CallShape(call[t]) /\ JobShape(job[t]) /\ call[t].pc \in CallSteps
    /\ counter \in [Workspaces \X Kinds -> Nat \ {0}]
    /\ dbFaults \in 0..MaxDbFaults

Valued(v) == v.ws \in Workspaces /\ v.kind \in Kinds

\* Every token was minted by the counter of its value's workspace and kind.
MapInv ==
    \A v \in DOMAIN map :
        /\ Valued(v)
        /\ \E n \in 1..(counter[<<v.ws, v.kind>>] - 1) : map[v] = <<v.kind, n>>

\* A statement that has bumped a counter keeps others from it.
LockInv ==
    \A t \in Tasks : call[t].pc = "insert" =>
        /\ call[t].id = counter[<<call[t].value.ws, call[t].value.kind>>]
        /\ RowLockFree(t)

\* What a call has seen and what it returns is what is stored for its value.
CallInv(t) ==
    /\ call[t].pc = "idle" => call[t] = NoCall
    /\ call[t].pc # "idle" => Valued(call[t].value)
    /\ call[t].pc = "done" <=> call[t].result # NoToken
    /\ call[t].seen # NoToken =>
        call[t].value \in DOMAIN map /\ call[t].seen = map[call[t].value]
    /\ call[t].result \notin {NoToken, Failed} =>
        call[t].value \in DOMAIN map /\ call[t].result = map[call[t].value]

Explained(t) ==
    \/ call[t].value \in DOMAIN map /\ call[t].seen = NoToken
    \/ \E v \in DOMAIN map : map[v] = NewToken(t) /\ v.ws # call[t].value.ws

FailureInv == dbFaults = 0 => \A t \in Tasks : call[t].result = Failed => Explained(t)

\* A call is about the current span of its task's text.
JobInv(t) ==
    call[t].pc # "idle" =>
        /\ job[t].pc = "span" /\ job[t].spans # <<>> /\ job[t].input.vault
        /\ call[t].value = Value(job[t].input.ws, Current(t).kind, RawValue(t))

Stands(input, c) ==
    LET v == Value(input.ws, c.span.kind, SubSeq(input.text, c.span.start + 1, c.span.end))
    IN  v \in DOMAIN map /\ map[v] = c.token

OutInv(t) ==
    /\ job[t].out \in Seq(Range(job[t].out))
    /\ \A c \in Range(job[t].out) : c.token # NoToken => Stands(job[t].input, c)

Inv ==
    /\ Shapes /\ MapInv /\ LockInv /\ FailureInv
    /\ \A t \in Tasks : CallInv(t) /\ JobInv(t) /\ OutInv(t)
-----------------------------------------------------------------------------
(* What the steps have in common.                                          *)

CallOf(pc, value, seen, id, result) ==
    [pc |-> pc, value |-> value, seen |-> seen, id |-> id, result |-> result]

\* The step leaves t's call as this record and the other calls alone.
Becomes(t, pc, value, seen, id, result) ==
    call' = [call EXCEPT ![t] = CallOf(pc, value, seen, id, result)]

LEMMA Parameters ==
    /\ MaxDbFaults \in Nat /\ NoToken # Failed
    /\ \A k \in Kinds, n \in Nat : <<k, n>> # NoToken /\ <<k, n>> # Failed
  BY VaultAssumption

LEMMA Typed ==
    ASSUME Inv
    PROVE  /\ dbFaults \in Nat /\ counter \in [Workspaces \X Kinds -> Nat \ {0}]
           /\ \A v : Valued(v) => counter[<<v.ws, v.kind>>] \in Nat \ {0}
           /\ \A t \in Tasks : CallInv(t) /\ JobInv(t) /\ OutInv(t)
  BY Parameters DEF Inv, Shapes, Valued

LEMMA MapToken ==
    ASSUME Inv, NEW v \in DOMAIN map
    PROVE  /\ Valued(v) /\ map[v] \notin {NoToken, Failed}
           /\ \E n \in Nat \ {0} : map[v] = <<v.kind, n>> /\ n < counter[<<v.ws, v.kind>>]
  <1>1. Valued(v) /\ counter[<<v.ws, v.kind>>] \in Nat \ {0}
    BY Typed DEF Inv, MapInv
  <1>2. PICK n \in 1..(counter[<<v.ws, v.kind>>] - 1) : map[v] = <<v.kind, n>>
    BY DEF Inv, MapInv
  <1>3. n \in Nat \ {0} /\ n < counter[<<v.ws, v.kind>>]
    BY <1>1
  <1> QED
    BY <1>1, <1>2, <1>3, Parameters DEF Valued

LEMMA CallEqual ==
    ASSUME NEW pc, NEW value, NEW seen, NEW id, NEW result,
           NEW c \in [pc : {pc}, value : {value}, seen : {seen}, id : {id}, result : {result}]
    PROVE  c = CallOf(pc, value, seen, id, result)
  BY DEF CallOf

\* The step of a call as the record it leaves behind.
LEMMA Returns ==
    ASSUME Inv, NEW t \in Tasks, NEW r, Return(t, r)
    PROVE  Becomes(t, "done", call[t].value, call[t].seen, call[t].id, r)
  <1>1. CallShape(call[t])
    BY DEF Inv, Shapes
  <1>2. [call[t] EXCEPT !.pc = "done", !.result = r]
            = CallOf("done", call[t].value, call[t].seen, call[t].id, r)
    <2>1. [call[t] EXCEPT !.pc = "done", !.result = r] \in
            [pc : {"done"}, value : {call[t].value}, seen : {call[t].seen}, id : {call[t].id},
             result : {r}]
      BY <1>1 DEF CallShape
    <2> QED
      BY <2>1, CallEqual
  <1>3. call = [u \in Tasks |-> call[u]]
    BY DEF Inv, Shapes
  <1> QED
    BY <1>2, <1>3 DEF Return, Becomes

LEMMA OneCall ==
    ASSUME Inv, NEW t \in Tasks, NEW pc \in CallSteps, NEW value, NEW seen, NEW id, NEW result,
           Becomes(t, pc, value, seen, id, result)
    PROVE  /\ call'[t] = CallOf(pc, value, seen, id, result)
           /\ \A u \in Tasks \ {t} : call'[u] = call[u]
           /\ call' = [u \in Tasks |-> call'[u]]
           /\ call'[t].pc = pc /\ call'[t].value = value /\ call'[t].seen = seen
           /\ call'[t].id = id /\ call'[t].result = result
           /\ \A u \in Tasks : CallShape(call'[u]) /\ call'[u].pc \in CallSteps
  <1>1. call = [u \in Tasks |-> call[u]]
    BY DEF Inv, Shapes
  <1>2. /\ call'[t] = CallOf(pc, value, seen, id, result)
        /\ \A u \in Tasks \ {t} : call'[u] = call[u]
        /\ call' = [u \in Tasks |-> call'[u]]
    BY <1>1 DEF Becomes
  <1>3. /\ call'[t].pc = pc /\ call'[t].value = value /\ call'[t].seen = seen
        /\ call'[t].id = id /\ call'[t].result = result
        /\ CallShape(call'[t])
    BY <1>2 DEF CallOf, CallShape
  <1>4. \A u \in Tasks \ {t} : CallShape(call'[u]) /\ call'[u].pc \in CallSteps
    BY <1>2 DEF Inv, Shapes
  <1> QED
    BY <1>2, <1>3, <1>4

\* The rows of pii_token_map stay.
MapGrows == DOMAIN map \subseteq DOMAIN map' /\ \A v \in DOMAIN map : map'[v] = map[v]

LEMMA OthersKept ==
    ASSUME Inv, MapGrows, NEW u \in Tasks, call'[u] = call[u], job'[u] = job[u]
    PROVE  CallInv(u)' /\ JobInv(u)' /\ OutInv(u)' /\ (Explained(u) => Explained(u)')
  <1>1. CallInv(u) /\ JobInv(u) /\ OutInv(u)
    BY DEF Inv
  <1>2. CallInv(u)'
    BY <1>1 DEF CallInv, MapGrows
  <1>3. JobInv(u)'
    BY <1>1 DEF JobInv, Current, RawValue
  <1>4. OutInv(u)'
    <2>1. \A c : Stands(job[u].input, c) => Stands(job[u].input, c)'
      BY DEF Stands, MapGrows
    <2> QED
      BY <1>1, <2>1 DEF OutInv
  <1>5. Explained(u) => Explained(u)'
    BY DEF Explained, MapGrows, NewToken
  <1> QED
    BY <1>2, <1>3, <1>4, <1>5

-----------------------------------------------------------------------------
(* Each step of the vault preserves the invariant.                         *)

\* What has to be shown of a step of t's call.
LEMMA CallStep ==
    ASSUME Inv, NEW t \in Tasks, NEW pc \in CallSteps, NEW seen, NEW id, NEW result,
           Becomes(t, pc, call[t].value, seen, id, result),
           call[t].pc # "idle", pc # "idle", UNCHANGED job, MapGrows,
           counter' \in [Workspaces \X Kinds -> Nat \ {0}], dbFaults' \in 0..MaxDbFaults,
           MapInv', LockInv',
           pc = "done" <=> result # NoToken,
           seen # NoToken => call[t].value \in DOMAIN map' /\ seen = map'[call[t].value],
           result \notin {NoToken, Failed} =>
                call[t].value \in DOMAIN map' /\ result = map'[call[t].value],
           dbFaults' = 0 => dbFaults = 0 /\ (result = Failed => Explained(t)')
    PROVE  Inv'
  <1>1. /\ \A u \in Tasks \ {t} : call'[u] = call[u]
        /\ call' = [u \in Tasks |-> call'[u]]
        /\ call'[t].pc = pc /\ call'[t].value = call[t].value /\ call'[t].seen = seen
        /\ call'[t].id = id /\ call'[t].result = result
        /\ \A u \in Tasks : CallShape(call'[u]) /\ call'[u].pc \in CallSteps
    BY OneCall
  <1>2. \A u \in Tasks \ {t} : /\ CallInv(u)' /\ JobInv(u)' /\ OutInv(u)'
                                /\ (Explained(u) => Explained(u)')
    BY <1>1, OthersKept
  <1>3. CallInv(t)'
    BY <1>1, Typed DEF CallInv, Valued
  <1>4. JobInv(t)'
    BY <1>1, Typed DEF JobInv, Current, RawValue
  <1>5. OutInv(t)'
    <2>1. \A c : Stands(job[t].input, c) => Stands(job[t].input, c)'
      BY DEF Stands, MapGrows
    <2> QED
      BY <2>1, Typed DEF OutInv
  <1>6. FailureInv'
    BY <1>1, <1>2 DEF Inv, FailureInv
  <1>7. Shapes'
    BY <1>1 DEF Inv, Shapes
  <1> QED
    BY <1>2, <1>3, <1>4, <1>5, <1>6, <1>7 DEF Inv

\* A step that neither takes nor holds the row lock leaves the locks alone.
LEMMA LocksKept ==
    ASSUME Inv, NEW t \in Tasks, \A u \in Tasks \ {t} : call'[u] = call[u],
           call'[t].pc # "insert", UNCHANGED counter
    PROVE  LockInv'
  BY DEF Inv, LockInv, RowLockFree

LEMMA LookUpInv ==
    ASSUME Inv, NEW t \in Tasks, LookUp(t), UNCHANGED job
    PROVE  Inv'
  <1>f. call[t].pc = "lookup" /\ UNCHANGED <<map, counter, dbFaults>>
    BY DEF LookUp
  <1>s. call[t].result = NoToken /\ CallShape(call[t])
    BY <1>f, Typed DEF CallInv, Inv, Shapes
  <1>m. /\ MapGrows /\ MapInv' /\ counter' \in [Workspaces \X Kinds -> Nat \ {0}]
        /\ dbFaults' \in 0..MaxDbFaults
    BY <1>f DEF MapGrows, Inv, MapInv, Shapes
  <1>1. CASE Existing(call[t].value) # NoToken /\ Return(t, Existing(call[t].value))
    <2> DEFINE r == Existing(call[t].value)
    <2>1. Becomes(t, "done", call[t].value, call[t].seen, call[t].id, r)
      BY <1>1, Returns
    <2>2. call[t].value \in DOMAIN map /\ r = map[call[t].value] /\ r # NoToken
      BY <1>1 DEF Existing
    <2>3. r # Failed
      BY <2>2, MapToken
    <2> HIDE DEF r
    <2>4. LockInv'
      BY <1>f, <2>1, OneCall, LocksKept DEF CallSteps
    <2>5. call[t].seen # NoToken => call[t].value \in DOMAIN map /\ call[t].seen = map[call[t].value]
      BY Typed DEF CallInv
    <2> QED
      BY <1>f, <1>m, <2>1, <2>2, <2>3, <2>4, <2>5, CallStep DEF CallSteps
  <1>2. CASE call' = [call EXCEPT ![t].pc = "start"]
    <2>1. Becomes(t, "start", call[t].value, call[t].seen, call[t].id, call[t].result)
      <3>1. [call[t] EXCEPT !.pc = "start"] \in
              [pc : {"start"}, value : {call[t].value}, seen : {call[t].seen}, id : {call[t].id},
               result : {call[t].result}]
        BY <1>s DEF CallShape
      <3>2. [call[t] EXCEPT !.pc = "start"]
              = CallOf("start", call[t].value, call[t].seen, call[t].id, call[t].result)
        BY <3>1, CallEqual
      <3> QED
        BY <1>2, <3>2 DEF Inv, Shapes, Becomes
    <2>2. LockInv'
      BY <1>f, <2>1, OneCall, LocksKept DEF CallSteps
    <2>3. call[t].seen # NoToken => call[t].value \in DOMAIN map /\ call[t].seen = map[call[t].value]
      BY Typed DEF CallInv
    <2> QED
      BY <1>f, <1>m, <1>s, <2>1, <2>2, <2>3, CallStep, Parameters DEF CallSteps
  <1> QED
    BY <1>1, <1>2 DEF LookUp, lookup_existing

LEMMA StartStatementInv ==
    ASSUME Inv, NEW t \in Tasks, StartStatement(t), UNCHANGED job
    PROVE  Inv'
  <1>f. call[t].pc = "start" /\ UNCHANGED <<map, counter, dbFaults>>
    BY DEF StartStatement
  <1>s. call[t].result = NoToken /\ CallShape(call[t])
    BY <1>f, Typed DEF CallInv, Inv, Shapes
  <1>m. /\ MapGrows /\ MapInv' /\ counter' \in [Workspaces \X Kinds -> Nat \ {0}]
        /\ dbFaults' \in 0..MaxDbFaults
    BY <1>f DEF MapGrows, Inv, MapInv, Shapes
  <1> DEFINE seen == Existing(call[t].value)
  <1>1. Becomes(t, "bump", call[t].value, seen, call[t].id, call[t].result)
    <2>1. [call[t] EXCEPT !.pc = "bump", !.seen = seen] \in
            [pc : {"bump"}, value : {call[t].value}, seen : {seen}, id : {call[t].id},
             result : {call[t].result}]
      BY <1>s DEF CallShape
    <2>2. [call[t] EXCEPT !.pc = "bump", !.seen = seen]
            = CallOf("bump", call[t].value, seen, call[t].id, call[t].result)
      BY <2>1, CallEqual
    <2> QED
      BY <2>2 DEF StartStatement, Inv, Shapes, Becomes
  <1>2. seen # NoToken => call[t].value \in DOMAIN map /\ seen = map[call[t].value]
    BY DEF Existing
  <1> HIDE DEF seen
  <1>3. LockInv'
    BY <1>f, <1>1, OneCall, LocksKept DEF CallSteps
  <1> QED
    BY <1>f, <1>m, <1>s, <1>1, <1>2, <1>3, CallStep, Parameters DEF CallSteps

\* The lock passes to t when no statement on the same counter is between its
\* bump and its commit.
LEMMA BumpInv ==
    ASSUME Inv, NEW t \in Tasks, Bump(t), UNCHANGED job
    PROVE  Inv'
  <1>f. call[t].pc = "bump" /\ RowLockFree(t) /\ UNCHANGED <<map, counter, dbFaults>>
    BY DEF Bump
  <1>s. call[t].result = NoToken /\ CallShape(call[t])
    BY <1>f, Typed DEF CallInv, Inv, Shapes
  <1>m. /\ MapGrows /\ MapInv' /\ counter' \in [Workspaces \X Kinds -> Nat \ {0}]
        /\ dbFaults' \in 0..MaxDbFaults
    BY <1>f DEF MapGrows, Inv, MapInv, Shapes
  <1> DEFINE id == counter[<<call[t].value.ws, call[t].value.kind>>]
  <1>1. Becomes(t, "insert", call[t].value, call[t].seen, id, call[t].result)
    <2>1. [call[t] EXCEPT !.pc = "insert", !.id = id] \in
            [pc : {"insert"}, value : {call[t].value}, seen : {call[t].seen}, id : {id},
             result : {call[t].result}]
      BY <1>s DEF CallShape
    <2>2. [call[t] EXCEPT !.pc = "insert", !.id = id]
            = CallOf("insert", call[t].value, call[t].seen, id, call[t].result)
      BY <2>1, CallEqual
    <2> QED
      BY <2>2 DEF Bump, Inv, Shapes, Becomes
  <1>2. call[t].seen # NoToken => call[t].value \in DOMAIN map /\ call[t].seen = map[call[t].value]
    BY Typed DEF CallInv
  <1>3. LockInv'
    <2>1. /\ call'[t].pc = "insert" /\ call'[t].value = call[t].value /\ call'[t].id = id
          /\ \A u \in Tasks \ {t} : call'[u] = call[u]
      BY <1>1, OneCall DEF CallSteps
    <2>2. RowLockFree(t)'
      BY <1>f, <2>1 DEF RowLockFree
    <2>3. ASSUME NEW u \in Tasks \ {t}, call[u].pc = "insert" PROVE RowLockFree(u)'
      <3>1. RowLockFree(u)
        BY <2>3 DEF Inv, LockInv
      <3>2. ~SameCounter(call[t].value, call[u].value)
        BY <1>f, <2>3 DEF RowLockFree, SameCounter
      <3> QED
        BY <2>1, <3>1, <3>2 DEF RowLockFree
    <2> QED
      BY <1>f, <2>1, <2>2, <2>3 DEF Inv, LockInv
  <1> HIDE DEF id
  <1> QED
    BY <1>f, <1>m, <1>s, <1>1, <1>2, <1>3, CallStep, Parameters DEF CallSteps

\* Committing moves t's own counter, which no other statement has locked.
LEMMA Commits ==
    ASSUME Inv, NEW t \in Tasks, call[t].pc = "insert", counter' = Bumped(t),
           \A u \in Tasks \ {t} : call'[u] = call[u], call'[t].pc # "insert"
    PROVE  /\ counter' \in [Workspaces \X Kinds -> Nat \ {0}] /\ LockInv'
           /\ \A c \in Workspaces \X Kinds : counter'[c] >= counter[c]
           /\ Valued(call[t].value)
           /\ call[t].id \in Nat \ {0}
           /\ counter'[<<call[t].value.ws, call[t].value.kind>>] = call[t].id + 1
  <1> DEFINE w == <<call[t].value.ws, call[t].value.kind>>
  <1>1. Valued(call[t].value) /\ w \in Workspaces \X Kinds
    BY Typed DEF CallInv, Valued
  <1>2. call[t].id = counter[w] /\ counter[w] \in Nat \ {0} /\ RowLockFree(t)
    BY <1>1, Typed DEF Inv, LockInv
  <1>3. counter' = [counter EXCEPT ![w] = call[t].id + 1]
    BY DEF Bumped
  <1> DEFINE id == call[t].id
  <1>4. id = counter[w] /\ counter' = [counter EXCEPT ![w] = id + 1]
    BY <1>2, <1>3
  <1> HIDE DEF id
  <1>5. /\ counter' \in [Workspaces \X Kinds -> Nat \ {0}] /\ counter'[w] = id + 1
        /\ \A c \in (Workspaces \X Kinds) \ {w} : counter'[c] = counter[c]
    <2> HIDE DEF w
    <2> QED
      BY <1>1, <1>2, <1>4, Typed
  <1>6. \A c \in Workspaces \X Kinds : counter'[c] >= counter[c]
    <2> HIDE DEF w
    <2> QED
      BY <1>1, <1>2, <1>4, <1>5, Typed
  <1>7. LockInv'
    <2>1. ASSUME NEW u \in Tasks \ {t}, call[u].pc = "insert"
          PROVE  /\ call[u].id = counter'[<<call[u].value.ws, call[u].value.kind>>]
                 /\ RowLockFree(u)'
      <3> DEFINE x == <<call[u].value.ws, call[u].value.kind>>
      <3>1. x \in Workspaces \X Kinds /\ call[u].id = counter[x] /\ RowLockFree(u)
        BY <2>1, Typed DEF CallInv, Valued, Inv, LockInv
      <3>2. x # w
        BY <1>2, <2>1 DEF RowLockFree, SameCounter
      <3>3. call[u].id = counter'[x]
        BY <1>5, <3>1, <3>2
      <3> QED
        BY <3>1, <3>3 DEF RowLockFree
    <2> QED
      BY <2>1 DEF LockInv
  <1> QED
    BY <1>1, <1>2, <1>5, <1>6, <1>7 DEF id

\* Rows stay behind their counters as the counters move on.
LEMMA RowsKept ==
    ASSUME Inv, NEW v \in DOMAIN map, counter' \in [Workspaces \X Kinds -> Nat \ {0}],
           \A c \in Workspaces \X Kinds : counter'[c] >= counter[c]
    PROVE  Valued(v) /\ \E n \in 1..(counter'[<<v.ws, v.kind>>] - 1) : map[v] = <<v.kind, n>>
  <1>1. PICK n \in Nat \ {0} : map[v] = <<v.kind, n>> /\ n < counter[<<v.ws, v.kind>>]
    BY MapToken
  <1> DEFINE c == <<v.ws, v.kind>>
  <1>2. Valued(v) /\ c \in Workspaces \X Kinds
    BY MapToken DEF Valued
  <1>3. counter[c] \in Nat /\ counter'[c] \in Nat /\ counter'[c] >= counter[c] /\ n < counter[c]
    BY <1>1, <1>2, Typed
  <1>4. n \in 1..(counter'[c] - 1)
    <2> HIDE DEF c
    <2> QED
      BY <1>3
  <1> QED
    BY <1>1, <1>2, <1>4

LEMMA InsertTokenInv ==
    ASSUME Inv, NEW t \in Tasks, InsertToken(t), UNCHANGED job
    PROVE  Inv'
  <1> DEFINE v == call[t].value
             token == NewToken(t)
  <1>f. /\ call[t].pc = "insert" /\ v \notin DOMAIN map /\ counter' = Bumped(t)
        /\ map' = [w \in DOMAIN map \cup {v} |-> IF w = v THEN token ELSE map[w]]
    BY DEF InsertToken
  <1>g. /\ MapGrows /\ v \in DOMAIN map' /\ map'[v] = token
        /\ DOMAIN map' = DOMAIN map \cup {v}
    BY <1>f DEF MapGrows
  <1>s. call[t].seen = NoToken
    BY <1>f, Typed DEF CallInv
  <1>1. PICK r \in {token, Failed} :
          /\ Return(t, r)
          /\ \/ r = token /\ dbFaults' = dbFaults
             \/ dbFaults < MaxDbFaults /\ dbFaults' = dbFaults + 1
    BY DEF InsertToken
  <1>2. Becomes(t, "done", v, call[t].seen, call[t].id, r)
    BY <1>1, Returns
  <1>3. (\A u \in Tasks \ {t} : call'[u] = call[u]) /\ call'[t].pc = "done"
    BY <1>2, OneCall DEF CallSteps
  <1>4. /\ counter' \in [Workspaces \X Kinds -> Nat \ {0}] /\ LockInv'
        /\ \A c \in Workspaces \X Kinds : counter'[c] >= counter[c]
        /\ Valued(v) /\ call[t].id \in Nat \ {0}
        /\ counter'[<<v.ws, v.kind>>] = call[t].id + 1
    BY <1>f, <1>3, Commits
  <1>5. token = <<v.kind, call[t].id>> /\ token \notin {NoToken, Failed}
    BY <1>4, Parameters DEF NewToken, Valued
  <1>6. MapInv'
    <2>1. \A w \in DOMAIN map :
            Valued(w) /\ \E n \in 1..(counter'[<<w.ws, w.kind>>] - 1) : map'[w] = <<w.kind, n>>
      BY <1>4, <1>g, RowsKept DEF MapGrows
    <2>2. \E n \in 1..(counter'[<<v.ws, v.kind>>] - 1) : map'[v] = <<v.kind, n>>
      <3>1. call[t].id \in 1..(counter'[<<v.ws, v.kind>>] - 1)
        BY <1>4
      <3> QED
        BY <1>5, <1>g, <3>1
    <2> QED
      BY <1>4, <1>g, <2>1, <2>2 DEF MapInv, Valued
  <1>7. dbFaults' \in 0..MaxDbFaults /\ (dbFaults' = 0 => dbFaults = 0)
    BY <1>1, Typed, Parameters DEF Inv, Shapes
  <1>8. dbFaults' = 0 => r = token
    BY <1>1, Typed
  <1> HIDE DEF v, token
  <1> QED
    BY <1>f, <1>g, <1>s, <1>1, <1>2, <1>4, <1>5, <1>6, <1>7, <1>8, CallStep, Parameters
        DEF CallSteps, v

LEMMA LoseRaceInv ==
    ASSUME Inv, NEW t \in Tasks, LoseRace(t), UNCHANGED job
    PROVE  Inv'
  <1> DEFINE v == call[t].value
             r == ReadBack(t)
  <1>f. /\ call[t].pc = "insert" /\ v \in DOMAIN map /\ counter' = Bumped(t)
        /\ Return(t, r) /\ UNCHANGED <<map, dbFaults>>
    BY DEF LoseRace
  <1>s. call[t].seen # NoToken => call[t].seen = map[v]
    BY Typed DEF CallInv
  <1>1. r # NoToken /\ (r # Failed => r = map[v]) /\ (r = Failed => call[t].seen = NoToken)
    BY <1>f, <1>s, MapToken, Parameters DEF ReadBack
  <1>2. Becomes(t, "done", v, call[t].seen, call[t].id, r)
    BY <1>f, Returns
  <1> HIDE DEF r
  <1>3. /\ \A u \in Tasks \ {t} : call'[u] = call[u]
        /\ call'[t].pc = "done" /\ call'[t].value = v /\ call'[t].seen = call[t].seen
    BY <1>2, OneCall DEF CallSteps
  <1>4. /\ counter' \in [Workspaces \X Kinds -> Nat \ {0}] /\ LockInv'
        /\ \A c \in Workspaces \X Kinds : counter'[c] >= counter[c]
    BY <1>f, <1>3, Commits
  <1>5. MapInv'
    BY <1>f, <1>4, RowsKept DEF MapInv, Valued
  <1>6. MapGrows /\ dbFaults' \in 0..MaxDbFaults
    BY <1>f DEF MapGrows, Inv, Shapes
  <1>7. r = Failed => Explained(t)'
    BY <1>f, <1>1, <1>3 DEF Explained
  <1> HIDE DEF v
  <1> QED
    BY <1>f, <1>s, <1>1, <1>2, <1>4, <1>5, <1>6, <1>7, CallStep DEF CallSteps, v

\* A token that is taken although the counter is locked belongs to another
\* workspace: those of this one lie below the counter.
LEMMA TokenCollidesInv ==
    ASSUME Inv, NEW t \in Tasks, TokenCollides(t), UNCHANGED job
    PROVE  Inv'
  <1> DEFINE v == call[t].value
  <1>f. /\ call[t].pc = "insert" /\ Return(t, Failed) /\ UNCHANGED <<map, counter, dbFaults>>
    BY DEF TokenCollides
  <1>1. PICK w \in DOMAIN map : map[w] = <<v.kind, call[t].id>>
    BY DEF TokenCollides, TokenTaken, NewToken
  <1>2. w.ws # v.ws
    <2>1. PICK n \in Nat \ {0} : map[w] = <<w.kind, n>> /\ n < counter[<<w.ws, w.kind>>]
      BY MapToken
    <2>2. w.kind = v.kind /\ n = call[t].id
      BY <1>1, <2>1
    <2>3. call[t].id = counter[<<v.ws, v.kind>>] /\ counter[<<v.ws, v.kind>>] \in Nat
      BY <1>f, Typed DEF CallInv, Inv, LockInv
    <2> QED
      BY <2>1, <2>2, <2>3
  <1>3. Becomes(t, "done", v, call[t].seen, call[t].id, Failed)
    BY <1>f, Returns
  <1>4. /\ \A u \in Tasks \ {t} : call'[u] = call[u]
        /\ call'[t].pc = "done" /\ call'[t].value = v /\ call'[t].id = call[t].id
    BY <1>3, OneCall DEF CallSteps
  <1>5. Explained(t)'
    BY <1>f, <1>1, <1>2, <1>4 DEF Explained, NewToken
  <1>6. LockInv'
    BY <1>f, <1>4, LocksKept
  <1>7. /\ MapGrows /\ MapInv' /\ counter' \in [Workspaces \X Kinds -> Nat \ {0}]
        /\ dbFaults' \in 0..MaxDbFaults
    BY <1>f DEF MapGrows, Inv, MapInv, Shapes
  <1>8. call[t].seen # NoToken => v \in DOMAIN map /\ call[t].seen = map[v]
    BY Typed DEF CallInv
  <1> HIDE DEF v
  <1> QED
    BY <1>f, <1>3, <1>5, <1>6, <1>7, <1>8, CallStep, Parameters DEF CallSteps, v

LEMMA DbFailsInv ==
    ASSUME Inv, NEW t \in Tasks, DbFails(t), UNCHANGED job
    PROVE  Inv'
  <1>f. /\ call[t].pc # "idle" /\ Return(t, Failed) /\ UNCHANGED <<map, counter>>
        /\ dbFaults < MaxDbFaults /\ dbFaults' = dbFaults + 1
    BY DEF DbFails
  <1>1. Becomes(t, "done", call[t].value, call[t].seen, call[t].id, Failed)
    BY <1>f, Returns
  <1>2. LockInv'
    BY <1>f, <1>1, OneCall, LocksKept DEF CallSteps
  <1>3. /\ MapGrows /\ MapInv' /\ counter' \in [Workspaces \X Kinds -> Nat \ {0}]
    BY <1>f DEF MapGrows, Inv, MapInv, Shapes
  <1>4. dbFaults' \in 0..MaxDbFaults /\ dbFaults' # 0
    BY <1>f, Typed, Parameters
  <1>5. call[t].seen # NoToken => call[t].value \in DOMAIN map /\ call[t].seen = map[call[t].value]
    BY Typed DEF CallInv
  <1> QED
    BY <1>f, <1>1, <1>2, <1>3, <1>4, <1>5, CallStep, Parameters DEF CallSteps

LEMMA VaultStepInv ==
    ASSUME Inv, NEW t \in Tasks, VaultStep(t), UNCHANGED job
    PROVE  Inv'
  BY LookUpInv, StartStatementInv, BumpInv, InsertTokenInv, LoseRaceInv, TokenCollidesInv,
      DbFailsInv DEF VaultStep

-----------------------------------------------------------------------------
(* Each step of sanitize preserves it.                                     *)

JobOf(pc, input, found, spans, cursor, out) ==
    [pc |-> pc, input |-> input, found |-> found, spans |-> spans, cursor |-> cursor, out |-> out]

\* The step leaves t's job as this record, its text as it was, and the other
\* jobs alone.
JobBecomes(t, pc, found, spans, cursor, out) ==
    job' = [job EXCEPT ![t] = JobOf(pc, job[t].input, found, spans, cursor, out)]

LEMMA JobEqual ==
    ASSUME NEW pc, NEW input, NEW found, NEW spans, NEW cursor, NEW out,
           NEW j \in [pc : {pc}, input : {input}, found : {found}, spans : {spans},
                      cursor : {cursor}, out : {out}]
    PROVE  j = JobOf(pc, input, found, spans, cursor, out)
  BY DEF JobOf

\* A text's output and what is appended to it: a cell, or text as it stands.
LEMMA CellAppended ==
    ASSUME NEW out, out \in Seq(Range(out)), NEW cell
    PROVE  /\ out \o <<cell>> \in Seq(Range(out \o <<cell>>))
           /\ \A c \in Range(out \o <<cell>>) : c \in Range(out) \/ c = cell
  <1> DEFINE S == Range(out) \cup {cell}
             new == out \o <<cell>>
  <1>1. out \in Seq(S) /\ cell \in S
    BY SeqMonotonic
  <1>2. \A c \in S : c \in Range(out) \/ c = cell
    OBVIOUS
  <1> HIDE DEF S
  <1>3. <<cell>> \in Seq(S)
    BY <1>1
  <1>4. new \in Seq(S)
    BY <1>1, <1>3, ConcatProperties
  <1> HIDE DEF new
  <1>5. Range(new) \subseteq S /\ new \in Seq(Range(new))
    BY <1>4, RangeOfSeq, SeqOfRange
  <1> QED
    BY <1>2, <1>5 DEF new

LEMMA RawAppended ==
    ASSUME NEW out, out \in Seq(Range(out)), NEW from, NEW to
    PROVE  /\ out \o Raw(from, to) \in Seq(Range(out \o Raw(from, to)))
           /\ \A c \in Range(out \o Raw(from, to)) : c \in Range(out) \/ c.token = NoToken
  <1> DEFINE gap == Cell(Span(from, to, "raw"), NoToken)
  <1>1. gap.token = NoToken
    BY DEF Cell
  <1>2. CASE Raw(from, to) = <<gap>>
    <2> HIDE DEF gap
    <2> QED
      BY <1>1, <1>2, CellAppended
  <1>3. CASE Raw(from, to) = <<>>
    <2>1. out \o <<>> = out
      BY ConcatEmptySeq
    <2> QED
      BY <1>3, <2>1
  <1> QED
    BY <1>2, <1>3 DEF Raw

\* What has to be shown of a step of t's job that leaves it without a call.
LEMMA JobStep ==
    ASSUME Inv, NEW t \in Tasks, NEW pc, NEW found, NEW spans, NEW cursor, NEW out,
           JobBecomes(t, pc, found, spans, cursor, out),
           Becomes(t, "idle", NoToken, NoToken, 0, NoToken),
           UNCHANGED <<map, counter, dbFaults>>,
           out \in Seq(Range(out)),
           \A c \in Range(out) : c.token # NoToken => Stands(job[t].input, c)
    PROVE  Inv'
  <1>1. job = [u \in Tasks |-> job[u]]
    BY DEF Inv, Shapes
  <1>2. /\ job'[t] = JobOf(pc, job[t].input, found, spans, cursor, out)
        /\ \A u \in Tasks \ {t} : job'[u] = job[u]
        /\ job' = [u \in Tasks |-> job'[u]]
    BY <1>1 DEF JobBecomes
  <1>3. /\ JobShape(job'[t]) /\ job'[t].input = job[t].input /\ job'[t].out = out
    BY <1>2 DEF JobOf, JobShape
  <1>4. /\ call'[t] = CallOf("idle", NoToken, NoToken, 0, NoToken)
        /\ \A u \in Tasks \ {t} : call'[u] = call[u]
        /\ call' = [u \in Tasks |-> call'[u]]
        /\ call'[t].pc = "idle" /\ call'[t].seen = NoToken /\ call'[t].result = NoToken
        /\ \A u \in Tasks : CallShape(call'[u]) /\ call'[u].pc \in CallSteps
    BY OneCall DEF CallSteps
  <1>5. \A u \in Tasks \ {t} : /\ CallInv(u)' /\ JobInv(u)' /\ OutInv(u)'
                                /\ (Explained(u) => Explained(u)')
    BY <1>2, <1>4, OthersKept DEF MapGrows
  <1>6. CallInv(t)'
    BY <1>4 DEF CallInv, NoCall, CallOf
  <1>7. JobInv(t)'
    BY <1>4 DEF JobInv
  <1>8. OutInv(t)'
    BY <1>3 DEF OutInv, Stands
  <1>9. Shapes'
    BY <1>2, <1>3, <1>4 DEF Inv, Shapes
  <1>10. MapInv' /\ LockInv' /\ FailureInv'
    <2>1. LockInv'
      BY <1>4, LocksKept
    <2>2. FailureInv'
      BY <1>4, <1>5, Parameters DEF Inv, FailureInv
    <2> QED
      BY <2>1, <2>2 DEF Inv, MapInv
  <1> QED
    BY <1>5, <1>6, <1>7, <1>8, <1>9, <1>10 DEF Inv

\* A task that is not in a call stays out of one.
LEMMA NoCallKept ==
    ASSUME Inv, NEW t \in Tasks, call[t].pc = "idle", UNCHANGED call
    PROVE  Becomes(t, "idle", NoToken, NoToken, 0, NoToken)
  <1>1. call[t] = CallOf("idle", NoToken, NoToken, 0, NoToken)
    BY Typed DEF CallInv, NoCall, CallOf
  <1>2. call = [u \in Tasks |-> call[u]]
    BY DEF Inv, Shapes
  <1> QED
    BY <1>1, <1>2 DEF Becomes

\* The step of a job as the record it leaves behind.
LEMMA BeginIs ==
    ASSUME Inv, NEW t \in Tasks, Begin(t)
    PROVE  \E ner \in ScanFrom(model, job[t].input) : \E found, spans :
              /\ model' = ner.model /\ found = regex_scan(job[t].input.candidates) \o ner.spans
              /\ spans = Within(merge_and_dedup(found), Len(job[t].input.text))
              /\ JobBecomes(t, "span", found, spans, job[t].cursor, job[t].out)
  <1> DEFINE j == job[t]
  <1>1. PICK ner \in ScanFrom(model, j.input) :
          LET found == regex_scan(j.input.candidates) \o ner.spans
              text == Len(j.input.text)
          IN  /\ job' = [job EXCEPT ![t].pc = "span", ![t].found = found,
                                    ![t].spans = Within(merge_and_dedup(found), text)]
              /\ model' = ner.model
    BY DEF Begin
  <1> DEFINE found == regex_scan(j.input.candidates) \o ner.spans
             spans == Within(merge_and_dedup(found), Len(j.input.text))
  <1>2. job' = [job EXCEPT ![t].pc = "span", ![t].found = found, ![t].spans = spans]
    BY <1>1
  <1> HIDE DEF found, spans
  <1>3. JobBecomes(t, "span", found, spans, j.cursor, j.out)
    <2>1. JobShape(j) /\ job = [u \in Tasks |-> job[u]]
      BY DEF Inv, Shapes
    <2>2. [j EXCEPT !.pc = "span", !.found = found, !.spans = spans] \in
            [pc : {"span"}, input : {j.input}, found : {found}, spans : {spans},
             cursor : {j.cursor}, out : {j.out}]
      BY <2>1 DEF JobShape
    <2>3. [j EXCEPT !.pc = "span", !.found = found, !.spans = spans]
            = JobOf("span", j.input, found, spans, j.cursor, j.out)
      BY <2>2, JobEqual
    <2> QED
      BY <1>2, <2>1, <2>3 DEF JobBecomes
  <1> QED
    BY <1>1, <1>3 DEF found, spans

LEMMA BeginInv ==
    ASSUME Inv, NEW t \in Tasks, Begin(t)
    PROVE  Inv'
  <1>f. call[t].pc = "idle" /\ UNCHANGED <<map, counter, call, dbFaults>>
    <2>1. job[t].pc = "idle" /\ UNCHANGED <<map, counter, call, dbFaults>>
      BY DEF Begin, vaultVars
    <2> QED
      BY <2>1, Typed DEF JobInv
  <1>1. PICK found, spans : JobBecomes(t, "span", found, spans, job[t].cursor, job[t].out)
    BY BeginIs
  <1>2. Becomes(t, "idle", NoToken, NoToken, 0, NoToken)
    BY <1>f, NoCallKept
  <1>3. /\ job[t].out \in Seq(Range(job[t].out))
        /\ \A c \in Range(job[t].out) : c.token # NoToken => Stands(job[t].input, c)
    BY Typed DEF OutInv
  <1> QED
    BY <1>f, <1>1, <1>2, <1>3, JobStep

LEMMA FinishIs ==
    ASSUME Inv, NEW t \in Tasks, Finish(t)
    PROVE  JobBecomes(t, "done", job[t].found, job[t].spans, job[t].cursor,
                      job[t].out \o Raw(job[t].cursor, Len(job[t].input.text)))
  <1> DEFINE j == job[t]
             out == j.out \o Raw(j.cursor, Len(j.input.text))
  <1>1. job' = [job EXCEPT ![t].pc = "done", ![t].out = out]
    BY DEF Finish
  <1> HIDE DEF out
  <1>2. JobShape(j) /\ job = [u \in Tasks |-> job[u]]
    BY DEF Inv, Shapes
  <1>3. [j EXCEPT !.pc = "done", !.out = out] \in
          [pc : {"done"}, input : {j.input}, found : {j.found}, spans : {j.spans},
           cursor : {j.cursor}, out : {out}]
    BY <1>2 DEF JobShape
  <1>4. [j EXCEPT !.pc = "done", !.out = out]
          = JobOf("done", j.input, j.found, j.spans, j.cursor, out)
    BY <1>3, JobEqual
  <1>5. JobBecomes(t, "done", j.found, j.spans, j.cursor, out)
    BY <1>1, <1>2, <1>4 DEF JobBecomes
  <1> QED
    BY <1>5 DEF out

LEMMA FinishInv ==
    ASSUME Inv, NEW t \in Tasks, Finish(t)
    PROVE  Inv'
  <1> DEFINE j == job[t]
             out == j.out \o Raw(j.cursor, Len(j.input.text))
  <1>f. j.spans = <<>> /\ UNCHANGED <<map, counter, call, dbFaults>>
    BY DEF Finish, vaultVars
  <1>o. /\ j.out \in Seq(Range(j.out))
        /\ \A c \in Range(j.out) : c.token # NoToken => Stands(j.input, c)
    BY Typed DEF OutInv
  <1>1. out \in Seq(Range(out)) /\ \A c \in Range(out) : c \in Range(j.out) \/ c.token = NoToken
    BY <1>o, RawAppended
  <1>2. JobBecomes(t, "done", j.found, j.spans, j.cursor, out)
    BY FinishIs
  <1> HIDE DEF out
  <1>3. Becomes(t, "idle", NoToken, NoToken, 0, NoToken)
    BY <1>f, NoCallKept, Typed DEF JobInv
  <1> QED
    BY <1>f, <1>o, <1>1, <1>2, <1>3, JobStep

LEMMA SubstituteIs ==
    ASSUME Inv, NEW t \in Tasks, NEW token, Substitute(t, token)
    PROVE  JobBecomes(t, job[t].pc, job[t].found, Tail(job[t].spans), Current(t).end,
                      job[t].out \o Raw(job[t].cursor, Current(t).start)
                                 \o <<Cell(Current(t), token)>>)
  <1> DEFINE j == job[t]
             out == j.out \o Raw(j.cursor, Current(t).start) \o <<Cell(Current(t), token)>>
             end == Current(t).end
             spans == Tail(j.spans)
  <1>1. job' = [job EXCEPT ![t].out = out, ![t].cursor = end, ![t].spans = spans]
    BY DEF Substitute
  <1> HIDE DEF out, end, spans
  <1>2. JobShape(j) /\ job = [u \in Tasks |-> job[u]]
    BY DEF Inv, Shapes
  <1>3. [j EXCEPT !.out = out, !.cursor = end, !.spans = spans] \in
          [pc : {j.pc}, input : {j.input}, found : {j.found}, spans : {spans},
           cursor : {end}, out : {out}]
    BY <1>2 DEF JobShape
  <1>4. [j EXCEPT !.out = out, !.cursor = end, !.spans = spans]
          = JobOf(j.pc, j.input, j.found, spans, end, out)
    BY <1>3, JobEqual
  <1>5. JobBecomes(t, j.pc, j.found, spans, end, out)
    BY <1>1, <1>2, <1>4 DEF JobBecomes
  <1> QED
    BY <1>5 DEF out, end, spans

\* The current span is replaced by a token that stands for what was there, or
\* by a placeholder.
LEMMA SubstituteInv ==
    ASSUME Inv, NEW t \in Tasks, NEW token, Substitute(t, token),
           Becomes(t, "idle", NoToken, NoToken, 0, NoToken), UNCHANGED <<map, counter, dbFaults>>,
           token # NoToken =>
              LET v == Value(job[t].input.ws, Current(t).kind, RawValue(t))
              IN  v \in DOMAIN map /\ map[v] = token
    PROVE  Inv'
  <1> DEFINE j == job[t]
             cell == Cell(Current(t), token)
             raw == Raw(j.cursor, Current(t).start)
             out == j.out \o raw \o <<cell>>
  <1>o. /\ j.out \in Seq(Range(j.out))
        /\ \A c \in Range(j.out) : c.token # NoToken => Stands(j.input, c)
    BY Typed DEF OutInv
  <1>2. /\ out \in Seq(Range(out))
        /\ \A c \in Range(out) : c \in Range(j.out) \/ c.token = NoToken \/ c = cell
    <2> DEFINE most == j.out \o raw
    <2>1. /\ most \in Seq(Range(most))
          /\ \A c \in Range(most) : c \in Range(j.out) \/ c.token = NoToken
      BY <1>o, RawAppended
    <2> HIDE DEF most, cell
    <2>2. /\ most \o <<cell>> \in Seq(Range(most \o <<cell>>))
          /\ \A c \in Range(most \o <<cell>>) : c \in Range(most) \/ c = cell
      BY <2>1, CellAppended
    <2> QED
      BY <2>1, <2>2 DEF most
  <1>3. cell.span = Current(t) /\ cell.token = token
    BY DEF Cell
  <1>4. token # NoToken => Stands(j.input, cell)
    BY <1>3 DEF Stands, RawValue
  <1>5. \A c \in Range(out) : c.token # NoToken => Stands(j.input, c)
    <2> HIDE DEF cell, out
    <2> QED
      BY <1>o, <1>2, <1>3, <1>4
  <1>6. JobBecomes(t, j.pc, j.found, Tail(j.spans), Current(t).end, out)
    BY SubstituteIs
  <1> HIDE DEF out
  <1>7. out \in Seq(Range(out))
    BY <1>2
  <1> QED
    BY <1>5, <1>6, <1>7, JobStep

LEMMA CallVaultInv ==
    ASSUME Inv, NEW t \in Tasks, CallVault(t)
    PROVE  Inv'
  <1> DEFINE v == Value(job[t].input.ws, Current(t).kind, RawValue(t))
  <1>f. /\ call[t].pc = "idle" /\ UNCHANGED <<map, counter, dbFaults, job>>
        /\ job[t].input.ws \in Workspaces /\ Current(t).kind \in Kinds
        /\ job[t].pc = "span" /\ job[t].spans # <<>> /\ job[t].input.vault
        /\ call' = [call EXCEPT ![t] = [NoCall EXCEPT !.pc = "lookup", !.value = v]]
    BY DEF CallVault, Tokenize
  <1>v. Valued(v)
    BY <1>f DEF Value, Valued
  <1> HIDE DEF v
  <1>1. Becomes(t, "lookup", v, NoToken, 0, NoToken)
    <2> DEFINE c == [NoCall EXCEPT !.pc = "lookup", !.value = v]
    <2>1. c \in [pc : {"lookup"}, value : {v}, seen : {NoToken}, id : {0}, result : {NoToken}]
      BY DEF NoCall
    <2> HIDE DEF c
    <2>2. c = CallOf("lookup", v, NoToken, 0, NoToken)
      BY <2>1, CallEqual
    <2> QED
      BY <1>f, <2>2 DEF Becomes, c
  <1>2. /\ \A u \in Tasks \ {t} : call'[u] = call[u]
        /\ call' = [u \in Tasks |-> call'[u]]
        /\ call'[t].pc = "lookup" /\ call'[t].value = v
        /\ call'[t].seen = NoToken /\ call'[t].result = NoToken
        /\ \A u \in Tasks : CallShape(call'[u]) /\ call'[u].pc \in CallSteps
    BY <1>1, OneCall DEF CallSteps
  <1>3. \A u \in Tasks \ {t} : /\ CallInv(u)' /\ JobInv(u)' /\ OutInv(u)'
                                /\ (Explained(u) => Explained(u)')
    BY <1>f, <1>2, OthersKept DEF MapGrows
  <1>4. CallInv(t)'
    BY <1>2, <1>v DEF CallInv, Valued
  <1>5. JobInv(t)'
    BY <1>f, <1>2 DEF JobInv, Current, RawValue, v
  <1>6. OutInv(t)'
    BY <1>f, Typed DEF OutInv, Stands
  <1>7. LockInv'
    BY <1>f, <1>2, LocksKept
  <1>8. FailureInv'
    BY <1>f, <1>2, <1>3, Parameters DEF Inv, FailureInv
  <1>9. Shapes' /\ MapInv'
    BY <1>f, <1>2 DEF Inv, Shapes, MapInv
  <1> QED
    BY <1>3, <1>4, <1>5, <1>6, <1>7, <1>8, <1>9 DEF Inv

LEMMA RenderTokenInv ==
    ASSUME Inv, NEW t \in Tasks, RenderToken(t)
    PROVE  Inv'
  <1> DEFINE token == IF call[t].result = Failed THEN NoToken ELSE call[t].result
  <1>f. /\ call[t].pc = "done" /\ Substitute(t, token) /\ call' = [call EXCEPT ![t] = NoCall]
        /\ UNCHANGED <<map, counter, dbFaults>>
    BY DEF RenderToken
  <1>1. token # NoToken => call[t].value \in DOMAIN map /\ map[call[t].value] = token
    BY Typed DEF CallInv
  <1>2. call[t].value = Value(job[t].input.ws, Current(t).kind, RawValue(t))
    BY <1>f, Typed DEF JobInv
  <1>3. Becomes(t, "idle", NoToken, NoToken, 0, NoToken)
    BY <1>f DEF Becomes, NoCall, CallOf
  <1> HIDE DEF token
  <1> QED
    BY <1>f, <1>1, <1>2, <1>3, SubstituteInv

LEMMA RenderPlaceholderInv ==
    ASSUME Inv, NEW t \in Tasks, RenderPlaceholder(t)
    PROVE  Inv'
  <1>f. /\ ~job[t].input.vault /\ Substitute(t, NoToken)
        /\ UNCHANGED <<map, counter, call, dbFaults>>
    BY DEF RenderPlaceholder, vaultVars
  <1>1. Becomes(t, "idle", NoToken, NoToken, 0, NoToken)
    BY <1>f, NoCallKept, Typed DEF JobInv
  <1> QED
    BY <1>f, <1>1, SubstituteInv

-----------------------------------------------------------------------------
(* The theorems.                                                           *)

\* Empty tables, no call and nothing written yet.
LEMMA InvInit == Init => Inv
  <1> SUFFICES ASSUME Init PROVE Inv
    OBVIOUS
  <1>1. PICK given \in Inputs : job = [t \in Tasks |-> [NoJob EXCEPT !.input = given[t]]]
    BY DEF Init
  <1>2. \A t \in Tasks : job[t] = JobOf("idle", given[t], <<>>, <<>>, 0, <<>>)
    <2> TAKE t \in Tasks
    <2>1. job[t] \in [pc : {"idle"}, input : {given[t]}, found : {<<>>}, spans : {<<>>},
                      cursor : {0}, out : {<<>>}]
      BY <1>1 DEF NoJob
    <2> QED
      BY <2>1, JobEqual
  <1>3. \A t \in Tasks : JobShape(job[t]) /\ job[t].out = <<>>
    <2> TAKE t \in Tasks
    <2>1. job[t] = JobOf("idle", given[t], <<>>, <<>>, 0, <<>>)
      BY <1>2
    <2> QED
      BY <2>1 DEF JobOf, JobShape
  <1>4. /\ map = <<>> /\ DOMAIN map = {}
        /\ \A t \in Tasks : call[t] = NoCall /\ CallShape(call[t])
        /\ call = [t \in Tasks |-> call[t]] /\ job = [t \in Tasks |-> job[t]]
    BY <1>1 DEF Init, VaultInit, NoCall, CallShape
  <1>5. NoCall.pc = "idle" /\ NoCall.seen = NoToken /\ NoCall.result = NoToken
    BY DEF NoCall
  <1>6. Shapes
    BY <1>3, <1>4, <1>5, Parameters DEF Shapes, CallSteps, Init, VaultInit
  <1>7. MapInv /\ LockInv /\ FailureInv
    BY <1>4, <1>5, Parameters DEF MapInv, LockInv, FailureInv
  <1>8. \A t \in Tasks : CallInv(t) /\ JobInv(t)
    BY <1>4, <1>5 DEF CallInv, JobInv
  <1>9. \A t \in Tasks : OutInv(t)
    <2>1. Range(<<>>) = {} /\ <<>> \in Seq(Range(<<>>))
      BY DEF Range
    <2> QED
      BY <1>3, <2>1 DEF OutInv
  <1> QED
    BY <1>6, <1>7, <1>8, <1>9 DEF Inv

LEMMA InvNext == Inv /\ [Next]_vars => Inv'
  <1>1. ASSUME Inv, NEW t \in Tasks, Step(t) PROVE Inv'
    BY <1>1, BeginInv, CallVaultInv, RenderTokenInv, RenderPlaceholderInv, FinishInv, VaultStepInv
        DEF Step
  <1>2. ASSUME Inv, UNCHANGED vars PROVE Inv'
    <2>1. UNCHANGED <<map, counter, call, dbFaults, job>>
      BY <1>2 DEF vars, vaultVars
    <2>2. \A t \in Tasks : CallInv(t)' /\ JobInv(t)' /\ OutInv(t)' /\ (Explained(t) => Explained(t)')
      BY <1>2, <2>1, OthersKept DEF MapGrows
    <2>3. Shapes' /\ MapInv' /\ LockInv'
      BY <1>2, <2>1 DEF Inv, Shapes, MapInv, LockInv, RowLockFree
    <2>4. FailureInv'
      BY <1>2, <2>1, <2>2 DEF Inv, FailureInv
    <2> QED
      BY <2>2, <2>3, <2>4 DEF Inv
  <1> QED
    BY <1>1, <1>2 DEF Next

\* The facts of every state from which the theorems follow.
THEOREM Invariance == Spec => []Inv
  BY InvInit, InvNext, PTL DEF Spec

\* pii_token_map, pii_token_counter: every row belongs to a workspace and holds
\* a token of its value's kind, and a call that is over has a result.
THEOREM VaultTypeCorrect == Spec => []VaultTypeOK
  <1>1. Inv => VaultTypeOK
    <2> SUFFICES ASSUME Inv PROVE VaultTypeOK
      OBVIOUS
    <2>1. \A v \in DOMAIN map : v.ws \in Workspaces /\ map[v] \in {v.kind} \X (Nat \ {0})
      <3> TAKE v \in DOMAIN map
      <3>1. PICK n \in Nat \ {0} : map[v] = <<v.kind, n>>
        BY MapToken
      <3>2. <<v.kind, n>> \in {v.kind} \X (Nat \ {0})
        OBVIOUS
      <3>3. v.ws \in Workspaces
        BY MapToken DEF Valued
      <3> QED
        BY <3>1, <3>2, <3>3
    <2>2. \A t \in Tasks : /\ call[t].pc \in CallSteps
                           /\ call[t].pc = "done" => call[t].result # NoToken
      BY Typed DEF Inv, Shapes, CallInv
    <2> QED
      BY <2>1, <2>2 DEF VaultTypeOK, Inv, Shapes, CallSteps
  <1> QED
    BY <1>1, Invariance, PTL

\* upsert: however calls for one value interleave, those that return a token
\* return the one that is stored for it.
THEOREM CallsConverge == Spec => []CallsAgree
  <1>1. Inv => CallsAgree
    BY Typed DEF CallsAgree, CallInv
  <1> QED
    BY <1>1, Invariance, PTL

\* upsert: while the database does not fail, a call fails only because another
\* statement gave its value a token under it, or because another workspace owns
\* the token it would mint.
THEOREM OnlyTheseFailures == Spec => []FailuresExplained
  <1>1. Inv => FailuresExplained
    BY DEF Inv, FailureInv, Explained, FailuresExplained
  <1> QED
    BY <1>1, Invariance, PTL

\* sanitize: every token written into a text stands in the vault, for ever, for
\* the value it replaced.
THEOREM TokensAlwaysDecode == Spec => []TokensDecode
  <1>1. Inv => TokensDecode
    <2> SUFFICES ASSUME Inv, NEW t \in Tasks, NEW i \in DOMAIN job[t].out,
                        job[t].out[i].token # NoToken
                 PROVE  Stands(job[t].input, job[t].out[i])
      BY DEF TokensDecode, Stands
    <2>1. job[t].out[i] \in Range(job[t].out)
      BY DEF Range
    <2> QED
      BY <2>1, Typed DEF OutInv
  <1> QED
    BY <1>1, Invariance, PTL

\* upsert: whatever calls do, pii_token_map only ever gives a new value a token
\* that no other value has, and keeps every row.
THEOREM VaultRefines == Spec => TokenMapSpec
  <1>1. Init => Minted!Init
    BY DEF Init, VaultInit, Minted!Init
  <1>2. Inv /\ [Next]_vars => [Minted!Next]_map
    <2> SUFFICES ASSUME Inv, [Next]_vars PROVE Minted!Next \/ UNCHANGED map
      OBVIOUS
    <2>1. CASE UNCHANGED map
      BY <2>1
    <2>2. ASSUME NEW t \in Tasks, InsertToken(t) PROVE Minted!Next
      <3> DEFINE v == call[t].value
                 token == NewToken(t)
      <3>1. /\ v \notin DOMAIN map /\ (\A w \in DOMAIN map : map[w] # token)
            /\ map' = [w \in DOMAIN map \cup {v} |-> IF w = v THEN token ELSE map[w]]
        BY <2>2 DEF InsertToken, TokenTaken
      <3> HIDE DEF v, token
      <3>2. v \in DOMAIN map' \ DOMAIN map /\ map'[v] = token
        BY <3>1
      <3>3. Minted!Mint(v, map'[v])
        BY <3>1, <3>2 DEF Minted!Mint
      <3> QED
        BY <3>2, <3>3 DEF Minted!Next
    <2> QED
      BY <2>1, <2>2 DEF Next, Step, Begin, CallVault, Tokenize, RenderToken, RenderPlaceholder,
          Finish, VaultStep, LookUp, StartStatement, Bump, LoseRace, TokenCollides, DbFails,
          vars, vaultVars
  <1> QED
    BY <1>1, <1>2, Invariance, PTL DEF Spec, TokenMapSpec, Minted!Spec

-----------------------------------------------------------------------------
(* What a text's findings and its output have to do with each other.       *)

Models == {"unloaded", "loaded", "missing"}

\* The patterns' findings and the model's are stretches of the text.
LEMMA TokensOf ==
    ASSUME NEW input, Fits(input), input.text \in Seq(Nat)
    PROVE  /\ Len(input.text) \in Nat /\ Len(input.tokens) \in Nat
           /\ TokensFit(input.tokens, Len(input.text), Len(input.tokens))
  <1>1. Len(input.text) \in Nat
    BY LenProperties
  <1>2. PICK length \in Nat : length = Len(input.text)
    BY <1>1
  <1>3. PICK tokens : tokens = input.tokens
    OBVIOUS
  <1>4. tokens \in Seq(TokensIn(length))
    BY <1>2, <1>3 DEF Fits, TokensIn
  <1>5. PICK n \in Nat : n = Len(tokens) /\ DOMAIN tokens = 1..n
    BY <1>4, LenProperties
  <1>6. \A i \in 1..n : ~Special(tokens[i]) =>
            /\ tokens[i].start < tokens[i].end
            /\ \A j \in (i + 1)..n : Special(tokens[j]) \/ tokens[i].end <= tokens[j].start
    BY <1>3, <1>5 DEF Fits
  <1>7. TokensFit(tokens, length, n)
    BY <1>4, <1>5, <1>6 DEF TokensFit
  <1> QED
    BY <1>2, <1>3, <1>5, <1>7

LEMMA Scanned ==
    ASSUME NEW input, Fits(input), NEW length \in Nat, length = Len(input.text)
    PROVE  regex_scan(input.candidates) \in Seq(SpansIn(length))
  <1> DEFINE S == [start : Nat, end : 1..length, kind : Kinds, chars : Seq(0..35)]
             c == input.candidates
             K == {i \in DOMAIN c : Valid(c[i])}
             hits == Selected(c, K)
  <1>1. c \in Seq(S) /\ \A i \in DOMAIN c : c[i].start < c[i].end
    BY DEF Fits, Range
  <1>2. K \subseteq DOMAIN c
    OBVIOUS
  <1>3. regex_scan(c) = [k \in DOMAIN hits |-> Span(hits[k].start, hits[k].end, hits[k].kind)]
    BY DEF regex_scan
  <1> HIDE DEF S, K
  <1>4. hits \in Seq(S) /\ \A k \in DOMAIN hits : \E i \in K : hits[k] = c[i]
    BY <1>1, <1>2, SelectedHolds
  <1>5. PICK m \in Nat : DOMAIN hits = 1..m
    BY <1>4, LenProperties
  <1> HIDE DEF hits, c
  <1>6. \A k \in 1..m : Span(hits[k].start, hits[k].end, hits[k].kind) \in SpansIn(length)
    <2> SUFFICES ASSUME NEW k \in 1..m
                 PROVE  Span(hits[k].start, hits[k].end, hits[k].kind) \in SpansIn(length)
      OBVIOUS
    <2>1. hits[k] \in S /\ hits[k].start < hits[k].end
      BY <1>1, <1>2, <1>4, <1>5, ElementOfSeq, LenProperties
    <2> QED
      BY <2>1 DEF S, Span, SpansIn
  <1> DEFINE spans == [k \in 1..m |-> Span(hits[k].start, hits[k].end, hits[k].kind)]
  <1>7. spans \in [1..m -> SpansIn(length)]
    BY <1>6
  <1>8. regex_scan(c) = spans
    BY <1>3, <1>5
  <1> HIDE DEF spans
  <1>9. spans \in Seq(SpansIn(length))
    BY <1>7
  <1> QED
    BY <1>8, <1>9 DEF c

LEMMA ScanReturns ==
    ASSUME NEW m \in Models, NEW input, Fits(input), input.text \in Seq(Nat),
           NEW length \in Nat, length = Len(input.text), NEW ner \in ScanFrom(m, input)
    PROVE  ner.model \in Models /\ ner.spans \in Seq(SpansIn(length))
  <1>1. bio_merge(input.tokens) \in Seq(SpansIn(length))
    <2>1. PICK n \in Nat : TokensFit(input.tokens, length, n)
      BY TokensOf
    <2> QED
      BY <2>1, BioMergeMarks
  <1>2. <<>> \in Seq(SpansIn(length))
    OBVIOUS
  <1>3. PICK merged : merged = bio_merge(input.tokens)
    OBVIOUS
  <1>4. \/ ner = [model |-> m, spans |-> <<>>] \/ ner = [model |-> "missing", spans |-> <<>>]
        \/ ner = [model |-> "loaded", spans |-> <<>>]
        \/ ner = [model |-> "loaded", spans |-> merged]
    BY <1>3 DEF ScanFrom
  <1>5. ner.model \in Models
    BY <1>4 DEF Models
  <1>6. ner.spans = <<>> \/ ner.spans = merged
    BY <1>4
  <1> QED
    BY <1>1, <1>2, <1>3, <1>5, <1>6

\* No span is passed over: all lie inside the text.
LEMMA WithinText ==
    ASSUME NEW length \in Nat, NEW spans \in Seq(SpansIn(length)), InOrder(spans)
    PROVE  /\ Within(spans, length) \in Seq(SpansIn(length)) /\ InOrder(Within(spans, length))
           /\ Range(Within(spans, length)) = Range(spans)
  <1> DEFINE K == {i \in DOMAIN spans : spans[i].end <= length}
             new == Selected(spans, K)
  <1>1. K = DOMAIN spans
    <2>1. \A i \in DOMAIN spans : spans[i] \in SpansIn(length)
      BY LenProperties, ElementOfSeq
    <2>2. \A i \in DOMAIN spans : spans[i].end <= length
      BY <2>1 DEF SpansIn
    <2> QED
      BY <2>2
  <1>2. Within(spans, length) = new
    BY DEF Within
  <1> HIDE DEF K
  <1>3. /\ new \in Seq(SpansIn(length))
        /\ \A i \in K : \E k \in DOMAIN new : new[k] = spans[i]
        /\ \A k \in DOMAIN new : \E i \in K : new[k] = spans[i]
        /\ \A j, k \in DOMAIN new :
             j < k => \E h, i \in K : h < i /\ new[j] = spans[h] /\ new[k] = spans[i]
    BY <1>1, SelectedHolds
  <1> HIDE DEF new
  <1>4. Range(new) = Range(spans)
    BY <1>1, <1>3 DEF Range
  <1>5. InOrder(new)
    <2> SUFFICES ASSUME NEW j \in DOMAIN new, NEW k \in DOMAIN new, j < k
                 PROVE  new[j].end <= new[k].start
      BY DEF InOrder
    <2>1. PICK h, i \in K : h < i /\ new[j] = spans[h] /\ new[k] = spans[i]
      BY <1>3
    <2> QED
      BY <1>1, <2>1 DEF InOrder
  <1> QED
    BY <1>2, <1>3, <1>4, <1>5

-----------------------------------------------------------------------------
(* The output.                                                             *)

\* The positions that a text's output shows, and the cells in its order, none
\* of them beyond n.
Shown(out) == UNION {Positions(c.span) : c \in {d \in Range(out) : d.span.kind = "raw"}}
Covered(spans) == UNION {Positions(s) : s \in Range(spans)}

WrittenTo(out, n) ==
    /\ out \in Seq(Range(out))
    /\ \A c \in Range(out) : c.span.start \in Nat /\ c.span.end \in Nat /\ c.span.end <= n
    /\ \A i, j \in DOMAIN out : i < j => out[i].span.end <= out[j].span.start

LEMMA CellIs == \A span, token : Cell(span, token).span = span
  BY DEF Cell

LEMMA CellWritten ==
    ASSUME NEW n \in Nat, NEW out, WrittenTo(out, n), NEW span, NEW token,
           span.start \in Nat, span.end \in Nat, n <= span.start, span.start <= span.end
    PROVE  /\ WrittenTo(out \o <<Cell(span, token)>>, span.end)
           /\ Range(out \o <<Cell(span, token)>>) = Range(out) \cup {Cell(span, token)}
  <1>1. PICK cell : cell = Cell(span, token)
    OBVIOUS
  <1>2. cell.span = span
    BY <1>1 DEF Cell
  <1>3. PICK S : S = Range(out) \cup {cell}
    OBVIOUS
  <1>4. out \in Seq(S) /\ cell \in S
    <2>1. out \in Seq(Range(out)) /\ Range(out) \subseteq S
      BY <1>3 DEF WrittenTo
    <2> QED
      BY <1>3, <2>1, SeqMonotonic
  <1>5. PICK new : new = out \o <<cell>>
    OBVIOUS
  <1>6. PICK l \in Nat : l = Len(out)
    BY <1>4, LenProperties
  <1>7. /\ new \in Seq(S) /\ Len(new) = l + 1 /\ new[l + 1] = cell
        /\ \A i \in 1..l : new[i] = out[i]
        /\ Range(new) = Range(out) \cup {cell}
    BY <1>4, <1>5, <1>6, Appended
  <1>8. DOMAIN new = 1..(l + 1) /\ DOMAIN out = 1..l
    BY <1>4, <1>6, <1>7, LenProperties
  <1>9. \A c \in Range(new) : c.span.start \in Nat /\ c.span.end \in Nat /\ c.span.end <= span.end
    BY <1>2, <1>7 DEF WrittenTo
  <1>10. ASSUME NEW i \in 1..(l + 1), NEW j \in 1..(l + 1), i < j
         PROVE  new[i].span.end <= new[j].span.start
    <2>1. i \in 1..l /\ (j = l + 1 \/ j \in 1..l)
      BY <1>10
    <2>2. CASE j = l + 1
      <3>1. out[i] \in Range(out)
        BY <1>8, <2>1 DEF Range
      <3>2. out[i].span.end \in Nat /\ out[i].span.end <= n
        BY <3>1 DEF WrittenTo
      <3> QED
        BY <1>2, <1>7, <2>1, <2>2, <3>2
    <2>3. CASE j \in 1..l
      BY <1>7, <1>8, <1>10, <2>1, <2>3 DEF WrittenTo
    <2> QED
      BY <2>1, <2>2, <2>3
  <1>11. new \in Seq(Range(new))
    BY <1>7, SeqOfRange
  <1> QED
    BY <1>1, <1>5, <1>7, <1>8, <1>9, <1>10, <1>11 DEF WrittenTo

\* What stands in the place of a span shows nothing of it.
LEMMA SpanWritten ==
    ASSUME NEW n \in Nat, NEW out, WrittenTo(out, n), NEW length, NEW span \in SpansIn(length),
           NEW token, n <= span.start
    PROVE  /\ WrittenTo(out \o <<Cell(span, token)>>, span.end)
           /\ Shown(out \o <<Cell(span, token)>>) = Shown(out)
  <1>1. /\ span.start \in Nat /\ span.end \in Nat /\ span.start <= span.end
        /\ span.kind # "raw"
    BY DEF SpansIn, Kinds, NameKinds
  <1>2. PICK cell : cell = Cell(span, token) /\ cell.span = span
    BY CellIs
  <1>3. PICK new : new = out \o <<cell>>
    OBVIOUS
  <1>4. WrittenTo(new, span.end) /\ Range(new) = Range(out) \cup {cell}
    BY <1>1, <1>2, <1>3, CellWritten
  <1>5. Shown(new) = Shown(out)
    <2>1. {d \in Range(new) : d.span.kind = "raw"} = {d \in Range(out) : d.span.kind = "raw"}
      BY <1>1, <1>2, <1>4
    <2> QED
      BY <2>1 DEF Shown
  <1> QED
    BY <1>2, <1>3, <1>4, <1>5

\* A stretch of the text shows just itself.
LEMMA RawWritten ==
    ASSUME NEW from \in Nat, NEW to \in Nat, from <= to, NEW out, WrittenTo(out, from)
    PROVE  /\ WrittenTo(out \o Raw(from, to), to)
           /\ Shown(out \o Raw(from, to)) = Shown(out) \cup (from..(to - 1))
  <1>1. CASE from < to
    <2>1. PICK span : span = Span(from, to, "raw")
      OBVIOUS
    <2>2. span.start = from /\ span.end = to /\ span.kind = "raw"
      BY <2>1 DEF Span
    <2>3. PICK cell : cell = Cell(span, NoToken) /\ cell.span = span
      BY CellIs
    <2>4. PICK new : new = out \o <<cell>>
      OBVIOUS
    <2>5. WrittenTo(new, to) /\ Range(new) = Range(out) \cup {cell}
      BY <2>2, <2>3, <2>4, CellWritten
    <2>6. Shown(new) = Shown(out) \cup Positions(span)
      <3>1. {d \in Range(new) : d.span.kind = "raw"}
              = {d \in Range(out) : d.span.kind = "raw"} \cup {cell}
        BY <2>2, <2>3, <2>5
      <3> QED
        BY <2>3, <3>1 DEF Shown
    <2>7. Positions(span) = from..(to - 1)
      BY <2>2 DEF Positions
    <2>8. out \o Raw(from, to) = new
      BY <1>1, <2>1, <2>3, <2>4 DEF Raw
    <2> QED
      BY <2>5, <2>6, <2>7, <2>8
  <1>2. CASE ~(from < to)
    <2>1. Raw(from, to) = <<>> /\ from = to /\ from..(to - 1) = {}
      BY <1>2 DEF Raw
    <2>2. out \o Raw(from, to) = out
      BY <2>1, ConcatEmptySeq DEF WrittenTo
    <2> QED
      BY <2>1, <2>2
  <1> QED
    BY <1>1, <1>2

-----------------------------------------------------------------------------
(* What is known of a job: up to where its text has been written, each     *)
(* position is shown or was found, and each finding starts under a span    *)
(* that is yet to be replaced or of which nothing is shown.                *)

Reached(j) == IF j.pc = "done" THEN Len(j.input.text) ELSE j.cursor

Hidden(j, s) ==
    \E r \in Range(j.found) :
        /\ Hides(r, s)
        /\ \/ r \in Range(j.spans)
           \/ r.end <= Reached(j) /\ Positions(r) \cap Shown(j.out) = {}

FindingsInv(j) ==
    LET length == Len(j.input.text)
    IN  /\ j.found \in Seq(SpansIn(length)) /\ j.spans \in Seq(SpansIn(length))
        /\ Range(j.spans) \subseteq Range(j.found)
        /\ InOrder(j.spans) /\ \A s \in Range(j.spans) : j.cursor <= s.start
        /\ \A s \in Range(j.found) : Hidden(j, s)

OutputInv(j) ==
    /\ j.cursor \in 0..Len(j.input.text)
    /\ WrittenTo(j.out, Reached(j))
    /\ Shown(j.out) \subseteq 0..(Reached(j) - 1)
    /\ 0..(Reached(j) - 1) \subseteq Shown(j.out) \cup Covered(j.found)

ClearJob(j) ==
    /\ j.pc \in {"idle", "span", "done"}
    /\ j.input.text \in Seq(Nat) /\ Fits(j.input)
    /\ j.pc = "idle" => j.out = <<>> /\ j.cursor = 0
    /\ j.pc = "done" => j.spans = <<>>
    /\ FindingsInv(j) /\ OutputInv(j)

ClearInv == model \in Models /\ \A t \in Tasks : ClearJob(job[t])

LEMMA NothingWritten == WrittenTo(<<>>, 0) /\ Shown(<<>>) = {} /\ Range(<<>>) = {}
  <1>1. Range(<<>>) = {}
    BY DEF Range
  <1>2. WrittenTo(<<>>, 0)
    BY <1>1 DEF WrittenTo
  <1>3. Shown(<<>>) = {}
    BY <1>1 DEF Shown
  <1> QED
    BY <1>1, <1>2, <1>3

LEMMA JobFields ==
    ASSUME NEW pc, NEW input, NEW found, NEW spans, NEW cursor, NEW out
    PROVE  LET j == JobOf(pc, input, found, spans, cursor, out)
           IN  /\ j.pc = pc /\ j.input = input /\ j.found = found
               /\ j.spans = spans /\ j.cursor = cursor /\ j.out = out
  BY DEF JobOf

\* Nothing found, nothing written yet.
LEMMA ClearIdle ==
    ASSUME NEW input, input.text \in Seq(Nat), Fits(input)
    PROVE  ClearJob(JobOf("idle", input, <<>>, <<>>, 0, <<>>))
  <1>1. PICK j : j = JobOf("idle", input, <<>>, <<>>, 0, <<>>)
    OBVIOUS
  <1>2. /\ j.pc = "idle" /\ j.input = input /\ j.found = <<>>
        /\ j.spans = <<>> /\ j.cursor = 0 /\ j.out = <<>>
    BY <1>1, JobFields
  <1>3. Len(input.text) \in Nat
    BY LenProperties
  <1>4. Reached(j) = 0 /\ 0..(Reached(j) - 1) = {}
    BY <1>2 DEF Reached
  <1>5. OutputInv(j)
    BY <1>2, <1>3, <1>4, NothingWritten DEF OutputInv
  <1>6. \A length : <<>> \in Seq(SpansIn(length))
    OBVIOUS
  <1>7. FindingsInv(j)
    BY <1>2, <1>6, NothingWritten DEF FindingsInv, InOrder
  <1>8. ClearJob(j)
    BY <1>2, <1>5, <1>7 DEF ClearJob
  <1> QED
    BY <1>1, <1>8

\* Begin: what is found, merged, hides all of it.
LEMMA ClearBegun ==
    ASSUME NEW j, ClearJob(j), j.pc = "idle", NEW m \in Models, NEW ner \in ScanFrom(m, j.input),
           NEW found, found = regex_scan(j.input.candidates) \o ner.spans,
           NEW spans, spans = Within(merge_and_dedup(found), Len(j.input.text))
    PROVE  ner.model \in Models /\ ClearJob(JobOf("span", j.input, found, spans, j.cursor, j.out))
  <1>1. /\ j.input.text \in Seq(Nat) /\ Fits(j.input) /\ j.out = <<>> /\ j.cursor = 0
    BY DEF ClearJob
  <1>2. PICK length \in Nat : length = Len(j.input.text)
    BY <1>1, LenProperties
  <1>3. PICK a \in Seq(SpansIn(length)) : a = regex_scan(j.input.candidates)
    BY <1>1, <1>2, Scanned
  <1>4. PICK b \in Seq(SpansIn(length)) : b = ner.spans /\ ner.model \in Models
    BY <1>1, <1>2, ScanReturns
  <1>5. found \in Seq(SpansIn(length))
    BY <1>3, <1>4, ConcatProperties
  <1>6. PICK merged : merged = merge_and_dedup(found)
    OBVIOUS
  <1>7. /\ merged \in Seq(SpansIn(length)) /\ InOrder(merged)
        /\ Range(merged) \subseteq Range(found)
        /\ \A s \in Range(found) : \E r \in Range(merged) : Hides(r, s)
    BY <1>5, <1>6, MergeHides
  <1>8. spans = Within(merged, length)
    BY <1>2, <1>6
  <1>9. spans \in Seq(SpansIn(length)) /\ InOrder(spans) /\ Range(spans) = Range(merged)
    BY <1>7, <1>8, WithinText
  <1>10. PICK new : new = JobOf("span", j.input, found, spans, j.cursor, j.out)
    OBVIOUS
  <1>11. /\ new.pc = "span" /\ new.input = j.input /\ new.found = found
         /\ new.spans = spans /\ new.cursor = 0 /\ new.out = <<>>
    BY <1>1, <1>10 DEF JobOf
  <1>12. \A s \in Range(found) : Hidden(new, s)
    BY <1>7, <1>9, <1>11 DEF Hidden
  <1>13. \A s \in Range(spans) : 0 <= s.start
    BY <1>9, RangeOfSeq DEF SpansIn
  <1>14. FindingsInv(new)
    BY <1>2, <1>5, <1>7, <1>9, <1>11, <1>12, <1>13 DEF FindingsInv
  <1>15. Reached(new) = 0 /\ 0..(Reached(new) - 1) = {}
    BY <1>11 DEF Reached
  <1>16. OutputInv(new)
    BY <1>2, <1>11, <1>15, NothingWritten DEF OutputInv
  <1>17. ClearJob(new)
    BY <1>1, <1>11, <1>14, <1>16 DEF ClearJob
  <1> QED
    BY <1>4, <1>10, <1>17

\* Finish: the text after the last span is shown.
LEMMA ClearFinished ==
    ASSUME NEW j, ClearJob(j), j.pc = "span", j.spans = <<>>
    PROVE  ClearJob(JobOf("done", j.input, j.found, j.spans, j.cursor,
                          j.out \o Raw(j.cursor, Len(j.input.text))))
  <1>1. PICK length \in Nat : length = Len(j.input.text)
    BY LenProperties DEF ClearJob
  <1>2. PICK from \in 0..length : from = j.cursor
    BY <1>1 DEF ClearJob, OutputInv
  <1>3. Reached(j) = from
    BY <1>2 DEF Reached
  <1>4. PICK out : out = j.out \o Raw(from, length)
    OBVIOUS
  <1>5. /\ WrittenTo(j.out, from) /\ Shown(j.out) \subseteq 0..(from - 1)
        /\ 0..(from - 1) \subseteq Shown(j.out) \cup Covered(j.found)
    BY <1>3 DEF ClearJob, OutputInv
  <1>6. WrittenTo(out, length) /\ Shown(out) = Shown(j.out) \cup (from..(length - 1))
    BY <1>4, <1>5, RawWritten
  <1>7. PICK new : new = JobOf("done", j.input, j.found, j.spans, j.cursor, out)
    OBVIOUS
  <1>8. /\ new.pc = "done" /\ new.input = j.input /\ new.found = j.found
        /\ new.spans = <<>> /\ new.cursor = from /\ new.out = out
    BY <1>2, <1>7 DEF JobOf
  <1>9. Reached(new) = length
    BY <1>1, <1>8 DEF Reached
  <1>10. OutputInv(new)
    <2>1. Shown(out) \subseteq 0..(length - 1)
      BY <1>5, <1>6
    <2>2. 0..(length - 1) \subseteq Shown(out) \cup Covered(j.found)
      BY <1>5, <1>6
    <2> QED
      BY <1>1, <1>6, <1>8, <1>9, <2>1, <2>2 DEF OutputInv
  <1>11. ASSUME NEW s \in Range(j.found) PROVE Hidden(new, s)
    <2>1. PICK r \in Range(j.found) :
            Hides(r, s) /\ r.end <= from /\ Positions(r) \cap Shown(j.out) = {}
      BY <1>3, NothingWritten DEF ClearJob, FindingsInv, Hidden
    <2>2. r \in SpansIn(length)
      BY <1>1, RangeOfSeq DEF ClearJob, FindingsInv
    <2>3. r.start \in Nat /\ r.end \in Nat
      BY <2>2 DEF SpansIn
    <2>4. Positions(r) \cap (from..(length - 1)) = {}
      BY <2>1, <2>3 DEF Positions
    <2>5. r.end <= length /\ Positions(r) \cap Shown(out) = {}
      BY <1>6, <2>1, <2>3, <2>4
    <2> QED
      BY <1>8, <1>9, <2>1, <2>5 DEF Hidden
  <1>12. FindingsInv(new)
    BY <1>8, <1>11, NothingWritten DEF ClearJob, FindingsInv
  <1>13. ClearJob(new)
    BY <1>8, <1>10, <1>12 DEF ClearJob
  <1> QED
    BY <1>1, <1>2, <1>4, <1>7, <1>13

\* The first span of a sequence in order ends before the others begin.
LEMMA FirstOfOrder ==
    ASSUME NEW length, NEW spans \in Seq(SpansIn(length)), InOrder(spans), spans # <<>>
    PROVE  /\ Head(spans) \in SpansIn(length) /\ Tail(spans) \in Seq(SpansIn(length))
           /\ InOrder(Tail(spans))
           /\ Range(spans) = {Head(spans)} \cup Range(Tail(spans))
           /\ \A s \in Range(Tail(spans)) : Head(spans).end <= s.start
  <1>1. PICK n \in Nat : n = Len(spans) /\ n # 0
    BY LenProperties, EmptySeq
  <1>2. PICK first, rest : first = Head(spans) /\ rest = Tail(spans)
    OBVIOUS
  <1>3. /\ first = spans[1] /\ rest \in Seq(SpansIn(length)) /\ first \in SpansIn(length)
        /\ Len(rest) = n - 1 /\ \A i \in 1..(n - 1) : rest[i] = spans[i + 1]
    BY <1>1, <1>2, HeadTailProperties
  <1>4. DOMAIN spans = 1..n /\ DOMAIN rest = 1..(n - 1)
    BY <1>1, <1>3, LenProperties
  <1>5. \A i \in 1..(n - 1) : i + 1 \in 1..n /\ 1 \in 1..n /\ 1 < i + 1
    BY <1>1
  <1>6. InOrder(rest)
    <2> SUFFICES ASSUME NEW i \in 1..(n - 1), NEW k \in 1..(n - 1), i < k
                 PROVE  rest[i].end <= rest[k].start
      BY <1>4 DEF InOrder
    <2>1. i + 1 < k + 1
      BY <1>1
    <2> QED
      BY <1>3, <1>4, <1>5, <2>1 DEF InOrder
  <1>7. Range(spans) = {first} \cup Range(rest)
    <2>1. \A i \in 1..n : i = 1 \/ (i - 1 \in 1..(n - 1) /\ (i - 1) + 1 = i)
      BY <1>1
    <2>2. 1 \in 1..n
      BY <1>1
    <2>3. Range(spans) \subseteq {first} \cup Range(rest)
      <3> SUFFICES ASSUME NEW i \in 1..n PROVE spans[i] \in {first} \cup Range(rest)
        BY <1>4 DEF Range
      <3>1. CASE i = 1
        BY <1>3, <3>1
      <3>2. CASE i # 1
        <4>1. PICK k \in 1..(n - 1) : k + 1 = i
          BY <2>1, <3>2
        <4>2. rest[k] = spans[i]
          BY <1>3, <4>1
        <4> QED
          BY <1>4, <4>2 DEF Range
      <3> QED
        BY <3>1, <3>2
    <2>4. {first} \cup Range(rest) \subseteq Range(spans)
      BY <1>3, <1>4, <1>5, <2>2 DEF Range
    <2> QED
      BY <2>3, <2>4
  <1>8. \A s \in Range(rest) : first.end <= s.start
    <2> SUFFICES ASSUME NEW i \in 1..(n - 1) PROVE first.end <= rest[i].start
      BY <1>4 DEF Range
    <2> QED
      BY <1>3, <1>4, <1>5 DEF InOrder
  <1> QED
    BY <1>2, <1>3, <1>6, <1>7, <1>8

\* Substitute: the text up to the span is shown, of the span nothing is.
LEMMA ClearSubstituted ==
    ASSUME NEW j, ClearJob(j), j.pc = "span", j.spans # <<>>, NEW token
    PROVE  ClearJob(JobOf("span", j.input, j.found, Tail(j.spans), Head(j.spans).end,
                          j.out \o Raw(j.cursor, Head(j.spans).start)
                                \o <<Cell(Head(j.spans), token)>>))
  <1>1. PICK length \in Nat : length = Len(j.input.text)
    BY LenProperties DEF ClearJob
  <1>2. PICK from \in 0..length : from = j.cursor
    BY <1>1 DEF ClearJob, OutputInv
  <1>3. Reached(j) = from
    BY <1>2 DEF Reached
  <1>4. /\ j.found \in Seq(SpansIn(length)) /\ j.spans \in Seq(SpansIn(length))
        /\ Range(j.spans) \subseteq Range(j.found)
        /\ InOrder(j.spans) /\ \A s \in Range(j.spans) : from <= s.start
        /\ \A s \in Range(j.found) : Hidden(j, s)
    BY <1>1, <1>2 DEF ClearJob, FindingsInv
  <1>5. PICK span \in SpansIn(length), rest \in Seq(SpansIn(length)) :
          /\ span = Head(j.spans) /\ rest = Tail(j.spans)
          /\ InOrder(rest) /\ Range(j.spans) = {span} \cup Range(rest)
          /\ \A s \in Range(rest) : span.end <= s.start
    BY <1>4, FirstOfOrder
  <1>6. /\ span.start \in Nat /\ span.end \in 1..length /\ span.start < span.end
        /\ from <= span.start
    BY <1>4, <1>5 DEF SpansIn
  <1>7. PICK start \in Nat, end \in Nat :
          /\ start = span.start /\ end = span.end
          /\ start < end /\ end <= length /\ from <= start
    BY <1>6
  <1>8. PICK most : most = j.out \o Raw(from, start)
    OBVIOUS
  <1>9. PICK out : out = most \o <<Cell(span, token)>>
    OBVIOUS
  <1>10. /\ WrittenTo(j.out, from) /\ Shown(j.out) \subseteq 0..(from - 1)
         /\ 0..(from - 1) \subseteq Shown(j.out) \cup Covered(j.found)
    BY <1>3 DEF ClearJob, OutputInv
  <1>11. WrittenTo(most, start) /\ Shown(most) = Shown(j.out) \cup (from..(start - 1))
    BY <1>7, <1>8, <1>10, RawWritten
  <1>12. WrittenTo(out, end) /\ Shown(out) = Shown(most)
    <2>1. start <= span.start
      BY <1>7
    <2> QED
      BY <1>7, <1>9, <1>11, <2>1, SpanWritten
  <1>13. PICK new : new = JobOf("span", j.input, j.found, rest, end, out)
    OBVIOUS
  <1>14. /\ new.pc = "span" /\ new.input = j.input /\ new.found = j.found
         /\ new.spans = rest /\ new.cursor = end /\ new.out = out
    BY <1>13 DEF JobOf
  <1>15. Reached(new) = end
    BY <1>14 DEF Reached
  <1>16. Positions(span) = start..(end - 1)
    BY <1>7 DEF Positions
  <1>17. Shown(out) \subseteq 0..(start - 1)
    BY <1>7, <1>10, <1>11, <1>12
  \* The span is hidden itself, or by a span that is replaced already.
  <1>18. ASSUME NEW s \in Range(j.found) PROVE Hidden(new, s)
    <2>1. PICK r \in Range(j.found) :
            /\ Hides(r, s)
            /\ r \in Range(j.spans) \/ (r.end <= from /\ Positions(r) \cap Shown(j.out) = {})
      BY <1>3, <1>4 DEF Hidden
    <2>2. CASE r \in Range(rest)
      BY <1>14, <2>1, <2>2 DEF Hidden
    <2>3. CASE r = span
      <3>1. Positions(r) \cap Shown(out) = {} /\ r.end <= end
        BY <1>7, <1>16, <1>17, <2>3
      <3> QED
        BY <1>14, <1>15, <2>1, <3>1 DEF Hidden
    <2>4. CASE r.end <= from /\ Positions(r) \cap Shown(j.out) = {}
      <3>1. r \in SpansIn(length)
        BY <1>4, RangeOfSeq
      <3>2. r.start \in Nat /\ r.end \in Nat
        BY <3>1 DEF SpansIn
      <3>3. Positions(r) \cap (from..(start - 1)) = {}
        BY <2>4, <3>2 DEF Positions
      <3>4. r.end <= end /\ Positions(r) \cap Shown(out) = {}
        BY <1>7, <1>11, <1>12, <2>4, <3>2, <3>3
      <3> QED
        BY <1>14, <1>15, <2>1, <3>4 DEF Hidden
    <2> QED
      BY <1>5, <2>1, <2>2, <2>3, <2>4
  <1>19. span \in Range(j.spans) /\ Positions(span) \subseteq Covered(j.found)
    <2>1. span \in Range(j.spans)
      BY <1>5
    <2>2. span \in Range(j.found)
      BY <1>4, <2>1
    <2> QED
      BY <2>1, <2>2 DEF Covered
  <1>20. OutputInv(new)
    <2>1. 0..(end - 1) \subseteq Shown(out) \cup Covered(j.found)
      <3>1. \A p \in 0..(end - 1) :
              p \in 0..(from - 1) \/ p \in from..(start - 1) \/ p \in start..(end - 1)
        BY <1>7
      <3> QED
        BY <1>10, <1>11, <1>12, <1>16, <1>19, <3>1
    <2>2. Shown(out) \subseteq 0..(end - 1)
      BY <1>7, <1>17
    <2>3. end \in 0..length
      BY <1>7
    <2> QED
      BY <1>1, <1>12, <1>14, <1>15, <2>1, <2>2, <2>3 DEF OutputInv
  <1>21. FindingsInv(new)
    BY <1>1, <1>4, <1>5, <1>7, <1>14, <1>18 DEF FindingsInv
  <1>22. ClearJob(new)
    BY <1>14, <1>20, <1>21 DEF ClearJob
  <1> QED
    BY <1>2, <1>5, <1>7, <1>8, <1>9, <1>13, <1>22

LEMMA ClearInit == Init => ClearInv
  <1> SUFFICES ASSUME Init PROVE ClearInv
    OBVIOUS
  <1>1. PICK given \in Inputs : job = [t \in Tasks |-> [NoJob EXCEPT !.input = given[t]]]
    BY DEF Init
  <1>2. ASSUME NEW t \in Tasks PROVE ClearJob(job[t])
    <2>1. job[t] \in [pc : {"idle"}, input : {given[t]}, found : {<<>>}, spans : {<<>>},
                      cursor : {0}, out : {<<>>}]
      BY <1>1 DEF NoJob
    <2>2. PICK input : input = given[t]
      OBVIOUS
    <2>3. job[t] = JobOf("idle", input, <<>>, <<>>, 0, <<>>)
      BY <2>1, <2>2, JobEqual
    <2>4. input.text \in Seq(Nat) /\ Fits(input)
      BY <2>2, InputsAssumption
    <2> QED
      BY <2>3, <2>4, ClearIdle
  <1> QED
    BY <1>2 DEF ClearInv, Init, Models

\* A step of t's job.
LEMMA ClearStep ==
    ASSUME Inv, ClearInv, NEW t \in Tasks, NEW pc, NEW found, NEW spans, NEW cursor, NEW out,
           JobBecomes(t, pc, found, spans, cursor, out), model' \in Models,
           ClearJob(JobOf(pc, job[t].input, found, spans, cursor, out))
    PROVE  ClearInv'
  <1>1. job = [u \in Tasks |-> job[u]]
    BY DEF Inv, Shapes
  <1>2. /\ job'[t] = JobOf(pc, job[t].input, found, spans, cursor, out)
        /\ \A u \in Tasks \ {t} : job'[u] = job[u]
    BY <1>1 DEF JobBecomes
  <1>3. \A u \in Tasks : ClearJob(job'[u])
    BY <1>2 DEF ClearInv
  <1> QED
    BY <1>3 DEF ClearInv

LEMMA SubstituteClear ==
    ASSUME Inv, ClearInv, NEW t \in Tasks, NEW token, Substitute(t, token), UNCHANGED model,
           job[t].pc = "span", job[t].spans # <<>>
    PROVE  ClearInv'
  <1>1. PICK j : j = job[t]
    OBVIOUS
  <1>2. JobBecomes(t, "span", j.found, Tail(j.spans), Head(j.spans).end,
                   j.out \o Raw(j.cursor, Head(j.spans).start)
                         \o <<Cell(Head(j.spans), token)>>)
    BY <1>1, SubstituteIs DEF Current
  <1>3. ClearJob(JobOf("span", j.input, j.found, Tail(j.spans), Head(j.spans).end,
                       j.out \o Raw(j.cursor, Head(j.spans).start)
                             \o <<Cell(Head(j.spans), token)>>))
    BY <1>1, ClearSubstituted DEF ClearInv
  <1>4. PICK out : out = j.out \o Raw(j.cursor, Head(j.spans).start)
                               \o <<Cell(Head(j.spans), token)>>
    OBVIOUS
  <1> QED
    BY <1>1, <1>2, <1>3, <1>4, ClearStep DEF ClearInv

LEMMA BeginClear ==
    ASSUME Inv, ClearInv, NEW t \in Tasks, Begin(t)
    PROVE  ClearInv'
  <1>1. PICK ner \in ScanFrom(model, job[t].input) : \E found, spans :
          /\ model' = ner.model /\ found = regex_scan(job[t].input.candidates) \o ner.spans
          /\ spans = Within(merge_and_dedup(found), Len(job[t].input.text))
          /\ JobBecomes(t, "span", found, spans, job[t].cursor, job[t].out)
    BY BeginIs
  <1>2. PICK found, spans :
          /\ model' = ner.model /\ found = regex_scan(job[t].input.candidates) \o ner.spans
          /\ spans = Within(merge_and_dedup(found), Len(job[t].input.text))
          /\ JobBecomes(t, "span", found, spans, job[t].cursor, job[t].out)
    BY <1>1
  <1>m. PICK m \in Models : m = model
    BY DEF ClearInv
  <1>3. PICK j : j = job[t] /\ ClearJob(j) /\ j.pc = "idle"
    BY DEF ClearInv, Begin
  <1>4. ner.model \in Models /\ ClearJob(JobOf("span", j.input, found, spans, j.cursor, j.out))
    BY <1>2, <1>m, <1>3, ClearBegun
  <1> QED
    BY <1>2, <1>3, <1>4, ClearStep

LEMMA FinishClear ==
    ASSUME Inv, ClearInv, NEW t \in Tasks, Finish(t)
    PROVE  ClearInv'
  <1>1. PICK j : j = job[t] /\ ClearJob(j) /\ j.pc = "span" /\ j.spans = <<>>
    BY DEF ClearInv, Finish
  <1>2. PICK out : out = j.out \o Raw(j.cursor, Len(j.input.text))
    OBVIOUS
  <1>3. JobBecomes(t, "done", j.found, j.spans, j.cursor, out)
    BY <1>1, <1>2, FinishIs
  <1>4. ClearJob(JobOf("done", j.input, j.found, j.spans, j.cursor, out))
    BY <1>1, <1>2, ClearFinished
  <1>5. model' \in Models
    BY DEF ClearInv, Finish
  <1> QED
    BY <1>1, <1>3, <1>4, <1>5, ClearStep

LEMMA ClearNext == Inv /\ ClearInv /\ [Next]_vars => ClearInv'
  <1>1. ASSUME UNCHANGED <<model, job>>, ClearInv PROVE ClearInv'
    BY <1>1 DEF ClearInv
  <1>2. ASSUME Inv, ClearInv, NEW t \in Tasks, RenderToken(t) PROVE ClearInv'
    <2>1. call[t].pc # "idle" /\ UNCHANGED model
      BY <1>2 DEF RenderToken
    <2>2. job[t].pc = "span" /\ job[t].spans # <<>>
      BY <1>2, <2>1, Typed DEF JobInv
    <2>3. PICK token : Substitute(t, token)
      BY <1>2 DEF RenderToken
    <2> QED
      BY <1>2, <2>1, <2>2, <2>3, SubstituteClear
  <1>3. ASSUME Inv, ClearInv, NEW t \in Tasks, RenderPlaceholder(t) PROVE ClearInv'
    <2>1. job[t].pc = "span" /\ job[t].spans # <<>> /\ UNCHANGED model /\ Substitute(t, NoToken)
      BY <1>3 DEF RenderPlaceholder
    <2> QED
      BY <1>3, <2>1, SubstituteClear
  <1>4. ASSUME Inv, ClearInv, NEW t \in Tasks, Step(t) PROVE ClearInv'
    <2>1. CASE CallVault(t)
      BY <1>1, <1>4, <2>1 DEF CallVault
    <2> QED
      BY <1>1, <1>2, <1>3, <1>4, <2>1, BeginClear, FinishClear DEF Step
  <1>5. UNCHANGED vars => UNCHANGED <<model, job>>
    BY DEF vars
  <1> QED
    BY <1>1, <1>4, <1>5 DEF Next

\* Begin, Substitute, Finish: the findings of every job are hidden as far as its
\* output is written.
THEOREM ClearInvariance == Spec => []ClearInv
  BY InvInit, InvNext, ClearInit, ClearNext, PTL DEF Spec

\* sanitize: the model is in one of its states, a job is where its text and its
\* call are, and the vault is as VaultTypeCorrect says.
THEOREM TypeCorrect == Spec => []TypeOK
  <1>1. Inv /\ ClearInv /\ VaultTypeOK => TypeOK
    BY Typed DEF TypeOK, ClearInv, ClearJob, OutputInv, Models, JobInv
  <1> QED
    BY <1>1, Invariance, ClearInvariance, VaultTypeCorrect, PTL

\* merge_and_dedup, substitute: whatever is found and whoever renders it, a
\* finding shows only in a tail that an earlier finding leaves of it, and all
\* other text comes through.
THEOREM FindingsHidden == Spec => []NothingShowsThrough
  <1>1. ASSUME ClearInv, NEW t \in Tasks, job[t].pc = "done"
        PROVE  LET found == Range(job[t].found)
                   out == job[t].out
               IN  /\ \A s \in found, p \in InClear(t) : p \in Positions(s) =>
                           \E r \in found : r.start < s.start /\ s.start < r.end /\ r.end <= p
                   /\ InClear(t) \cup UNION {Positions(s) : s \in found}
                           = 0..(Len(job[t].input.text) - 1)
                   /\ \A i, j \in DOMAIN out :
                           i < j => out[i].span.end <= out[j].span.start
    <2>1. PICK j : j = job[t] /\ ClearJob(j) /\ j.pc = "done" /\ j.spans = <<>>
      BY <1>1 DEF ClearInv, ClearJob
    <2>2. PICK length \in Nat : length = Len(j.input.text) /\ Reached(j) = length
      BY <2>1, LenProperties DEF ClearJob, Reached
    <2>3. InClear(t) = Shown(j.out)
      BY <2>1 DEF InClear, Shown
    <2>4. /\ \A s \in Range(j.found) : Hidden(j, s)
          /\ WrittenTo(j.out, length) /\ Shown(j.out) \subseteq 0..(length - 1)
          /\ 0..(length - 1) \subseteq Shown(j.out) \cup Covered(j.found)
      BY <2>1, <2>2 DEF ClearJob, FindingsInv, OutputInv
    <2>5. \A s \in Range(j.found) : s.start \in Nat /\ s.end \in Nat /\ s.end <= length
      <3>1. \A s \in Range(j.found) : s \in SpansIn(length)
        BY <2>1, <2>2, RangeOfSeq DEF ClearJob, FindingsInv
      <3> QED
        BY <3>1 DEF SpansIn
    <2>6. ASSUME NEW s \in Range(j.found), NEW p \in Shown(j.out), p \in Positions(s)
          PROVE  \E r \in Range(j.found) : r.start < s.start /\ s.start < r.end /\ r.end <= p
      <3>1. PICK r \in Range(j.found) : Hides(r, s) /\ Positions(r) \cap Shown(j.out) = {}
        BY <2>1, <2>4, NothingWritten DEF Hidden
      <3>2. p \in Nat /\ s.start <= p /\ p < s.end
        BY <2>4, <2>5, <2>6 DEF Positions
      <3>3. r.start <= s.start /\ s.start < r.end /\ (r.start = s.start => s.end <= r.end)
        BY <3>1 DEF Hides, Precedes
      <3>4. p \notin r.start..(r.end - 1)
        BY <2>6, <3>1 DEF Positions
      <3>5. r.end <= p
        BY <2>5, <3>2, <3>3, <3>4
      <3>6. r.start # s.start
        BY <2>5, <3>2, <3>3, <3>5
      <3> QED
        BY <2>5, <3>3, <3>5, <3>6
    <2>7. Covered(j.found) \subseteq 0..(length - 1)
      <3> SUFFICES ASSUME NEW s \in Range(j.found) PROVE Positions(s) \subseteq 0..(length - 1)
        BY DEF Covered
      <3> QED
        BY <2>5 DEF Positions
    <2>8. Shown(j.out) \cup Covered(j.found) = 0..(length - 1)
      BY <2>4, <2>7
    <2> QED
      BY <2>1, <2>2, <2>3, <2>4, <2>6, <2>8 DEF Covered, WrittenTo
  <1>2. ClearInv => NothingShowsThrough
    BY <1>1 DEF NothingShowsThrough
  <1> QED
    BY <1>2, ClearInvariance, PTL

\* bio_merge: for every sequence of labelled tokens the spans are the runs of
\* tokens that the labels mark, in document order.
THEOREM RunsFound == Spec => []BioMergeFindsRuns
  <1>1. ASSUME NEW input, Fits(input), input.text \in Seq(Nat)
        PROVE  LET tokens == input.tokens
                   spans == bio_merge(tokens)
               IN  /\ Range(spans) = {Span(tokens[r[1]].start, tokens[r[2]].end,
                                           map_label(tokens[r[1]].label)) : r \in Runs(tokens)}
                   /\ \A i \in 1..(Len(spans) - 1) : spans[i].start < spans[i + 1].start
    <2>1. PICK tokens : tokens = input.tokens
      OBVIOUS
    <2>l. PICK length \in Nat, n \in Nat : TokensFit(tokens, length, n)
      BY <1>1, <2>1, TokensOf
    <2>2. PICK spans : spans = bio_merge(tokens)
      OBVIOUS
    <2>3. /\ Range(spans) = {SpanOf(tokens, r[1], r[2]) : r \in RunsAre(tokens)}
          /\ InOrder(spans) /\ spans \in Seq(SpansIn(length))
      BY <2>l, <2>2, BioMergeMarks
    <2>4. Range(spans) = {SpanOf(tokens, r[1], r[2]) : r \in Runs(tokens)}
      BY <2>3, RunsIs
    <2>5. ASSUME NEW i \in 1..(Len(spans) - 1) PROVE spans[i].start < spans[i + 1].start
      <3>1. PICK l \in Nat : l = Len(spans) /\ DOMAIN spans = 1..l
        BY <2>3, LenProperties
      <3>2. PICK k \in 1..l : k = i + 1
        BY <3>1
      <3>3. i \in 1..l /\ i < k
        BY <3>1, <3>2
      <3>4. spans[i] \in SpansIn(length) /\ spans[k] \in SpansIn(length)
        BY <2>3, <3>1, <3>3, ElementOfSeq
      <3>5. spans[i].end <= spans[k].start
        BY <2>3, <3>1, <3>3 DEF InOrder
      <3>6. /\ spans[i].start \in Nat /\ spans[i].end \in Nat /\ spans[k].start \in Nat
            /\ spans[i].start < spans[i].end
        BY <3>4 DEF SpansIn
      <3>7. spans[i].start < spans[k].start
        BY <3>5, <3>6
      <3> QED
        BY <3>2, <3>7
    <2> QED
      BY <2>1, <2>2, <2>4, <2>5 DEF SpanOf
  <1>2. ClearInv => BioMergeFindsRuns
    BY <1>1 DEF ClearInv, ClearJob, BioMergeFindsRuns
  <1> QED
    BY <1>2, ClearInvariance, PTL

\* is_valid_nir, is_valid_iban: of a number whose check digits fit, no single
\* digit can be replaced by another so that they still fit.
THEOREM CheckDigitsTell == Spec => []WrongDigitRejected
  <1>1. ASSUME NEW input, Fits(input), NEW c \in Range(input.candidates),
               c.kind \in {"NIR", "IBAN"}, Valid(c), NEW i \in DOMAIN c.chars, NEW d \in 0..9,
               IsDigit(c.chars[i]), d # c.chars[i]
        PROVE  ~Valid([c EXCEPT !.chars[i] = d])
    <2>1. c \in [start : Nat, end : 1..Len(input.text), kind : Kinds, chars : Seq(0..35)]
      BY <1>1, RangeOfSeq DEF Fits
    <2>2. Overwritten(c.chars, i, d)
      BY <1>1 DEF Overwritten
    <2> QED
      BY <1>1, <2>1, <2>2, DigitRejected DEF Character
  <1>2. ClearInv => WrongDigitRejected
    BY <1>1 DEF ClearInv, ClearJob, WrongDigitRejected
  <1> QED
    BY <1>2, ClearInvariance, PTL
=============================================================================
