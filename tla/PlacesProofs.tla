----------------------------- MODULE PlacesProofs -----------------------------
(***************************************************************************)
(* What the proofs about sequences share: parts of a sequence and the      *)
(* ranks of places.                                                        *)
(***************************************************************************)
EXTENDS Places, FiniteSetTheorems, SequenceTheorems, WellFoundedInduction, TLAPS

-----------------------------------------------------------------------------
(* Parts of a sequence.                                                     *)

\* What comes after the first m elements, up to the n-th.
Part(s, m, n) == SubSeq(s, m + 1, n)

\* Its elements,
LEMMA PartFacts ==
  ASSUME NEW S, NEW s \in Seq(S), NEW m \in 0 .. Len(s), NEW n \in m .. Len(s)
  PROVE  /\ Part(s, m, n) \in Seq(S) /\ Len(Part(s, m, n)) = n - m
         /\ DOMAIN Part(s, m, n) = 1 .. n - m
         /\ \A i \in 1 .. n - m : Part(s, m, n)[i] = s[m + i]
<1>1. Len(s) \in Nat /\ m \in Int /\ n \in Int /\ m + 1 \in Int
  BY LenProperties
<1>2. \A i \in m + 1 .. n : s[i] \in S
  BY <1>1, ElementOfSeq
<1>3. /\ Part(s, m, n) \in Seq(S)
      /\ Len(Part(s, m, n)) = IF m + 1 <= n THEN n - (m + 1) + 1 ELSE 0
      /\ \A i \in 1 .. n - (m + 1) + 1 : Part(s, m, n)[i] = s[(m + 1) + i - 1]
  BY <1>1, <1>2, SubSeqProperties DEF Part
<1>4. n - (m + 1) + 1 = n - m /\ (m + 1 > n => n - m = 0)
  BY <1>1
<1>5. \A i \in 1 .. n - m : (m + 1) + i - 1 = m + i
  BY <1>1
<1>6. Len(Part(s, m, n)) = n - m /\ \A i \in 1 .. n - m : Part(s, m, n)[i] = s[m + i]
  BY <1>1, <1>3, <1>4, <1>5
<1>. QED
  BY <1>3, <1>6, LenProperties

\* parts that follow each other,
LEMMA PartsJoin ==
  ASSUME NEW S, NEW s \in Seq(S), NEW m \in 0 .. Len(s), NEW n \in m .. Len(s), NEW o \in n .. Len(s)
  PROVE  Part(s, m, n) \o Part(s, n, o) = Part(s, m, o)
<1>1. Len(s) \in Nat /\ m + 1 \in 1 .. Len(s) + 1 /\ n \in (m + 1) - 1 .. Len(s)
  BY LenProperties
<1>. QED
  BY <1>1, ConcatAdjacentSubSeq DEF Part

\* and parts of a part.
LEMMA PartOfPart ==
  ASSUME NEW S, NEW s \in Seq(S), NEW m \in 0 .. Len(s), NEW n \in m .. Len(s),
         NEW i \in 0 .. n - m, NEW j \in i .. n - m
  PROVE  SubSeq(Part(s, m, n), i + 1, j) = Part(s, m + i, m + j)
<1>1. /\ Len(s) \in Nat /\ m \in Int /\ n \in Int /\ i \in Int /\ j \in Int
      /\ m + i \in 0 .. Len(s) /\ m + j \in m + i .. Len(s)
      /\ (m + j) - (m + i) = j - i
  BY LenProperties
<1>2. PICK t : t = Part(s, m, n)
  OBVIOUS
<1>3. t \in Seq(S) /\ Len(t) = n - m /\ \A x \in 1 .. n - m : t[x] = s[m + x]
  BY <1>2, PartFacts
<1>4. /\ Part(t, i, j) \in Seq(S) /\ Len(Part(t, i, j)) = j - i
      /\ \A x \in 1 .. j - i : Part(t, i, j)[x] = t[i + x]
  <2>1. i \in 0 .. Len(t) /\ j \in i .. Len(t)
    BY <1>3
  <2>2. t \in Seq(S)
    BY <1>3
  <2>. QED
    BY <2>1, <2>2, PartFacts
<1>5. PICK u : u = Part(s, m + i, m + j)
  OBVIOUS
<1>6. u \in Seq(S) /\ Len(u) = j - i /\ \A x \in 1 .. j - i : u[x] = s[(m + i) + x]
  <2>1. /\ u \in Seq(S) /\ Len(u) = (m + j) - (m + i)
        /\ \A x \in 1 .. (m + j) - (m + i) : u[x] = s[(m + i) + x]
    <3>1. PICK a, b : a = m + i /\ b = m + j
      OBVIOUS
    <3>2. a \in 0 .. Len(s) /\ b \in a .. Len(s)
      BY <1>1, <3>1
    <3>3. /\ Part(s, a, b) \in Seq(S) /\ Len(Part(s, a, b)) = b - a
          /\ \A x \in 1 .. b - a : Part(s, a, b)[x] = s[a + x]
      BY <3>2, PartFacts
    <3>. QED
      BY <1>5, <3>1, <3>3
  <2>. QED
    BY <1>1, <2>1
<1>7. ASSUME NEW x \in 1 .. j - i
      PROVE  t[i + x] = s[(m + i) + x]
  <2>1. i + x \in 1 .. n - m /\ m + (i + x) = (m + i) + x
    BY <1>1
  <2>. QED
    BY <1>3, <2>1
<1>8. Part(t, i, j) = u
  BY <1>4, <1>6, <1>7, SeqEqual
<1>. QED
  BY <1>2, <1>5, <1>8 DEF Part

-----------------------------------------------------------------------------
(* Places of a sequence.                                                    *)

UpTo(places, i) == {j \in places : j <= i}

\* Between two numbers there is this place, and no other.
OnlyPlace(places, i, j, t) ==
  t \in places /\ i < t /\ t <= j /\ \A u \in places : u <= i \/ u > j \/ u = t

\* The rank counts the places up to here.
LEMMA RankCounts ==
  ASSUME NEW T, NEW i PROVE Rank(T, i) = Cardinality(UpTo(T, i)) /\ UpTo(T, i) \in SUBSET T
BY DEF Rank, UpTo

\* There are finitely many.
LEMMA PlacesAreFinite ==
  ASSUME NEW n \in Nat, NEW T, T \subseteq 1 .. n
  PROVE  IsFiniteSet(T) /\ Cardinality(T) \in Nat
<1>1. 1 \in Int /\ n \in Int /\ T \in SUBSET (1 .. n)
  OBVIOUS
<1>2. IsFiniteSet(1 .. n)
  BY <1>1, FS_Interval
<1>. QED
  BY <1>1, <1>2, FS_Subset, FS_CardinalityType

\* Ranks are numbers,
LEMMA RankType ==
  ASSUME NEW n \in Nat, NEW T, T \subseteq 1 .. n, NEW i
  PROVE  /\ IsFiniteSet(T) /\ Cardinality(T) \in Nat /\ IsFiniteSet(UpTo(T, i))
         /\ Rank(T, i) \in Nat /\ Rank(T, i) <= Cardinality(T)
<1>1. IsFiniteSet(T) /\ Cardinality(T) \in Nat
  BY PlacesAreFinite
<1>2. UpTo(T, i) \in SUBSET T /\ Rank(T, i) = Cardinality(UpTo(T, i))
  BY RankCounts
<1>3. IsFiniteSet(UpTo(T, i)) /\ Cardinality(UpTo(T, i)) <= Cardinality(T)
  BY <1>1, <1>2, FS_Subset
<1>. QED
  BY <1>1, <1>2, <1>3, FS_CardinalityType

\* the last place has the last rank,
LEMMA RankOfLast ==
  ASSUME NEW T, NEW i, \A t \in T : t <= i
  PROVE  Rank(T, i) = Cardinality(T)
<1>1. UpTo(T, i) = T
  BY DEF UpTo
<1>. QED
  BY <1>1, RankCounts

\* the rank stays where no place is passed,
LEMMA RankStays ==
  ASSUME NEW T, T \subseteq Int, NEW i \in Int, NEW j \in Int, i <= j,
         \A t \in T : t <= i \/ t > j
  PROVE  Rank(T, j) = Rank(T, i)
<1>1. ASSUME NEW t \in T PROVE (t <= i) <=> (t <= j)
  BY <1>1
<1>2. UpTo(T, j) = UpTo(T, i)
  BY <1>1 DEF UpTo
<1>. QED
  BY <1>2, RankCounts

\* and the next place has the next rank.
LEMMA RankOfNext ==
  ASSUME NEW n \in Nat, NEW T, T \subseteq 1 .. n, NEW i \in Int, NEW j \in Int, NEW t,
         OnlyPlace(T, i, j, t)
  PROVE  Rank(T, i) \in Nat /\ Rank(T, j) = Rank(T, i) + 1 /\ Rank(T, t) = Rank(T, j)
<1>1. t \in T /\ t \in Int /\ i < t /\ t <= j
  BY DEF OnlyPlace
<1>2. ASSUME NEW u \in T PROVE /\ (u <= j) <=> (u <= i \/ u = t)
                               /\ (u <= t) <=> (u <= i \/ u = t)
  BY <1>1, <1>2 DEF OnlyPlace
<1>3. UpTo(T, j) = UpTo(T, i) \union {t} /\ UpTo(T, t) = UpTo(T, j)
  BY <1>1, <1>2 DEF UpTo
<1>4. t \notin UpTo(T, i)
  BY <1>1 DEF UpTo
<1>5. PICK A : A = UpTo(T, i)
  OBVIOUS
<1>6. IsFiniteSet(A) /\ Rank(T, i) \in Nat
  BY <1>5, RankType
<1>7. Cardinality(A \union {t}) = Cardinality(A) + 1
  BY <1>4, <1>5, <1>6, FS_AddElement
<1>8. Rank(T, i) = Cardinality(A) /\ Rank(T, j) = Cardinality(A \union {t}) /\ Rank(T, t) = Rank(T, j)
  BY <1>3, <1>5, RankCounts
<1>. QED
  BY <1>6, <1>7, <1>8

\* Ranks grow with the places that are passed,
LEMMA RankRises ==
  ASSUME NEW n \in Nat, NEW T, T \subseteq 1 .. n, NEW i \in Int, NEW t \in T, i < t
  PROVE  Rank(T, i) < Rank(T, t)
<1>1. PICK A, B : A = UpTo(T, i) /\ B = UpTo(T, t)
  OBVIOUS
<1>2. IsFiniteSet(B) /\ Cardinality(B) \in Nat /\ Cardinality(A) \in Nat
  BY <1>1, RankType, RankCounts
<1>3. \A u \in T : u <= i => u <= t
  OBVIOUS
<1>4. A \in SUBSET B
  BY <1>1, <1>3 DEF UpTo
<1>5. t \in B /\ t \notin A
  BY <1>1 DEF UpTo
<1>6. Cardinality(A) <= Cardinality(B) /\ (Cardinality(A) = Cardinality(B) => A = B)
  BY <1>2, <1>4, FS_Subset
<1>7. Cardinality(A) < Cardinality(B)
  BY <1>2, <1>5, <1>6
<1>. QED
  BY <1>1, <1>7, RankCounts

\* so that no two places have the same rank.
LEMMA RankIsUnique ==
  ASSUME NEW n \in Nat, NEW T, T \subseteq 1 .. n, NEW i \in T, NEW j \in T, Rank(T, i) = Rank(T, j)
  PROVE  i = j
<1>1. i \in Int /\ j \in Int
  OBVIOUS
<1>2. ASSUME NEW a \in T, NEW b \in T, a < b PROVE Rank(T, a) # Rank(T, b)
  <2>1. a \in Int
    OBVIOUS
  <2>2. Rank(T, a) < Rank(T, b)
    BY <1>2, <2>1, RankRises
  <2>3. Rank(T, a) \in Nat /\ Rank(T, b) \in Nat
    BY RankType
  <2>. QED
    BY <2>2, <2>3
<1>. QED
  BY <1>1, <1>2

\* A set of numbers has a least one.
LEMMA LeastNumber ==
  ASSUME NEW T, T \subseteq Nat, T # {}
  PROVE  \E i \in T : \A j \in T : i <= j
<1>1. PICK i \in T : \A j \in T : ~(<<j, i>> \in OpToRel(<, Nat))
  BY NatLessThanWellFounded, WFMin
<1>2. \A j \in T : ~(j < i)
  BY <1>1 DEF OpToRel
<1>. QED
  BY <1>2

=============================================================================
