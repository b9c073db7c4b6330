--------------------------- MODULE OperatorProofs ---------------------------
(***************************************************************************)
(* Facts about the operators on values, for every input: those of Texts     *)
(* (what sorting, keeping places of a sequence, dropping repeats, joining   *)
(* and splitting return) and those of CorpusSignals (ranks, the AUC, the    *)
(* rounds of k-means).  No state is involved; the proofs about the corpus   *)
(* and about training rest on it.                                           *)
(*                                                                         *)
(* Induction is used in the form of LeastNatural: a nonempty set of natural *)
(* numbers has a least member.  An operator given to sort is replaced by    *)
(* the relation it is on a set.                                             *)
(***************************************************************************)
EXTENDS CorpusSignals, FiniteSetTheorems, TLAPS

(* A nonempty set of natural numbers has a least member.                    *)
LEMMA LeastNatural ==
  ASSUME NEW T \in SUBSET Nat, T # {}
  PROVE  \E x \in T : \A y \in T : x =< y
<1>1. IsWellFoundedOn({ss \in Nat \X Nat : ss[1] < ss[2]}, Nat)
  BY NatLessThanWellFounded DEF OpToRel
<1>2. PICK x \in T : \A y \in T : <<y, x>> \notin {ss \in Nat \X Nat : ss[1] < ss[2]}
  BY <1>1, WFMin
<1>3. ASSUME NEW y \in T PROVE x =< y
  <2>1. x \in Nat /\ y \in Nat
    OBVIOUS
  <2>2. ~(y < x)
    BY <1>2, <2>1
  <2> QED
    BY <2>1, <2>2
<1> QED
  BY <1>3

(* Induction over the natural numbers, for a set of them.                   *)
LEMMA SetInduction ==
  ASSUME NEW S, 0 \in S, \A n \in Nat : n \in S => n + 1 \in S
  PROVE  Nat \subseteq S
<1> SUFFICES ASSUME Nat \ S # {} PROVE FALSE
  OBVIOUS
<1>1. PICK x \in Nat \ S : \A y \in Nat \ S : x =< y
  BY LeastNatural
<1>2. x - 1 \in Nat /\ x - 1 \notin Nat \ S
  BY <1>1
<1> QED
  BY <1>1, <1>2

(* A finite set of integers bounded on either side has its extremes.        *)
LEMMA MinIsLeast ==
  ASSUME NEW T \in SUBSET Nat, T # {}
  PROVE  Min(T) \in T /\ \A y \in T : Min(T) =< y
BY LeastNatural DEF Min

LEMMA MaxIsGreatest ==
  ASSUME NEW T \in SUBSET Nat, T # {}, NEW b \in Nat, \A y \in T : y =< b
  PROVE  Max(T) \in T /\ \A y \in T : y =< Max(T)
<1> DEFINE U == { n \in Nat : \A y \in T : y =< n }
<1>1. PICK m \in U : \A n \in U : m =< n
  BY LeastNatural
<1>2. m \in T
  <2> SUFFICES ASSUME m \notin T PROVE FALSE
    OBVIOUS
  <2>1. PICK t \in T : TRUE
    OBVIOUS
  <2>2. m - 1 \in Nat /\ \A y \in T : y =< m - 1
    BY <1>1, <2>1
  <2> QED
    BY <1>1, <2>2
<1> QED
  BY <1>1, <1>2 DEF Max

(* The smaller and the larger of two integers.                              *)
LEMMA MinOfTwo ==
  ASSUME NEW a \in Int, NEW b \in Int
  PROVE  Min({a, b}) = IF a =< b THEN a ELSE b
BY DEF Min

LEMMA MaxOfTwo ==
  ASSUME NEW a \in Int, NEW b \in Int
  PROVE  Max({a, b}) = IF a >= b THEN a ELSE b
BY DEF Max

-----------------------------------------------------------------------------
(* Sequences, element by element.                                           *)

LEMMA AppendFacts ==
  ASSUME NEW X, NEW s \in Seq(X), NEW c \in X
  PROVE  /\ Append(s, c) \in Seq(X) /\ Len(Append(s, c)) = Len(s) + 1
         /\ \A i \in 1 .. Len(s) : Append(s, c)[i] = s[i]
         /\ Append(s, c)[Len(s) + 1] = c
OBVIOUS

LEMMA ElementOf ==
  ASSUME NEW X, NEW s \in Seq(X), NEW i \in 1 .. Len(s)
  PROVE  s[i] \in X
OBVIOUS

LEMMA SubSeqFacts ==
  ASSUME NEW X, NEW s \in Seq(X), NEW m \in 1 .. Len(s) + 1, NEW n \in m - 1 .. Len(s)
  PROVE  /\ SubSeq(s, m, n) \in Seq(X) /\ Len(SubSeq(s, m, n)) = n - m + 1
         /\ \A i \in 1 .. n - m + 1 : SubSeq(s, m, n)[i] = s[m + i - 1]
OBVIOUS

LEMMA FrontFacts ==
  ASSUME NEW X, NEW s \in Seq(X), s # << >>
  PROVE  /\ Front(s) \in Seq(X) /\ Len(Front(s)) = Len(s) - 1
         /\ \A i \in 1 .. Len(s) - 1 : Front(s)[i] = s[i]
         /\ Len(s) \in Nat \ {0} /\ Last(s) = s[Len(s)] /\ Last(s) \in X
<1>1. Len(s) \in Nat \ {0}
  OBVIOUS
<1>2. 1 \in 1 .. Len(s) + 1 /\ Len(s) - 1 \in 1 - 1 .. Len(s)
  BY <1>1
<1>3. /\ SubSeq(s, 1, Len(s) - 1) \in Seq(X)
      /\ Len(SubSeq(s, 1, Len(s) - 1)) = Len(s) - 1
      /\ \A i \in 1 .. Len(s) - 1 : SubSeq(s, 1, Len(s) - 1)[i] = s[i]
  <2> DEFINE m == 1
             n == Len(s) - 1
  <2>1. m \in 1 .. Len(s) + 1 /\ n \in m - 1 .. Len(s) /\ n - m + 1 = Len(s) - 1
    BY <1>1
  <2>2. \A i \in 1 .. Len(s) - 1 : m + i - 1 = i
    BY <1>1
  <2> HIDE DEF m, n
  <2>3. /\ SubSeq(s, m, n) \in Seq(X) /\ Len(SubSeq(s, m, n)) = n - m + 1
        /\ \A i \in 1 .. n - m + 1 : SubSeq(s, m, n)[i] = s[m + i - 1]
    BY <2>1, SubSeqFacts
  <2> QED
    BY <2>1, <2>2, <2>3 DEF m, n
<1> QED
  BY <1>1, <1>3 DEF Front, Last

(* Sequences with the same elements in the same places are the same.        *)
LEMMA SameSequence ==
  ASSUME NEW X, NEW s \in Seq(X), NEW Y, NEW t \in Seq(Y), Len(s) = Len(t),
         \A i \in 1 .. Len(s) : s[i] = t[i]
  PROVE  s = t
OBVIOUS

-----------------------------------------------------------------------------
(* Sorting.                                                                 *)

(* On S, R is a strict total order.                                         *)
IsStrictOrder(R, S) ==
  /\ \A x \in S : <<x, x>> \notin R
  /\ \A x, y, z \in S : <<x, y>> \in R /\ <<y, z>> \in R => <<x, z>> \in R
  /\ \A x, y \in S : x = y \/ <<x, y>> \in R \/ <<y, x>> \in R

Below(R, S, x) == { y \in S : <<y, x>> \in R }

(* What comes before x has fewer members than what comes before a later y.  *)
LEMMA BelowGrows ==
  ASSUME NEW S, IsFiniteSet(S), NEW R, IsStrictOrder(R, S), NEW x \in S, NEW y \in S,
         <<x, y>> \in R
  PROVE  Cardinality(Below(R, S, x)) < Cardinality(Below(R, S, y))
<1>1. IsFiniteSet(Below(R, S, y))
  BY FS_Subset DEF Below
<1>2. Below(R, S, x) \in SUBSET Below(R, S, y)
  BY DEF Below, IsStrictOrder
<1>3. Below(R, S, x) # Below(R, S, y)
  BY DEF Below, IsStrictOrder
<1>4. /\ IsFiniteSet(Below(R, S, x))
      /\ Cardinality(Below(R, S, x)) <= Cardinality(Below(R, S, y))
      /\ Cardinality(Below(R, S, x)) # Cardinality(Below(R, S, y))
  BY <1>1, <1>2, <1>3, FS_Subset
<1>5. Cardinality(Below(R, S, x)) \in Nat /\ Cardinality(Below(R, S, y)) \in Nat
  BY <1>1, <1>4, FS_CardinalityType
<1> QED
  BY <1>4, <1>5

(* Each number below the size of S is the rank of one member.               *)
LEMMA RankIsBijection ==
  ASSUME NEW S, IsFiniteSet(S), NEW R, IsStrictOrder(R, S)
  PROVE  /\ \A x \in S : Cardinality(Below(R, S, x)) \in 0 .. Cardinality(S) - 1
         /\ \A x, y \in S : Cardinality(Below(R, S, x)) = Cardinality(Below(R, S, y)) => x = y
         /\ \A k \in 0 .. Cardinality(S) - 1 : \E x \in S : Cardinality(Below(R, S, x)) = k
<1> DEFINE n == Cardinality(S)
           rank == [x \in S |-> Cardinality(Below(R, S, x))]
<1>0. n \in Nat
  BY FS_CardinalityType
<1>1. \A x \in S : Cardinality(Below(R, S, x)) \in 0 .. n - 1
  <2> SUFFICES ASSUME NEW x \in S PROVE Cardinality(Below(R, S, x)) \in 0 .. n - 1
    OBVIOUS
  <2>1. Below(R, S, x) \in SUBSET S /\ Below(R, S, x) # S
    BY DEF Below, IsStrictOrder
  <2>2. /\ IsFiniteSet(Below(R, S, x)) /\ Cardinality(Below(R, S, x)) <= n
        /\ Cardinality(Below(R, S, x)) # n
    BY <2>1, FS_Subset
  <2>3. Cardinality(Below(R, S, x)) \in Nat
    BY <2>2, FS_CardinalityType
  <2> QED
    BY <1>0, <2>2, <2>3
<1>2. \A x, y \in S : Cardinality(Below(R, S, x)) = Cardinality(Below(R, S, y)) => x = y
  <2> SUFFICES ASSUME NEW x \in S, NEW y \in S, x # y
               PROVE  Cardinality(Below(R, S, x)) # Cardinality(Below(R, S, y))
    OBVIOUS
  <2>1. CASE <<x, y>> \in R
    BY <1>1, <2>1, BelowGrows
  <2>2. CASE <<y, x>> \in R
    BY <1>1, <2>2, BelowGrows
  <2> QED
    BY <2>1, <2>2 DEF IsStrictOrder
<1>3. IsFiniteSet(0 .. n - 1) /\ Cardinality(0 .. n - 1) = n
  <2> DEFINE last == n - 1
  <2>1. last \in Int /\ last - 0 + 1 = n /\ (0 > last => n = 0)
    BY <1>0
  <2> HIDE DEF last
  <2>2. IsFiniteSet(0 .. last) /\ Cardinality(0 .. last) = IF 0 > last THEN 0 ELSE last - 0 + 1
    BY <2>1, FS_Interval
  <2> QED
    BY <2>1, <2>2 DEF last
<1>4. rank \in [S -> 0 .. n - 1]
  BY <1>1
<1>5. rank \in Injection(S, 0 .. n - 1)
  BY <1>2, <1>4 DEF Injection, IsInjective
<1>6. rank \in Surjection(S, 0 .. n - 1)
  <2> HIDE DEF rank, n
  <2> QED
    BY <1>3, <1>5, FS_Injection DEF n
<1>7. \A k \in 0 .. n - 1 : \E x \in S : rank[x] = k
  BY <1>6 DEF Surjection
<1> QED
  BY <1>1, <1>2, <1>7

(* What a sort of S returns: each member once, in the order of R.           *)
IsSorting(order, S, R) ==
  /\ order \in [1 .. Cardinality(S) -> S]
  /\ \A i, j \in 1 .. Cardinality(S) : i < j => <<order[i], order[j]>> \in R
  /\ \A i, j \in 1 .. Cardinality(S) : order[i] = order[j] => i = j
  /\ \A x \in S : \E k \in 1 .. Cardinality(S) : order[k] = x

LEMMA SortingExists ==
  ASSUME NEW S, IsFiniteSet(S), NEW R, IsStrictOrder(R, S)
  PROVE  IsSorting([k \in 1 .. Cardinality(S) |->
                      (CHOOSE r \in { << x, Cardinality(Below(R, S, x)) >> : x \in S } :
                          r[2] = k - 1)[1]], S, R)
<1> DEFINE n == Cardinality(S)
           ranked == { << x, Cardinality(Below(R, S, x)) >> : x \in S }
           order == [k \in 1 .. n |-> (CHOOSE r \in ranked : r[2] = k - 1)[1]]
<1>0. n \in Nat
  BY FS_CardinalityType
<1>1. \A k \in 1 .. n : order[k] \in S /\ Cardinality(Below(R, S, order[k])) = k - 1
  <2> SUFFICES ASSUME NEW k \in 1 .. n
               PROVE  order[k] \in S /\ Cardinality(Below(R, S, order[k])) = k - 1
    OBVIOUS
  <2>1. PICK x \in S : Cardinality(Below(R, S, x)) = k - 1
    BY <1>0, RankIsBijection
  <2> DEFINE rankOf(z) == Cardinality(Below(R, S, z))
  <2> HIDE DEF rankOf
  <2>2. \E r \in ranked : r[2] = k - 1
    <3>1. << x, rankOf(x) >> \in { << z, rankOf(z) >> : z \in S } /\ << x, rankOf(x) >>[2] = rankOf(x)
      OBVIOUS
    <3>2. \E r \in { << z, rankOf(z) >> : z \in S } : r[2] = rankOf(x)
      BY <3>1
    <3> QED
      BY <2>1, <3>2 DEF rankOf
  <2>3. PICK r \in ranked : r = (CHOOSE q \in ranked : q[2] = k - 1) /\ r[2] = k - 1
    BY <2>2
  <2>4. order[k] = r[1]
    BY <2>3
  <2>5. PICK z \in S : r = << z, rankOf(z) >>
    BY DEF rankOf
  <2>6. r[1] = z /\ r[2] = rankOf(z)
    BY <2>5
  <2> QED
    BY <2>3, <2>4, <2>6 DEF rankOf
<1>2. order \in [1 .. n -> S]
  BY <1>1
<1> HIDE DEF order
<1>3. ASSUME NEW i \in 1 .. n, NEW j \in 1 .. n, i < j
      PROVE  <<order[i], order[j]>> \in R
  <2>1. order[i] # order[j] /\ order[i] \in S /\ order[j] \in S
    BY <1>0, <1>1, <1>3
  <2>2. CASE <<order[j], order[i]>> \in R
    <3>1. Cardinality(Below(R, S, order[j])) < Cardinality(Below(R, S, order[i]))
      BY <2>1, <2>2, BelowGrows
    <3> QED
      BY <1>0, <1>1, <1>3, <3>1
  <2> QED
    BY <2>1, <2>2 DEF IsStrictOrder
<1>4. ASSUME NEW i \in 1 .. n, NEW j \in 1 .. n, order[i] = order[j]
      PROVE  i = j
  BY <1>0, <1>1, <1>4
<1>5. ASSUME NEW x \in S
      PROVE  \E k \in 1 .. n : order[k] = x
  <2>1. Cardinality(Below(R, S, x)) \in 0 .. n - 1
    BY RankIsBijection
  <2>2. Cardinality(Below(R, S, x)) + 1 \in 1 .. n
    BY <1>0, <2>1
  <2>3. Cardinality(Below(R, S, order[Cardinality(Below(R, S, x)) + 1])) = Cardinality(Below(R, S, x))
    BY <1>0, <1>1, <2>1, <2>2
  <2> QED
    BY <1>1, <2>2, <2>3, RankIsBijection
<1> QED
  BY <1>2, <1>3, <1>4, <1>5 DEF IsSorting, order

-----------------------------------------------------------------------------
(* Keeping places of a sequence.                                            *)

LessThan == { pair \in Nat \X Nat : pair[1] < pair[2] }

(* Sorting places with < gives them in increasing order.                    *)
LEMMA PlacesInOrder ==
  ASSUME NEW I \in SUBSET Nat, IsFiniteSet(I)
  PROVE  /\ IsSorting(SortedBy(I, <), I, LessThan)
         /\ \A j, k \in 1 .. Cardinality(I) : j < k => SortedBy(I, <)[j] < SortedBy(I, <)[k]
<1>1. IsStrictOrder(LessThan, I)
  BY DEF IsStrictOrder, LessThan
<1>2. \A x \in I : Below(LessThan, I, x) = { y \in I : y < x }
  BY DEF Below, LessThan
<1>3. { << x, Cardinality(Below(LessThan, I, x)) >> : x \in I }
        = { << x, Cardinality({ y \in I : y < x }) >> : x \in I }
  BY <1>2
<1>4. SortedBy(I, <) = [k \in 1 .. Cardinality(I) |->
          (CHOOSE r \in { << x, Cardinality({ y \in I : y < x }) >> : x \in I } :
              r[2] = k - 1)[1]]
  BY DEF SortedBy
<1> DEFINE order == SortedBy(I, <)
<1>5. IsSorting(order, I, LessThan)
  <2>1. order = [k \in 1 .. Cardinality(I) |->
          (CHOOSE r \in { << x, Cardinality(Below(LessThan, I, x)) >> : x \in I } :
              r[2] = k - 1)[1]]
    BY <1>3, <1>4
  <2> HIDE DEF order
  <2> QED
    BY <1>1, <2>1, SortingExists
<1>6. \A j, k \in 1 .. Cardinality(I) : j < k => order[j] < order[k]
  <2> HIDE DEF order
  <2> QED
    BY <1>5 DEF IsSorting, LessThan
<1> QED
  BY <1>5, <1>6

(* The places 1 .. n are n.                                                 *)
LEMMA IntervalSize ==
  ASSUME NEW n \in Nat
  PROVE  IsFiniteSet(1 .. n) /\ Cardinality(1 .. n) = n
<1>1. CASE n = 0
  <2>1. 1 .. n = {}
    BY <1>1
  <2> QED
    BY <1>1, <2>1, FS_EmptySet
<1>2. CASE n > 0
  BY <1>2, FS_Interval
<1> QED
  BY <1>1, <1>2

(* The places of a sequence are finitely many.                              *)
LEMMA PlacesAreFinite ==
  ASSUME NEW X, NEW s \in Seq(X), NEW I \in SUBSET DOMAIN s
  PROVE  /\ I \subseteq Nat /\ IsFiniteSet(I)
         /\ Cardinality(I) \in Nat /\ Cardinality(I) =< Len(s)
         /\ Cardinality(I) = Len(s) => I = DOMAIN s
<1>1. DOMAIN s = 1 .. Len(s) /\ Len(s) \in Nat
  OBVIOUS
<1>2. IsFiniteSet(1 .. Len(s)) /\ Cardinality(1 .. Len(s)) = Len(s)
  BY <1>1, IntervalSize
<1> QED
  BY <1>1, <1>2, FS_Subset, FS_CardinalityType

(* at lists the places I in increasing order: what is kept is what is there. *)
IsPlacing(at, s, I) ==
  /\ at \in [1 .. Cardinality(I) -> I]
  /\ \A j, k \in 1 .. Cardinality(I) : j < k => at[j] < at[k]
  /\ \A i \in I : \E k \in 1 .. Cardinality(I) : at[k] = i
  /\ \A k \in 1 .. Cardinality(I) : Kept(s, I)[k] = s[at[k]]

(* The elements at some places, in the order of their places.               *)
LEMMA KeptFacts ==
  ASSUME NEW X, NEW s \in Seq(X), NEW I \in SUBSET DOMAIN s
  PROVE  /\ Kept(s, I) \in Seq(X)
         /\ Len(Kept(s, I)) = Cardinality(I)
         /\ DOMAIN Kept(s, I) = 1 .. Cardinality(I)
         /\ \E at : IsPlacing(at, s, I)
<1> DEFINE at == SortedBy(I, <)
           n == Cardinality(I)
<1>1. I \subseteq Nat /\ IsFiniteSet(I) /\ n \in Nat
  BY PlacesAreFinite
<1>2. /\ at \in [1 .. n -> I]
      /\ \A j, k \in 1 .. n : j < k => at[j] < at[k]
      /\ \A i \in I : \E k \in 1 .. n : at[k] = i
  BY <1>1, PlacesInOrder DEF IsSorting
<1>3. Kept(s, I) = [k \in 1 .. n |-> s[at[k]]]
  BY DEF Kept
<1> HIDE DEF at, n
<1>4. \A i \in I : s[i] \in X
  OBVIOUS
<1>5. Kept(s, I) \in [1 .. n -> X]
  BY <1>2, <1>3, <1>4
<1>6. Kept(s, I) \in Seq(X) /\ Len(Kept(s, I)) = n /\ DOMAIN Kept(s, I) = 1 .. n
  BY <1>1, <1>5
<1>7. IsPlacing(at, s, I)
  BY <1>2, <1>3 DEF n, IsPlacing
<1> QED
  BY <1>6, <1>7 DEF n

(* As a set, the elements at those places.                                  *)
LEMMA KeptElements ==
  ASSUME NEW X, NEW s \in Seq(X), NEW I \in SUBSET DOMAIN s
  PROVE  ToSet(Kept(s, I)) = { s[i] : i \in I }
<1>1. PICK at : IsPlacing(at, s, I)
  BY KeptFacts
<1>2. DOMAIN Kept(s, I) = 1 .. Cardinality(I)
  BY KeptFacts
<1> QED
  BY <1>1, <1>2 DEF ToSet, IsPlacing

(* No element is repeated that was not repeated at those places.            *)
LEMMA KeptOnce ==
  ASSUME NEW X, NEW s \in Seq(X), NEW I \in SUBSET DOMAIN s,
         \A i, j \in I : s[i] = s[j] => i = j
  PROVE  IsInjective(Kept(s, I))
<1>1. PICK at : IsPlacing(at, s, I)
  BY KeptFacts
<1>2. DOMAIN Kept(s, I) = 1 .. Cardinality(I) /\ I \subseteq Nat /\ Cardinality(I) \in Nat
  BY KeptFacts, PlacesAreFinite
<1>3. ASSUME NEW j \in 1 .. Cardinality(I), NEW k \in 1 .. Cardinality(I), at[j] = at[k]
      PROVE  j = k
  BY <1>1, <1>2, <1>3 DEF IsPlacing
<1> QED
  BY <1>1, <1>2, <1>3 DEF IsInjective, IsPlacing

(* Counting up without a gap: an increasing list of n numbers out of 1 .. n *)
(* is 1 .. n.                                                               *)
LEMMA IncreasingIsIdentity ==
  ASSUME NEW n \in Nat, NEW at \in [1 .. n -> 1 .. n],
         \A j, k \in 1 .. n : j < k => at[j] < at[k]
  PROVE  \A k \in 1 .. n : at[k] = k
<1>1. \A k \in 1 .. n : at[k] >= k
  <2> DEFINE S == { m \in Nat : m \in 1 .. n => at[m] >= m }
  <2>1. 0 \in S
    OBVIOUS
  <2>2. ASSUME NEW m \in Nat, m \in S PROVE m + 1 \in S
    <3>1. CASE m = 0
      BY <3>1
    <3>2. CASE m # 0 /\ m + 1 \in 1 .. n
      <4>1. m \in 1 .. n /\ at[m] < at[m + 1] /\ at[m] >= m
        BY <2>2, <3>2
      <4> QED
        BY <3>2, <4>1
    <3> QED
      BY <3>1, <3>2
  <2>3. Nat \subseteq S
    <3> HIDE DEF S
    <3> QED
      BY <2>1, <2>2, SetInduction
  <2> QED
    BY <2>3
<1>2. \A k \in 1 .. n : at[k] =< k
  <2> DEFINE S == { m \in Nat : m \in 0 .. n - 1 => at[n - m] =< n - m }
  <2>1. 0 \in S
    OBVIOUS
  <2>2. ASSUME NEW m \in Nat, m \in S PROVE m + 1 \in S
    <3> SUFFICES ASSUME m + 1 \in 0 .. n - 1 PROVE at[n - (m + 1)] =< n - (m + 1)
      OBVIOUS
    <3>1. n - (m + 1) \in 1 .. n /\ n - m \in 1 .. n /\ at[n - m] =< n - m
      BY <2>2
    <3>2. at[n - (m + 1)] < at[n - m]
      BY <3>1
    <3> QED
      BY <3>1, <3>2
  <2>3. Nat \subseteq S
    <3> HIDE DEF S
    <3> QED
      BY <2>1, <2>2, SetInduction
  <2>4. ASSUME NEW k \in 1 .. n PROVE at[k] =< k
    <3>1. n - k \in Nat /\ n - k \in 0 .. n - 1 /\ n - (n - k) = k
      OBVIOUS
    <3>2. n - k \in S
      <4> HIDE DEF S
      <4> QED
        BY <2>3, <3>1
    <3> QED
      BY <3>1, <3>2
  <2> QED
    BY <2>4
<1> QED
  BY <1>1, <1>2

(* Keeping every place keeps the sequence.                                  *)
LEMMA KeptAll ==
  ASSUME NEW X, NEW s \in Seq(X)
  PROVE  Kept(s, DOMAIN s) = s
<1>1. DOMAIN s = 1 .. Len(s) /\ Len(s) \in Nat
  OBVIOUS
<1>2. Cardinality(DOMAIN s) = Len(s)
  BY <1>1, IntervalSize
<1>3. PICK at \in [1 .. Len(s) -> 1 .. Len(s)] :
        /\ \A j, k \in 1 .. Len(s) : j < k => at[j] < at[k]
        /\ \A k \in 1 .. Len(s) : Kept(s, DOMAIN s)[k] = s[at[k]]
  <2>1. PICK at : IsPlacing(at, s, DOMAIN s)
    BY KeptFacts
  <2> QED
    BY <1>1, <1>2, <2>1 DEF IsPlacing
<1>4. \A k \in 1 .. Len(s) : Kept(s, DOMAIN s)[k] = s[k]
  BY <1>1, <1>3, IncreasingIsIdentity
<1>5. Kept(s, DOMAIN s) \in Seq(X) /\ Len(Kept(s, DOMAIN s)) = Len(s)
  BY <1>2, KeptFacts
<1> QED
  BY <1>4, <1>5

(* Dropping repeats keeps every element, once, and a sequence without any.  *)
LEMMA FirstsFacts ==
  ASSUME NEW X, NEW s \in Seq(X)
  PROVE  /\ Firsts(s) \in Seq(X)
         /\ ToSet(Firsts(s)) = ToSet(s)
         /\ IsInjective(Firsts(s))
         /\ IsInjective(s) => Firsts(s) = s
<1> DEFINE I == { i \in DOMAIN s : \A k \in 1 .. i - 1 : s[k] # s[i] }
<1>1. I \in SUBSET DOMAIN s /\ Firsts(s) = Kept(s, I)
  BY DEF Firsts
<1>2. \A i, j \in I : s[i] = s[j] => i = j
  OBVIOUS
<1>3. ASSUME NEW x \in ToSet(s) PROVE x \in { s[i] : i \in I }
  <2> DEFINE T == { i \in DOMAIN s : s[i] = x }
  <2>1. T \in SUBSET Nat /\ T # {}
    BY <1>3 DEF ToSet
  <2>2. PICK i \in T : \A j \in T : i =< j
    BY <2>1, LeastNatural
  <2>3. i \in I
    BY <2>2
  <2> QED
    BY <2>2, <2>3
<1>4. { s[i] : i \in I } = ToSet(s)
  BY <1>3 DEF ToSet
<1>5. ASSUME IsInjective(s) PROVE I = DOMAIN s
  <2>1. DOMAIN s = 1 .. Len(s) /\ Len(s) \in Nat
    OBVIOUS
  <2>2. ASSUME NEW i \in DOMAIN s, NEW k \in 1 .. i - 1 PROVE s[k] # s[i]
    BY <1>5, <2>1, <2>2 DEF IsInjective
  <2> QED
    BY <2>2
<1> HIDE DEF I
<1>6. Kept(s, I) \in Seq(X)
  BY <1>1, KeptFacts
<1>7. ToSet(Kept(s, I)) = ToSet(s)
  BY <1>1, <1>4, KeptElements
<1>8. IsInjective(Kept(s, I))
  BY <1>1, <1>2, KeptOnce
<1> QED
  BY <1>1, <1>5, <1>6, <1>7, <1>8, KeptAll

(* A sequence without repeats is as long as it has elements.                *)
LEMMA LengthOfInjective ==
  ASSUME NEW X, NEW s \in Seq(X), IsInjective(s)
  PROVE  IsFiniteSet(ToSet(s)) /\ Cardinality(ToSet(s)) = Len(s)
<1>1. s \in [1 .. Len(s) -> ToSet(s)] /\ Len(s) \in Nat
  BY DEF ToSet
<1>2. s \in Bijection(1 .. Len(s), ToSet(s))
  BY <1>1 DEF ToSet, IsInjective, Bijection, Injection, Surjection
<1>3. ExistsBijection(1 .. Len(s), ToSet(s))
  BY <1>2 DEF ExistsBijection
<1>4. IsFiniteSet(1 .. Len(s)) /\ Cardinality(1 .. Len(s)) = Len(s)
  BY <1>1, IntervalSize
<1> QED
  BY <1>3, <1>4, FS_Bijection

-----------------------------------------------------------------------------
(* The order of texts.                                                      *)

LEMMA CodePointFacts ==
  /\ \A c \in Characters : CodePoint[c] \in Nat
  /\ \A c, d \in Characters : CodePoint[c] = CodePoint[d] => c = d
<1>1. \A c \in Characters : \E i \in DOMAIN Alphabet : Alphabet[i] = c
  BY DEF Characters, ToSet
<1>2. \A c \in Characters : CodePoint[c] \in DOMAIN Alphabet /\ Alphabet[CodePoint[c]] = c
  BY <1>1 DEF CodePoint
<1>3. DOMAIN Alphabet \subseteq Nat
  BY AlphabetAssumption
<1> QED
  BY <1>2, <1>3

(* a comes first at place i: there it has the smaller character, and before  *)
(* it the two are the same.                                                 *)
DiffersAt(a, b, i) ==
  /\ i \in 1 .. Len(a) /\ i \in 1 .. Len(b)
  /\ \A j \in 1 .. i - 1 : a[j] = b[j]
  /\ CodePoint[a[i]] < CodePoint[b[i]]

IsShorter(a, b) == Len(a) < Len(b) /\ \A j \in 1 .. Len(a) : a[j] = b[j]

LEMMA PrecedesIsLexical ==
  ASSUME NEW a \in Seq(Characters), NEW b \in Seq(Characters)
  PROVE  /\ Precedes(a, b) <=> (\E i \in Nat : DiffersAt(a, b, i)) \/ IsShorter(a, b)
         /\ a = b \/ Precedes(a, b) \/ Precedes(b, a)
<1> DEFINE low == Min({Len(a), Len(b)})
           differ == { i \in 1 .. low : a[i] # b[i] }
           Diff(i) == DiffersAt(a, b, i)
           Back(i) == DiffersAt(b, a, i)
<1>1. /\ Len(a) \in Nat /\ Len(b) \in Nat
      /\ low \in Nat /\ low =< Len(a) /\ low =< Len(b) /\ (low = Len(a) \/ low = Len(b))
  BY MinOfTwo
<1>2. Min({Len(b), Len(a)}) = low
  BY <1>1, MinOfTwo
<1>3. { i \in 1 .. Min({Len(b), Len(a)}) : b[i] # a[i] } = differ
  BY <1>2
<1> HIDE DEF low
<1>4. \A i \in 1 .. Len(a) : a[i] \in Characters /\ CodePoint[a[i]] \in Nat
  BY CodePointFacts
<1>5. \A i \in 1 .. Len(b) : b[i] \in Characters /\ CodePoint[b[i]] \in Nat
  BY CodePointFacts
<1>6. CASE differ = {}
  <2>1. \A i \in 1 .. low : a[i] = b[i]
    BY <1>6
  <2>2. Precedes(a, b) <=> Len(a) < Len(b)
    BY <1>6 DEF Precedes, low
  <2>3. Precedes(b, a) <=> Len(b) < Len(a)
    BY <1>3, <1>6 DEF Precedes
  <2>4. \A i \in Nat : ~DiffersAt(a, b, i)
    <3> SUFFICES ASSUME NEW i \in Nat, DiffersAt(a, b, i) PROVE FALSE
      OBVIOUS
    <3>1. i \in 1 .. low
      BY <1>1 DEF DiffersAt
    <3> QED
      BY <1>4, <1>5, <2>1, <3>1 DEF DiffersAt
  <2>5. Len(a) < Len(b) <=> IsShorter(a, b)
    BY <1>1, <2>1 DEF IsShorter
  <2>6. Len(a) = Len(b) => a = b
    BY <1>1, <2>1
  <2> QED
    BY <1>1, <2>2, <2>3, <2>4, <2>5, <2>6
<1>7. CASE differ # {}
  <2> DEFINE m == Min(differ)
  <2>1. m \in differ /\ \A i \in differ : m =< i
    <3>1. differ \in SUBSET Nat
      BY <1>1
    <3> HIDE DEF differ
    <3> QED
      BY <1>7, <3>1, MinIsLeast
  <2>2. Precedes(a, b) <=> CodePoint[a[m]] < CodePoint[b[m]]
    BY <1>7 DEF Precedes, low
  <2>3. Precedes(b, a) <=> CodePoint[b[m]] < CodePoint[a[m]]
    BY <1>3, <1>7 DEF Precedes
  <2> HIDE DEF m
  <2>4. m \in 1 .. low /\ a[m] # b[m]
    BY <2>1
  <2>5. \A j \in 1 .. m - 1 : a[j] = b[j]
    <3> SUFFICES ASSUME NEW j \in 1 .. m - 1, a[j] # b[j] PROVE FALSE
      OBVIOUS
    <3>1. j \in differ
      BY <1>1, <2>4
    <3> QED
      BY <2>1, <2>4, <3>1
  <2>6. m \in 1 .. Len(a) /\ m \in 1 .. Len(b)
    BY <1>1, <2>4
  <2>7. CodePoint[a[m]] # CodePoint[b[m]]
    BY <1>4, <1>5, <2>4, <2>6, CodePointFacts
  <2>8. CodePoint[a[m]] < CodePoint[b[m]] => DiffersAt(a, b, m)
    BY <2>5, <2>6 DEF DiffersAt
  <2>9. \A i \in Nat : DiffersAt(a, b, i) => i = m
    <3> SUFFICES ASSUME NEW i \in Nat, DiffersAt(a, b, i), i # m PROVE FALSE
      OBVIOUS
    <3>1. CASE i < m
      <4>1. i \in 1 .. m - 1
        BY <2>6, <3>1 DEF DiffersAt
      <4> QED
        BY <1>4, <2>5, <4>1 DEF DiffersAt
    <3>2. CASE m < i
      <4>1. m \in 1 .. i - 1
        BY <2>6, <3>2
      <4> QED
        BY <2>4, <4>1 DEF DiffersAt
    <3> QED
      BY <2>6, <3>1, <3>2
  <2>10. ~IsShorter(a, b)
    BY <2>4, <2>6 DEF IsShorter
  <2>11. Precedes(a, b) <=> \E i \in Nat : DiffersAt(a, b, i)
    <3>1. Precedes(a, b) => DiffersAt(a, b, m) /\ m \in Nat
      BY <2>2, <2>6, <2>8
    <3>2. (\E i \in Nat : DiffersAt(a, b, i)) => CodePoint[a[m]] < CodePoint[b[m]]
      BY <2>9 DEF DiffersAt
    <3> QED
      BY <2>2, <3>1, <3>2
  <2> QED
    BY <1>4, <1>5, <2>2, <2>3, <2>6, <2>7, <2>10, <2>11
<1> QED
  BY <1>6, <1>7

LEMMA PrecedesIsTransitive ==
  ASSUME NEW a \in Seq(Characters), NEW b \in Seq(Characters), NEW c \in Seq(Characters),
         Precedes(a, b), Precedes(b, c)
  PROVE  Precedes(a, c)
<1>1. Len(a) \in Nat /\ Len(b) \in Nat /\ Len(c) \in Nat
  OBVIOUS
<1>2. /\ \A i \in 1 .. Len(a) : CodePoint[a[i]] \in Nat
      /\ \A i \in 1 .. Len(b) : CodePoint[b[i]] \in Nat
      /\ \A i \in 1 .. Len(c) : CodePoint[c[i]] \in Nat
  BY CodePointFacts
<1>3. (\E i \in Nat : DiffersAt(a, b, i)) \/ IsShorter(a, b)
  BY PrecedesIsLexical
<1>4. (\E i \in Nat : DiffersAt(b, c, i)) \/ IsShorter(b, c)
  BY PrecedesIsLexical
<1>5. ASSUME NEW i \in Nat, DiffersAt(a, b, i), NEW k \in Nat, DiffersAt(b, c, k)
      PROVE  \E n \in Nat : DiffersAt(a, c, n)
  <2>1. CASE i < k
    <3>1. i \in 1 .. k - 1 /\ i \in 1 .. Len(c) /\ i \in 1 .. Len(a) /\ b[i] = c[i]
      BY <1>1, <1>5, <2>1 DEF DiffersAt
    <3>2. \A j \in 1 .. i - 1 : a[j] = c[j]
      BY <1>5, <2>1 DEF DiffersAt
    <3>3. CodePoint[a[i]] < CodePoint[c[i]]
      BY <1>5, <3>1 DEF DiffersAt
    <3>4. DiffersAt(a, c, i)
      BY <3>1, <3>2, <3>3 DEF DiffersAt
    <3> QED
      BY <3>4
  <2>2. CASE k < i
    <3>1. k \in 1 .. i - 1 /\ k \in 1 .. Len(c) /\ k \in 1 .. Len(a) /\ a[k] = b[k]
      BY <1>1, <1>5, <2>2 DEF DiffersAt
    <3>2. \A j \in 1 .. k - 1 : a[j] = c[j]
      BY <1>5, <2>2 DEF DiffersAt
    <3>3. CodePoint[a[k]] < CodePoint[c[k]]
      BY <1>5, <3>1 DEF DiffersAt
    <3>4. DiffersAt(a, c, k)
      BY <3>1, <3>2, <3>3 DEF DiffersAt
    <3> QED
      BY <3>4
  <2>3. CASE i = k
    <3>1. i \in 1 .. Len(a) /\ i \in 1 .. Len(b) /\ i \in 1 .. Len(c)
      BY <1>5, <2>3 DEF DiffersAt
    <3>2. \A j \in 1 .. i - 1 : a[j] = c[j]
      BY <1>5, <2>3 DEF DiffersAt
    <3>3. CodePoint[a[i]] < CodePoint[c[i]]
      BY <1>2, <1>5, <2>3, <3>1 DEF DiffersAt
    <3>4. DiffersAt(a, c, i)
      BY <3>1, <3>2, <3>3 DEF DiffersAt
    <3> QED
      BY <3>4
  <2> QED
    BY <2>1, <2>2, <2>3
<1>6. ASSUME NEW i \in Nat, DiffersAt(a, b, i), IsShorter(b, c)
      PROVE  DiffersAt(a, c, i)
  <2>1. i \in 1 .. Len(a) /\ i \in 1 .. Len(b) /\ i \in 1 .. Len(c) /\ b[i] = c[i]
    BY <1>1, <1>6 DEF DiffersAt, IsShorter
  <2>2. \A j \in 1 .. i - 1 : a[j] = c[j]
    BY <1>1, <1>6, <2>1 DEF DiffersAt, IsShorter
  <2> QED
    BY <1>6, <2>1, <2>2 DEF DiffersAt
<1>7. ASSUME IsShorter(a, b), NEW k \in Nat, DiffersAt(b, c, k)
      PROVE  DiffersAt(a, c, k) \/ IsShorter(a, c)
  <2>1. CASE k =< Len(a)
    <3>1. k \in 1 .. Len(a) /\ k \in 1 .. Len(c) /\ a[k] = b[k]
      BY <1>1, <1>7, <2>1 DEF DiffersAt, IsShorter
    <3>2. \A j \in 1 .. k - 1 : a[j] = c[j]
      BY <1>1, <1>7, <2>1 DEF DiffersAt, IsShorter
    <3> QED
      BY <1>7, <3>1, <3>2 DEF DiffersAt
  <2>2. CASE Len(a) < k
    <3>1. Len(a) < Len(c)
      BY <1>1, <1>7, <2>2 DEF DiffersAt
    <3>2. \A j \in 1 .. Len(a) : a[j] = c[j]
      BY <1>1, <1>7, <2>2 DEF DiffersAt, IsShorter
    <3> QED
      BY <3>1, <3>2 DEF IsShorter
  <2> QED
    BY <1>1, <2>1, <2>2
<1>8. ASSUME IsShorter(a, b), IsShorter(b, c) PROVE IsShorter(a, c)
  BY <1>1, <1>8 DEF IsShorter
<1> QED
  BY <1>3, <1>4, <1>5, <1>6, <1>7, <1>8, PrecedesIsLexical

LEMMA PrecedesIsOrder ==
  ASSUME NEW S \in SUBSET Seq(Characters)
  PROVE  IsStrictOrder({ p \in S \X S : Precedes(p[1], p[2]) }, S)
<1> DEFINE R == { p \in S \X S : Precedes(p[1], p[2]) }
<1>1. \A x, y \in S : << x, y >> \in R <=> Precedes(x, y)
  OBVIOUS
<1>2. \A x \in S : ~Precedes(x, x)
  BY CodePointFacts DEF Precedes
<1>3. \A x, y, z \in S : Precedes(x, y) /\ Precedes(y, z) => Precedes(x, z)
  BY PrecedesIsTransitive
<1>4. \A x, y \in S : x = y \/ Precedes(x, y) \/ Precedes(y, x)
  BY PrecedesIsLexical
<1> HIDE DEF R
<1>5. IsStrictOrder(R, S)
  BY <1>1, <1>2, <1>3, <1>4 DEF IsStrictOrder
<1> QED
  BY <1>5 DEF R

(* Sorting texts loses none and repeats none.                               *)
LEMMA SortedTexts ==
  ASSUME NEW S \in SUBSET Seq(Characters), IsFiniteSet(S)
  PROVE  /\ SortedBy(S, Precedes) \in Seq(S)
         /\ ToSet(SortedBy(S, Precedes)) = S
         /\ IsInjective(SortedBy(S, Precedes))
         /\ Len(SortedBy(S, Precedes)) = Cardinality(S)
<1> DEFINE R == { p \in S \X S : Precedes(p[1], p[2]) }
           order == SortedBy(S, Precedes)
<1>1. \A x \in S : Below(R, S, x) = { y \in S : Precedes(y, x) }
  BY DEF Below
<1>2. { << x, Cardinality(Below(R, S, x)) >> : x \in S }
        = { << x, Cardinality({ y \in S : Precedes(y, x) }) >> : x \in S }
  BY <1>1
<1>3. order = [k \in 1 .. Cardinality(S) |->
          (CHOOSE r \in { << x, Cardinality({ y \in S : Precedes(y, x) }) >> : x \in S } :
              r[2] = k - 1)[1]]
  BY DEF SortedBy
<1>4. order = [k \in 1 .. Cardinality(S) |->
                      (CHOOSE r \in { << x, Cardinality(Below(R, S, x)) >> : x \in S } :
                          r[2] = k - 1)[1]]
  BY <1>2, <1>3
<1>5. IsStrictOrder(R, S)
  BY PrecedesIsOrder
<1> HIDE DEF R, order
<1>6. IsSorting(order, S, R)
  BY <1>4, <1>5, SortingExists
<1>7. Cardinality(S) \in Nat
  BY FS_CardinalityType
<1>8. order \in Seq(S) /\ Len(order) = Cardinality(S) /\ DOMAIN order = 1 .. Cardinality(S)
  BY <1>6, <1>7 DEF IsSorting
<1>9. ToSet(order) = S
  BY <1>6, <1>8 DEF IsSorting, ToSet
<1>10. IsInjective(order)
  BY <1>6, <1>8 DEF IsSorting, IsInjective
<1> QED
  BY <1>8, <1>9, <1>10 DEF order

-----------------------------------------------------------------------------
(* Recursion.                                                               *)

(* A function defined step by step on 0 .. N exists, so that a definition   *)
(* f[n \in 0 .. N] == IF n = 0 THEN base ELSE step[n][f[n - 1]] is met. *)
LEMMA RecursionExists ==
  ASSUME NEW S, NEW base \in S, NEW N \in Nat, NEW step \in [1 .. N -> [S -> S]]
  PROVE  \E f \in [0 .. N -> S] :
            f[0] = base /\ \A n \in 1 .. N : f[n] = step[n][f[n - 1]]
<1> DEFINE Upto(m, f) == f = [n \in 0 .. m |-> IF n = 0 THEN base ELSE step[n][f[n - 1]]]
           Good == { m \in Nat : m =< N => \E f \in [0 .. m -> S] : Upto(m, f) }
<1>1. 0 \in Good
  <2> DEFINE f == [n \in 0 .. 0 |-> base]
  <2>1. f \in [0 .. 0 -> S]
    OBVIOUS
  <2>2. Upto(0, f)
    OBVIOUS
  <2> QED
    BY <2>1, <2>2
<1>2. ASSUME NEW m \in Nat, m \in Good PROVE m + 1 \in Good
  <2> SUFFICES ASSUME m + 1 =< N PROVE \E f \in [0 .. m + 1 -> S] : Upto(m + 1, f)
    OBVIOUS
  <2>1. PICK f \in [0 .. m -> S] : Upto(m, f)
    BY <1>2
  <2> DEFINE g == [n \in 0 .. m + 1 |-> IF n = m + 1 THEN step[n][f[m]] ELSE f[n]]
  <2>2. f[m] \in S /\ step[m + 1][f[m]] \in S
    OBVIOUS
  <2>3. g \in [0 .. m + 1 -> S]
    BY <2>2
  <2>4. ASSUME NEW n \in 0 .. m + 1
        PROVE  g[n] = IF n = 0 THEN base ELSE step[n][g[n - 1]]
    <3>1. CASE n = m + 1
      BY <3>1
    <3>2. CASE n # m + 1
      <4>1. n \in 0 .. m /\ g[n] = f[n]
        BY <3>2
      <4>2. f[n] = IF n = 0 THEN base ELSE step[n][f[n - 1]]
        BY <2>1, <4>1
      <4>3. n # 0 => n - 1 \in 0 .. m /\ g[n - 1] = f[n - 1]
        BY <4>1
      <4> QED
        BY <4>1, <4>2, <4>3
    <3> QED
      BY <3>1, <3>2
  <2>5. Upto(m + 1, g)
    BY <2>4
  <2> QED
    BY <2>3, <2>5
<1>3. Nat \subseteq Good
  <2> HIDE DEF Good
  <2> QED
    BY <1>1, <1>2, SetInduction
<1>4. PICK f \in [0 .. N -> S] : Upto(N, f)
  BY <1>3
<1>5. \A n \in 0 .. N : f[n] = IF n = 0 THEN base ELSE step[n][f[n - 1]]
  BY <1>4
<1>6. f[0] = base /\ \A n \in 1 .. N : f[n] = step[n][f[n - 1]]
  BY <1>5
<1> QED
  BY <1>6

IsRecursion(f, S, base, N, step) ==
    f \in [0 .. N -> S] /\ f[0] = base /\ \A n \in 1 .. N : f[n] = step[n][f[n - 1]]

LEMMA RecursionRuns ==
  ASSUME NEW S, NEW base \in S, NEW N \in Nat, NEW step \in [1 .. N -> [S -> S]]
  PROVE  \E f : IsRecursion(f, S, base, N, step)
BY RecursionExists DEF IsRecursion

-----------------------------------------------------------------------------
(* Sequences made of others.                                                *)

LEMMA ConcatFacts ==
  ASSUME NEW X, NEW s \in Seq(X), NEW t \in Seq(X)
  PROVE  /\ s \o t \in Seq(X) /\ Len(s \o t) = Len(s) + Len(t)
         /\ \A i \in 1 .. Len(s) : (s \o t)[i] = s[i]
         /\ \A i \in 1 .. Len(t) : (s \o t)[Len(s) + i] = t[i]
         /\ ToSet(s \o t) = ToSet(s) \cup ToSet(t)
         /\ SubSeq(s \o t, Len(s) + 1, Len(s \o t)) = t
<1>1. /\ s \o t \in Seq(X) /\ Len(s \o t) = Len(s) + Len(t)
      /\ \A i \in 1 .. Len(s) : (s \o t)[i] = s[i]
      /\ \A i \in 1 .. Len(t) : (s \o t)[Len(s) + i] = t[i]
      /\ Len(s) \in Nat /\ Len(t) \in Nat
      /\ DOMAIN s = 1 .. Len(s) /\ DOMAIN t = 1 .. Len(t)
      /\ DOMAIN (s \o t) = 1 .. Len(s) + Len(t)
  OBVIOUS
<1> DEFINE u == s \o t
<1> HIDE DEF u
<1>2. ToSet(u) = ToSet(s) \cup ToSet(t)
  <2>1. ASSUME NEW i \in 1 .. Len(s) + Len(t)
        PROVE  i \in 1 .. Len(s) \/ (i - Len(s) \in 1 .. Len(t) /\ i = Len(s) + (i - Len(s)))
    BY <1>1
  <2>2. ToSet(u) \subseteq ToSet(s) \cup ToSet(t)
    BY <1>1, <2>1 DEF ToSet, u
  <2>3. \A i \in 1 .. Len(t) : Len(s) + i \in 1 .. Len(s) + Len(t)
    BY <1>1
  <2>4. \A i \in 1 .. Len(s) : i \in 1 .. Len(s) + Len(t)
    BY <1>1
  <2>5. ToSet(s) \subseteq ToSet(u) /\ ToSet(t) \subseteq ToSet(u)
    BY <1>1, <2>3, <2>4 DEF ToSet, u
  <2> QED
    BY <2>2, <2>5
<1>3. SubSeq(u, Len(s) + 1, Len(u)) = t
  <2> DEFINE m == Len(s) + 1
             n == Len(u)
  <2>1. u \in Seq(X) /\ Len(u) = Len(s) + Len(t)
    BY <1>1 DEF u
  <2>2. m \in 1 .. Len(u) + 1 /\ n \in m - 1 .. Len(u) /\ n - m + 1 = Len(t)
    BY <1>1, <2>1
  <2>3. \A i \in 1 .. Len(t) : m + i - 1 = Len(s) + i
    BY <1>1
  <2> HIDE DEF m, n
  <2>4. /\ SubSeq(u, m, n) \in Seq(X) /\ Len(SubSeq(u, m, n)) = n - m + 1
        /\ \A i \in 1 .. n - m + 1 : SubSeq(u, m, n)[i] = u[m + i - 1]
    BY <2>1, <2>2, SubSeqFacts
  <2>5. \A i \in 1 .. Len(t) : SubSeq(u, m, n)[i] = t[i]
    BY <1>1, <2>2, <2>3, <2>4 DEF u
  <2>6. SubSeq(u, m, n) = t
    BY <2>2, <2>4, <2>5, SameSequence
  <2> QED
    BY <2>6 DEF m, n
<1> QED
  BY <1>1, <1>2, <1>3 DEF u

(* Two sequences without repeats and without a common element make another. *)
LEMMA ConcatOnce ==
  ASSUME NEW X, NEW s \in Seq(X), NEW t \in Seq(X), IsInjective(s), IsInjective(t),
         ToSet(s) \cap ToSet(t) = {}
  PROVE  IsInjective(s \o t)
<1>1. /\ \A i \in 1 .. Len(s) : (s \o t)[i] = s[i]
      /\ \A i \in 1 .. Len(t) : (s \o t)[Len(s) + i] = t[i]
      /\ Len(s) \in Nat /\ Len(t) \in Nat
      /\ DOMAIN s = 1 .. Len(s) /\ DOMAIN t = 1 .. Len(t)
      /\ DOMAIN (s \o t) = 1 .. Len(s) + Len(t)
  BY ConcatFacts
<1> DEFINE u == s \o t
<1> HIDE DEF u
<1>2. ASSUME NEW i \in 1 .. Len(s) + Len(t)
      PROVE  i \in 1 .. Len(s) \/ (i - Len(s) \in 1 .. Len(t) /\ i = Len(s) + (i - Len(s)))
  BY <1>1
<1>3. ASSUME NEW i \in 1 .. Len(s) + Len(t), NEW j \in 1 .. Len(s) + Len(t), u[i] = u[j]
      PROVE  i = j
  <2>1. CASE i \in 1 .. Len(s) /\ j \in 1 .. Len(s)
    BY <1>1, <1>3, <2>1 DEF IsInjective, u
  <2>2. CASE i \notin 1 .. Len(s) /\ j \notin 1 .. Len(s)
    <3>1. /\ i - Len(s) \in 1 .. Len(t) /\ j - Len(s) \in 1 .. Len(t)
          /\ u[i] = t[i - Len(s)] /\ u[j] = t[j - Len(s)]
      BY <1>1, <1>2, <2>2 DEF u
    <3>2. i - Len(s) = j - Len(s)
      BY <1>1, <1>3, <3>1 DEF IsInjective
    <3> QED
      BY <1>1, <3>2
  <2>3. ASSUME NEW k \in 1 .. Len(s), NEW l \in 1 .. Len(s) + Len(t), l \notin 1 .. Len(s)
        PROVE  u[k] # u[l]
    <3>1. u[k] \in ToSet(s)
      BY <1>1 DEF ToSet, u
    <3>2. u[l] \in ToSet(t)
      BY <1>1, <1>2, <2>3 DEF ToSet, u
    <3> QED
      BY <3>1, <3>2
  <2> QED
    BY <1>3, <2>1, <2>2, <2>3
<1> QED
  BY <1>1, <1>3 DEF IsInjective, u

\* Appending the members of a sequence one after another stays in what each of
\* them, appended, stays in.
LEMMA FlattenInside ==
  ASSUME NEW S, NEW seqs, NEW base
  PROVE  (/\ Len(seqs) \in Nat \ {0} /\ base \in S
          /\ \A n \in 1 .. Len(seqs) : seqs[n] \in S /\ base \o seqs[n] = seqs[n]
          /\ \A t \in S : \A n \in 1 .. Len(seqs) : t \o seqs[n] \in S)
         => FlattenSeq(seqs) \in S
<1> DEFINE N == Len(seqs)
           step == [n \in 1 .. N |-> [t \in S |-> t \o seqs[n]]]
           Steps(f) == f = [i \in 1 .. N |-> IF i = 1 THEN seqs[i] ELSE f[i - 1] \o seqs[i]]
           flatten == CHOOSE f : Steps(f)
<1>a. SUFFICES ASSUME /\ N \in Nat \ {0} /\ base \in S
                      /\ \A n \in 1 .. N : seqs[n] \in S /\ base \o seqs[n] = seqs[n]
                      /\ \A t \in S : \A n \in 1 .. N : t \o seqs[n] \in S
               PROVE  FlattenSeq(seqs) \in S
  OBVIOUS
<1>1. step \in [1 .. N -> [S -> S]]
  BY <1>a
<1>2. N \in Nat /\ base \in S
  BY <1>a
<1>3. PICK g : /\ g \in [0 .. N -> S]
               /\ g[0] = base /\ \A n \in 1 .. N : g[n] = step[n][g[n - 1]]
  <2> HIDE DEF step, N, Steps, flatten
  <2> QED
    BY <1>1, <1>2, RecursionExists
<1>4. \A n \in 1 .. N : g[n] = g[n - 1] \o seqs[n]
  <2> SUFFICES ASSUME NEW n \in 1 .. N PROVE g[n] = g[n - 1] \o seqs[n]
    OBVIOUS
  <2>1. n - 1 \in 0 .. N
    BY <1>2
  <2>2. g[n - 1] \in S
    BY <1>3, <2>1
  <2> QED
    BY <1>3, <2>2
<1> DEFINE h == [i \in 1 .. N |-> g[i]]
<1>5. \A i \in 1 .. N : h[i] = IF i = 1 THEN seqs[i] ELSE h[i - 1] \o seqs[i]
  <2> SUFFICES ASSUME NEW i \in 1 .. N
               PROVE  h[i] = IF i = 1 THEN seqs[i] ELSE h[i - 1] \o seqs[i]
    OBVIOUS
  <2>1. CASE i = 1
    <3>1. i - 1 = 0
      BY <2>1
    <3>2. g[i] = g[i - 1] \o seqs[i] /\ base \o seqs[i] = seqs[i]
      BY <1>4, <1>a
    <3>3. g[0] = base
      BY <1>3
    <3> QED
      BY <2>1, <3>1, <3>2, <3>3
  <2>2. CASE i # 1
    <3>1. i - 1 \in 1 .. N
      BY <1>2, <2>2
    <3> QED
      BY <1>4, <2>2, <3>1
  <2> QED
    BY <2>1, <2>2
<1>6. Steps(h)
  BY <1>5
<1>7. Steps(flatten)
  <2> HIDE DEF Steps
  <2> QED
    BY <1>6
<1>8. FlattenSeq(seqs) = flatten[N]
  BY <1>a DEF FlattenSeq
<1> HIDE DEF flatten
<1>9. \A i \in 1 .. N : flatten[i] = IF i = 1 THEN seqs[i] ELSE flatten[i - 1] \o seqs[i]
  BY <1>7
<1> DEFINE Good == { n \in Nat : n + 1 =< N => flatten[n + 1] \in S }
<1>10. 0 \in Good
  BY <1>9, <1>a
<1>11. ASSUME NEW n \in Nat, n \in Good PROVE n + 1 \in Good
  <2> SUFFICES ASSUME (n + 1) + 1 =< N PROVE flatten[(n + 1) + 1] \in S
    OBVIOUS
  <2>1. /\ (n + 1) + 1 \in 1 .. N /\ (n + 1) + 1 # 1 /\ ((n + 1) + 1) - 1 = n + 1
        /\ n + 1 =< N
    BY <1>2
  <2>2. flatten[n + 1] \in S
    BY <1>11, <2>1
  <2>3. flatten[(n + 1) + 1] = flatten[n + 1] \o seqs[(n + 1) + 1]
    BY <1>9, <2>1
  <2> QED
    BY <1>a, <2>1, <2>2, <2>3
<1>12. Nat \subseteq Good
  <2> HIDE DEF Good
  <2> QED
    BY <1>10, <1>11, SetInduction
<1>13. N - 1 \in Nat /\ (N - 1) + 1 = N
  BY <1>a
<1>14. flatten[N] \in S
  <2>1. N - 1 \in Good /\ (N - 1) + 1 =< N
    BY <1>2, <1>12, <1>13
  <2>2. flatten[(N - 1) + 1] \in S
    BY <2>1
  <2> QED
    BY <1>13, <2>2
<1> QED
  BY <1>8, <1>14

LEMMA FlattenFacts ==
  ASSUME NEW X, NEW seqs \in Seq(Seq(X))
  PROVE  FlattenSeq(seqs) \in Seq(X)
<1>1. CASE Len(seqs) = 0
  BY <1>1 DEF FlattenSeq
<1>2. CASE Len(seqs) # 0
  <2> DEFINE S == Seq(X)
  <2>1. Len(seqs) \in Nat /\ \A n \in 1 .. Len(seqs) : seqs[n] \in S
    <3> HIDE DEF S
    <3>1. seqs \in Seq(S)
      BY DEF S
    <3> QED
      BY <3>1
  <2>2. << >> \in S
    OBVIOUS
  <2>3. \A n \in 1 .. Len(seqs) : seqs[n] \in S /\ << >> \o seqs[n] = seqs[n]
    BY <2>1
  <2>4. \A t \in S : \A n \in 1 .. Len(seqs) : t \o seqs[n] \in S
    BY <2>1
  <2> HIDE DEF S
  <2>5. FlattenSeq(seqs) \in S
    BY <1>2, <2>1, <2>2, <2>3, <2>4, FlattenInside
  <2> QED
    BY <2>5 DEF S
<1> QED
  BY <1>1, <1>2

(* str.split() gives texts, and a text without white space gives itself.    *)
LEMMA WordsFacts ==
  ASSUME NEW X, NEW text \in Seq(X)
  PROVE  /\ Words(text) \in Seq(Seq(X))
         /\ text # << >> /\ (\A i \in DOMAIN text : text[i] \notin Spaces)
                => ToSet(Words(text)) = {text}
<1> DEFINE starts == { i \in DOMAIN text :
                         text[i] \notin Spaces /\ (i > 1 => text[i - 1] \in Spaces) }
           stops(i) == { j \in i .. Len(text) : j = Len(text) \/ text[j + 1] \in Spaces }
           from == [i \in DOMAIN text |-> SubSeq(text, i, Min(stops(i)))]
           S == Seq(X)
<1>1. Len(text) \in Nat /\ DOMAIN text = 1 .. Len(text)
  OBVIOUS
<1>2. \A i \in DOMAIN text : Min(stops(i)) \in stops(i)
  <2> SUFFICES ASSUME NEW i \in DOMAIN text PROVE Min(stops(i)) \in stops(i)
    OBVIOUS
  <2>1. Len(text) \in stops(i) /\ stops(i) \in SUBSET Nat
    BY <1>1
  <2> HIDE DEF stops
  <2> QED
    BY <2>1, MinIsLeast
<1>3. \A i \in DOMAIN text : Min(stops(i)) \in i .. Len(text)
  BY <1>2
<1>4. \A i \in DOMAIN text : SubSeq(text, i, Min(stops(i))) \in S
  <2> SUFFICES ASSUME NEW i \in DOMAIN text PROVE SubSeq(text, i, Min(stops(i))) \in S
    OBVIOUS
  <2> DEFINE e == Min(stops(i))
  <2>1. e \in i .. Len(text)
    BY <1>3
  <2> HIDE DEF e
  <2>2. i \in 1 .. Len(text) + 1 /\ e \in i - 1 .. Len(text)
    BY <1>1, <2>1
  <2>3. SubSeq(text, i, e) \in S
    BY <2>2, SubSeqFacts
  <2> QED
    BY <2>3 DEF e
<1>5. from \in Seq(S) /\ DOMAIN from = DOMAIN text /\ Len(from) = Len(text)
  <2>1. from \in [1 .. Len(text) -> S]
    <3> HIDE DEF S, stops
    <3> QED
      BY <1>1, <1>4
  <2> HIDE DEF from, S
  <2> QED
    BY <1>1, <2>1
<1>6. Words(text) = Kept(from, starts)
  BY DEF Words
<1>7. starts \in SUBSET DOMAIN from
  BY <1>5
<1>8. Words(text) \in Seq(S) /\ ToSet(Words(text)) = { from[i] : i \in starts }
  <2> HIDE DEF S, from, starts
  <2> QED
    BY <1>5, <1>6, <1>7, KeptFacts, KeptElements
<1>9. ASSUME text # << >>, \A i \in DOMAIN text : text[i] \notin Spaces
      PROVE  { from[i] : i \in starts } = {text}
  <2>1. starts = {1} /\ 1 \in DOMAIN text
    BY <1>1, <1>9
  <2>2. stops(1) = {Len(text)}
    BY <1>1, <1>9
  <2>3. Min(stops(1)) = Len(text)
    <3> HIDE DEF stops
    <3> QED
      BY <1>2, <2>1, <2>2
  <2>4. from[1] = SubSeq(text, 1, Len(text))
    <3> HIDE DEF stops
    <3> QED
      BY <2>1, <2>3
  <2>5. SubSeq(text, 1, Len(text)) = text
    OBVIOUS
  <2> HIDE DEF from, starts
  <2> QED
    BY <2>1, <2>4, <2>5
<1> QED
  BY <1>8, <1>9
-----------------------------------------------------------------------------
(* Folding a sequence from the left.                                        *)

(* The function a fold of N elements is defined by: its value for the places *)
(* s is the step of the last of them from its value for the others.          *)
IsFold(iter, N, base, step) ==
    iter = [s \in SUBSET (1 .. N) |->
               IF s = {} THEN base ELSE step[Max(s)][iter[s \ {Max(s)}]]]

LEMMA LastPlaceFacts ==
  ASSUME NEW N \in Nat, NEW s \in SUBSET (1 .. N), s # {}
  PROVE  Max(s) \in s /\ \A y \in s : y =< Max(s)
<1>1. s \in SUBSET Nat /\ \A y \in s : y =< N
  OBVIOUS
<1> QED
  BY <1>1, MaxIsGreatest

(* A fold is a value of its own, of the steps' type, for every set of places. *)
LEMMA FoldExists ==
  ASSUME NEW S, NEW base \in S, NEW N \in Nat, NEW step \in [1 .. N -> [S -> S]]
  PROVE  \E iter \in [SUBSET (1 .. N) -> S] : IsFold(iter, N, base, step)
<1> DEFINE P == SUBSET (1 .. N)
           F == [P -> S]
           first == [s \in P |-> base]
           next == [n \in 1 .. N |-> [h \in F |->
                       [s \in P |-> IF n \in s THEN step[n][h[s]] ELSE h[s]]]]
<1>1. first \in F
  OBVIOUS
<1>2. next \in [1 .. N -> [F -> F]]
  <2>1. ASSUME NEW n \in 1 .. N, NEW h \in F
        PROVE  [s \in P |-> IF n \in s THEN step[n][h[s]] ELSE h[s]] \in F
    <3>1. \A s \in P : h[s] \in S /\ step[n][h[s]] \in S
      OBVIOUS
    <3> QED
      BY <3>1
  <2>2. \A n \in 1 .. N : next[n] = [h \in F |->
              [s \in P |-> IF n \in s THEN step[n][h[s]] ELSE h[s]]]
    OBVIOUS
  <2>3. \A n \in 1 .. N : next[n] \in [F -> F]
    <3> SUFFICES ASSUME NEW n \in 1 .. N PROVE next[n] \in [F -> F]
      OBVIOUS
    <3> DEFINE G(h) == [s \in P |-> IF n \in s THEN step[n][h[s]] ELSE h[s]]
    <3>1. next[n] = [h \in F |-> G(h)]
      BY <2>2
    <3>2. \A h \in F : G(h) \in F
      BY <2>1
    <3> HIDE DEF G, F, next
    <3> QED
      BY <3>1, <3>2
  <2>4. next = [n \in 1 .. N |-> next[n]]
    OBVIOUS
  <2> HIDE DEF F, next
  <2> QED
    BY <2>3, <2>4
<1>3. PICK h \in [0 .. N -> F] : h[0] = first /\ \A n \in 1 .. N : h[n] = next[n][h[n - 1]]
  <2> HIDE DEF F, first, next
  <2> QED
    BY ONLY N \in Nat, <1>1, <1>2, RecursionExists
<1>4. \A n \in 1 .. N : h[n] = [s \in P |-> IF n \in s THEN step[n][h[n - 1][s]] ELSE h[n - 1][s]]
  <2> SUFFICES ASSUME NEW n \in 1 .. N
               PROVE  h[n] = [s \in P |-> IF n \in s THEN step[n][h[n - 1][s]] ELSE h[n - 1][s]]
    OBVIOUS
  <2>1. h[n - 1] \in F
    BY <1>3
  <2>2. h[n] = next[n][h[n - 1]]
    BY <1>3
  <2> HIDE DEF F
  <2> QED
    BY <2>1, <2>2
<1>5. \A n \in 1 .. N, s \in P :
          h[n][s] = IF n \in s THEN step[n][h[n - 1][s]] ELSE h[n - 1][s]
  <2> SUFFICES ASSUME NEW n \in 1 .. N, NEW s \in P
               PROVE  h[n][s] = IF n \in s THEN step[n][h[n - 1][s]] ELSE h[n - 1][s]
    OBVIOUS
  <2>1. h[n] = [u \in P |-> IF n \in u THEN step[n][h[n - 1][u]] ELSE h[n - 1][u]]
    BY <1>4
  <2> QED
    BY <2>1
<1>6. \A s \in P : h[0][s] = base
  BY <1>3
<1> HIDE DEF F, first, next
<1> DEFINE Local == { n \in Nat : n =< N => \A s, t \in P :
                         s \cap (1 .. n) = t \cap (1 .. n) => h[n][s] = h[n][t] }
<1>7. Nat \subseteq Local
  <2>1. 0 \in Local
    BY <1>6
  <2>2. ASSUME NEW n \in Nat, n \in Local PROVE n + 1 \in Local
    <3> SUFFICES ASSUME n + 1 =< N, NEW s \in P, NEW t \in P,
                        s \cap (1 .. n + 1) = t \cap (1 .. n + 1)
                 PROVE  h[n + 1][s] = h[n + 1][t]
      OBVIOUS
    <3>1. s \cap (1 .. n) = t \cap (1 .. n) /\ (n + 1 \in s <=> n + 1 \in t)
      <4>1. 1 .. n = (1 .. n + 1) \ {n + 1} /\ n + 1 \in 1 .. n + 1
        OBVIOUS
      <4> QED
        BY <4>1
    <3>2. h[n][s] = h[n][t]
      BY <2>2, <3>1
    <3>3. n + 1 \in 1 .. N /\ (n + 1) - 1 = n
      OBVIOUS
    <3> QED
      BY <1>5, <3>1, <3>2, <3>3
  <2> HIDE DEF Local
  <2> QED
    BY <2>1, <2>2, SetInduction
<1>8. ASSUME NEW s \in P, NEW m \in 0 .. N, \A y \in s : y =< m
      PROVE  h[N][s] = h[m][s]
  <2> DEFINE Still == { k \in Nat : m + k =< N => h[m + k][s] = h[m][s] }
  <2>1. 0 \in Still
    OBVIOUS
  <2>2. ASSUME NEW k \in Nat, k \in Still PROVE k + 1 \in Still
    <3> SUFFICES ASSUME m + (k + 1) =< N PROVE h[m + (k + 1)][s] = h[m][s]
      OBVIOUS
    <3>1. m + (k + 1) \in 1 .. N /\ m + (k + 1) \notin s /\ (m + (k + 1)) - 1 = m + k
      BY <1>8
    <3>2. h[m + k][s] = h[m][s]
      BY <2>2
    <3> QED
      BY <1>5, <3>1, <3>2
  <2>3. N - m \in Still
    <3>1. Nat \subseteq Still
      <4> HIDE DEF Still
      <4> QED
        BY <2>1, <2>2, SetInduction
    <3> QED
      BY <3>1
  <2>4. m + (N - m) = N /\ N =< N
    OBVIOUS
  <2> QED
    BY <2>3, <2>4
<1> DEFINE iter == h[N]
<1>9. iter \in [P -> S]
  <2>1. N \in 0 .. N
    OBVIOUS
  <2>2. iter \in F
    BY <1>3, <2>1
  <2> QED
    BY <2>2 DEF F
<1>10. ASSUME NEW s \in P
       PROVE  iter[s] = IF s = {} THEN base ELSE step[Max(s)][iter[s \ {Max(s)}]]
  <2>1. CASE s = {}
    BY <1>6, <1>8, <2>1
  <2>2. CASE s # {}
    <3> DEFINE m == Max(s)
               t == s \ {m}
    <3>1. m \in s /\ m \in 1 .. N /\ \A y \in s : y =< m
      BY <2>2, LastPlaceFacts
    <3> HIDE DEF m
    <3>2. t \in P /\ m - 1 \in 0 .. N /\ \A y \in t : y =< m - 1
      BY <3>1
    <3>3. s \cap (1 .. m - 1) = t \cap (1 .. m - 1)
      BY <3>1
    <3>4. h[m - 1][s] = h[m - 1][t]
      <4>1. m - 1 \in Local
        <5>1. m - 1 \in Nat
          BY <3>1
        <5> HIDE DEF Local
        <5> QED
          BY <1>7, <5>1
      <4>2. m - 1 =< N
        BY <3>1
      <4> QED
        BY ONLY <3>2, <3>3, <4>1, <4>2 DEF Local
    <3>5. iter[s] = h[m][s] /\ iter[t] = h[m - 1][t]
      <4>1. m \in 0 .. N
        BY <3>1
      <4>2. h[N][s] = h[m][s]
        BY <1>8, <3>1, <4>1
      <4>3. h[N][t] = h[m - 1][t]
        BY <1>8, <3>2
      <4> QED
        BY <4>2, <4>3
    <3>6. h[m][s] = step[m][h[m - 1][s]]
      BY <1>5, <3>1
    <3> QED
      BY <2>2, <3>4, <3>5, <3>6 DEF m
  <2> QED
    BY <2>1, <2>2
<1>11. IsFold(iter, N, base, step)
  <2>1. iter = [s \in P |-> iter[s]]
    BY <1>9
  <2> HIDE DEF iter
  <2>2. iter = [s \in P |-> IF s = {} THEN base ELSE step[Max(s)][iter[s \ {Max(s)}]]]
    BY <1>10, <2>1
  <2> QED
    BY <2>2 DEF IsFold
<1> QED
  BY <1>9, <1>11

(* The first n places: the last of them is n.                               *)
LEMMA FirstPlaces ==
  ASSUME NEW N \in Nat
  PROVE  /\ 1 .. 0 = {} /\ 1 .. 0 \in SUBSET (1 .. N) /\ 1 .. N \in SUBSET (1 .. N)
         /\ \A n \in 1 .. N : /\ 1 .. n \in SUBSET (1 .. N) /\ 1 .. n # {} /\ Max(1 .. n) = n
                              /\ (1 .. n) \ {n} = 1 .. n - 1
<1>1. ASSUME NEW n \in 1 .. N PROVE Max(1 .. n) = n
  <2>1. 1 .. n \in SUBSET (1 .. N) /\ 1 .. n # {} /\ n \in 1 .. n
    OBVIOUS
  <2>2. Max(1 .. n) \in 1 .. n /\ n =< Max(1 .. n)
    BY <2>1, LastPlaceFacts
  <2> QED
    BY <2>2
<1>2. ASSUME NEW n \in 1 .. N
      PROVE  1 .. n \in SUBSET (1 .. N) /\ 1 .. n # {} /\ (1 .. n) \ {n} = 1 .. n - 1
  OBVIOUS
<1>3. 1 .. 0 = {} /\ 1 .. 0 \in SUBSET (1 .. N) /\ 1 .. N \in SUBSET (1 .. N)
  OBVIOUS
<1> QED
  BY <1>1, <1>2, <1>3
-----------------------------------------------------------------------------
(* Sums over a finite set, its members taken in any order.                  *)

Chosen(s) == CHOOSE x \in s : TRUE

(* The function a sum over S is defined by.                                 *)
IsSum(sum, f, S) ==
    sum = [s \in SUBSET S |-> IF s = {} THEN 0 ELSE f[Chosen(s)] + sum[s \ {Chosen(s)}]]

(* A sum of integers is an integer, whatever the order.                      *)
LEMMA SumExists ==
  ASSUME NEW S, IsFiniteSet(S), NEW f, \A x \in S : f[x] \in Int, NEW N \in Nat, N = Cardinality(S)
  PROVE  \E sum \in [SUBSET S -> Int] : IsSum(sum, f, S)
<1> DEFINE P == SUBSET S
           F == [P -> Int]
           Longer(h, s) == IF s = {} THEN 0 ELSE f[Chosen(s)] + h[s \ {Chosen(s)}]
           zeros == [s \in P |-> 0]
           extend == [n \in 1 .. N |-> [h \in F |-> [s \in P |-> Longer(h, s)]]]
<1>0. N \in Nat
  BY FS_CardinalityType
<1>1. \A s \in P : s # {} => Chosen(s) \in s /\ s \ {Chosen(s)} \in P
  BY DEF Chosen
<1>2. \A h \in F, s \in P : Longer(h, s) \in Int
  BY <1>1
<1> HIDE DEF Longer
<1>3. \A h \in F : [s \in P |-> Longer(h, s)] \in F
  BY <1>2
<1>4. zeros \in F
  OBVIOUS
<1> HIDE DEF F, zeros
<1>5. extend \in [1 .. N -> [F -> F]]
  BY <1>3
<1> HIDE DEF extend
<1>6. PICK h \in [0 .. N -> F] : h[0] = zeros /\ \A n \in 1 .. N : h[n] = extend[n][h[n - 1]]
  BY ONLY <1>4, <1>5, RecursionExists
<1>7. \A n \in 1 .. N : h[n - 1] \in F /\ h[n] = [s \in P |-> Longer(h[n - 1], s)]
  <2> SUFFICES ASSUME NEW n \in 1 .. N
               PROVE  h[n - 1] \in F /\ h[n] = [s \in P |-> Longer(h[n - 1], s)]
    OBVIOUS
  <2>1. h[n - 1] \in F
    BY <1>0
  <2>2. extend[n] = [g \in F |-> [s \in P |-> Longer(g, s)]]
    BY DEF extend
  <2> QED
    BY <1>6, <2>1, <2>2
<1>8. \A n \in 1 .. N, s \in P : h[n][s] = Longer(h[n - 1], s)
  <2> SUFFICES ASSUME NEW n \in 1 .. N, NEW s \in P PROVE h[n][s] = Longer(h[n - 1], s)
    OBVIOUS
  <2>1. h[n] = [x \in P |-> Longer(h[n - 1], x)]
    BY <1>7
  <2> QED
    BY ONLY <2>1, s \in P
<1> DEFINE Settled == { n \in Nat : n < N => \A s \in P : Cardinality(s) =< n => h[n + 1][s] = h[n][s] }
<1>9. \A s \in P : IsFiniteSet(s) /\ Cardinality(s) \in Nat /\ Cardinality(s) =< N
  BY FS_Subset, FS_CardinalityType
<1>10. Nat \subseteq Settled
  <2>1. 0 \in Settled
    <3> SUFFICES ASSUME 0 < N, NEW s \in P, Cardinality(s) =< 0 PROVE h[0 + 1][s] = h[0][s]
      OBVIOUS
    <3>1. s = {}
      BY <1>9, FS_EmptySet
    <3>2. h[1][s] = 0 /\ h[0][s] = 0
      <4>1. 1 \in 1 .. N
        BY <1>0
      <4> QED
        BY <1>6, <1>8, <3>1, <4>1 DEF zeros, Longer
    <3> QED
      BY <3>2
  <2>2. ASSUME NEW n \in Nat, n \in Settled PROVE n + 1 \in Settled
    <3> SUFFICES ASSUME n + 1 < N, NEW s \in P, Cardinality(s) =< n + 1
                 PROVE  h[(n + 1) + 1][s] = h[n + 1][s]
      OBVIOUS
    <3>1. h[(n + 1) + 1][s] = Longer(h[n + 1], s) /\ h[n + 1][s] = Longer(h[n], s)
      <4>1. (n + 1) + 1 \in 1 .. N /\ n + 1 \in 1 .. N /\ ((n + 1) + 1) - 1 = n + 1 /\ (n + 1) - 1 = n
        BY <1>0
      <4> QED
        BY <1>8, <4>1
    <3>2. CASE s = {}
      BY <3>1, <3>2 DEF Longer
    <3>3. CASE s # {}
      <4> DEFINE t == s \ {Chosen(s)}
      <4>1. t \in P /\ Cardinality(t) = Cardinality(s) - 1
        BY <1>1, <1>9, <3>3, FS_RemoveElement
      <4>2. Cardinality(t) =< n
        BY <1>9, <4>1
      <4>3. h[n + 1][t] = h[n][t]
        BY <1>0, <2>2, <4>1, <4>2
      <4> QED
        BY <3>1, <3>3, <4>3 DEF Longer
    <3> QED
      BY <3>2, <3>3
  <2> HIDE DEF Settled
  <2> QED
    BY <2>1, <2>2, SetInduction
<1> DEFINE sum == h[N]
<1>11. sum \in [P -> Int]
  <2>1. N \in 0 .. N
    BY <1>0
  <2>2. sum \in F
    BY <1>6, <2>1
  <2> QED
    BY <2>2 DEF F
<1>12. \A s \in P : sum[s] = Longer(sum, s)
  <2> SUFFICES ASSUME NEW s \in P PROVE sum[s] = Longer(sum, s)
    OBVIOUS
  <2>1. CASE s = {}
    <3>1. CASE N = 0
      BY <1>6, <2>1, <3>1 DEF zeros, Longer
    <3>2. CASE N # 0
      <4>1. N \in 1 .. N
        BY <1>0, <3>2
      <4>2. h[N][s] = Longer(h[N - 1], s)
        BY <1>8, <4>1
      <4> QED
        BY <2>1, <4>2 DEF Longer
    <3> QED
      BY <3>1, <3>2
  <2>2. CASE s # {}
    <3> DEFINE t == s \ {Chosen(s)}
    <3>1. t \in P /\ Cardinality(t) = Cardinality(s) - 1
      BY <1>1, <1>9, <2>2, FS_RemoveElement
    <3> HIDE DEF t
    <3>2. N - 1 \in Nat /\ N - 1 < N /\ (N - 1) + 1 = N /\ Cardinality(t) =< N - 1 /\ N \in 1 .. N
      <4>1. Cardinality(t) \in Nat /\ Cardinality(s) \in Nat /\ Cardinality(s) =< N
        BY <1>9, <3>1
      <4> QED
        BY <1>0, <3>1, <4>1
    <3>3. h[N][t] = h[N - 1][t]
      <4>1. N - 1 \in Settled
        BY <1>10, <3>2
      <4> QED
        BY <3>1, <3>2, <4>1
    <3>4. h[N][s] = Longer(h[N - 1], s)
      BY <1>8, <3>2
    <3> QED
      BY <2>2, <3>3, <3>4 DEF Longer, t
  <2> QED
    BY <2>1, <2>2
<1>13. IsSum(sum, f, S)
  <2>1. sum = [s \in P |-> sum[s]]
    BY <1>11
  <2> HIDE DEF sum
  <2>2. sum = [s \in P |-> Longer(sum, s)]
    BY <1>12, <2>1
  <2> QED
    BY <2>2 DEF IsSum, Longer
<1> QED
  BY <1>11, <1>13

(* No term is larger than a sum of natural numbers.                         *)
LEMMA SumFacts ==
  ASSUME NEW S, IsFiniteSet(S), NEW f \in [S -> Nat]
  PROVE  SumFunction(f) \in Nat /\ \A x \in S : f[x] =< SumFunction(f)
<1> DEFINE Sum(g) == IsSum(g, f, S)
           sum == CHOOSE g : Sum(g)
<1>1. PICK g \in [SUBSET S -> Int] : Sum(g)
  <2>1. Cardinality(S) \in Nat /\ \A x \in S : f[x] \in Int
    BY FS_CardinalityType
  <2> QED
    BY <2>1, SumExists
<1>2. Sum(sum)
  <2> HIDE DEF Sum
  <2> QED
    BY <1>1
<1>3. SumFunction(f) = sum[S]
  BY DEF SumFunction, SumFunctionOnSet, FoldFunctionOnSet, MapThenFoldSet, IsSum, Chosen
<1> HIDE DEF sum
<1>4. \A s \in SUBSET S : sum[s] = IF s = {} THEN 0 ELSE f[Chosen(s)] + sum[s \ {Chosen(s)}]
  BY <1>2 DEF IsSum
<1>5. \A s \in SUBSET S : IsFiniteSet(s) /\ Cardinality(s) \in Nat
  BY FS_Subset, FS_CardinalityType
<1> DEFINE Bounds(s) == sum[s] \in Nat /\ \A x \in s : f[x] =< sum[s]
           Good == { n \in Nat : \A s \in SUBSET S : Cardinality(s) = n => Bounds(s) }
<1>6. Nat \subseteq Good
  <2>1. 0 \in Good
    <3> SUFFICES ASSUME NEW s \in SUBSET S, Cardinality(s) = 0 PROVE Bounds(s)
      OBVIOUS
    <3>1. s = {}
      BY <1>5, FS_EmptySet
    <3>2. sum[s] = 0
      BY <1>4, <3>1
    <3> QED
      BY <3>1, <3>2
  <2>2. ASSUME NEW n \in Nat, n \in Good PROVE n + 1 \in Good
    <3> SUFFICES ASSUME NEW s \in SUBSET S, Cardinality(s) = n + 1 PROVE Bounds(s)
      OBVIOUS
    <3> DEFINE c == Chosen(s)
               t == s \ {c}
    <3>1. s # {}
      <4>1. n + 1 # 0
        OBVIOUS
      <4> QED
        BY <4>1, FS_EmptySet
    <3>2. c \in s
      BY <3>1 DEF Chosen
    <3> HIDE DEF c
    <3>3. t \in SUBSET S /\ Cardinality(t) = n
      <4>1. Cardinality(s \ {c}) = Cardinality(s) - 1
        BY <1>5, <3>2, FS_RemoveElement
      <4> QED
        BY <4>1
    <3>4. Bounds(t)
      BY <2>2, <3>3
    <3>5. sum[s] = f[c] + sum[t] /\ f[c] \in Nat
      BY <1>4, <3>1, <3>2 DEF c
    <3>6. \A x \in s : x = c \/ x \in t
      OBVIOUS
    <3> HIDE DEF t
    <3>7. \A x \in t : f[x] \in Nat
      BY <3>3
    <3> QED
      BY <3>4, <3>5, <3>6, <3>7
  <2> HIDE DEF Good
  <2> QED
    BY <2>1, <2>2, SetInduction
<1>7. Bounds(S)
  BY <1>5, <1>6
<1> QED
  BY <1>3, <1>7

(* The sum of f over a set, taken in the order the members are chosen.       *)
Total(f, S) == MapThenSumSet(LAMBDA x : f[x], S)

AreTotals(sum, f, S) == IsSum(sum, f, S) /\ \A s \in SUBSET S : Total(f, s) = sum[s]

(* The sums of all the sets of some numbers are one function.                *)
LEMMA TotalIsSum ==
  ASSUME NEW S, IsFiniteSet(S), NEW f, \A x \in S : f[x] \in Int
  PROVE  \E sum \in [SUBSET S -> Int] : AreTotals(sum, f, S)
<1> DEFINE Sum(g, s) == IsSum(g, f, s)
<1>1. ASSUME NEW s \in SUBSET S PROVE \E g \in [SUBSET s -> Int] : Sum(g, s)
  <2>1. IsFiniteSet(s) /\ Cardinality(s) \in Nat /\ \A x \in s : f[x] \in Int
    BY FS_Subset, FS_CardinalityType
  <2> QED
    BY <2>1, SumExists
<1>2. PICK sum \in [SUBSET S -> Int] : Sum(sum, S)
  BY <1>1
<1> DEFINE sumOf(s) == CHOOSE g : Sum(g, s)
<1>3. \A s \in SUBSET S : Sum(sumOf(s), s)
  <2> HIDE DEF Sum
  <2> QED
    BY <1>1
<1>4. \A s : Total(f, s) = sumOf(s)[s]
  BY DEF Total, MapThenSumSet, MapThenFoldSet, IsSum, Chosen
<1> HIDE DEF sumOf
<1>5. \A s \in SUBSET S, t \in SUBSET S : t \subseteq s =>
          sumOf(s)[t] = IF t = {} THEN 0 ELSE f[Chosen(t)] + sumOf(s)[t \ {Chosen(t)}]
  <2> SUFFICES ASSUME NEW s \in SUBSET S, NEW t \in SUBSET S, t \in SUBSET s
               PROVE sumOf(s)[t] = IF t = {} THEN 0 ELSE f[Chosen(t)] + sumOf(s)[t \ {Chosen(t)}]
    OBVIOUS
  <2> QED
    BY <1>3 DEF IsSum
<1>6. \A t \in SUBSET S : sum[t] = IF t = {} THEN 0 ELSE f[Chosen(t)] + sum[t \ {Chosen(t)}]
  BY <1>2 DEF IsSum
<1> DEFINE Good == { n \in Nat : \A s \in SUBSET S, t \in SUBSET S :
                        t \subseteq s /\ Cardinality(t) = n => sumOf(s)[t] = sum[t] }
<1>7. \A t \in SUBSET S : IsFiniteSet(t) /\ Cardinality(t) \in Nat
  BY FS_Subset, FS_CardinalityType
<1>8. Nat \subseteq Good
  <2>1. 0 \in Good
    <3> SUFFICES ASSUME NEW s \in SUBSET S, NEW t \in SUBSET S, t \subseteq s, Cardinality(t) = 0
                 PROVE  sumOf(s)[t] = sum[t]
      OBVIOUS
    <3>1. t = {}
      BY <1>7, FS_EmptySet
    <3> QED
      BY <1>5, <1>6, <3>1
  <2>2. ASSUME NEW n \in Nat, n \in Good PROVE n + 1 \in Good
    <3> SUFFICES ASSUME NEW s \in SUBSET S, NEW t \in SUBSET S, t \subseteq s, Cardinality(t) = n + 1
                 PROVE  sumOf(s)[t] = sum[t]
      OBVIOUS
    <3> DEFINE c == Chosen(t)
    <3>1. t # {}
      <4>1. n + 1 # 0
        OBVIOUS
      <4> QED
        BY <4>1, FS_EmptySet
    <3>2. c \in t
      BY <3>1 DEF Chosen
    <3>3. Cardinality(t \ {c}) = n /\ t \ {c} \in SUBSET S /\ t \ {c} \subseteq s
      <4>1. Cardinality(t \ {c}) = Cardinality(t) - 1
        BY <1>7, <3>2, FS_RemoveElement
      <4> QED
        BY <4>1
    <3>4. sumOf(s)[t \ {c}] = sum[t \ {c}]
      BY <2>2, <3>3
    <3>5. sumOf(s)[t] = f[c] + sumOf(s)[t \ {c}] /\ sum[t] = f[c] + sum[t \ {c}]
      BY <1>5, <1>6, <3>1
    <3> QED
      BY <3>4, <3>5
  <2> HIDE DEF Good
  <2> QED
    BY <2>1, <2>2, SetInduction
<1>9. ASSUME NEW s \in SUBSET S PROVE Total(f, s) = sum[s]
  <2>1. Cardinality(s) \in Good
    BY <1>7, <1>8
  <2> QED
    BY <1>4, <2>1
<1> QED
  BY <1>2, <1>9 DEF AreTotals

(* Any member may be taken first.                                            *)
LEMMA TotalFacts ==
  ASSUME NEW S, IsFiniteSet(S), NEW f, \A x \in S : f[x] \in Int
  PROVE  /\ Total(f, S) \in Int
         /\ S = {} => Total(f, S) = 0
         /\ \A x \in S : Total(f, S) = f[x] + Total(f, S \ {x})
<1>1. PICK sum \in [SUBSET S -> Int] : AreTotals(sum, f, S)
  BY TotalIsSum
<1>2. /\ \A t \in SUBSET S : sum[t] = IF t = {} THEN 0 ELSE f[Chosen(t)] + sum[t \ {Chosen(t)}]
      /\ \A t \in SUBSET S : Total(f, t) = sum[t]
  BY <1>1 DEF AreTotals, IsSum
<1>3. \A t \in SUBSET S : IsFiniteSet(t) /\ Cardinality(t) \in Nat
  BY FS_Subset, FS_CardinalityType
<1> DEFINE AnyFirst(t) == \A x \in t : sum[t] = f[x] + sum[t \ {x}]
           Good == { n \in Nat : \A t \in SUBSET S : Cardinality(t) = n => AnyFirst(t) }
<1>4. Nat \subseteq Good
  <2>1. 0 \in Good
    <3> SUFFICES ASSUME NEW t \in SUBSET S, Cardinality(t) = 0 PROVE AnyFirst(t)
      OBVIOUS
    <3>1. t = {}
      BY <1>3, FS_EmptySet
    <3> QED
      BY <3>1
  <2>2. ASSUME NEW n \in Nat, n \in Good PROVE n + 1 \in Good
    <3> SUFFICES ASSUME NEW t \in SUBSET S, Cardinality(t) = n + 1, NEW x \in t
                 PROVE  sum[t] = f[x] + sum[t \ {x}]
      OBVIOUS
    <3> DEFINE c == Chosen(t)
    <3>1. c \in t
      BY DEF Chosen
    <3>2. sum[t] = f[c] + sum[t \ {c}]
      BY <1>2
    <3> HIDE DEF c
    <3>3. CASE x = c
      BY <3>2, <3>3
    <3>4. CASE x # c
      <4> DEFINE rest == (t \ {c}) \ {x}
      <4>1. Cardinality(t \ {c}) = n /\ Cardinality(t \ {x}) = n
        <5>1. Cardinality(t \ {c}) = Cardinality(t) - 1 /\ Cardinality(t \ {x}) = Cardinality(t) - 1
          BY <1>3, <3>1, FS_RemoveElement
        <5> QED
          BY <5>1
      <4>2. x \in t \ {c} /\ c \in t \ {x} /\ (t \ {x}) \ {c} = rest
        BY <3>1, <3>4
      <4>3. sum[t \ {c}] = f[x] + sum[rest] /\ sum[t \ {x}] = f[c] + sum[rest]
        <5>1. AnyFirst(t \ {c}) /\ AnyFirst(t \ {x})
          BY <2>2, <4>1
        <5> QED
          BY <4>2, <5>1
      <4>4. f[x] \in Int /\ f[c] \in Int /\ sum[rest] \in Int
        BY <1>1, <3>1
      <4> HIDE DEF rest
      <4> QED
        BY <3>2, <4>3, <4>4
    <3> QED
      BY <3>3, <3>4
  <2> HIDE DEF Good
  <2> QED
    BY <2>1, <2>2, SetInduction
<1>5. AnyFirst(S)
  BY <1>3, <1>4
<1>6. S = {} => sum[S] = 0
  BY <1>2
<1> QED
  BY <1>2, <1>5, <1>6

(* A sum of numbers whose a-fold is not below m, is not below as many m.       *)
LEMMA TotalAbove ==
  ASSUME NEW S, IsFiniteSet(S), NEW f, NEW a \in Int, NEW m \in Int,
         \A x \in S : f[x] \in Int /\ a * f[x] >= m
  PROVE  a * Total(f, S) >= Cardinality(S) * m
<1>1. \A t \in SUBSET S : /\ IsFiniteSet(t) /\ Cardinality(t) \in Nat
                          /\ Total(f, t) \in Int /\ (t = {} => Total(f, t) = 0)
                          /\ \A x \in t : Total(f, t) = f[x] + Total(f, t \ {x})
  <2> SUFFICES ASSUME NEW t \in SUBSET S
               PROVE  /\ IsFiniteSet(t) /\ Cardinality(t) \in Nat
                      /\ Total(f, t) \in Int /\ (t = {} => Total(f, t) = 0)
                      /\ \A x \in t : Total(f, t) = f[x] + Total(f, t \ {x})
    OBVIOUS
  <2>1. IsFiniteSet(t) /\ Cardinality(t) \in Nat
    BY FS_Subset, FS_CardinalityType
  <2>2. \A x \in t : f[x] \in Int
    OBVIOUS
  <2> QED
    BY ONLY <2>1, <2>2, TotalFacts
<1> DEFINE Good == { n \in Nat : \A t \in SUBSET S : Cardinality(t) = n => a * Total(f, t) >= n * m }
<1>2. Nat \subseteq Good
  <2>1. 0 \in Good
    <3> SUFFICES ASSUME NEW t \in SUBSET S, Cardinality(t) = 0 PROVE a * Total(f, t) >= 0 * m
      OBVIOUS
    <3>1. t = {}
      BY <1>1, FS_EmptySet
    <3>2. Total(f, t) = 0
      BY <1>1, <3>1
    <3> QED
      BY <3>2
  <2>2. ASSUME NEW n \in Nat, n \in Good PROVE n + 1 \in Good
    <3> SUFFICES ASSUME NEW t \in SUBSET S, Cardinality(t) = n + 1
                 PROVE  a * Total(f, t) >= (n + 1) * m
      OBVIOUS
    <3>1. t # {}
      <4>1. n + 1 # 0
        OBVIOUS
      <4> QED
        BY <4>1, FS_EmptySet
    <3>2. PICK x \in t : TRUE
      BY <3>1
    <3>3. Cardinality(t \ {x}) = n
      <4>1. Cardinality(t \ {x}) = Cardinality(t) - 1
        BY <1>1, FS_RemoveElement
      <4> QED
        BY <4>1
    <3>4. a * Total(f, t \ {x}) >= n * m
      BY <2>2, <3>3
    <3>5. /\ Total(f, t) = f[x] + Total(f, t \ {x})
          /\ Total(f, t \ {x}) \in Int /\ f[x] \in Int /\ a * f[x] >= m
      BY <1>1
    <3>6. ASSUME NEW u \in Int, NEW v \in Int, a * u >= n * m, a * v >= m
          PROVE  a * (v + u) >= (n + 1) * m
      BY <3>6
    <3> QED
      BY <3>4, <3>5, <3>6
  <2> HIDE DEF Good
  <2> QED
    BY <2>1, <2>2, SetInduction
<1>3. Cardinality(S) \in Good
  BY <1>1, <1>2
<1> QED
  BY <1>3

(* What the parts sum to, added.                                            *)
LEMMA TotalParts ==
  ASSUME NEW S, IsFiniteSet(S), NEW R \in SUBSET S, NEW f, \A x \in S : f[x] \in Int
  PROVE  Total(f, S) = Total(f, R) + Total(f, S \ R)
<1>1. \A t \in SUBSET S : /\ IsFiniteSet(t) /\ Cardinality(t) \in Nat
                          /\ Total(f, t) \in Int /\ (t = {} => Total(f, t) = 0)
                          /\ \A x \in t : Total(f, t) = f[x] + Total(f, t \ {x})
  <2> SUFFICES ASSUME NEW t \in SUBSET S
               PROVE  /\ IsFiniteSet(t) /\ Cardinality(t) \in Nat
                      /\ Total(f, t) \in Int /\ (t = {} => Total(f, t) = 0)
                      /\ \A x \in t : Total(f, t) = f[x] + Total(f, t \ {x})
    OBVIOUS
  <2>1. IsFiniteSet(t) /\ Cardinality(t) \in Nat
    BY FS_Subset, FS_CardinalityType
  <2>2. \A x \in t : f[x] \in Int
    OBVIOUS
  <2> QED
    BY ONLY <2>1, <2>2, TotalFacts
<1> DEFINE Good == { n \in Nat : \A t \in SUBSET R : Cardinality(t) = n =>
                        Total(f, t \cup (S \ R)) = Total(f, t) + Total(f, S \ R) }
<1>2. Nat \subseteq Good
  <2>1. 0 \in Good
    <3> SUFFICES ASSUME NEW t \in SUBSET R, Cardinality(t) = 0
                 PROVE  Total(f, t \cup (S \ R)) = Total(f, t) + Total(f, S \ R)
      OBVIOUS
    <3>1. t \in SUBSET S
      OBVIOUS
    <3>2. t = {}
      BY <1>1, <3>1, FS_EmptySet
    <3>3. Total(f, t) = 0 /\ t \cup (S \ R) = S \ R /\ Total(f, S \ R) \in Int
      BY <1>1, <3>2
    <3>4. 0 + Total(f, S \ R) = Total(f, S \ R)
      BY <3>3
    <3> QED
      BY ONLY <3>3, <3>4, Zenon
  <2>2. ASSUME NEW n \in Nat, n \in Good PROVE n + 1 \in Good
    <3> SUFFICES ASSUME NEW t \in SUBSET R, Cardinality(t) = n + 1
                 PROVE  Total(f, t \cup (S \ R)) = Total(f, t) + Total(f, S \ R)
      OBVIOUS
    <3>1. t # {}
      <4>1. n + 1 # 0
        OBVIOUS
      <4> QED
        BY <4>1, FS_EmptySet
    <3>2. PICK x \in t : TRUE
      BY <3>1
    <3>3. Cardinality(t \ {x}) = n
      <4>1. Cardinality(t \ {x}) = Cardinality(t) - 1
        <5>1. t \in SUBSET S
          OBVIOUS
        <5> QED
          BY <1>1, <5>1, FS_RemoveElement
      <4> QED
        BY <4>1
    <3> DEFINE all == t \cup (S \ R)
               less == (t \ {x}) \cup (S \ R)
    <3>4. Total(f, less) = Total(f, t \ {x}) + Total(f, S \ R)
      BY <2>2, <3>3
    <3>5. all \in SUBSET S /\ x \in all /\ all \ {x} = less /\ t \in SUBSET S /\ S \ R \in SUBSET S
          /\ t \ {x} \in SUBSET S
      OBVIOUS
    <3> HIDE DEF all, less
    <3>6. Total(f, all) = f[x] + Total(f, less) /\ Total(f, t) = f[x] + Total(f, t \ {x})
      BY <1>1, <3>5
    <3>7. f[x] \in Int /\ Total(f, t \ {x}) \in Int /\ Total(f, S \ R) \in Int
      BY <1>1, <3>5
    <3>8. Total(f, all) = Total(f, t) + Total(f, S \ R)
      BY <3>4, <3>6, <3>7
    <3> QED
      BY <3>8 DEF all
  <2> HIDE DEF Good
  <2> QED
    BY <2>1, <2>2, SetInduction
<1>3. Cardinality(R) \in Good
  BY <1>1, <1>2
<1>4. R \cup (S \ R) = S
  OBVIOUS
<1> QED
  BY <1>3, <1>4
-----------------------------------------------------------------------------
(* Counting.                                                                *)

(* Two sets are as large when each member of one has its own in the other.   *)
LEMMA SameSize ==
  ASSUME NEW S, NEW T, IsFiniteSet(S), NEW f \in [S -> T],
         \A x, y \in S : f[x] = f[y] => x = y, \A y \in T : \E x \in S : f[x] = y
  PROVE  IsFiniteSet(T) /\ Cardinality(T) = Cardinality(S)
<1>1. f \in Bijection(S, T)
  BY DEF Bijection, Injection, Surjection, IsInjective
<1> QED
  BY <1>1, FS_Bijection DEF ExistsBijection

(* The sizes of parts that do not meet add up.                              *)
LEMMA PartsAddUp ==
  ASSUME NEW S, IsFiniteSet(S), NEW T, IsFiniteSet(T), S \cap T = {}
  PROVE  /\ IsFiniteSet(S \cup T) /\ Cardinality(S \cup T) = Cardinality(S) + Cardinality(T)
         /\ Cardinality(S) \in Nat /\ Cardinality(T) \in Nat
<1>1. Cardinality(S \cup T) = Cardinality(S) + Cardinality(T) - 0 /\ IsFiniteSet(S \cup T)
  BY FS_Union, FS_EmptySet
<1>2. Cardinality(S) \in Nat /\ Cardinality(T) \in Nat
  BY FS_CardinalityType
<1> QED
  BY <1>1, <1>2

(* Places with every place before them are the first ones.                  *)
LEMMA InitialPlaces ==
  ASSUME NEW N \in Nat, NEW D \in SUBSET (1 .. N),
         \A p \in D, q \in 1 .. N : q =< p => q \in D
  PROVE  IsFiniteSet(D) /\ Cardinality(D) \in 0 .. N /\ D = 1 .. Cardinality(D)
<1>1. IsFiniteSet(1 .. N) /\ Cardinality(1 .. N) = N
  BY IntervalSize
<1>2. IsFiniteSet(D) /\ Cardinality(D) =< N /\ Cardinality(D) \in Nat
  BY <1>1, FS_Subset, FS_CardinalityType
<1>3. \E m \in 0 .. N : D = 1 .. m
  <2>1. CASE D = {}
    <3>1. 1 .. 0 = {} /\ 0 \in 0 .. N
      OBVIOUS
    <3> QED
      BY <2>1, <3>1
  <2>2. CASE D # {}
    <3>1. Max(D) \in D /\ \A y \in D : y =< Max(D)
      BY <2>2, LastPlaceFacts
    <3> DEFINE m == Max(D)
    <3> HIDE DEF m
    <3>2. m \in 1 .. N /\ m \in D /\ \A y \in D : y =< m
      BY <3>1 DEF m
    <3>3. \A y \in 1 .. m : y \in 1 .. N /\ y =< m
      BY <3>2
    <3>4. D = 1 .. m
      <4>1. \A y \in 1 .. m : y \in D
        BY <3>2, <3>3
      <4>2. \A y \in D : y \in 1 .. m
        BY <3>2
      <4> QED
        BY <4>1, <4>2
    <3> QED
      BY <3>2, <3>4
  <2> QED
    BY <2>1, <2>2
<1>4. PICK m \in 0 .. N : D = 1 .. m
  BY <1>3
<1>5. Cardinality(D) = m
  BY <1>4, IntervalSize
<1> QED
  BY <1>2, <1>4, <1>5

-----------------------------------------------------------------------------
(* What a sequence of sequences flattens to has what each of them has.      *)

LEMMA FlattenSteps ==
  ASSUME NEW X, NEW seqs \in Seq(Seq(X)), Len(seqs) # 0
  PROVE  \E f \in [1 .. Len(seqs) -> Seq(X)] :
            /\ f[1] = seqs[1] /\ FlattenSeq(seqs) = f[Len(seqs)]
            /\ \A i \in 2 .. Len(seqs) : f[i] = f[i - 1] \o seqs[i]
<1> DEFINE S == Seq(X)
           N == Len(seqs)
           step == [n \in 1 .. N |-> [t \in S |-> t \o seqs[n]]]
           Steps(f) == f = [i \in 1 .. N |-> IF i = 1 THEN seqs[i] ELSE f[i - 1] \o seqs[i]]
           flatten == CHOOSE f : Steps(f)
<1>1. N \in Nat \ {0} /\ \A n \in 1 .. N : seqs[n] \in S
  <2> HIDE DEF S
  <2>1. seqs \in Seq(S)
    BY DEF S
  <2> QED
    BY <2>1
<1>2. /\ << >> \in S
      /\ \A n \in 1 .. N : << >> \o seqs[n] = seqs[n]
      /\ \A t \in S : \A n \in 1 .. N : t \o seqs[n] \in S
  BY <1>1
<1> HIDE DEF S, N
<1>3. step \in [1 .. N -> [S -> S]]
  BY <1>1, <1>2
<1>4. PICK g : /\ g \in [0 .. N -> S]
               /\ g[0] = << >> /\ \A n \in 1 .. N : g[n] = step[n][g[n - 1]]
  <2> HIDE DEF step, Steps, flatten
  <2> DEFINE base == << >>
  <2>1. N \in Nat /\ base \in S
    BY <1>1, <1>2
  <2> HIDE DEF base
  <2>2. PICK f : IsRecursion(f, S, base, N, step)
    BY <1>3, <2>1, RecursionRuns
  <2> QED
    BY ONLY <2>2 DEF base, IsRecursion
<1>5. \A n \in 1 .. N : g[n] = g[n - 1] \o seqs[n]
  <2> SUFFICES ASSUME NEW n \in 1 .. N PROVE g[n] = g[n - 1] \o seqs[n]
    OBVIOUS
  <2>1. n - 1 \in 0 .. N
    BY <1>1
  <2>2. g[n - 1] \in S
    BY <1>4, <2>1
  <2> QED
    BY <1>4, <2>2
<1> DEFINE h == [i \in 1 .. N |-> g[i]]
<1>6. \A i \in 1 .. N : h[i] = IF i = 1 THEN seqs[i] ELSE h[i - 1] \o seqs[i]
  <2> SUFFICES ASSUME NEW i \in 1 .. N
               PROVE  h[i] = IF i = 1 THEN seqs[i] ELSE h[i - 1] \o seqs[i]
    OBVIOUS
  <2>1. CASE i = 1
    <3>1. g[i] = g[i - 1] \o seqs[i] /\ << >> \o seqs[i] = seqs[i]
      BY <1>2, <1>5
    <3>2. i - 1 = 0
      BY <2>1
    <3>3. g[0] = << >>
      BY <1>4
    <3> QED
      BY ONLY <2>1, <3>1, <3>2, <3>3
  <2>2. CASE i # 1
    <3>1. i - 1 \in 1 .. N
      BY <1>1, <2>2
    <3> QED
      BY <1>5, <2>2, <3>1
  <2> QED
    BY <2>1, <2>2
<1>7. Steps(h)
  BY <1>6
<1>8. Steps(flatten)
  <2> HIDE DEF Steps
  <2> QED
    BY <1>7
<1>9. FlattenSeq(seqs) = flatten[N]
  BY <1>1 DEF FlattenSeq, N
<1> HIDE DEF flatten
<1>10. /\ DOMAIN flatten = 1 .. N /\ flatten = [i \in 1 .. N |-> flatten[i]]
       /\ \A i \in 1 .. N : flatten[i] = IF i = 1 THEN seqs[i] ELSE flatten[i - 1] \o seqs[i]
  BY <1>8
<1> DEFINE Good == { n \in Nat : n + 1 \in 1 .. N => flatten[n + 1] \in S }
<1>11. 0 \in Good
  <2>1. 1 \in 1 .. N /\ 0 + 1 = 1
    BY <1>1
  <2>2. flatten[1] = seqs[1] /\ seqs[1] \in S
    BY ONLY <1>1, <1>10, <2>1
  <2> QED
    BY <2>1, <2>2
<1>12. ASSUME NEW n \in Nat, n \in Good PROVE n + 1 \in Good
  <2> SUFFICES ASSUME (n + 1) + 1 \in 1 .. N PROVE flatten[(n + 1) + 1] \in S
    OBVIOUS
  <2>1. (n + 1) + 1 # 1 /\ ((n + 1) + 1) - 1 = n + 1 /\ n + 1 \in 1 .. N
    BY <1>1
  <2>2. flatten[n + 1] \in S
    BY <1>12, <2>1
  <2>3. flatten[(n + 1) + 1] = flatten[n + 1] \o seqs[(n + 1) + 1]
    BY <1>10, <2>1
  <2> QED
    BY <1>2, <2>2, <2>3
<1>13. Nat \subseteq Good
  <2> HIDE DEF Good
  <2> QED
    BY <1>11, <1>12, SetInduction
<1>14. \A i \in 1 .. N : flatten[i] \in S
  <2> SUFFICES ASSUME NEW i \in 1 .. N PROVE flatten[i] \in S
    OBVIOUS
  <2>1. i - 1 \in Nat /\ (i - 1) + 1 = i
    BY <1>1
  <2>2. i - 1 \in Good
    BY <1>13, <2>1
  <2> QED
    BY <2>1, <2>2
<1>15. flatten \in [1 .. N -> S]
  BY <1>10, <1>14
<1>16. flatten[1] = seqs[1] /\ \A i \in 2 .. N : flatten[i] = flatten[i - 1] \o seqs[i]
  <2>1. 1 \in 1 .. N /\ \A i \in 2 .. N : i \in 1 .. N /\ i # 1
    BY <1>1
  <2> QED
    BY ONLY <1>10, <2>1
<1> QED
  BY <1>9, <1>15, <1>16 DEF S, N

LEMMA FlattenMembers ==
  ASSUME NEW X, NEW seqs \in Seq(Seq(X)), NEW n \in 1 .. Len(seqs)
  PROVE  ToSet(seqs[n]) \subseteq ToSet(FlattenSeq(seqs))
<1> DEFINE N == Len(seqs)
           S == Seq(X)
<1>1. N \in Nat \ {0} /\ \A i \in 1 .. N : seqs[i] \in S
  <2> HIDE DEF S
  <2>1. seqs \in Seq(S)
    BY DEF S
  <2> QED
    BY <2>1
<1>2. PICK f \in [1 .. N -> S] : /\ f[1] = seqs[1] /\ FlattenSeq(seqs) = f[N]
                                 /\ \A i \in 2 .. N : f[i] = f[i - 1] \o seqs[i]
  BY <1>1, FlattenSteps
<1> HIDE DEF N, S
<1>3. ASSUME NEW i \in 2 .. N PROVE ToSet(f[i]) = ToSet(f[i - 1]) \cup ToSet(seqs[i])
  <2>1. i - 1 \in 1 .. N /\ i \in 1 .. N
    BY <1>1
  <2>2. f[i - 1] \in S /\ seqs[i] \in S /\ f[i] = f[i - 1] \o seqs[i]
    BY ONLY <1>1, <1>2, <2>1
  <2> QED
    BY <2>2, ConcatFacts DEF S
<1>4. ToSet(seqs[n]) \subseteq ToSet(f[n])
  <2>1. CASE n = 1
    BY <1>2, <2>1
  <2>2. CASE n # 1
    <3>1. n \in 2 .. N
      BY <2>2 DEF N
    <3> QED
      BY <1>3, <3>1
  <2> QED
    BY <2>1, <2>2
<1> DEFINE Good == { k \in Nat : n + k \in 1 .. N => ToSet(seqs[n]) \subseteq ToSet(f[n + k]) }
<1>5. 0 \in Good
  BY <1>4
<1>6. ASSUME NEW k \in Nat, k \in Good PROVE k + 1 \in Good
  <2> SUFFICES ASSUME n + (k + 1) \in 1 .. N PROVE ToSet(seqs[n]) \subseteq ToSet(f[n + (k + 1)])
    OBVIOUS
  <2>1. n + k \in 1 .. N /\ n + (k + 1) \in 2 .. N /\ (n + (k + 1)) - 1 = n + k
    BY <1>1 DEF N
  <2>2. ToSet(seqs[n]) \subseteq ToSet(f[n + k])
    BY <1>6, <2>1
  <2>3. ToSet(f[n + (k + 1)]) = ToSet(f[n + k]) \cup ToSet(seqs[n + (k + 1)])
    BY <1>3, <2>1
  <2> QED
    BY <2>2, <2>3
<1>7. Nat \subseteq Good
  <2> HIDE DEF Good
  <2> QED
    BY <1>5, <1>6, SetInduction
<1>8. N - n \in Nat /\ n + (N - n) = N /\ N \in 1 .. N
  BY <1>1 DEF N
<1>9. N - n \in Good
  BY <1>7, <1>8
<1> QED
  BY <1>2, <1>8, <1>9

-----------------------------------------------------------------------------
(* Keeping places of a sequence that grows.                                 *)

(* Only one listing of places is increasing.                                *)
LEMMA SamePlacing ==
  ASSUME NEW n \in Nat, NEW I \in SUBSET Nat, NEW one \in [1 .. n -> I], NEW two \in [1 .. n -> I],
         \A j, k \in 1 .. n : j < k => one[j] < one[k],
         \A j, k \in 1 .. n : j < k => two[j] < two[k],
         \A i \in I : \E k \in 1 .. n : one[k] = i,
         \A i \in I : \E k \in 1 .. n : two[k] = i
  PROVE  one = two
<1> DEFINE Same == { m \in Nat : \A j \in 1 .. n : j =< m => one[j] = two[j] }
<1>1. 0 \in Same
  OBVIOUS
<1>2. ASSUME NEW m \in Nat, m \in Same PROVE m + 1 \in Same
  <2> SUFFICES ASSUME m + 1 \in 1 .. n PROVE one[m + 1] = two[m + 1]
    BY <1>2
  <2>1. one[m + 1] \in I /\ two[m + 1] \in I /\ one[m + 1] \in Nat /\ two[m + 1] \in Nat
    OBVIOUS
  <2>2. ~(one[m + 1] < two[m + 1])
    <3> SUFFICES ASSUME one[m + 1] < two[m + 1] PROVE FALSE
      OBVIOUS
    <3>1. PICK k \in 1 .. n : two[k] = one[m + 1]
      BY <2>1
    <3>2. CASE k =< m
      <4>1. one[k] = two[k] /\ one[k] < one[m + 1]
        BY <1>2, <3>2
      <4> QED
        BY <2>1, <3>1, <4>1
    <3>3. CASE k = m + 1
      BY <2>1, <3>1, <3>3
    <3>4. CASE k > m + 1
      <4>1. two[m + 1] < two[k]
        BY <3>4
      <4> QED
        BY <2>1, <3>1, <4>1
    <3> QED
      BY <3>2, <3>3, <3>4
  <2>3. ~(two[m + 1] < one[m + 1])
    <3> SUFFICES ASSUME two[m + 1] < one[m + 1] PROVE FALSE
      OBVIOUS
    <3>1. PICK k \in 1 .. n : one[k] = two[m + 1]
      BY <2>1
    <3>2. CASE k =< m
      <4>1. one[k] = two[k] /\ two[k] < two[m + 1]
        BY <1>2, <3>2
      <4> QED
        BY <2>1, <3>1, <4>1
    <3>3. CASE k = m + 1
      BY <2>1, <3>1, <3>3
    <3>4. CASE k > m + 1
      <4>1. one[m + 1] < one[k]
        BY <3>4
      <4> QED
        BY <2>1, <3>1, <4>1
    <3> QED
      BY <3>2, <3>3, <3>4
  <2> QED
    BY <2>1, <2>2, <2>3
<1>3. Nat \subseteq Same
  <2> HIDE DEF Same
  <2> QED
    BY <1>1, <1>2, SetInduction
<1>4. \A j \in 1 .. n : one[j] = two[j]
  BY <1>3
<1> QED
  BY <1>4

(* One more element is kept after the others, or is not there.              *)
LEMMA KeptStep ==
  ASSUME NEW X, NEW s \in Seq(X), NEW c \in X, NEW I \in SUBSET DOMAIN s
  PROVE  /\ Kept(Append(s, c), I) = Kept(s, I)
         /\ Kept(Append(s, c), I \cup {Len(s) + 1}) = Append(Kept(s, I), c)
<1> DEFINE t == Append(s, c)
           m == Len(s) + 1
           n == Cardinality(I)
           J == I \cup {m}
<1>1. /\ t \in Seq(X) /\ Len(t) = m /\ \A i \in 1 .. Len(s) : t[i] = s[i]
      /\ t[m] = c /\ Len(s) \in Nat /\ DOMAIN s = 1 .. Len(s) /\ DOMAIN t = 1 .. m
  BY AppendFacts
<1>2. I \in SUBSET DOMAIN t /\ J \in SUBSET DOMAIN t /\ m \notin I /\ I \in SUBSET Nat
  BY <1>1
<1>3. IsFiniteSet(I) /\ n \in Nat /\ Cardinality(J) = n + 1
  <2>1. IsFiniteSet(I) /\ n \in Nat
    BY PlacesAreFinite
  <2> QED
    BY <1>2, <2>1, FS_AddElement
<1> HIDE DEF t, m
<1>4. PICK at : IsPlacing(at, s, I)
  BY KeptFacts
<1>5. Kept(s, I) \in Seq(X) /\ Len(Kept(s, I)) = n
  BY KeptFacts
<1>6. Kept(t, I) = Kept(s, I)
  <2>1. PICK same : IsPlacing(same, t, I)
    BY <1>1, <1>2, KeptFacts
  <2>2. same = at
    <3> HIDE DEF n
    <3>1. /\ n \in Nat /\ I \in SUBSET Nat /\ same \in [1 .. n -> I] /\ at \in [1 .. n -> I]
          /\ \A j, k \in 1 .. n : j < k => same[j] < same[k]
          /\ \A j, k \in 1 .. n : j < k => at[j] < at[k]
          /\ \A i \in I : \E k \in 1 .. n : same[k] = i
          /\ \A i \in I : \E k \in 1 .. n : at[k] = i
      BY <1>2, <1>3, <1>4, <2>1 DEF IsPlacing, n
    <3> QED
      BY ONLY <3>1, SamePlacing
  <2>3. Kept(t, I) \in Seq(X) /\ Len(Kept(t, I)) = n
    BY <1>1, <1>2, KeptFacts
  <2>4. \A k \in 1 .. n : Kept(t, I)[k] = Kept(s, I)[k]
    <3> SUFFICES ASSUME NEW k \in 1 .. n PROVE Kept(t, I)[k] = Kept(s, I)[k]
      OBVIOUS
    <3>1. at[k] \in I
      BY <1>4 DEF IsPlacing
    <3>2. at[k] \in 1 .. Len(s)
      BY <1>1, <3>1
    <3> QED
      BY <1>1, <1>4, <2>1, <2>2, <3>2 DEF IsPlacing
  <2> HIDE DEF n
  <2> QED
    BY <1>5, <2>3, <2>4, SameSequence
<1>7. Kept(t, J) = Append(Kept(s, I), c)
  <2> DEFINE longer == [k \in 1 .. n + 1 |-> IF k = n + 1 THEN m ELSE at[k]]
  <2>1. PICK same : IsPlacing(same, t, J)
    BY <1>1, <1>2, KeptFacts
  <2>2. /\ at \in [1 .. n -> I] /\ \A j, k \in 1 .. n : j < k => at[j] < at[k]
        /\ \A i \in I : \E k \in 1 .. n : at[k] = i
        /\ \A k \in 1 .. n : Kept(s, I)[k] = s[at[k]]
    BY <1>4 DEF IsPlacing
  <2>3. /\ same \in [1 .. n + 1 -> J] /\ \A j, k \in 1 .. n + 1 : j < k => same[j] < same[k]
        /\ \A i \in J : \E k \in 1 .. n + 1 : same[k] = i
        /\ \A k \in 1 .. n + 1 : Kept(t, J)[k] = t[same[k]]
    BY <1>3, <2>1 DEF IsPlacing
  <2>4. Kept(t, J) \in Seq(X) /\ Len(Kept(t, J)) = n + 1
    BY <1>1, <1>2, <1>3, KeptFacts
  <2> HIDE DEF n
  <2>5. /\ \A k \in 1 .. n : k \in 1 .. n + 1 /\ k # n + 1
        /\ n + 1 \in 1 .. n + 1
        /\ \A k \in 1 .. n + 1 : k # n + 1 => k \in 1 .. n
    BY <1>3
  <2>6. longer[n + 1] = m /\ \A k \in 1 .. n : longer[k] = at[k]
    BY <2>5
  <2>7. \A i \in I : i < m
    BY <1>1 DEF m
  <2>8. longer \in [1 .. n + 1 -> J]
    <3>1. \A k \in 1 .. n + 1 : (IF k = n + 1 THEN m ELSE at[k]) \in J
      BY <2>2, <2>5
    <3> QED
      BY <3>1
  <2> HIDE DEF longer
  <2>9. \A j, k \in 1 .. n + 1 : j < k => longer[j] < longer[k]
    <3> SUFFICES ASSUME NEW j \in 1 .. n + 1, NEW k \in 1 .. n + 1, j < k
                 PROVE  longer[j] < longer[k]
      OBVIOUS
    <3>1. j \in 1 .. n
      BY <1>3
    <3>2. longer[j] = at[j] /\ at[j] \in I
      BY <2>2, <2>6, <3>1
    <3>3. CASE k = n + 1
      BY <2>6, <2>7, <3>2, <3>3
    <3>4. CASE k # n + 1
      <4>1. k \in 1 .. n
        BY <2>5, <3>4
      <4> QED
        BY <2>2, <2>6, <3>1, <4>1
    <3> QED
      BY <3>3, <3>4
  <2>10. \A i \in J : \E k \in 1 .. n + 1 : longer[k] = i
    <3>1. ASSUME NEW i \in I PROVE \E k \in 1 .. n + 1 : longer[k] = i
      <4>1. PICK k \in 1 .. n : at[k] = i
        BY <2>2
      <4> QED
        BY <2>5, <2>6, <4>1
    <3>2. \E k \in 1 .. n + 1 : longer[k] = m
      BY <2>5, <2>6
    <3> QED
      BY <3>1, <3>2
  <2>11. same = longer
    <3> DEFINE N == n + 1
    <3>1. N \in Nat /\ J \in SUBSET Nat
      BY <1>1, <1>2, <1>3
    <3> HIDE DEF N, J
    <3>2. /\ same \in [1 .. N -> J] /\ longer \in [1 .. N -> J]
          /\ \A j, k \in 1 .. N : j < k => same[j] < same[k]
          /\ \A j, k \in 1 .. N : j < k => longer[j] < longer[k]
          /\ \A i \in J : \E k \in 1 .. N : same[k] = i
          /\ \A i \in J : \E k \in 1 .. N : longer[k] = i
      BY <2>3, <2>8, <2>9, <2>10 DEF N
    <3> QED
      BY ONLY <3>1, <3>2, SamePlacing
  <2>12. /\ Append(Kept(s, I), c) \in Seq(X) /\ Len(Append(Kept(s, I), c)) = n + 1
         /\ \A k \in 1 .. n : Append(Kept(s, I), c)[k] = Kept(s, I)[k]
         /\ Append(Kept(s, I), c)[n + 1] = c
    <3>1. Kept(s, I) \in Seq(X) /\ Len(Kept(s, I)) = n /\ c \in X
      BY <1>5
    <3> QED
      BY <3>1, AppendFacts
  <2>13. \A k \in 1 .. n + 1 : Kept(t, J)[k] = Append(Kept(s, I), c)[k]
    <3> SUFFICES ASSUME NEW k \in 1 .. n + 1 PROVE Kept(t, J)[k] = Append(Kept(s, I), c)[k]
      OBVIOUS
    <3>1. CASE k = n + 1
      <4>1. Kept(t, J)[n + 1] = t[m]
        BY <2>3, <2>5, <2>6, <2>11
      <4> QED
        BY <1>1, <2>12, <3>1, <4>1
    <3>2. CASE k # n + 1
      <4>1. k \in 1 .. n
        BY <2>5, <3>2
      <4>2. at[k] \in 1 .. Len(s)
        BY <1>1, <2>2, <4>1
      <4>3. Kept(t, J)[k] = t[at[k]] /\ t[at[k]] = s[at[k]] /\ Kept(s, I)[k] = s[at[k]]
        BY <1>1, <2>2, <2>3, <2>6, <2>11, <4>1, <4>2
      <4> QED
        BY <2>12, <4>1, <4>3
    <3> QED
      BY <3>1, <3>2
  <2> DEFINE left == Kept(t, J)
             right == Append(Kept(s, I), c)
  <2> HIDE DEF left, right
  <2>14. /\ left \in Seq(X) /\ right \in Seq(X) /\ Len(left) = Len(right)
         /\ \A k \in 1 .. Len(left) : left[k] = right[k]
    BY <2>4, <2>12, <2>13 DEF left, right
  <2>15. left = right
    BY <2>14, SameSequence
  <2> QED
    BY <2>15 DEF left, right
<1> QED
  BY <1>6, <1>7 DEF t, m

(* A sequence, element by element.                                          *)
LEMMA FirstsOf ==
  ASSUME NEW X, NEW t \in Seq(X), NEW n \in 0 .. Len(t)
  PROVE  /\ SubSeq(t, 1, n) \in Seq(X) /\ Len(SubSeq(t, 1, n)) = n
         /\ \A i \in 1 .. n : SubSeq(t, 1, n)[i] = t[i]
<1>1. 1 \in 1 .. Len(t) + 1 /\ n \in 1 - 1 .. Len(t) /\ n - 1 + 1 = n /\ \A i \in 1 .. n : 1 + i - 1 = i
  OBVIOUS
<1> QED
  BY <1>1, SubSeqFacts

LEMMA OneMore ==
  ASSUME NEW X, NEW t \in Seq(X)
  PROVE  /\ SubSeq(t, 1, 0) = << >> /\ SubSeq(t, 1, Len(t)) = t
         /\ \A n \in 1 .. Len(t) : SubSeq(t, 1, n) = Append(SubSeq(t, 1, n - 1), t[n])
<1>1. Len(t) \in Nat /\ 0 \in 0 .. Len(t) /\ Len(t) \in 0 .. Len(t)
  OBVIOUS
<1>2. SubSeq(t, 1, 0) = << >>
  OBVIOUS
<1>3. SubSeq(t, 1, Len(t)) = t
  <2> DEFINE u == SubSeq(t, 1, Len(t))
  <2>1. u \in Seq(X) /\ Len(u) = Len(t) /\ \A i \in 1 .. Len(t) : u[i] = t[i]
    BY <1>1, FirstsOf
  <2> HIDE DEF u
  <2>2. u = t
    BY <2>1, SameSequence
  <2> QED
    BY <2>2 DEF u
<1>4. ASSUME NEW n \in 1 .. Len(t)
      PROVE  SubSeq(t, 1, n) = Append(SubSeq(t, 1, n - 1), t[n])
  <2> DEFINE u == SubSeq(t, 1, n)
             v == SubSeq(t, 1, n - 1)
  <2>1. n \in 0 .. Len(t) /\ n - 1 \in 0 .. Len(t) /\ t[n] \in X /\ n - 1 + 1 = n
    OBVIOUS
  <2>2. u \in Seq(X) /\ Len(u) = n /\ \A i \in 1 .. n : u[i] = t[i]
    BY <2>1, FirstsOf
  <2>3. v \in Seq(X) /\ Len(v) = n - 1 /\ \A i \in 1 .. n - 1 : v[i] = t[i]
    BY <2>1, FirstsOf
  <2> HIDE DEF u, v
  <2>4. /\ Append(v, t[n]) \in Seq(X) /\ Len(Append(v, t[n])) = n
        /\ \A i \in 1 .. n - 1 : Append(v, t[n])[i] = v[i]
        /\ Append(v, t[n])[n] = t[n]
    BY <2>1, <2>3, AppendFacts
  <2>5. \A i \in 1 .. n : u[i] = Append(v, t[n])[i]
    <3> SUFFICES ASSUME NEW i \in 1 .. n PROVE u[i] = Append(v, t[n])[i]
      OBVIOUS
    <3>1. i = n \/ i \in 1 .. n - 1
      OBVIOUS
    <3> QED
      BY <2>2, <2>3, <2>4, <3>1
  <2>6. u = Append(v, t[n])
    BY <2>2, <2>4, <2>5, SameSequence
  <2> QED
    BY <2>6 DEF u, v
<1> QED
  BY <1>2, <1>3, <1>4

LEMMA ConcatAppends ==
  ASSUME NEW X, NEW s \in Seq(X), NEW t \in Seq(X), NEW c \in X
  PROVE  s \o Append(t, c) = Append(s \o t, c) /\ s \o << >> = s
<1> DEFINE left == s \o Append(t, c)
           right == Append(s \o t, c)
           m == Len(s)
           n == Len(t)
<1>1. m \in Nat /\ n \in Nat
  OBVIOUS
<1>2. Append(t, c) \in Seq(X) /\ Len(Append(t, c)) = n + 1 /\ Append(t, c)[n + 1] = c
      /\ \A i \in 1 .. n : Append(t, c)[i] = t[i]
  BY AppendFacts
<1>3. /\ left \in Seq(X) /\ Len(left) = m + (n + 1) /\ \A i \in 1 .. m : left[i] = s[i]
      /\ \A i \in 1 .. n + 1 : left[m + i] = Append(t, c)[i]
  BY <1>2, ConcatFacts
<1>4. /\ s \o t \in Seq(X) /\ Len(s \o t) = m + n /\ \A i \in 1 .. m : (s \o t)[i] = s[i]
      /\ \A i \in 1 .. n : (s \o t)[m + i] = t[i]
  BY ConcatFacts
<1>5. /\ right \in Seq(X) /\ Len(right) = (m + n) + 1 /\ right[(m + n) + 1] = c
      /\ \A i \in 1 .. m + n : right[i] = (s \o t)[i]
  BY <1>4, AppendFacts
<1> HIDE DEF left, right
<1>6. \A i \in 1 .. Len(left) : left[i] = right[i]
  <2> SUFFICES ASSUME NEW i \in 1 .. m + (n + 1) PROVE left[i] = right[i]
    BY <1>3
  <2>1. CASE i \in 1 .. m
    <3>1. i \in 1 .. m + n
      BY <1>1, <2>1
    <3> QED
      BY <1>3, <1>4, <1>5, <2>1, <3>1
  <2>2. CASE i = m + (n + 1)
    <3>1. n + 1 \in 1 .. n + 1 /\ (m + n) + 1 = m + (n + 1)
      BY <1>1
    <3> QED
      BY <1>2, <1>3, <1>5, <2>2, <3>1
  <2>3. CASE i \notin 1 .. m /\ i # m + (n + 1)
    <3> DEFINE k == i - m
    <3>1. k \in 1 .. n /\ k \in 1 .. n + 1 /\ m + k = i /\ i \in 1 .. m + n
      BY <1>1, <2>3
    <3> HIDE DEF k
    <3>2. left[m + k] = t[k] /\ right[m + k] = t[k]
      BY <1>2, <1>3, <1>4, <1>5, <3>1
    <3> QED
      BY <3>1, <3>2
  <2> QED
    BY <2>1, <2>2, <2>3
<1>7. Len(left) = Len(right)
  BY <1>1, <1>3, <1>5
<1>8. left = right
  BY <1>3, <1>5, <1>6, <1>7, SameSequence
<1>9. s \o << >> = s
  OBVIOUS
<1> QED
  BY <1>8, <1>9 DEF left, right

-----------------------------------------------------------------------------
(* Texts with some characters taken away.                                   *)

Without(text, Out) == Kept(text, { i \in DOMAIN text : text[i] \notin Out })

LEMMA WithoutFacts ==
  ASSUME NEW X, NEW s \in Seq(X), NEW Out
  PROVE  /\ Without(s, Out) \in Seq(X)
         /\ ToSet(Without(s, Out)) = ToSet(s) \ Out
<1> DEFINE I == { i \in DOMAIN s : s[i] \notin Out }
<1>1. I \in SUBSET DOMAIN s
  OBVIOUS
<1>2. Without(s, Out) = Kept(s, I)
  BY DEF Without
<1>3. { s[i] : i \in I } = ToSet(s) \ Out
  BY DEF ToSet
<1> HIDE DEF I
<1> QED
  BY <1>1, <1>2, <1>3, KeptFacts, KeptElements

LEMMA WithoutStep ==
  ASSUME NEW X, NEW s \in Seq(X), NEW c \in X, NEW Out
  PROVE  Without(Append(s, c), Out)
             = IF c \in Out THEN Without(s, Out) ELSE Append(Without(s, Out), c)
<1> DEFINE I == { i \in DOMAIN s : s[i] \notin Out }
           t == Append(s, c)
           J == { i \in DOMAIN t : t[i] \notin Out }
           m == Len(s) + 1
<1>1. /\ DOMAIN s = 1 .. Len(s) /\ DOMAIN t = 1 .. m /\ t[m] = c /\ Len(s) \in Nat
      /\ \A i \in 1 .. Len(s) : t[i] = s[i]
  BY AppendFacts
<1>2. 1 .. m = (1 .. Len(s)) \cup {m}
  BY <1>1
<1> HIDE DEF t, m
<1>3. J = IF c \in Out THEN I ELSE I \cup {m}
  BY <1>1, <1>2
<1>4. Without(s, Out) = Kept(s, I) /\ Without(t, Out) = Kept(t, J) /\ I \in SUBSET DOMAIN s
  BY DEF Without
<1> HIDE DEF I, J
<1>5. Kept(t, I) = Kept(s, I) /\ Kept(t, I \cup {m}) = Append(Kept(s, I), c)
  BY <1>4, KeptStep DEF t, m
<1> QED
  BY <1>3, <1>4, <1>5 DEF t

LEMMA WithoutNothing == \A Out : Without(<< >>, Out) = << >>
<1> SUFFICES ASSUME NEW Out PROVE Without(<< >>, Out) = << >>
  OBVIOUS
<1>1. << >> \in Seq({})
  OBVIOUS
<1>2. Without(<< >>, Out) \in Seq({})
  BY <1>1, WithoutFacts
<1> QED
  BY <1>2

LEMMA WithoutConcat ==
  ASSUME NEW X, NEW s \in Seq(X), NEW t \in Seq(X), NEW Out
  PROVE  Without(s \o t, Out) = Without(s, Out) \o Without(t, Out)
<1> DEFINE first == [n \in 0 .. Len(t) |-> SubSeq(t, 1, n)]
           Good == { n \in Nat : n =< Len(t) =>
                       Without(s \o first[n], Out) = Without(s, Out) \o Without(first[n], Out) }
<1>1. /\ first[0] = << >> /\ first[Len(t)] = t
      /\ \A n \in 0 .. Len(t) : first[n] \in Seq(X)
      /\ \A n \in 1 .. Len(t) : first[n] = Append(first[n - 1], t[n]) /\ t[n] \in X
  <2>1. \A n \in 0 .. Len(t) : first[n] = SubSeq(t, 1, n)
    OBVIOUS
  <2>2. /\ Len(t) \in Nat /\ 0 \in 0 .. Len(t) /\ Len(t) \in 0 .. Len(t)
        /\ \A n \in 1 .. Len(t) : n - 1 \in 0 .. Len(t) /\ n \in 0 .. Len(t) /\ t[n] \in X
    OBVIOUS
  <2> HIDE DEF first
  <2> QED
    BY <2>1, <2>2, OneMore, FirstsOf
<1>2. Len(t) \in Nat
  OBVIOUS
<1>3. Without(s, Out) \in Seq(X) /\ \A n \in 0 .. Len(t) : Without(first[n], Out) \in Seq(X)
  <2> HIDE DEF first
  <2> QED
    BY <1>1, WithoutFacts
<1> HIDE DEF first
<1>4. 0 \in Good
  <2>1. s \o << >> = s /\ Without(s, Out) \o << >> = Without(s, Out)
    BY <1>3
  <2>2. Without(<< >>, Out) = << >>
    BY WithoutNothing
  <2> QED
    BY <1>1, <2>1, <2>2
<1>5. ASSUME NEW n \in Nat, n \in Good PROVE n + 1 \in Good
  <2> DEFINE u == first[n]
             c == t[n + 1]
             left == Without(s, Out)
             right == Without(u, Out)
  <2> SUFFICES ASSUME n + 1 =< Len(t)
               PROVE  Without(s \o first[n + 1], Out) = Without(s, Out) \o Without(first[n + 1], Out)
    OBVIOUS
  <2>1. n \in 0 .. Len(t) /\ n + 1 \in 1 .. Len(t) /\ (n + 1) - 1 = n /\ n =< Len(t)
    BY <1>2
  <2>2. u \in Seq(X) /\ c \in X /\ first[n + 1] = Append(u, c) /\ Without(s \o u, Out) = left \o right
        /\ left \in Seq(X) /\ right \in Seq(X)
    BY <1>1, <1>3, <1>5, <2>1
  <2> HIDE DEF u, c
  <2>3. s \o Append(u, c) = Append(s \o u, c) /\ s \o u \in Seq(X)
    BY <2>2, ConcatAppends, ConcatFacts
  <2>4. Without(Append(s \o u, c), Out)
            = IF c \in Out THEN Without(s \o u, Out) ELSE Append(Without(s \o u, Out), c)
    <3> DEFINE whole == s \o u
    <3>1. whole \in Seq(X) /\ c \in X
      BY <2>2, <2>3
    <3> HIDE DEF whole
    <3>2. Without(Append(whole, c), Out)
              = IF c \in Out THEN Without(whole, Out) ELSE Append(Without(whole, Out), c)
      BY ONLY <3>1, WithoutStep
    <3> QED
      BY <3>2 DEF whole
  <2>5. Without(Append(u, c), Out) = IF c \in Out THEN right ELSE Append(right, c)
    BY <2>2, WithoutStep
  <2> HIDE DEF left, right
  <2>6. left \o Append(right, c) = Append(left \o right, c)
    BY <2>2, ConcatAppends
  <2> QED
    BY <2>2, <2>3, <2>4, <2>5, <2>6 DEF left
<1>6. Nat \subseteq Good
  <2> HIDE DEF Good
  <2> QED
    BY <1>4, <1>5, SetInduction
<1>7. Len(t) \in Good
  BY <1>2, <1>6
<1>8. Without(s \o first[Len(t)], Out) = Without(s, Out) \o Without(first[Len(t)], Out)
  BY <1>2, <1>7
<1> QED
  BY <1>1, <1>8

LEMMA FlattenGrows ==
  ASSUME NEW X, NEW seqs \in Seq(Seq(X)), NEW s \in Seq(X)
  PROVE  FlattenSeq(Append(seqs, s)) = FlattenSeq(seqs) \o s
<1> DEFINE S == Seq(X)
           N == Len(seqs)
           more == Append(seqs, s)
<1>1. /\ N \in Nat /\ \A n \in 1 .. N : seqs[n] \in S
      /\ more \in Seq(S) /\ Len(more) = N + 1 /\ more[N + 1] = s /\ \A n \in 1 .. N : more[n] = seqs[n]
  <2> HIDE DEF S
  <2>1. seqs \in Seq(S) /\ s \in S
    BY DEF S
  <2> QED
    BY <2>1, AppendFacts
<1> HIDE DEF more, N
<1>2. PICK f \in [1 .. N + 1 -> Seq(X)] : /\ f[1] = more[1] /\ FlattenSeq(more) = f[N + 1]
                                          /\ \A i \in 2 .. N + 1 : f[i] = f[i - 1] \o more[i]
  <2>1. Len(more) # 0 /\ more \in Seq(Seq(X))
    BY <1>1
  <2> HIDE DEF S
  <2>2. \E f \in [1 .. Len(more) -> Seq(X)] :
            /\ f[1] = more[1] /\ FlattenSeq(more) = f[Len(more)]
            /\ \A i \in 2 .. Len(more) : f[i] = f[i - 1] \o more[i]
    BY <2>1, FlattenSteps
  <2> QED
    BY <1>1, <2>2
<1>3. CASE N = 0
  <2>1. FlattenSeq(seqs) = << >>
    BY <1>3 DEF FlattenSeq, N
  <2>2. FlattenSeq(more) = s
    BY <1>1, <1>2, <1>3
  <2> QED
    BY <2>1, <2>2 DEF more
<1>4. CASE N # 0
  <2>1. PICK g \in [1 .. N -> Seq(X)] : /\ g[1] = seqs[1] /\ FlattenSeq(seqs) = g[N]
                                        /\ \A i \in 2 .. N : g[i] = g[i - 1] \o seqs[i]
    BY <1>4, FlattenSteps DEF N
  <2> HIDE DEF S
  <2> DEFINE Good == { n \in Nat : n + 1 =< N => f[n + 1] = g[n + 1] }
  <2>2. 0 \in Good
    BY <1>1, <1>2, <2>1
  <2>3. ASSUME NEW n \in Nat, n \in Good PROVE n + 1 \in Good
    <3> DEFINE m == (n + 1) + 1
    <3> SUFFICES ASSUME m =< N PROVE f[m] = g[m]
      OBVIOUS
    <3>1. n + 1 =< N /\ m - 1 = n + 1 /\ m \in 2 .. N /\ m \in 2 .. N + 1 /\ m \in 1 .. N
      BY <1>1
    <3> HIDE DEF m
    <3>2. f[n + 1] = g[n + 1]
      BY <2>3, <3>1
    <3>3. f[m] = f[n + 1] \o more[m] /\ g[m] = g[n + 1] \o seqs[m] /\ more[m] = seqs[m]
      BY <1>1, <1>2, <2>1, <3>1
    <3> QED
      BY <3>2, <3>3
  <2>4. Nat \subseteq Good
    <3> HIDE DEF Good
    <3> QED
      BY <2>2, <2>3, SetInduction
  <2>5. f[N] = g[N]
    <3>1. N - 1 \in Nat /\ (N - 1) + 1 = N
      BY <1>1, <1>4
    <3> QED
      BY <2>4, <3>1
  <2>6. N + 1 \in 2 .. N + 1 /\ (N + 1) - 1 = N
    BY <1>1, <1>4
  <2>7. f[N + 1] = f[N] \o more[N + 1]
    BY <1>2, <2>6
  <2> QED
    BY <1>1, <1>2, <2>1, <2>5, <2>7 DEF more
<1> QED
  BY <1>3, <1>4

LEMMA FlattenNothing == FlattenSeq(<< >>) = << >>
<1>1. Len(<< >>) = 0
  OBVIOUS
<1> QED
  BY <1>1 DEF FlattenSeq

(* Taking characters away text by text.                                     *)
WithoutEach(texts, Out) == [i \in DOMAIN texts |-> Without(texts[i], Out)]

LEMMA WithoutEachFacts ==
  ASSUME NEW X, NEW texts \in Seq(Seq(X)), NEW Out
  PROVE  /\ WithoutEach(texts, Out) \in Seq(Seq(X)) /\ Len(WithoutEach(texts, Out)) = Len(texts)
         /\ \A i \in 1 .. Len(texts) : WithoutEach(texts, Out)[i] = Without(texts[i], Out)
<1> DEFINE S == Seq(X)
<1>1. Len(texts) \in Nat /\ DOMAIN texts = 1 .. Len(texts) /\ \A i \in 1 .. Len(texts) : texts[i] \in S
  <2> HIDE DEF S
  <2>1. texts \in Seq(S)
    BY DEF S
  <2> QED
    BY <2>1
<1>2. \A i \in 1 .. Len(texts) : Without(texts[i], Out) \in S
  BY <1>1, WithoutFacts
<1> HIDE DEF S
<1>3. WithoutEach(texts, Out) \in Seq(S)
  BY <1>1, <1>2 DEF WithoutEach
<1> QED
  BY <1>1, <1>3 DEF S, WithoutEach

LEMMA WithoutFlatten ==
  ASSUME NEW X, NEW texts \in Seq(Seq(X)), NEW Out
  PROVE  Without(FlattenSeq(texts), Out) = FlattenSeq(WithoutEach(texts, Out))
<1> DEFINE N == Len(texts)
           S == Seq(X)
           less == WithoutEach(texts, Out)
<1>1. /\ less \in Seq(S) /\ Len(less) = N /\ \A i \in 1 .. N : less[i] = Without(texts[i], Out)
      /\ N \in Nat /\ \A i \in 1 .. N : texts[i] \in S
  <2>1. less \in Seq(S) /\ Len(less) = N /\ \A i \in 1 .. N : less[i] = Without(texts[i], Out)
    BY WithoutEachFacts
  <2> HIDE DEF S, less
  <2>2. texts \in Seq(S)
    BY DEF S
  <2> QED
    BY <2>1, <2>2
<1> HIDE DEF less
<1>2. CASE N = 0
  <2>1. texts = << >> /\ less = << >>
    BY <1>1, <1>2
  <2> QED
    BY <2>1, FlattenNothing, WithoutNothing DEF less
<1>3. CASE N # 0
  <2>1. PICK f \in [1 .. N -> Seq(X)] : /\ f[1] = texts[1] /\ FlattenSeq(texts) = f[N]
                                        /\ \A i \in 2 .. N : f[i] = f[i - 1] \o texts[i]
    BY <1>3, FlattenSteps
  <2>2. PICK g \in [1 .. N -> Seq(X)] : /\ g[1] = less[1] /\ FlattenSeq(less) = g[N]
                                        /\ \A i \in 2 .. N : g[i] = g[i - 1] \o less[i]
    <3>1. Len(less) # 0 /\ less \in Seq(Seq(X))
      BY <1>1, <1>3
    <3> HIDE DEF S
    <3>2. \E g \in [1 .. Len(less) -> Seq(X)] :
              /\ g[1] = less[1] /\ FlattenSeq(less) = g[Len(less)]
              /\ \A i \in 2 .. Len(less) : g[i] = g[i - 1] \o less[i]
      BY <3>1, FlattenSteps
    <3> QED
      BY <1>1, <3>2
  <2> HIDE DEF S, N
  <2> DEFINE Good == { n \in Nat : n + 1 =< N => Without(f[n + 1], Out) = g[n + 1] }
  <2>3. 0 \in Good
    <3>1. 1 \in 1 .. N
      BY <1>1, <1>3
    <3>2. Without(f[1], Out) = g[1]
      BY <1>1, <2>1, <2>2, <3>1
    <3> QED
      BY <3>2
  <2>4. ASSUME NEW n \in Nat, n \in Good PROVE n + 1 \in Good
    <3> DEFINE m == (n + 1) + 1
    <3> SUFFICES ASSUME m =< N PROVE Without(f[m], Out) = g[m]
      OBVIOUS
    <3>1. n + 1 =< N /\ m - 1 = n + 1 /\ m \in 2 .. N /\ m \in 1 .. N /\ n + 1 \in 1 .. N
      BY <1>1
    <3> HIDE DEF m
    <3>2. Without(f[n + 1], Out) = g[n + 1]
      BY <2>4, <3>1
    <3>3. f[m] = f[n + 1] \o texts[m] /\ f[n + 1] \in Seq(X) /\ texts[m] \in Seq(X)
      BY <1>1, <2>1, <3>1 DEF S
    <3>4. Without(f[n + 1] \o texts[m], Out) = Without(f[n + 1], Out) \o Without(texts[m], Out)
      <4> DEFINE one == f[n + 1]
                 two == texts[m]
      <4>1. one \in Seq(X) /\ two \in Seq(X)
        BY <3>3
      <4> HIDE DEF one, two
      <4>2. Without(one \o two, Out) = Without(one, Out) \o Without(two, Out)
        BY ONLY <4>1, WithoutConcat
      <4> QED
        BY <4>2 DEF one, two
    <3>5. g[m] = g[n + 1] \o less[m] /\ less[m] = Without(texts[m], Out)
      BY <1>1, <2>2, <3>1
    <3> QED
      BY <3>2, <3>3, <3>4, <3>5
  <2>5. Nat \subseteq Good
    <3> HIDE DEF Good
    <3> QED
      BY <2>3, <2>4, SetInduction
  <2>6. Without(f[N], Out) = g[N]
    <3>1. N - 1 \in Nat /\ (N - 1) + 1 = N
      BY <1>1, <1>3
    <3> QED
      BY <2>5, <3>1
  <2> QED
    BY <2>1, <2>2, <2>6 DEF less
<1> QED
  BY <1>2, <1>3

(* Blank texts add nothing.                                                 *)
LEMMA FlattenFilled ==
  ASSUME NEW X, NEW texts \in Seq(Seq(X))
  PROVE  FlattenSeq(Without(texts, {<< >>})) = FlattenSeq(texts)
<1> DEFINE S == Seq(X)
           N == Len(texts)
           Filled(s) == Without(s, {<< >>})
           first == [n \in 0 .. N |-> SubSeq(texts, 1, n)]
           Good == { n \in Nat : n =< N => FlattenSeq(Filled(first[n])) = FlattenSeq(first[n]) }
<1>1. texts \in Seq(S)
  OBVIOUS
<1> HIDE DEF S
<1>2. /\ first[0] = << >> /\ first[N] = texts /\ N \in Nat
      /\ \A n \in 0 .. N : first[n] \in Seq(S)
      /\ \A n \in 1 .. N : first[n] = Append(first[n - 1], texts[n]) /\ texts[n] \in S
  <2>1. \A n \in 0 .. N : first[n] = SubSeq(texts, 1, n)
    OBVIOUS
  <2>2. /\ N \in Nat /\ 0 \in 0 .. N /\ N \in 0 .. N
        /\ \A n \in 1 .. N : n - 1 \in 0 .. N /\ n \in 0 .. N /\ texts[n] \in S
    BY <1>1
  <2> HIDE DEF first
  <2> QED
    BY <1>1, <2>1, <2>2, OneMore, FirstsOf
<1>3. \A n \in 0 .. N : Filled(first[n]) \in Seq(S)
  <2> HIDE DEF first
  <2> QED
    BY <1>2, WithoutFacts
<1> HIDE DEF first
<1>0. N \in Nat
  OBVIOUS
<1> HIDE DEF N
<1>4. 0 \in Good
  BY <1>2, WithoutNothing
<1>5. ASSUME NEW n \in Nat, n \in Good PROVE n + 1 \in Good
  <2> SUFFICES ASSUME n + 1 =< N
               PROVE  FlattenSeq(Filled(first[n + 1])) = FlattenSeq(first[n + 1])
    OBVIOUS
  <2> DEFINE u == first[n]
             c == texts[n + 1]
             v == Filled(u)
  <2>1. n \in 0 .. N /\ n + 1 \in 1 .. N /\ (n + 1) - 1 = n /\ n =< N
    BY <1>0
  <2>2. u \in Seq(S) /\ c \in S /\ v \in Seq(S) /\ first[n + 1] = Append(u, c) /\ FlattenSeq(v) = FlattenSeq(u)
    BY <1>2, <1>3, <1>5, <2>1
  <2> HIDE DEF u, c
  <2>3. Filled(Append(u, c)) = IF c \in {<< >>} THEN v ELSE Append(v, c)
    BY <2>2, WithoutStep
  <2> HIDE DEF v
  <2>4. FlattenSeq(Append(u, c)) = FlattenSeq(u) \o c /\ FlattenSeq(Append(v, c)) = FlattenSeq(v) \o c
    BY <2>2, FlattenGrows DEF S
  <2>5. FlattenSeq(u) \o << >> = FlattenSeq(u)
    <3>1. FlattenSeq(u) \in Seq(X)
      BY <2>2, FlattenFacts DEF S
    <3> DEFINE flat == FlattenSeq(u)
    <3> HIDE DEF flat
    <3>2. flat \o << >> = flat
      BY <3>1 DEF flat
    <3> QED
      BY <3>2 DEF flat
  <2> QED
    BY <2>2, <2>3, <2>4, <2>5
<1>6. Nat \subseteq Good
  <2> HIDE DEF Good
  <2> QED
    BY <1>4, <1>5, SetInduction
<1>7. N \in Good
  BY <1>2, <1>6
<1>8. FlattenSeq(Filled(first[N])) = FlattenSeq(first[N])
  BY <1>2, <1>7
<1> QED
  BY <1>2, <1>8

(* " ".join(), word by word.                                                *)
Separator(i) == IF i = 1 THEN << >> ELSE << " " >>

HasBlank(X) == " " \in X

IsJoining(run, words) ==
    /\ run[0] = << >>
    /\ \A k \in 1 .. Len(words) : run[k] = run[k - 1] \o Separator(k) \o words[k]
    /\ Joined(words) = run[Len(words)]

LEMMA JoinStep ==
  ASSUME NEW X, HasBlank(X), NEW text \in Seq(X), NEW word \in Seq(X), NEW i
  PROVE  /\ Separator(i) \in Seq(X) /\ text \o Separator(i) \in Seq(X)
         /\ text \o Separator(i) \o word \in Seq(X)
<1>1. Separator(i) \in Seq(X)
  <2>1. << >> \in Seq(X)
    OBVIOUS
  <2>2. << " " >> \in Seq(X)
    <3>1. \A blank \in X : << blank >> \in Seq(X)
      OBVIOUS
    <3> QED
      BY <3>1, Zenon DEF HasBlank
  <2> QED
    BY <2>1, <2>2 DEF Separator
<1>2. text \o Separator(i) \in Seq(X)
  BY <1>1, ConcatFacts
<1> QED
  BY <1>1, <1>2, ConcatFacts

LEMMA Joining ==
  ASSUME NEW X, HasBlank(X), NEW words \in Seq(Seq(X))
  PROVE  \E run \in [0 .. Len(words) -> Seq(X)] : IsJoining(run, words)
<1> DEFINE S == Seq(X)
           N == Len(words)
           order == [i \in DOMAIN words |-> i]
           P == SUBSET (1 .. N)
           blank == << >>
           Add(text, i) == text \o Separator(i) \o words[i]
           step == [k \in 1 .. N |-> [text \in S |-> Add(text, order[k])]]
           Fold(f) == f = [s \in P |-> IF s = {} THEN blank ELSE Add(f[s \ {Max(s)}], order[Max(s)])]
           iter == CHOOSE f : Fold(f)
<1>1. N \in Nat /\ DOMAIN words = 1 .. N /\ blank \in S /\ \A k \in 1 .. N : words[k] \in S
  <2>1. blank \in S
    OBVIOUS
  <2> HIDE DEF S, blank
  <2>2. words \in Seq(S)
    BY DEF S
  <2> QED
    BY <2>1, <2>2
<1>2. order \in [1 .. N -> 1 .. N] /\ \A k \in 1 .. N : order[k] = k
  BY <1>1
<1>3. \A text \in S, k \in 1 .. N : Add(text, k) \in S
  BY <1>1, JoinStep
<1> HIDE DEF S, order, blank, Add
<1>4. step \in [1 .. N -> [S -> S]]
  BY <1>2, <1>3
<1>5. \E f : Fold(f) /\ f \in [P -> S]
  <2>1. PICK f \in [P -> S] : IsFold(f, N, blank, step)
    <3> HIDE DEF step, N
    <3> QED
      BY <1>1, <1>4, FoldExists
  <2>2. ASSUME NEW s \in P
        PROVE  f[s] = IF s = {} THEN blank ELSE Add(f[s \ {Max(s)}], order[Max(s)])
    <3>1. f[s] = IF s = {} THEN blank ELSE step[Max(s)][f[s \ {Max(s)}]]
      <4> HIDE DEF step
      <4> QED
        BY <2>1 DEF IsFold
    <3>2. CASE s = {}
      BY <3>1, <3>2
    <3>3. CASE s # {}
      <4> DEFINE m == Max(s)
      <4>1. m \in 1 .. N
        BY <1>1, <3>3, LastPlaceFacts
      <4> HIDE DEF m
      <4>2. f[s \ {m}] \in S
        <5>1. s \ {m} \in P
          OBVIOUS
        <5> QED
          BY <2>1, <5>1
      <4>3. step[m][f[s \ {m}]] = Add(f[s \ {m}], order[m])
        BY <4>1, <4>2
      <4> HIDE DEF step
      <4> QED
        BY <3>1, <3>3, <4>3 DEF m
    <3> QED
      BY <3>2, <3>3
  <2>3. Fold(f)
    <3>1. f = [s \in P |-> f[s]]
      BY <2>1
    <3> QED
      BY <2>2, <3>1
  <2> QED
    BY <2>1, <2>3
<1>6. Fold(iter)
  <2> HIDE DEF Fold
  <2> QED
    BY <1>5
<1>7. Joined(words) = iter[1 .. N]
  BY <1>1, <1>2 DEF Joined, FoldLeftDomain, FoldLeft, MapThenFoldSet, Separator, Add, order, blank
<1> HIDE DEF iter
<1> DEFINE run == [k \in 0 .. N |-> iter[1 .. k]]
<1>8. iter[1 .. 0] = blank
  BY <1>1, <1>6, FirstPlaces
<1>9. \A k \in 1 .. N : iter[1 .. k] = Add(iter[1 .. k - 1], k)
  <2> SUFFICES ASSUME NEW k \in 1 .. N
               PROVE  iter[1 .. k] = Add(iter[1 .. k - 1], k)
    OBVIOUS
  <2>1. 1 .. k \in P /\ 1 .. k # {} /\ Max(1 .. k) = k /\ (1 .. k) \ {k} = 1 .. k - 1
    BY <1>1, FirstPlaces
  <2>2. \A s \in P : iter[s] = IF s = {} THEN blank ELSE Add(iter[s \ {Max(s)}], order[Max(s)])
    BY <1>6
  <2>3. order[k] = k
    BY <1>2
  <2> HIDE DEF P
  <2> QED
    BY <2>1, <2>2, <2>3
<1>10. run[0] = blank /\ run[N] = iter[1 .. N]
       /\ \A k \in 1 .. N : run[k] = Add(run[k - 1], k)
  BY <1>1, <1>8, <1>9
<1>11. \A k \in 0 .. N : run[k] \in S
  <2> DEFINE Typed == { k \in Nat : k =< N => run[k] \in S }
  <2> HIDE DEF run
  <2>1. 0 \in Typed
    BY <1>1, <1>10
  <2>2. ASSUME NEW k \in Nat, k \in Typed PROVE k + 1 \in Typed
    <3>1. ASSUME k + 1 =< N PROVE run[k + 1] \in S
      <4>1. k + 1 \in 1 .. N /\ (k + 1) - 1 = k /\ run[k] \in S
        BY <1>1, <2>2, <3>1
      <4> QED
        BY <1>3, <1>10, <4>1
    <3> QED
      BY <3>1
  <2>3. Nat \subseteq Typed
    <3> HIDE DEF Typed
    <3> QED
      BY <2>1, <2>2, SetInduction
  <2> QED
    BY <1>1, <2>3
<1>12. run \in [0 .. N -> S]
  <2>1. run = [k \in 0 .. N |-> run[k]]
    OBVIOUS
  <2> HIDE DEF run
  <2> QED
    BY <1>11, <2>1
<1> HIDE DEF run
<1>13. IsJoining(run, words)
  BY <1>7, <1>10 DEF IsJoining, Add, blank
<1> QED
  BY <1>12, <1>13 DEF S

(* Joining puts white space between texts and nothing else.                 *)
LEMMA WithoutJoined ==
  ASSUME NEW X, HasBlank(X), NEW words \in Seq(Seq(X)), NEW Out, HasBlank(Out)
  PROVE  /\ Joined(words) \in Seq(X)
         /\ Without(Joined(words), Out) = FlattenSeq(WithoutEach(words, Out))
<1> DEFINE S == Seq(X)
           N == Len(words)
           less == WithoutEach(words, Out)
           first == [n \in 0 .. N |-> SubSeq(less, 1, n)]
<1>1. /\ less \in Seq(S) /\ Len(less) = N /\ \A i \in 1 .. N : less[i] = Without(words[i], Out)
      /\ N \in Nat /\ \A i \in 1 .. N : words[i] \in S
  <2>1. less \in Seq(S) /\ Len(less) = N /\ \A i \in 1 .. N : less[i] = Without(words[i], Out)
    BY WithoutEachFacts
  <2> HIDE DEF S, less
  <2>2. words \in Seq(S)
    BY DEF S
  <2> QED
    BY <2>1, <2>2
<1>2. PICK run \in [0 .. N -> Seq(X)] : IsJoining(run, words)
  BY Joining
<1> HIDE DEF less
<1>3. /\ first[0] = << >> /\ first[N] = less
      /\ \A n \in 0 .. N : first[n] \in Seq(S)
      /\ \A n \in 1 .. N : first[n] = Append(first[n - 1], less[n]) /\ less[n] \in S
  <2>1. \A n \in 0 .. N : first[n] = SubSeq(less, 1, n)
    OBVIOUS
  <2> HIDE DEF first, S
  <2>2. /\ 0 \in 0 .. N /\ N \in 0 .. N
        /\ \A n \in 1 .. N : n - 1 \in 0 .. N /\ n \in 0 .. N /\ less[n] \in S
    BY <1>1
  <2>3. \A n \in 0 .. N : first[n] \in Seq(S)
    <3> SUFFICES ASSUME NEW n \in 0 .. N PROVE SubSeq(less, 1, n) \in Seq(S)
      BY <2>1
    <3>1. n \in 0 .. Len(less)
      BY <1>1
    <3> HIDE DEF N
    <3> QED
      BY ONLY <1>1, <3>1, FirstsOf
  <2>4. /\ SubSeq(less, 1, 0) = << >> /\ SubSeq(less, 1, Len(less)) = less
        /\ \A n \in 1 .. Len(less) : SubSeq(less, 1, n) = Append(SubSeq(less, 1, n - 1), less[n])
    BY ONLY <1>1, OneMore, Zenon
  <2>5. Len(less) = N
    BY <1>1
  <2> HIDE DEF N
  <2> QED
    BY ONLY <2>1, <2>2, <2>3, <2>4, <2>5
<1> HIDE DEF first
<1> DEFINE Good == { n \in Nat : n =< N => Without(run[n], Out) = FlattenSeq(first[n]) }
<1>4. 0 \in Good
  BY <1>2, <1>3, WithoutNothing, FlattenNothing DEF IsJoining
<1>5. ASSUME NEW n \in Nat, n \in Good PROVE n + 1 \in Good
  <2> DEFINE text == run[n]
             word == words[n + 1]
             sep == Separator(n + 1)
             u == first[n]
  <2> SUFFICES ASSUME n + 1 =< N PROVE Without(run[n + 1], Out) = FlattenSeq(first[n + 1])
    OBVIOUS
  <2>1. n \in 0 .. N /\ n + 1 \in 1 .. N /\ (n + 1) - 1 = n /\ n =< N
    BY <1>1
  <2>2. /\ text \in Seq(X) /\ word \in Seq(X) /\ u \in Seq(S)
        /\ run[n + 1] = text \o sep \o word /\ Without(text, Out) = FlattenSeq(u)
        /\ first[n + 1] = Append(u, Without(word, Out)) /\ Without(word, Out) \in S
    BY <1>1, <1>2, <1>3, <1>5, <2>1 DEF IsJoining
  <2>3. sep \in Seq(X) /\ text \o sep \in Seq(X)
    BY <2>2, JoinStep
  <2>4. Without(sep, Out) = << >>
    <3>1. << >> \in Seq(X) /\ << " " >> = Append(<< >>, " ")
      OBVIOUS
    <3>2. ASSUME NEW blank \in X, blank \in Out
          PROVE  Without(Append(<< >>, blank), Out) = Without(<< >>, Out)
      BY <3>1, <3>2, WithoutStep
    <3>3. Without(Append(<< >>, " "), Out) = Without(<< >>, Out)
      BY <3>2, Zenon DEF HasBlank
    <3> QED
      BY <3>1, <3>3, WithoutNothing DEF Separator
  <2> HIDE DEF text, word, sep, u
  <2>5. Without(text \o sep, Out) = Without(text, Out)
    <3>1. Without(text \o sep, Out) = Without(text, Out) \o Without(sep, Out)
      <4>1. text \in Seq(X) /\ sep \in Seq(X)
        BY <2>2, <2>3
      <4> QED
        BY ONLY <4>1, WithoutConcat
    <3>2. Without(text, Out) \in Seq(X)
      BY <2>2, WithoutFacts
    <3> DEFINE rest == Without(text, Out)
    <3> HIDE DEF rest
    <3>3. rest \o << >> = rest
      BY <3>2 DEF rest
    <3> QED
      BY <2>4, <3>1, <3>3 DEF rest
  <2> DEFINE longer == text \o sep
  <2>6. longer \in Seq(X) /\ word \in Seq(X)
    BY <2>2, <2>3
  <2> HIDE DEF longer
  <2>7. Without(longer \o word, Out) = Without(longer, Out) \o Without(word, Out)
    BY ONLY <2>6, WithoutConcat
  <2> DEFINE w == Without(word, Out)
  <2>8. u \in Seq(Seq(X)) /\ w \in Seq(X)
    BY <2>2
  <2> HIDE DEF w
  <2>9. FlattenSeq(Append(u, w)) = FlattenSeq(u) \o w
    BY <2>8, FlattenGrows
  <2> QED
    BY <2>2, <2>5, <2>7, <2>9 DEF longer, w
<1>6. Nat \subseteq Good
  <2> HIDE DEF Good
  <2> QED
    BY <1>4, <1>5, SetInduction
<1>7. N \in Good /\ N \in 0 .. N
  BY <1>1, <1>6
<1>8. Without(run[N], Out) = FlattenSeq(first[N])
  BY <1>1, <1>7
<1> QED
  BY <1>2, <1>3, <1>7, <1>8 DEF IsJoining, less

(* A text is what comes up to a place and what comes after it.              *)
LEMMA SplitFacts ==
  ASSUME NEW X, NEW s \in Seq(X), NEW k \in 0 .. Len(s)
  PROVE  LET a == SubSeq(s, 1, k)
             b == SubSeq(s, k + 1, Len(s))
         IN  /\ a \in Seq(X) /\ Len(a) = k /\ \A i \in 1 .. k : a[i] = s[i]
             /\ b \in Seq(X) /\ Len(b) = Len(s) - k /\ \A i \in 1 .. Len(s) - k : b[i] = s[k + i]
             /\ s = a \o b
<1> DEFINE a == SubSeq(s, 1, k)
           b == SubSeq(s, k + 1, Len(s))
           N == Len(s)
<1>1. N \in Nat /\ k \in Nat /\ k =< N
  OBVIOUS
<1>2. a \in Seq(X) /\ Len(a) = k /\ \A i \in 1 .. k : a[i] = s[i]
  <2> DEFINE m == 1
  <2>1. m \in 1 .. Len(s) + 1 /\ k \in m - 1 .. Len(s) /\ k - m + 1 = k /\ \A i \in 1 .. k : m + i - 1 = i
    BY <1>1
  <2> HIDE DEF m
  <2>2. /\ SubSeq(s, m, k) \in Seq(X) /\ Len(SubSeq(s, m, k)) = k - m + 1
        /\ \A i \in 1 .. k - m + 1 : SubSeq(s, m, k)[i] = s[m + i - 1]
    BY <2>1, SubSeqFacts
  <2> QED
    BY <2>1, <2>2 DEF m
<1>3. b \in Seq(X) /\ Len(b) = N - k /\ \A i \in 1 .. N - k : b[i] = s[k + i]
  <2> DEFINE m == k + 1
  <2>1. m \in 1 .. Len(s) + 1 /\ N \in m - 1 .. Len(s) /\ N - m + 1 = N - k /\ \A i \in 1 .. N - k : m + i - 1 = k + i
    BY <1>1
  <2> HIDE DEF m, N
  <2>2. /\ SubSeq(s, m, N) \in Seq(X) /\ Len(SubSeq(s, m, N)) = N - m + 1
        /\ \A i \in 1 .. N - m + 1 : SubSeq(s, m, N)[i] = s[m + i - 1]
    BY <2>1, SubSeqFacts
  <2> QED
    BY <2>1, <2>2 DEF m, N
<1> HIDE DEF a, b
<1>4. /\ a \o b \in Seq(X) /\ Len(a \o b) = Len(a) + Len(b)
      /\ \A i \in 1 .. Len(a) : (a \o b)[i] = a[i]
      /\ \A i \in 1 .. Len(b) : (a \o b)[Len(a) + i] = b[i]
  BY <1>2, <1>3, ConcatFacts
<1> DEFINE whole == a \o b
<1>5. Len(whole) = Len(s) /\ whole \in Seq(X)
  BY <1>1, <1>2, <1>3, <1>4
<1>6. ASSUME NEW i \in 1 .. Len(s) PROVE s[i] = whole[i]
  <2>1. CASE i =< k
    BY <1>1, <1>2, <1>4, <2>1
  <2>2. CASE i > k
    <3> DEFINE j == i - k
    <3>1. j \in 1 .. N - k /\ i = k + j
      BY <1>1, <2>2
    <3> HIDE DEF j
    <3> QED
      BY <1>2, <1>3, <1>4, <3>1
  <2>3. i =< k \/ i > k
    BY <1>1
  <2> HIDE DEF whole
  <2> QED
    BY <2>1, <2>2, <2>3
<1> HIDE DEF whole
<1>7. s = whole
  BY <1>5, <1>6, SameSequence
<1> QED
  BY <1>2, <1>3, <1>7 DEF whole, a, b

LEMMA WithoutAll ==
  ASSUME NEW X, NEW text \in Seq(X), NEW Out, \A i \in 1 .. Len(text) : text[i] \in Out
  PROVE  Without(text, Out) = << >>
<1>1. ToSet(text) \subseteq Out
  BY DEF ToSet
<1>2. Without(text, Out) \in Seq(X) /\ ToSet(Without(text, Out)) = {}
  BY <1>1, WithoutFacts
<1> DEFINE rest == Without(text, Out)
<1> HIDE DEF rest
<1>3. rest \in Seq(X) /\ \A i \in 1 .. Len(rest) : rest[i] \in ToSet(rest)
  BY <1>2 DEF rest, ToSet
<1>4. Len(rest) = 0
  BY <1>2, <1>3 DEF rest
<1> QED
  BY <1>3, <1>4 DEF rest

(* Stripping takes away white space and nothing else.                        *)
LEMMA WithoutStrip ==
  ASSUME NEW X, NEW text \in Seq(X), NEW Out, Spaces \subseteq Out
  PROVE  Strip(text) \in Seq(X) /\ Without(Strip(text), Out) = Without(text, Out)
<1> DEFINE ink == { i \in DOMAIN text : text[i] \notin Spaces }
           N == Len(text)
<1>1. DOMAIN text = 1 .. N /\ N \in Nat
  OBVIOUS
<1>2. CASE ink = {}
  <2>1. Strip(text) = << >> /\ << >> \in Seq(X)
    BY <1>2 DEF Strip
  <2>2. \A i \in 1 .. N : text[i] \in Out
    BY <1>1, <1>2
  <2>3. Without(text, Out) = << >>
    BY <2>2, WithoutAll
  <2> QED
    BY <2>1, <2>3, WithoutNothing
<1>3. CASE ink # {}
  <2> DEFINE m == Min(ink)
             n == Max(ink)
             a == SubSeq(text, 1, m - 1)
             b == SubSeq(text, m, n)
             c == SubSeq(text, n + 1, N)
  <2>1. Strip(text) = b
    BY <1>3 DEF Strip
  <2>2. ink \in SUBSET Nat /\ \A i \in ink : i =< N
    BY <1>1
  <2>3. m \in ink /\ n \in ink /\ \A i \in ink : m =< i /\ i =< n
    <3> HIDE DEF ink
    <3> QED
      BY <1>1, <1>3, <2>2, MinIsLeast, MaxIsGreatest
  <2>4. m \in 1 .. N /\ n \in m .. N
    BY <1>1, <2>3
  <2>5. \A i \in 1 .. N : i < m \/ i > n => text[i] \in Out
    <3> SUFFICES ASSUME NEW i \in 1 .. N, i < m \/ i > n PROVE i \notin ink
      BY <1>1
    <3> HIDE DEF ink, m, n
    <3> QED
      BY <2>3, <2>4
  <2> HIDE DEF m, n, ink
  <2> DEFINE w == SubSeq(text, 1, n)
             k == m - 1
  <2>6. /\ w \in Seq(X) /\ Len(w) = n /\ \A i \in 1 .. n : w[i] = text[i]
        /\ c \in Seq(X) /\ Len(c) = N - n /\ \A i \in 1 .. N - n : c[i] = text[n + i]
        /\ text = w \o c
    <3>1. n \in 0 .. Len(text)
      BY <1>1, <2>4
    <3> QED
      BY <3>1, SplitFacts
  <2>7. /\ k \in 0 .. Len(w) /\ k \in Nat /\ n \in Nat /\ k + 1 = m /\ k =< n /\ n =< N
        /\ m \in Nat /\ k = m - 1
    <3>1. Len(w) = n
      BY <2>6
    <3> HIDE DEF w
    <3> QED
      BY <1>1, <2>4, <3>1
  <2> HIDE DEF w, k, c
  <2> DEFINE d == SubSeq(w, k + 1, Len(w))
  <2>8. /\ SubSeq(w, 1, k) \in Seq(X) /\ Len(SubSeq(w, 1, k)) = k
        /\ \A i \in 1 .. k : SubSeq(w, 1, k)[i] = w[i]
        /\ d \in Seq(X) /\ Len(d) = Len(w) - k /\ \A i \in 1 .. Len(w) - k : d[i] = w[k + i]
        /\ w = SubSeq(w, 1, k) \o d
    <3>1. w \in Seq(X) /\ k \in 0 .. Len(w)
      BY <2>6, <2>7
    <3> QED
      BY ONLY <3>1, SplitFacts
  <2> DEFINE first == SubSeq(w, 1, k)
  <2> HIDE DEF first, d
  <2>9. b \in Seq(X) /\ b = d
    <3>1. m \in 1 .. Len(text) + 1 /\ n \in m - 1 .. Len(text)
      BY <1>1, <2>4
    <3>2. b \in Seq(X) /\ Len(b) = n - m + 1 /\ \A i \in 1 .. n - m + 1 : b[i] = text[m + i - 1]
      BY <3>1, SubSeqFacts
    <3>3. Len(b) = Len(d)
      BY <2>6, <2>7, <2>8, <3>2
    <3>4. ASSUME NEW i \in 1 .. Len(b) PROVE b[i] = d[i]
      <4>1. i \in Nat /\ 1 =< i /\ i =< n - m + 1 /\ Len(w) = n
        BY <2>4, <2>6, <2>7, <3>2
      <4>2. m + i - 1 = k + i /\ k + i \in 1 .. n /\ i \in 1 .. Len(w) - k /\ i \in 1 .. n - m + 1
        BY <2>7, <4>1
      <4> QED
        BY <2>6, <2>8, <3>2, <4>2
    <3> HIDE DEF b
    <3> QED
      BY <2>8, <3>2, <3>3, <3>4, SameSequence
  <2> HIDE DEF b
  <2>10. first \in Seq(X) /\ w = first \o b
    BY <2>8, <2>9 DEF first
  <2>11. Without(first, Out) = << >>
    <3>1. ASSUME NEW i \in 1 .. Len(first) PROVE first[i] \in Out
      <4>1. i \in 1 .. k /\ i \in 1 .. N /\ i < m /\ i \in 1 .. n
        BY <1>1, <2>7, <2>8 DEF first
      <4> QED
        BY <2>5, <2>6, <2>8, <4>1 DEF first
    <3> QED
      BY <2>10, <3>1, WithoutAll
  <2>12. Without(c, Out) = << >>
    <3>1. ASSUME NEW i \in 1 .. Len(c) PROVE c[i] \in Out
      <4>1. i \in 1 .. N - n /\ n + i \in 1 .. N /\ n + i > n
        BY <1>1, <2>6, <2>7
      <4> QED
        BY <2>5, <2>6, <4>1
    <3> QED
      BY <2>6, <3>1, WithoutAll
  <2>13. Without(w, Out) = Without(first, Out) \o Without(b, Out)
    <3>1. first \in Seq(X) /\ b \in Seq(X)
      BY <2>9, <2>10
    <3>2. Without(first \o b, Out) = Without(first, Out) \o Without(b, Out)
      BY ONLY <3>1, WithoutConcat
    <3> QED
      BY <2>10, <3>2
  <2>14. Without(text, Out) = Without(w, Out) \o Without(c, Out)
    <3>1. w \in Seq(X) /\ c \in Seq(X)
      BY <2>6
    <3>2. Without(w \o c, Out) = Without(w, Out) \o Without(c, Out)
      BY ONLY <3>1, WithoutConcat
    <3> QED
      BY <2>6, <3>2
  <2> DEFINE kept == Without(b, Out)
  <2>15. kept \in Seq(X)
    BY <2>9, WithoutFacts
  <2> HIDE DEF kept
  <2>16. << >> \o kept = kept /\ kept \o << >> = kept
    BY <2>15
  <2> QED
    BY <2>1, <2>9, <2>11, <2>12, <2>13, <2>14, <2>16 DEF kept
<1> QED
  BY <1>2, <1>3

-----------------------------------------------------------------------------
(* How a text begins.                                                       *)

Begins(p, s) == Len(p) =< Len(s) /\ \A i \in 1 .. Len(p) : s[i] = p[i]

LEMMA BeginsConcat ==
  ASSUME NEW X, NEW s \in Seq(X), NEW t \in Seq(X), NEW p \in Seq(X)
  PROVE  /\ Begins(p, s) => Begins(p, s \o t)
         /\ Begins(s, s)
<1>1. /\ Len(s \o t) = Len(s) + Len(t) /\ Len(s) \in Nat /\ Len(t) \in Nat /\ Len(p) \in Nat
      /\ \A i \in 1 .. Len(s) : (s \o t)[i] = s[i]
  BY ConcatFacts
<1> QED
  BY <1>1 DEF Begins

LEMMA BeginsPrefix ==
  ASSUME NEW X, NEW s \in Seq(X), NEW Y, NEW p \in Seq(Y)
  PROVE  /\ IsPrefix(p, s) <=> Begins(p, s)
         /\ Begins(p, s) => /\ SubSeq(s, Len(p) + 1, Len(s)) \in Seq(X)
                            /\ s = p \o SubSeq(s, Len(p) + 1, Len(s))
<1>1. Len(p) \in Nat /\ Len(s) \in Nat
  OBVIOUS
<1>2. IsPrefix(p, s) <=> Len(p) =< Len(s) /\ SubSeq(p, 1, Len(p)) = SubSeq(s, 1, Len(p))
  BY DEF IsPrefix
<1>3. SubSeq(p, 1, Len(p)) = p
  OBVIOUS
<1>4. Len(p) =< Len(s) => /\ SubSeq(s, 1, Len(p)) \in Seq(X) /\ Len(SubSeq(s, 1, Len(p))) = Len(p)
                          /\ \A i \in 1 .. Len(p) : SubSeq(s, 1, Len(p))[i] = s[i]
  OBVIOUS
<1>5. Begins(p, s) => SubSeq(s, 1, Len(p)) = p
  BY <1>1, <1>4 DEF Begins
<1>6. Begins(p, s) => s = SubSeq(s, 1, Len(p)) \o SubSeq(s, Len(p) + 1, Len(s))
  <2> SUFFICES ASSUME Begins(p, s)
               PROVE  s = SubSeq(s, 1, Len(p)) \o SubSeq(s, Len(p) + 1, Len(s))
    OBVIOUS
  <2> DEFINE k == Len(p)
  <2>1. k \in 0 .. Len(s)
    BY <1>1 DEF Begins
  <2> HIDE DEF k
  <2>2. s = SubSeq(s, 1, k) \o SubSeq(s, k + 1, Len(s))
    BY <2>1, SplitFacts
  <2> QED
    BY <2>2 DEF k
<1>7. Begins(p, s) => SubSeq(s, Len(p) + 1, Len(s)) \in Seq(X)
  BY <1>1 DEF Begins
<1> QED
  BY <1>1, <1>2, <1>3, <1>4, <1>5, <1>6, <1>7 DEF Begins

(* Stripping does not cut into ink.                                         *)
LEMMA StripBegins ==
  ASSUME NEW X, NEW text \in Seq(X), NEW p \in Seq(X), p # << >>,
         \A i \in 1 .. Len(p) : p[i] \notin Spaces, Begins(p, text)
  PROVE  Begins(p, Strip(text))
<1> DEFINE ink == { i \in DOMAIN text : text[i] \notin Spaces }
           N == Len(text)
           k == Len(p)
<1>1. DOMAIN text = 1 .. N /\ N \in Nat /\ k \in Nat /\ k # 0 /\ k =< N
  BY DEF Begins
<1>2. 1 \in ink /\ k \in ink
  BY <1>1 DEF Begins
<1>3. ink \in SUBSET Nat /\ \A i \in ink : 1 =< i /\ i =< N
  BY <1>1
<1> DEFINE m == Min(ink)
           n == Max(ink)
<1>4. Strip(text) = SubSeq(text, m, n)
  BY <1>2 DEF Strip
<1>5. m \in ink /\ n \in ink /\ \A i \in ink : m =< i /\ i =< n
  <2> HIDE DEF ink
  <2> QED
    BY <1>1, <1>2, <1>3, MinIsLeast, MaxIsGreatest
<1> HIDE DEF m, n, ink
<1>6. m = 1 /\ n \in k .. N
  BY <1>1, <1>2, <1>3, <1>5
<1>7. Len(SubSeq(text, 1, n)) = n /\ \A i \in 1 .. n : SubSeq(text, 1, n)[i] = text[i]
  BY <1>1, <1>6
<1> QED
  BY <1>1, <1>4, <1>6, <1>7 DEF Begins

LEMMA FlattenBegins ==
  ASSUME NEW X, NEW texts \in Seq(Seq(X)), Len(texts) # 0, NEW p \in Seq(X), Begins(p, texts[1])
  PROVE  Begins(p, FlattenSeq(texts))
<1> DEFINE N == Len(texts)
           S == Seq(X)
<1>1. N \in Nat /\ N # 0 /\ \A i \in 1 .. N : texts[i] \in S
  <2>1. texts \in Seq(S)
    OBVIOUS
  <2> HIDE DEF S
  <2> QED
    BY <2>1
<1>2. PICK f \in [1 .. N -> Seq(X)] : /\ f[1] = texts[1] /\ FlattenSeq(texts) = f[N]
                                      /\ \A i \in 2 .. N : f[i] = f[i - 1] \o texts[i]
  BY FlattenSteps
<1> HIDE DEF N
<1> DEFINE Good == { n \in Nat : n + 1 =< N => Begins(p, f[n + 1]) }
<1>3. 0 \in Good
  BY <1>2
<1>4. ASSUME NEW n \in Nat, n \in Good PROVE n + 1 \in Good
  <2> DEFINE m == (n + 1) + 1
  <2> SUFFICES ASSUME m =< N PROVE Begins(p, f[m])
    OBVIOUS
  <2>1. n + 1 =< N /\ m - 1 = n + 1 /\ m \in 2 .. N /\ m \in 1 .. N /\ n + 1 \in 1 .. N
    BY <1>1
  <2> HIDE DEF m
  <2> DEFINE s == f[n + 1]
             t == texts[m]
  <2>2. Begins(p, s) /\ s \in Seq(X) /\ t \in Seq(X) /\ f[m] = s \o t
    BY <1>1, <1>2, <1>4, <2>1
  <2> HIDE DEF s, t
  <2> QED
    BY <2>2, BeginsConcat
<1>5. Nat \subseteq Good
  <2> HIDE DEF Good
  <2> QED
    BY <1>3, <1>4, SetInduction
<1>6. N - 1 \in Nat /\ (N - 1) + 1 = N
  BY <1>1
<1>7. Begins(p, f[N])
  <2> DEFINE k == N - 1
  <2>1. k \in Good /\ k + 1 =< N
    <3> HIDE DEF Good
    <3> QED
      BY <1>1, <1>5, <1>6
  <2>2. k + 1 = N
    BY <1>6
  <2> HIDE DEF k
  <2>3. Begins(p, f[k + 1])
    BY <2>1
  <2> QED
    BY <2>2, <2>3
<1> QED
  BY <1>2, <1>7

LEMMA JoinedBegins ==
  ASSUME NEW X, HasBlank(X), NEW words \in Seq(Seq(X)), Len(words) # 0,
         NEW p \in Seq(X), Begins(p, words[1])
  PROVE  Begins(p, Joined(words))
<1> DEFINE N == Len(words)
           S == Seq(X)
<1>1. N \in Nat /\ N # 0 /\ \A i \in 1 .. N : words[i] \in S
  <2>1. words \in Seq(S)
    OBVIOUS
  <2> HIDE DEF S
  <2> QED
    BY <2>1
<1>2. PICK run \in [0 .. N -> Seq(X)] : IsJoining(run, words)
  BY Joining
<1>3. /\ run[0] = << >> /\ Joined(words) = run[N]
      /\ \A k \in 1 .. N : run[k] = run[k - 1] \o Separator(k) \o words[k]
  BY <1>2 DEF IsJoining
<1> HIDE DEF N
<1> DEFINE Good == { n \in Nat : n + 1 =< N => Begins(p, run[n + 1]) }
<1>4. 0 \in Good
  <2>1. 1 \in 1 .. N /\ 1 - 1 = 0
    BY <1>1
  <2>2. run[1] = << >> \o << >> \o words[1]
    BY <1>3, <2>1 DEF Separator
  <2>3. run[1] = words[1]
    <3> DEFINE w == words[1]
    <3>1. w \in Seq(X)
      BY <1>1, <2>1
    <3> HIDE DEF w
    <3>2. << >> \o << >> \o w = w
      BY <3>1
    <3> QED
      BY <2>2, <3>2 DEF w
  <2> QED
    BY <2>3
<1>5. ASSUME NEW n \in Nat, n \in Good PROVE n + 1 \in Good
  <2> DEFINE m == (n + 1) + 1
  <2> SUFFICES ASSUME m =< N PROVE Begins(p, run[m])
    OBVIOUS
  <2>1. n + 1 =< N /\ m - 1 = n + 1 /\ m \in 1 .. N /\ n + 1 \in 0 .. N
    BY <1>1
  <2> HIDE DEF m
  <2> DEFINE s == run[n + 1]
             sep == Separator(m)
             t == words[m]
  <2>2. Begins(p, s) /\ s \in Seq(X) /\ t \in Seq(X) /\ run[m] = s \o sep \o t
    BY <1>1, <1>2, <1>3, <1>5, <2>1
  <2>3. sep \in Seq(X) /\ s \o sep \in Seq(X)
    BY <2>2, JoinStep
  <2> HIDE DEF s, t, sep
  <2>4. Begins(p, s \o sep)
    BY <2>2, <2>3, BeginsConcat
  <2> DEFINE longer == s \o sep
  <2>5. longer \in Seq(X) /\ Begins(p, longer)
    BY <2>3, <2>4
  <2> HIDE DEF longer
  <2>6. Begins(p, longer \o t)
    BY <2>2, <2>5, BeginsConcat
  <2> QED
    BY <2>2, <2>6 DEF longer
<1>6. Nat \subseteq Good
  <2> HIDE DEF Good
  <2> QED
    BY <1>4, <1>5, SetInduction
<1>7. N - 1 \in Nat /\ (N - 1) + 1 = N
  BY <1>1
<1>8. Begins(p, run[N])
  <2> DEFINE k == N - 1
  <2>1. k \in Good /\ k + 1 =< N
    <3> HIDE DEF Good
    <3> QED
      BY <1>1, <1>6, <1>7
  <2>2. k + 1 = N
    BY <1>7
  <2> HIDE DEF k
  <2>3. Begins(p, run[k + 1])
    BY <2>1
  <2> QED
    BY <2>2, <2>3
<1> QED
  BY <1>3, <1>8

(* What is kept of a sequence begins with what it begins with, if that is kept. *)
LEMMA KeptHead ==
  ASSUME NEW X, NEW s \in Seq(X), NEW I \in SUBSET DOMAIN s, 1 \in I
  PROVE  Kept(s, I) \in Seq(X) /\ Len(Kept(s, I)) # 0 /\ Kept(s, I)[1] = s[1]
<1> DEFINE n == Cardinality(I)
<1>1. PICK at : IsPlacing(at, s, I)
  BY KeptFacts
<1>2. Kept(s, I) \in Seq(X) /\ Len(Kept(s, I)) = n
  BY KeptFacts
<1>3. n \in Nat /\ I \subseteq Nat /\ \A i \in I : 1 =< i
  BY PlacesAreFinite
<1>4. /\ at \in [1 .. n -> I] /\ \A j, k \in 1 .. n : j < k => at[j] < at[k]
      /\ \A k \in 1 .. n : Kept(s, I)[k] = s[at[k]]
      /\ \A i \in I : \E k \in 1 .. n : at[k] = i
  BY <1>1 DEF IsPlacing
<1> HIDE DEF n
<1>5. PICK k \in 1 .. n : at[k] = 1
  BY <1>4
<1>6. 1 \in 1 .. n /\ at[1] \in I
  BY <1>3, <1>4, <1>5
<1>7. at[1] = 1
  <2>1. CASE k = 1
    BY <1>5, <2>1
  <2>2. CASE k # 1
    <3>1. at[1] < at[k]
      BY <1>3, <1>4, <1>5, <1>6, <2>2
    <3> QED
      BY <1>3, <1>5, <1>6, <3>1
  <2> QED
    BY <2>1, <2>2
<1> QED
  BY <1>2, <1>3, <1>4, <1>6, <1>7

-----------------------------------------------------------------------------
(* Ranks and the AUC.                                                       *)

Ascending(values) ==
    { pair \in (DOMAIN values) \X (DOMAIN values) :
        \/ values[pair[1]] < values[pair[2]]
        \/ values[pair[1]] = values[pair[2]] /\ pair[1] < pair[2] }

(* Each value has one place in the argsort.                                  *)
LEMMA ArgsortFacts ==
  ASSUME NEW values \in Seq(Int)
  PROVE  IsSorting(Argsort(values), 1 .. Len(values), Ascending(values))
<1> DEFINE I == DOMAIN values
           R == Ascending(values)
           order == Argsort(values)
           Before(i, j) == values[i] < values[j] \/ (values[i] = values[j] /\ i < j)
<1>1. I = 1 .. Len(values) /\ Len(values) \in Nat
  OBVIOUS
<1>2. \A i \in I : values[i] \in Int /\ i \in Nat
  BY <1>1
<1>3. IsFiniteSet(I)
  BY <1>1, IntervalSize
<1>4. \A i, j \in I : << i, j >> \in R <=> Before(i, j)
  BY DEF Ascending
<1>5. IsStrictOrder(R, I)
  <2>1. \A i \in I : ~Before(i, i)
    BY <1>2
  <2>2. \A i, j, k \in I : Before(i, j) /\ Before(j, k) => Before(i, k)
    BY <1>2
  <2>3. \A i, j \in I : i = j \/ Before(i, j) \/ Before(j, i)
    BY <1>2
  <2> HIDE DEF Before, R, I
  <2> QED
    BY <1>4, <2>1, <2>2, <2>3 DEF IsStrictOrder
<1> DEFINE A == { << x, Cardinality({ y \in I : Before(y, x) }) >> : x \in I }
           B == { << x, Cardinality(Below(R, I, x)) >> : x \in I }
<1>6. A = B
  <2>1. \A x \in I : { y \in I : Before(y, x) } = Below(R, I, x)
    BY <1>4 DEF Below
  <2> HIDE DEF Before
  <2> QED
    BY <2>1
<1>7. order = [k \in 1 .. Cardinality(I) |-> (CHOOSE r \in A : r[2] = k - 1)[1]]
  BY DEF Argsort, SortedBy
<1>8. IsSorting([k \in 1 .. Cardinality(I) |-> (CHOOSE r \in B : r[2] = k - 1)[1]], I, R)
  <2> HIDE DEF R, I
  <2> QED
    BY <1>3, <1>5, SortingExists
<1> HIDE DEF A, B, order
<1>9. IsSorting(order, I, R)
  BY <1>6, <1>7, <1>8
<1> QED
  BY <1>1, <1>9 DEF order

(* How many values are less than x, and how many at most x.                  *)
Less(values, x) == { k \in DOMAIN values : values[k] < x }
AtMost(values, x) == { k \in DOMAIN values : values[k] =< x }

(* Twice a shared rank counts the smaller values, those at most as large, and *)
(* one.                                                                      *)
LEMMA RanksFacts ==
  ASSUME NEW values \in Seq(Int), NEW i \in 1 .. Len(values)
  PROVE  /\ Cardinality(Less(values, values[i])) \in Nat
         /\ Cardinality(AtMost(values, values[i])) \in Nat
         /\ AverageRanks(values)[i] = Cardinality(Less(values, values[i]))
                                        + Cardinality(AtMost(values, values[i])) + 1
<1> DEFINE N == Len(values)
           order == Argsort(values)
           x == values[i]
           Lt == { p \in 1 .. N : values[order[p]] < x }
           Le == { p \in 1 .. N : values[order[p]] =< x }
           Tied == { p \in 1 .. N : values[order[p]] = x }
<1>1. N \in Nat /\ DOMAIN values = 1 .. N /\ x \in Int /\ \A k \in 1 .. N : values[k] \in Int
  OBVIOUS
<1>2. /\ order \in [1 .. N -> 1 .. N]
      /\ \A p, q \in 1 .. N : p < q => << order[p], order[q] >> \in Ascending(values)
      /\ \A p, q \in 1 .. N : order[p] = order[q] => p = q
      /\ \A k \in 1 .. N : \E p \in 1 .. N : order[p] = k
  <2>1. IsSorting(order, 1 .. N, Ascending(values))
    BY ArgsortFacts
  <2>2. Cardinality(1 .. N) = N
    BY <1>1, IntervalSize
  <2> HIDE DEF order, N
  <2> QED
    BY <2>1, <2>2 DEF IsSorting
<1>3. AverageRanks(values)[i] = Min(Tied) + Max(Tied)
  <2>1. DOMAIN order = 1 .. N
    BY <1>2
  <2> QED
    BY <1>1, <2>1 DEF AverageRanks
<1>4. \A p, q \in 1 .. N : p =< q => values[order[p]] =< values[order[q]]
  <2> SUFFICES ASSUME NEW p \in 1 .. N, NEW q \in 1 .. N, p =< q
               PROVE  values[order[p]] =< values[order[q]]
    OBVIOUS
  <2>1. values[order[p]] \in Int /\ values[order[q]] \in Int
    BY <1>1, <1>2
  <2>2. CASE p = q
    BY <2>1, <2>2
  <2>3. CASE p # q
    <3>1. p < q
      BY <2>3
    <3>2. << order[p], order[q] >> \in Ascending(values)
      BY <1>2, <3>1
    <3> HIDE DEF order, x
    <3>3. values[order[p]] < values[order[q]] \/ values[order[p]] = values[order[q]]
      BY ONLY <3>2 DEF Ascending
    <3> QED
      BY ONLY <2>1, <3>3
  <2> QED
    BY <2>2, <2>3
<1>5. \A p \in 1 .. N : values[order[p]] \in Int
  BY <1>1, <1>2
<1> HIDE DEF order, x, N
<1>6. /\ IsFiniteSet(Lt) /\ Cardinality(Lt) \in 0 .. N /\ Lt = 1 .. Cardinality(Lt)
      /\ IsFiniteSet(Le) /\ Cardinality(Le) \in 0 .. N /\ Le = 1 .. Cardinality(Le)
  <2>1. \A p \in Lt, q \in 1 .. N : q =< p => q \in Lt
    <3> SUFFICES ASSUME NEW p \in Lt, NEW q \in 1 .. N, q =< p
                 PROVE  values[order[q]] < x
      OBVIOUS
    <3>1. p \in 1 .. N /\ values[order[p]] < x
      OBVIOUS
    <3>2. values[order[q]] =< values[order[p]]
      BY <1>4, <3>1
    <3>3. values[order[q]] \in Int /\ values[order[p]] \in Int /\ x \in Int
      BY <1>1, <1>5, <3>1
    <3> QED
      BY ONLY <3>1, <3>2, <3>3
  <2>2. \A p \in Le, q \in 1 .. N : q =< p => q \in Le
    <3> SUFFICES ASSUME NEW p \in Le, NEW q \in 1 .. N, q =< p
                 PROVE  values[order[q]] =< x
      OBVIOUS
    <3>1. p \in 1 .. N /\ values[order[p]] =< x
      OBVIOUS
    <3>2. values[order[q]] =< values[order[p]]
      BY <1>4, <3>1
    <3>3. values[order[q]] \in Int /\ values[order[p]] \in Int /\ x \in Int
      BY <1>1, <1>5, <3>1
    <3> QED
      BY ONLY <3>1, <3>2, <3>3
  <2>3. Lt \in SUBSET (1 .. N) /\ Le \in SUBSET (1 .. N)
    OBVIOUS
  <2> HIDE DEF Lt, Le
  <2> QED
    BY <1>1, <2>1, <2>2, <2>3, InitialPlaces
<1>7. Cardinality(Less(values, x)) = Cardinality(Lt)
  <2> DEFINE f == [p \in Lt |-> order[p]]
  <2>1. f \in [Lt -> Less(values, x)]
    BY <1>1, <1>2 DEF Less
  <2>2. \A p, q \in Lt : f[p] = f[q] => p = q
    BY <1>2
  <2>3. \A k \in Less(values, x) : \E p \in Lt : f[p] = k
    BY <1>1, <1>2 DEF Less
  <2> HIDE DEF f, Lt
  <2> QED
    BY <1>6, <2>1, <2>2, <2>3, SameSize
<1>8. Cardinality(AtMost(values, x)) = Cardinality(Le)
  <2> DEFINE f == [p \in Le |-> order[p]]
  <2>1. f \in [Le -> AtMost(values, x)]
    BY <1>1, <1>2 DEF AtMost
  <2>2. \A p, q \in Le : f[p] = f[q] => p = q
    BY <1>2
  <2>3. \A k \in AtMost(values, x) : \E p \in Le : f[p] = k
    BY <1>1, <1>2 DEF AtMost
  <2> HIDE DEF f, Le
  <2> QED
    BY <1>6, <2>1, <2>2, <2>3, SameSize
<1>9. Tied = Le \ Lt /\ Tied # {}
  <2>1. Tied = Le \ Lt
    BY <1>1, <1>5
  <2>2. \E p \in 1 .. N : order[p] = i
    BY <1>1, <1>2 DEF N
  <2> QED
    BY <2>1, <2>2 DEF x
<1> DEFINE l == Cardinality(Lt)
           e == Cardinality(Le)
<1>10. l \in Nat /\ e \in Nat /\ Tied = l + 1 .. e /\ l + 1 =< e
  <2> HIDE DEF Tied, Lt, Le
  <2>1. l \in Nat /\ e \in Nat /\ Lt = 1 .. l /\ Le = 1 .. e
    BY <1>1, <1>6
  <2> HIDE DEF l, e
  <2> QED
    BY <1>9, <2>1
<1> HIDE DEF l, e, Tied
<1>11. Min(Tied) = l + 1 /\ Max(Tied) = e
  <2>1. Tied \in SUBSET Nat /\ Tied # {} /\ \A y \in Tied : y =< e
    <3>1. \A y \in Tied : y \in Nat /\ y =< e
      BY <1>10
    <3>2. l + 1 \in Tied
      BY <1>10
    <3> QED
      BY <3>1, <3>2
  <2>2. Min(Tied) \in Tied /\ \A y \in Tied : Min(Tied) =< y
    BY <2>1, MinIsLeast
  <2>3. Max(Tied) \in Tied /\ \A y \in Tied : y =< Max(Tied)
    BY <1>10, <2>1, MaxIsGreatest
  <2>4. l + 1 \in Tied /\ e \in Tied
    BY <1>10
  <2> QED
    BY <1>10, <2>2, <2>3, <2>4
<1> QED
  BY <1>3, <1>7, <1>8, <1>10, <1>11 DEF x, l, e

(* The sum of the positives' ranks, one position at a time.                  *)
IsRankSum(run, positive, negative) ==
    LET ranks == AverageRanks(positive \o negative)
        n == Len(positive)
    IN  /\ run[0] = 0
        /\ \A k \in 1 .. n : run[k] = run[k - 1] + ranks[k]
        /\ AucSeparation(positive, negative) = << run[n] - n * (n + 1), 2 * n * Len(negative) >>

LEMMA RankSumming ==
  ASSUME NEW positive \in Seq(Int), NEW negative \in Seq(Int)
  PROVE  \E run : IsRankSum(run, positive, negative)
<1> DEFINE N == Len(positive)
           ranks == AverageRanks(positive \o negative)
           order == [i \in DOMAIN positive |-> i]
           P == SUBSET (1 .. N)
           step == [k \in 1 .. N |-> [sum \in Int |-> sum + ranks[order[k]]]]
           Fold(f) == f = [s \in P |-> IF s = {} THEN 0 ELSE f[s \ {Max(s)}] + ranks[order[Max(s)]]]
           iter == CHOOSE f : Fold(f)
<1>1. N \in Nat /\ DOMAIN positive = 1 .. N /\ 0 \in Int
  OBVIOUS
<1>0. order \in [1 .. N -> 1 .. N] /\ \A k \in 1 .. N : order[k] = k
  BY <1>1
<1>2. \A k \in 1 .. N : ranks[k] \in Int
  <2> SUFFICES ASSUME NEW k \in 1 .. N PROVE ranks[k] \in Int
    OBVIOUS
  <2>1. positive \o negative \in Seq(Int) /\ k \in 1 .. Len(positive \o negative)
    OBVIOUS
  <2> QED
    <3> DEFINE values == positive \o negative
    <3> HIDE DEF values
    <3>1. /\ Cardinality(Less(values, values[k])) \in Nat
          /\ Cardinality(AtMost(values, values[k])) \in Nat
          /\ AverageRanks(values)[k] = Cardinality(Less(values, values[k]))
                                         + Cardinality(AtMost(values, values[k])) + 1
      BY ONLY <2>1, RanksFacts DEF values
    <3> QED
      BY <3>1 DEF values
<1> HIDE DEF ranks, order
<1>3. step \in [1 .. N -> [Int -> Int]]
  BY <1>0, <1>2
<1>4. \E f : Fold(f)
  <2>1. PICK f \in [P -> Int] : IsFold(f, N, 0, step)
    <3> HIDE DEF step, N
    <3> QED
      BY <1>1, <1>3, FoldExists
  <2>2. ASSUME NEW s \in P
        PROVE  f[s] = IF s = {} THEN 0 ELSE f[s \ {Max(s)}] + ranks[order[Max(s)]]
    <3>1. f[s] = IF s = {} THEN 0 ELSE step[Max(s)][f[s \ {Max(s)}]]
      <4> HIDE DEF step
      <4> QED
        BY <2>1 DEF IsFold
    <3>2. CASE s = {}
      BY <3>1, <3>2
    <3>3. CASE s # {}
      <4> DEFINE m == Max(s)
      <4>1. m \in 1 .. N
        BY <1>1, <3>3, LastPlaceFacts
      <4> HIDE DEF m
      <4>2. f[s \ {m}] \in Int
        <5>1. s \ {m} \in P
          OBVIOUS
        <5> QED
          BY <2>1, <5>1
      <4>3. step[m][f[s \ {m}]] = f[s \ {m}] + ranks[order[m]]
        BY <4>1, <4>2
      <4> HIDE DEF step
      <4> QED
        BY <3>1, <3>3, <4>3 DEF m
    <3> QED
      BY <3>2, <3>3
  <2>3. Fold(f)
    <3>1. f = [s \in P |-> f[s]]
      BY <2>1
    <3> QED
      BY <2>2, <3>1
  <2> QED
    BY <2>3
<1>5. Fold(iter)
  <2> HIDE DEF Fold
  <2> QED
    BY <1>4
<1>6. AucSeparation(positive, negative) = << iter[1 .. N] - N * (N + 1), 2 * N * Len(negative) >>
  BY <1>0, <1>1 DEF AucSeparation, FoldLeftDomain, FoldLeft, MapThenFoldSet, ranks, order
<1> HIDE DEF iter
<1> DEFINE run == [k \in 0 .. N |-> iter[1 .. k]]
<1>7. iter[1 .. 0] = 0
  BY <1>1, <1>5, FirstPlaces
<1>8. \A k \in 1 .. N : iter[1 .. k] = iter[1 .. k - 1] + ranks[k]
  <2> SUFFICES ASSUME NEW k \in 1 .. N
               PROVE  iter[1 .. k] = iter[1 .. k - 1] + ranks[k]
    OBVIOUS
  <2>1. 1 .. k \in P /\ 1 .. k # {} /\ Max(1 .. k) = k /\ (1 .. k) \ {k} = 1 .. k - 1
    BY <1>1, FirstPlaces
  <2>2. \A s \in P : iter[s] = IF s = {} THEN 0 ELSE iter[s \ {Max(s)}] + ranks[order[Max(s)]]
    BY <1>5
  <2>3. order[k] = k
    BY <1>0
  <2> HIDE DEF P
  <2> QED
    BY <2>1, <2>2, <2>3
<1>9. run[0] = 0 /\ \A k \in 1 .. N : run[k] = run[k - 1] + ranks[k]
  BY <1>1, <1>7, <1>8
<1>10. run[N] = iter[1 .. N]
  BY <1>1
<1> HIDE DEF run
<1>11. IsRankSum(run, positive, negative)
  BY <1>6, <1>9, <1>10 DEF IsRankSum, ranks
<1> QED
  BY <1>11

(* The pairs a rank sum counts: one of the first k values and any value that *)
(* is less, or at most as large.                                             *)
LessPairs(values, k) ==
    { p \in (1 .. k) \X (1 .. Len(values)) : values[p[2]] < values[p[1]] }
AtMostPairs(values, k) ==
    { p \in (1 .. k) \X (1 .. Len(values)) : values[p[2]] =< values[p[1]] }

(* The pairs S are the pairs R and those of x with each element of T.        *)
HasRow(S, R, x, T) ==
    /\ R \subseteq S /\ \A p \in R : p[1] # x
    /\ \A p \in S : p \in R \/ p[1] = x
    /\ \A p \in S : p[1] = x => p = << x, p[2] >> /\ p[2] \in T
    /\ \A y \in T : << x, y >> \in S

LEMMA OneMoreRow ==
  ASSUME NEW S, IsFiniteSet(S), NEW T, IsFiniteSet(T), NEW x, NEW R, HasRow(S, R, x, T)
  PROVE  /\ Cardinality(S) = Cardinality(R) + Cardinality(T)
         /\ Cardinality(R) \in Nat /\ Cardinality(T) \in Nat
<1> DEFINE Row == { << x, y >> : y \in T }
           f == [y \in T |-> << x, y >>]
<1>0. /\ R \subseteq S /\ \A p \in R : p[1] # x
      /\ \A p \in S : p \in R \/ p[1] = x
      /\ \A p \in S : p[1] = x => p = << x, p[2] >> /\ p[2] \in T
      /\ \A y \in T : << x, y >> \in S
  BY DEF HasRow
<1>1. f \in [T -> Row]
  OBVIOUS
<1>2. IsFiniteSet(Row) /\ Cardinality(Row) = Cardinality(T)
  <2>1. \A y, z \in T : f[y] = f[z] => y = z
    OBVIOUS
  <2>2. \A r \in Row : \E y \in T : f[y] = r
    OBVIOUS
  <2> HIDE DEF f, Row
  <2> QED
    BY <1>1, <2>1, <2>2, SameSize
<1>3. IsFiniteSet(R)
  BY <1>0, FS_Subset
<1>4. \A r \in Row : r[1] = x
  OBVIOUS
<1>5. S = R \cup Row
  <2>1. \A p \in S : p \in R \/ p \in Row
    <3> SUFFICES ASSUME NEW p \in S, p[1] = x PROVE p \in Row
      BY <1>0
    <3> QED
      BY <1>0
  <2>2. \A r \in Row : r \in S
    BY <1>0
  <2> HIDE DEF Row
  <2> QED
    BY <1>0, <2>1, <2>2
<1>6. R \cap Row = {}
  <2> HIDE DEF Row
  <2> QED
    BY <1>0, <1>4
<1> HIDE DEF Row
<1> QED
  BY <1>2, <1>3, <1>5, <1>6, PartsAddUp

(* After k positions the rank sum counts those pairs.                        *)
LEMMA RankSumCountsPairs ==
  ASSUME NEW positive \in Seq(Int), NEW negative \in Seq(Int), NEW run,
         IsRankSum(run, positive, negative)
  PROVE  LET n == Len(positive)
             values == positive \o negative
         IN  run[n] = Cardinality(LessPairs(values, n)) + Cardinality(AtMostPairs(values, n)) + n
<1> DEFINE n == Len(positive)
           values == positive \o negative
           N == Len(values)
           L(k) == Cardinality(LessPairs(values, k))
           E(k) == Cardinality(AtMostPairs(values, k))
           Good == { k \in Nat : k =< n => run[k] = L(k) + E(k) + k /\ L(k) \in Nat /\ E(k) \in Nat }
<1>1. /\ n \in Nat /\ N \in Nat /\ n =< N /\ values \in Seq(Int)
      /\ \A i \in 1 .. N : values[i] \in Int
  OBVIOUS
<1> HIDE DEF values
<1>2. DOMAIN values = 1 .. N
  BY <1>1
<1> HIDE DEF N, n
<1>3. \A k \in 0 .. n : IsFiniteSet(LessPairs(values, k)) /\ IsFiniteSet(AtMostPairs(values, k))
  <2> SUFFICES ASSUME NEW k \in 0 .. n
               PROVE  IsFiniteSet(LessPairs(values, k)) /\ IsFiniteSet(AtMostPairs(values, k))
    OBVIOUS
  <2>1. IsFiniteSet(1 .. k) /\ IsFiniteSet(1 .. N)
    BY <1>1, IntervalSize
  <2>2. IsFiniteSet((1 .. k) \X (1 .. N))
    BY <2>1, FS_Product
  <2>3. LessPairs(values, k) \subseteq (1 .. k) \X (1 .. N)
    BY DEF LessPairs, N
  <2>4. AtMostPairs(values, k) \subseteq (1 .. k) \X (1 .. N)
    BY DEF AtMostPairs, N
  <2> QED
    BY <2>2, <2>3, <2>4, FS_Subset
<1>4. Nat \subseteq Good
  <2>1. 0 \in Good
    <3>1. LessPairs(values, 0) = {} /\ AtMostPairs(values, 0) = {}
      <4>1. 1 .. 0 = {}
        OBVIOUS
      <4> QED
        BY <4>1 DEF LessPairs, AtMostPairs
    <3>2. L(0) = 0 /\ E(0) = 0
      BY <3>1, FS_EmptySet
    <3>3. run[0] = 0
      BY DEF IsRankSum
    <3> HIDE DEF L, E
    <3> QED
      BY <3>2, <3>3
  <2>2. ASSUME NEW k \in Nat, k \in Good PROVE k + 1 \in Good
    <3> SUFFICES ASSUME k + 1 =< n
                 PROVE  run[k + 1] = L(k + 1) + E(k + 1) + (k + 1) /\ L(k + 1) \in Nat /\ E(k + 1) \in Nat
      OBVIOUS
    <3> DEFINE x == k + 1
               B == Less(values, values[x])
               C == AtMost(values, values[x])
    <3>1. x \in 1 .. n /\ x \in 1 .. N /\ x - 1 = k /\ k \in 0 .. n /\ x \in 0 .. n /\ x \in Int
      BY <1>1
    <3>2. 1 .. k \subseteq 1 .. x /\ x \notin 1 .. k /\ \A i \in 1 .. x : i \in 1 .. k \/ i = x
      BY <3>1
    <3> HIDE DEF x
    <3>3. /\ AverageRanks(values)[x] = Cardinality(B) + Cardinality(C) + 1
          /\ Cardinality(B) \in Nat /\ Cardinality(C) \in Nat
      BY <1>1, <3>1, RanksFacts DEF N
    <3>4. run[x] = run[k] + AverageRanks(values)[x]
      BY <3>1 DEF IsRankSum, n, values
    <3>5. B \in SUBSET (1 .. N) /\ C \in SUBSET (1 .. N) /\ IsFiniteSet(B) /\ IsFiniteSet(C)
      <4>1. B \in SUBSET (1 .. N) /\ C \in SUBSET (1 .. N)
        BY <1>2 DEF Less, AtMost
      <4>2. IsFiniteSet(1 .. N)
        BY <1>1, IntervalSize
      <4> QED
        BY <4>1, <4>2, FS_Subset
    <3>6. L(x) = L(k) + Cardinality(B) /\ L(k) \in Nat
      <4> DEFINE S == LessPairs(values, x)
                 R == LessPairs(values, k)
      <4>1. IsFiniteSet(S)
        BY <1>3, <3>1
      <4>2. R \subseteq S
        BY <3>2 DEF LessPairs
      <4>3. \A p \in R : p[1] # x
        BY <3>2 DEF LessPairs
      <4>4. \A p \in S : p \in R \/ p[1] = x
        BY <3>2 DEF LessPairs
      <4>5. \A p \in S : p[1] = x => p = << x, p[2] >> /\ p[2] \in B
        BY <1>2 DEF LessPairs, Less, N
      <4>6. \A y \in B : << x, y >> \in S
        <5>1. x \in 1 .. x
          BY <3>1
        <5> QED
          BY <1>2, <5>1 DEF LessPairs, Less, N
      <4>7. HasRow(S, R, x, B)
        BY <4>2, <4>3, <4>4, <4>5, <4>6 DEF HasRow
      <4> HIDE DEF S, R, B
      <4>8. Cardinality(S) = Cardinality(R) + Cardinality(B) /\ Cardinality(R) \in Nat
        BY ONLY <3>5, <4>1, <4>7, OneMoreRow
      <4> QED
        BY <4>8 DEF S, R
    <3>7. E(x) = E(k) + Cardinality(C) /\ E(k) \in Nat
      <4> DEFINE S == AtMostPairs(values, x)
                 R == AtMostPairs(values, k)
      <4>1. IsFiniteSet(S)
        BY <1>3, <3>1
      <4>2. R \subseteq S
        BY <3>2 DEF AtMostPairs
      <4>3. \A p \in R : p[1] # x
        BY <3>2 DEF AtMostPairs
      <4>4. \A p \in S : p \in R \/ p[1] = x
        BY <3>2 DEF AtMostPairs
      <4>5. \A p \in S : p[1] = x => p = << x, p[2] >> /\ p[2] \in C
        BY <1>2 DEF AtMostPairs, AtMost, N
      <4>6. \A y \in C : << x, y >> \in S
        <5>1. x \in 1 .. x
          BY <3>1
        <5> QED
          BY <1>2, <5>1 DEF AtMostPairs, AtMost, N
      <4>7. HasRow(S, R, x, C)
        BY <4>2, <4>3, <4>4, <4>5, <4>6 DEF HasRow
      <4> HIDE DEF S, R, C
      <4>8. Cardinality(S) = Cardinality(R) + Cardinality(C) /\ Cardinality(R) \in Nat
        BY ONLY <3>5, <4>1, <4>7, OneMoreRow
      <4> QED
        BY <4>8 DEF S, R
    <3>8. run[k] = L(k) + E(k) + k
      BY <2>2, <3>1
    <3> HIDE DEF L, E, B, C
    <3>9. run[x] = L(x) + E(x) + x /\ L(x) \in Nat /\ E(x) \in Nat
      <4>1. run[x] = (L(k) + E(k) + k) + (Cardinality(B) + Cardinality(C) + 1) /\ k = x - 1
        BY <3>1, <3>3, <3>4, <3>8
      <4>2. /\ (L(k) + E(k) + k) + (Cardinality(B) + Cardinality(C) + 1)
                  = (L(k) + Cardinality(B)) + (E(k) + Cardinality(C)) + (k + 1)
            /\ L(k) + Cardinality(B) \in Nat /\ E(k) + Cardinality(C) \in Nat
        <5>1. /\ L(k) \in Nat /\ E(k) \in Nat /\ k \in Nat
              /\ Cardinality(B) \in Nat /\ Cardinality(C) \in Nat
          BY ONLY k \in Nat, <3>3, <3>6, <3>7
        <5> QED
          BY ONLY <5>1, SMTT(30)
      <4>3. x = k + 1
        BY <3>1 DEF x
      <4> QED
        BY ONLY <3>6, <3>7, <4>1, <4>2, <4>3
    <3> QED
      BY <3>9 DEF x
  <2> HIDE DEF Good
  <2> QED
    BY <2>1, <2>2, SetInduction
<1>5. run[n] = L(n) + E(n) + n
  <2>1. n \in Good
    BY <1>1, <1>4
  <2> QED
    BY <1>1, <2>1
<1> QED
  BY <1>5 DEF n, values

(* Of any two positions one is less or the other is at most as large.        *)
LEMMA SquareOfPairs ==
  ASSUME NEW n \in Nat, NEW v, \A i \in 1 .. n : v[i] \in Int
  PROVE  LET less == { p \in (1 .. n) \X (1 .. n) : v[p[2]] < v[p[1]] }
             most == { p \in (1 .. n) \X (1 .. n) : v[p[2]] =< v[p[1]] }
         IN  /\ IsFiniteSet(less) /\ IsFiniteSet(most)
             /\ Cardinality(less) + Cardinality(most) = n * n
<1> DEFINE I == 1 .. n
           Square == I \X I
           less == { p \in Square : v[p[2]] < v[p[1]] }
           more == { p \in Square : v[p[1]] < v[p[2]] }
           most == { p \in Square : v[p[2]] =< v[p[1]] }
           f == [p \in less |-> << p[2], p[1] >>]
<1>1. IsFiniteSet(Square) /\ Cardinality(Square) = n * n
  <2>1. IsFiniteSet(I) /\ Cardinality(I) = n
    BY IntervalSize
  <2> HIDE DEF I
  <2> QED
    BY <2>1, FS_Product
<1>2. IsFiniteSet(less) /\ IsFiniteSet(more) /\ IsFiniteSet(most)
  <2>1. less \subseteq Square /\ more \subseteq Square /\ most \subseteq Square
    OBVIOUS
  <2> HIDE DEF less, more, most, Square
  <2> QED
    BY <1>1, <2>1, FS_Subset
<1>3. Cardinality(more) = Cardinality(less)
  <2>1. f \in [less -> more]
    OBVIOUS
  <2>2. \A p, q \in less : f[p] = f[q] => p = q
    OBVIOUS
  <2>3. \A q \in more : \E p \in less : f[p] = q
    <3> SUFFICES ASSUME NEW q \in more PROVE \E p \in less : f[p] = q
      OBVIOUS
    <3>1. << q[2], q[1] >> \in less /\ q = << q[1], q[2] >>
      OBVIOUS
    <3>2. f[<< q[2], q[1] >>] = q
      BY <3>1
    <3> QED
      BY <3>1, <3>2
  <2> HIDE DEF f, less, more
  <2> QED
    BY <1>2, <2>1, <2>2, <2>3, SameSize
<1>4. more \cap most = {} /\ more \cup most = Square
  <2>1. \A p \in Square : v[p[1]] \in Int /\ v[p[2]] \in Int
    OBVIOUS
  <2>2. \A p \in Square : v[p[1]] < v[p[2]] <=> ~(v[p[2]] =< v[p[1]])
    BY <2>1
  <2> QED
    BY <2>2
<1> HIDE DEF less, more, most, Square
<1>5. Cardinality(more) + Cardinality(most) = Cardinality(Square)
  BY <1>2, <1>4, PartsAddUp
<1> QED
  BY <1>1, <1>2, <1>3, <1>5 DEF less, most, Square

(* A pair of a positive and a value is one of two positives, or one of a      *)
(* positive and a negative.                                                  *)
PartedSquare(All, Among, Across, n, m) ==
    /\ IsFiniteSet(All) /\ All \subseteq (1 .. n) \X (1 .. n + m)
    /\ Among = { p \in All : p[2] =< n }
    /\ Across \subseteq (1 .. n) \X (1 .. m)
    /\ \A p \in Across : << p[1], n + p[2] >> \in All
    /\ \A p \in All : p[2] > n => << p[1], p[2] - n >> \in Across

LEMMA PairsWithNegatives ==
  ASSUME NEW n \in Nat, NEW m \in Nat, NEW All, NEW Among, NEW Across,
         PartedSquare(All, Among, Across, n, m)
  PROVE  /\ Cardinality(All) = Cardinality(Among) + Cardinality(Across)
         /\ Cardinality(Across) \in Nat /\ Cardinality(Among) \in Nat
<1> DEFINE Rest == { p \in All : p[2] > n }
           f == [p \in Rest |-> << p[1], p[2] - n >>]
<1>0. /\ IsFiniteSet(All) /\ All \subseteq (1 .. n) \X (1 .. n + m)
      /\ Among = { p \in All : p[2] =< n }
      /\ Across \subseteq (1 .. n) \X (1 .. m)
      /\ \A p \in Across : << p[1], n + p[2] >> \in All
      /\ \A p \in All : p[2] > n => << p[1], p[2] - n >> \in Across
  BY DEF PartedSquare
<1>1. \A p \in All : p = << p[1], p[2] >> /\ p[1] \in 1 .. n /\ p[2] \in 1 .. n + m
  BY <1>0
<1>2. Rest \cup Among = All /\ Rest \cap Among = {}
  <2>1. \A p \in All : p[2] > n <=> ~(p[2] =< n)
    BY <1>1
  <2> QED
    BY <1>0, <2>1
<1>3. IsFiniteSet(Rest) /\ IsFiniteSet(Among)
  BY <1>0, FS_Subset, <1>2
<1>4. Cardinality(Across) = Cardinality(Rest)
  <2>1. f \in [Rest -> Across]
    BY <1>0
  <2>2. \A p, q \in Rest : f[p] = f[q] => p = q
    <3> SUFFICES ASSUME NEW p \in Rest, NEW q \in Rest, f[p] = f[q] PROVE p = q
      OBVIOUS
    <3>1. p[1] = q[1] /\ p[2] - n = q[2] - n /\ p[2] \in Int /\ q[2] \in Int
      BY <1>1
    <3>2. p[2] = q[2]
      BY ONLY <3>1, n \in Nat
    <3> QED
      BY <1>1, <3>1, <3>2
  <2>3. \A q \in Across : \E p \in Rest : f[p] = q
    <3> SUFFICES ASSUME NEW q \in Across PROVE \E p \in Rest : f[p] = q
      OBVIOUS
    <3> DEFINE p == << q[1], n + q[2] >>
    <3>1. q = << q[1], q[2] >> /\ q[1] \in 1 .. n /\ q[2] \in 1 .. m
      BY <1>0
    <3>2. p \in Rest
      BY <1>0, <3>1
    <3>3. (n + q[2]) - n = q[2]
      BY <3>1
    <3>4. f[p] = << q[1], (n + q[2]) - n >>
      BY <3>2
    <3> QED
      BY <3>1, <3>2, <3>3, <3>4
  <2> HIDE DEF f, Rest
  <2> QED
    BY <1>3, <2>1, <2>2, <2>3, SameSize
<1> HIDE DEF Rest
<1>5. Cardinality(All) = Cardinality(Rest) + Cardinality(Among) /\ Cardinality(Rest) \in Nat /\ Cardinality(Among) \in Nat
  BY <1>2, <1>3, PartsAddUp
<1> QED
  BY <1>4, <1>5

(* The Mann-Whitney identity: the rank sum of the positives, less what they   *)
(* have among themselves, counts each pair a positive wins twice and each     *)
(* tied pair once.                                                           *)
LEMMA AucCounts ==
  ASSUME NEW positive \in Seq(Int), NEW negative \in Seq(Int)
  PROVE  LET n == Len(positive)
             m == Len(negative)
             Pairs == (1 .. n) \X (1 .. m)
             Wins == { p \in Pairs : positive[p[1]] > negative[p[2]] }
             Ties == { p \in Pairs : positive[p[1]] = negative[p[2]] }
         IN  /\ Cardinality(Wins) \in Nat /\ Cardinality(Ties) \in Nat
             /\ AucSeparation(positive, negative)
                  = << 2 * Cardinality(Wins) + Cardinality(Ties), 2 * n * m >>
<1> DEFINE n == Len(positive)
           m == Len(negative)
           values == positive \o negative
           Pairs == (1 .. n) \X (1 .. m)
           Wins == { p \in Pairs : positive[p[1]] > negative[p[2]] }
           Ties == { p \in Pairs : positive[p[1]] = negative[p[2]] }
           L == LessPairs(values, n)
           E == AtMostPairs(values, n)
           less == { p \in (1 .. n) \X (1 .. n) : values[p[2]] < values[p[1]] }
           most == { p \in (1 .. n) \X (1 .. n) : values[p[2]] =< values[p[1]] }
<1>1. /\ n \in Nat /\ m \in Nat /\ Len(values) = n + m
      /\ \A i \in 1 .. n : positive[i] \in Int /\ values[i] = positive[i]
      /\ \A i \in 1 .. m : negative[i] \in Int /\ values[n + i] = negative[i]
  BY ConcatFacts
<1>2. PICK run : IsRankSum(run, positive, negative)
  BY RankSumming
<1>3. run[n] = Cardinality(L) + Cardinality(E) + n
  BY <1>2, RankSumCountsPairs
<1>4. AucSeparation(positive, negative) = << run[n] - n * (n + 1), 2 * n * m >>
  BY <1>2 DEF IsRankSum
<1> HIDE DEF n, m, values
<1>5. \A i \in 1 .. n : values[i] \in Int
  BY <1>1
<1>6. IsFiniteSet(less) /\ IsFiniteSet(most) /\ Cardinality(less) + Cardinality(most) = n * n
  <2> HIDE DEF less, most
  <2> QED
    BY <1>1, <1>5, SquareOfPairs DEF less, most
<1>7. /\ L \subseteq (1 .. n) \X (1 .. n + m) /\ IsFiniteSet(L)
      /\ E \subseteq (1 .. n) \X (1 .. n + m) /\ IsFiniteSet(E)
  <2>1. IsFiniteSet((1 .. n) \X (1 .. n + m))
    <3>1. IsFiniteSet(1 .. n) /\ IsFiniteSet(1 .. n + m)
      <4>1. n + m \in Nat
        BY <1>1
      <4> QED
        BY <1>1, <4>1, IntervalSize
    <3> QED
      BY <3>1, FS_Product
  <2>2. L \subseteq (1 .. n) \X (1 .. n + m) /\ E \subseteq (1 .. n) \X (1 .. n + m)
    BY <1>1 DEF LessPairs, AtMostPairs
  <2> HIDE DEF L, E
  <2> QED
    BY <2>1, <2>2, FS_Subset
<1>8. less = { p \in L : p[2] =< n } /\ most = { p \in E : p[2] =< n }
  <2>1. \A p \in (1 .. n) \X (1 .. n + m) : p[2] =< n <=> p \in (1 .. n) \X (1 .. n)
    BY <1>1
  <2>2. (1 .. n) \X (1 .. n) \subseteq (1 .. n) \X (1 .. n + m)
    BY <1>1
  <2> QED
    BY <1>1, <2>1, <2>2 DEF LessPairs, AtMostPairs
<1>9. /\ \A p \in Pairs : /\ << p[1], n + p[2] >> \in (1 .. n) \X (1 .. n + m)
                          /\ values[p[1]] = positive[p[1]] /\ values[n + p[2]] = negative[p[2]]
                          /\ positive[p[1]] \in Int /\ negative[p[2]] \in Int
      /\ \A p \in (1 .. n) \X (1 .. n + m) : p[2] > n =>
             /\ << p[1], p[2] - n >> \in Pairs
             /\ values[p[1]] = positive[p[1]] /\ values[p[2]] = negative[p[2] - n]
  <2>1. ASSUME NEW p \in Pairs
        PROVE  /\ << p[1], n + p[2] >> \in (1 .. n) \X (1 .. n + m)
               /\ values[p[1]] = positive[p[1]] /\ values[n + p[2]] = negative[p[2]]
               /\ positive[p[1]] \in Int /\ negative[p[2]] \in Int
    BY <1>1
  <2>2. ASSUME NEW p \in (1 .. n) \X (1 .. n + m), p[2] > n
        PROVE  /\ << p[1], p[2] - n >> \in Pairs
               /\ values[p[1]] = positive[p[1]] /\ values[p[2]] = negative[p[2] - n]
    <3>1. p[1] \in 1 .. n /\ p[2] - n \in 1 .. m /\ n + (p[2] - n) = p[2]
      BY <1>1, <2>2
    <3>2. values[n + (p[2] - n)] = negative[p[2] - n]
      BY <1>1, <3>1
    <3> QED
      BY <1>1, <3>1, <3>2
  <2> QED
    BY <2>1, <2>2
<1> DEFINE Least == { p \in Pairs : positive[p[1]] >= negative[p[2]] }
<1>10. /\ Cardinality(L) = Cardinality(less) + Cardinality(Wins)
       /\ Cardinality(Wins) \in Nat /\ Cardinality(less) \in Nat
  <2>1. Wins \subseteq (1 .. n) \X (1 .. m)
    OBVIOUS
  <2>2. \A p \in Wins : << p[1], n + p[2] >> \in L
    BY <1>1, <1>9 DEF LessPairs
  <2>3. \A p \in L : p[2] > n => << p[1], p[2] - n >> \in Wins
    BY <1>1, <1>9 DEF LessPairs
  <2>4. /\ L \subseteq (1 .. n) \X (1 .. n + m) /\ IsFiniteSet(L)
        /\ less = { p \in L : p[2] =< n } /\ n \in Nat /\ m \in Nat
    BY <1>1, <1>7, <1>8
  <2> HIDE DEF L, less, Wins
  <2>5. PartedSquare(L, less, Wins, n, m)
    BY ONLY <2>1, <2>2, <2>3, <2>4 DEF PartedSquare
  <2> QED
    BY ONLY <2>4, <2>5, PairsWithNegatives
<1>11. /\ Cardinality(E) = Cardinality(most) + Cardinality(Least)
       /\ Cardinality(Least) \in Nat /\ Cardinality(most) \in Nat
  <2>1. Least \subseteq (1 .. n) \X (1 .. m)
    OBVIOUS
  <2>2. \A p \in Least : << p[1], n + p[2] >> \in E
    BY <1>1, <1>9 DEF AtMostPairs
  <2>3. \A p \in E : p[2] > n => << p[1], p[2] - n >> \in Least
    BY <1>1, <1>9 DEF AtMostPairs
  <2>4. /\ E \subseteq (1 .. n) \X (1 .. n + m) /\ IsFiniteSet(E)
        /\ most = { p \in E : p[2] =< n } /\ n \in Nat /\ m \in Nat
    BY <1>1, <1>7, <1>8
  <2> HIDE DEF E, most, Least
  <2>5. PartedSquare(E, most, Least, n, m)
    BY ONLY <2>1, <2>2, <2>3, <2>4 DEF PartedSquare
  <2> QED
    BY ONLY <2>4, <2>5, PairsWithNegatives
<1>12. Cardinality(Least) = Cardinality(Wins) + Cardinality(Ties) /\ Cardinality(Ties) \in Nat
  <2>1. Least = Wins \cup Ties /\ Wins \cap Ties = {}
    <3>1. \A p \in Pairs : positive[p[1]] \in Int /\ negative[p[2]] \in Int
      BY <1>9
    <3> QED
      BY <3>1
  <2>2. IsFiniteSet(Pairs)
    <3>1. IsFiniteSet(1 .. n) /\ IsFiniteSet(1 .. m)
      BY <1>1, IntervalSize
    <3> QED
      BY <3>1, FS_Product
  <2>3. IsFiniteSet(Wins) /\ IsFiniteSet(Ties)
    BY <2>2, FS_Subset
  <2> HIDE DEF Least, Wins, Ties
  <2> QED
    BY <2>1, <2>3, PartsAddUp
<1> HIDE DEF L, E, less, most, Wins, Ties, Least
<1>13. n * (n + 1) = n * n + n
  BY <1>1
<1>14. n * n \in Int /\ n * (n + 1) \in Int
  BY <1>1
<1>15. run[n] - n * (n + 1) = 2 * Cardinality(Wins) + Cardinality(Ties)
  <2> DEFINE square == n * n
             product == n * (n + 1)
  <2>1. /\ square \in Int /\ product = square + n /\ n \in Nat
        /\ Cardinality(less) + Cardinality(most) = square
    BY <1>1, <1>6, <1>13, <1>14
  <2> HIDE DEF square, product
  <2>2. run[n] - product = 2 * Cardinality(Wins) + Cardinality(Ties)
    <3> DEFINE w == Cardinality(Wins)
               t == Cardinality(Ties)
               a == Cardinality(less)
               b == Cardinality(most)
    <3>1. w \in Nat /\ t \in Nat /\ a \in Nat /\ b \in Nat /\ n \in Nat
      BY <1>10, <1>11, <1>12, <2>1
    <3>2. run[n] = (a + w) + (b + (w + t)) + n
      BY <1>3, <1>10, <1>11, <1>12
    <3>3. square = a + b /\ product = square + n
      BY <2>1
    <3> HIDE DEF w, t, a, b
    <3>4. run[n] - product = 2 * w + t
      BY ONLY <3>1, <3>2, <3>3
    <3> QED
      BY <3>4 DEF w, t
  <2> QED
    BY <2>2 DEF product
<1> QED
  BY <1>4, <1>10, <1>12, <1>15 DEF Wins, Ties, n, m

-----------------------------------------------------------------------------
(* The dialect split. Rows are numbers, so a cluster is what lies on one side *)
(* of a point half way between two centroids. g is 1 when the second centroid *)
(* is the larger, -1 when it is the smaller.                                  *)

Means == (Int \X (Nat \ {0})) \X (Int \X (Nat \ {0}))

Ahead(g, c) == g * (c[2][1] * c[1][2] - c[1][1] * c[2][2]) > 0

Beyond(g, v, c) == g * (2 * v * (c[1][2] * c[2][2]) - (c[1][1] * c[2][2] + c[2][1] * c[1][2])) > 0

LEMMA Signs ==
  ASSUME NEW x \in Int, NEW y \in Int
  PROVE  /\ x > 0 => (x * y > 0 <=> y > 0)
         /\ x < 0 => (x * y > 0 <=> y < 0)
OBVIOUS

LEMMA ScaledDifference ==
  ASSUME NEW v \in Int, NEW s0 \in Int, NEW s1 \in Int, NEW n0 \in Int, NEW n1 \in Int
  PROVE  (v * n0 - s0) * (v * n0 - s0) * n1 * n1 - (v * n1 - s1) * (v * n1 - s1) * n0 * n0
             = (s1 * n0 - s0 * n1) * (2 * v * (n0 * n1) - (s0 * n1 + s1 * n0))
OBVIOUS

(* A row is nearer to the second centroid when it is beyond the half way.     *)
LEMMA NearerIsBeyond ==
  ASSUME NEW g \in {1, -1}, NEW c \in Means, Ahead(g, c), NEW v \in Int
  PROVE  Nearer1(v, c) <=> Beyond(g, v, c)
<1> DEFINE s0 == c[1][1]
           n0 == c[1][2]
           s1 == c[2][1]
           n1 == c[2][2]
           near == (v * n1 - s1) * (v * n1 - s1) * n0 * n0
           far == (v * n0 - s0) * (v * n0 - s0) * n1 * n1
           gap == s1 * n0 - s0 * n1
           over == 2 * v * (n0 * n1) - (s0 * n1 + s1 * n0)
<1>1. s0 \in Int /\ s1 \in Int /\ n0 \in Nat \ {0} /\ n1 \in Nat \ {0}
  BY DEF Means
<1>2. (Nearer1(v, c) <=> near < far) /\ g * gap > 0 /\ (Beyond(g, v, c) <=> g * over > 0)
  BY DEF Nearer1, Ahead, Beyond
<1> HIDE DEF s0, n0, s1, n1
<1>3. far - near = gap * over
  BY <1>1, ScaledDifference
<1>4. near \in Int /\ far \in Int /\ gap \in Int /\ over \in Int
  BY <1>1
<1> HIDE DEF near, far, gap, over
<1>5. near < far <=> gap * over > 0
  BY <1>3, <1>4
<1>6. gap > 0 => (gap * over > 0 <=> over > 0)
  BY <1>4, Signs
<1>7. gap < 0 => (gap * over > 0 <=> over < 0)
  BY <1>4, Signs
<1>8. CASE g = 1
  BY <1>2, <1>4, <1>5, <1>6, <1>8
<1>9. CASE g = -1
  BY <1>2, <1>4, <1>5, <1>7, <1>9
<1> QED
  BY <1>8, <1>9

Side(labels, side) == { i \in DOMAIN labels : labels[i] = side }

(* A split: both clusters have rows, those of the second beyond the others.  *)
IsSplit(g, points, labels) ==
    /\ labels \in [DOMAIN points -> {0, 1}]
    /\ Side(labels, 0) # {} /\ Side(labels, 1) # {}
    /\ \A i \in Side(labels, 0), j \in Side(labels, 1) : g * points[i] < g * points[j]

LEMMA BeyondInOrder ==
  ASSUME NEW g \in {1, -1}, NEW c \in Means, NEW v \in Int, NEW w \in Int,
         ~Beyond(g, v, c), Beyond(g, w, c)
  PROVE  g * v < g * w
<1> DEFINE n == c[1][2] * c[2][2]
           m == c[1][1] * c[2][2] + c[2][1] * c[1][2]
<1>1. n \in Int /\ n > 0 /\ m \in Int
  <2>1. /\ c[1][1] \in Int /\ c[2][1] \in Int /\ c[1][2] \in Int /\ c[2][2] \in Int
        /\ c[1][2] > 0 /\ c[2][2] > 0
    BY DEF Means
  <2>2. \A x, y \in Int : x > 0 /\ y > 0 => x * y \in Int /\ x * y > 0
    OBVIOUS
  <2> QED
    BY <2>1, <2>2
<1>2. ~(g * (2 * v * n - m) > 0) /\ g * (2 * w * n - m) > 0
  BY DEF Beyond
<1> HIDE DEF n, m
<1>3. CASE g = 1
  <2>1. 2 * v * n < 2 * w * n
    BY <1>1, <1>2, <1>3
  <2>2. n * (w - v) > 0
    BY <1>1, <2>1
  <2> QED
    BY <1>1, <1>3, <2>2, Signs
<1>4. CASE g = -1
  <2>1. 2 * w * n < 2 * v * n
    BY <1>1, <1>2, <1>4
  <2>2. n * (v - w) > 0
    BY <1>1, <2>1
  <2> QED
    BY <1>1, <1>4, <2>2, Signs
<1> QED
  BY <1>3, <1>4

(* Where some row is nearer to each of two centroids, they split the rows.    *)
LEMMA NearerSplits ==
  ASSUME NEW g \in {1, -1}, NEW points \in Seq(Int), NEW c \in Means, Ahead(g, c),
         \E i \in DOMAIN points : ~Nearer1(points[i], c),
         \E i \in DOMAIN points : Nearer1(points[i], c)
  PROVE  IsSplit(g, points, Labels(points, c))
<1> DEFINE labels == Labels(points, c)
<1>1. /\ labels \in [DOMAIN points -> {0, 1}] /\ DOMAIN labels = DOMAIN points
      /\ \A i \in DOMAIN points : /\ labels[i] = 1 <=> Nearer1(points[i], c)
                                  /\ labels[i] = 0 <=> ~Nearer1(points[i], c)
  BY DEF Labels
<1> HIDE DEF labels
<1>2. Side(labels, 0) # {} /\ Side(labels, 1) # {}
  BY <1>1 DEF Side
<1>3. ASSUME NEW i \in Side(labels, 0), NEW j \in Side(labels, 1)
      PROVE  g * points[i] < g * points[j]
  <2>1. points[i] \in Int /\ points[j] \in Int /\ ~Nearer1(points[i], c) /\ Nearer1(points[j], c)
    BY <1>1 DEF Side
  <2>2. ~Beyond(g, points[i], c) /\ Beyond(g, points[j], c)
    BY <2>1, NearerIsBeyond
  <2> QED
    BY <2>1, <2>2, BeyondInOrder
<1> QED
  BY <1>1, <1>2, <1>3 DEF IsSplit, labels

(* The means of two clusters with rows.                                      *)
MeansOf(points, labels) ==
    << << Total(points, Side(labels, 0)), Cardinality(Side(labels, 0)) >>,
       << Total(points, Side(labels, 1)), Cardinality(Side(labels, 1)) >> >>

LEMMA SideFacts ==
  ASSUME NEW points \in Seq(Int), NEW labels \in [DOMAIN points -> {0, 1}], NEW side
  PROVE  /\ IsFiniteSet(Side(labels, side)) /\ Side(labels, side) \subseteq DOMAIN points
         /\ \A i \in Side(labels, side) : points[i] \in Int
         /\ Cardinality(Side(labels, side)) \in Nat
         /\ Side(labels, side) # {} => Cardinality(Side(labels, side)) \in Nat \ {0}
         /\ Total(points, Side(labels, side)) \in Int
<1> DEFINE S == Side(labels, side)
<1>1. S \in SUBSET DOMAIN points /\ \A i \in S : points[i] \in Int
  BY DEF Side
<1>2. IsFiniteSet(DOMAIN points)
  BY PlacesAreFinite
<1> HIDE DEF S
<1>3. IsFiniteSet(S) /\ Cardinality(S) \in Nat
  BY <1>1, <1>2, FS_Subset, FS_CardinalityType
<1>4. S # {} => Cardinality(S) # 0
  BY <1>3, FS_EmptySet
<1>5. Total(points, S) \in Int
  BY <1>1, <1>3, TotalFacts
<1> QED
  BY <1>1, <1>3, <1>4, <1>5 DEF S

LEMMA CentroidsOfSplit ==
  ASSUME NEW points \in Seq(Int), NEW labels \in [DOMAIN points -> {0, 1}],
         Side(labels, 0) # {}, Side(labels, 1) # {}, NEW c
  PROVE  Centroids(points, labels, c) = MeansOf(points, labels) /\ MeansOf(points, labels) \in Means
<1>1. /\ Side(labels, 0) = { i \in DOMAIN points : labels[i] = 0 }
      /\ Side(labels, 1) = { i \in DOMAIN points : labels[i] = 1 }
  BY DEF Side
<1>2. Centroids(points, labels, c) = MeansOf(points, labels)
  BY <1>1 DEF Centroids, MeansOf, Total
<1>3. /\ Total(points, Side(labels, 0)) \in Int /\ Cardinality(Side(labels, 0)) \in Nat \ {0}
      /\ Total(points, Side(labels, 1)) \in Int /\ Cardinality(Side(labels, 1)) \in Nat \ {0}
  BY SideFacts
<1> QED
  BY <1>2, <1>3 DEF MeansOf, Means

(* No mean is beyond all the rows it is the mean of.                         *)
LEMMA MeanIsBetween ==
  ASSUME NEW S, IsFiniteSet(S), S # {}, NEW f, \A x \in S : f[x] \in Int, NEW g \in Int
  PROVE  \E x \in S : (g * f[x]) * Cardinality(S) >= g * Total(f, S)
<1> DEFINE n == Cardinality(S)
           t == Total(f, S)
<1>1. n \in Nat /\ n > 0 /\ t \in Int
  BY FS_CardinalityType, FS_EmptySet, TotalFacts
<1> SUFFICES ASSUME \A x \in S : ~((g * f[x]) * n >= g * t) PROVE FALSE
  OBVIOUS
<1> HIDE DEF n, t
<1>2. \A x \in S : (-(g * n)) * f[x] >= 1 - g * t
  <2> SUFFICES ASSUME NEW x \in S PROVE (-(g * n)) * f[x] >= 1 - g * t
    OBVIOUS
  <2>1. f[x] \in Int /\ ~((g * f[x]) * n >= g * t)
    OBVIOUS
  <2>2. (-(g * n)) * f[x] = -((g * f[x]) * n) /\ (g * f[x]) * n \in Int /\ g * t \in Int
    BY <1>1, <2>1
  <2> QED
    BY <2>1, <2>2
<1>3. (-(g * n)) \in Int /\ 1 - g * t \in Int
  BY <1>1
<1>4. (-(g * n)) * t >= n * (1 - g * t)
  BY <1>2, <1>3, TotalAbove DEF n, t
<1>5. (-(g * n)) * t = -(n * (g * t)) /\ n * (1 - g * t) = n - n * (g * t) /\ n * (g * t) \in Int
  BY <1>1
<1> QED
  BY <1>1, <1>4, <1>5

(* The means of a split lie the way the split does.                          *)
LEMMA MeansAhead ==
  ASSUME NEW g \in {1, -1}, NEW points \in Seq(Int), NEW labels, IsSplit(g, points, labels)
  PROVE  MeansOf(points, labels) \in Means /\ Ahead(g, MeansOf(points, labels))
<1> DEFINE S0 == Side(labels, 0)
           S1 == Side(labels, 1)
           n0 == Cardinality(S0)
           n1 == Cardinality(S1)
           t0 == Total(points, S0)
           t1 == Total(points, S1)
<1>1. labels \in [DOMAIN points -> {0, 1}] /\ S0 # {} /\ S1 # {}
      /\ \A i \in S0, j \in S1 : g * points[i] < g * points[j]
  BY DEF IsSplit
<1>2. /\ IsFiniteSet(S0) /\ \A i \in S0 : points[i] \in Int
      /\ n0 \in Nat \ {0} /\ t0 \in Int
      /\ IsFiniteSet(S1) /\ \A i \in S1 : points[i] \in Int
      /\ n1 \in Nat \ {0} /\ t1 \in Int
  BY <1>1, SideFacts
<1>3. MeansOf(points, labels) = << << t0, n0 >>, << t1, n1 >> >>
  BY DEF MeansOf
<1>4. MeansOf(points, labels) \in Means /\ g \in Int
  BY <1>1, CentroidsOfSplit
<1> HIDE DEF S0, S1
<1>5. ASSUME NEW i \in S0 PROVE (-(n1 * g)) * points[i] >= n1 - g * t1
  <2>1. points[i] \in Int /\ g * points[i] + 1 \in Int
    BY <1>2
  <2>2. \A j \in S1 : points[j] \in Int /\ g * points[j] >= g * points[i] + 1
    <3> SUFFICES ASSUME NEW j \in S1 PROVE points[j] \in Int /\ g * points[j] >= g * points[i] + 1
      OBVIOUS
    <3> DEFINE p == points[i]
               q == points[j]
    <3>1. p \in Int /\ q \in Int /\ g * p < g * q
      BY <1>1, <1>2
    <3> HIDE DEF p, q
    <3>2. q \in Int /\ g * q >= g * p + 1
      BY ONLY <1>4, <3>1
    <3> QED
      BY <3>2 DEF p, q
  <2> HIDE DEF n1, t1
  <2>3. g * t1 >= n1 * (g * points[i] + 1)
    BY ONLY <1>2, <1>4, <2>1, <2>2, TotalAbove DEF n1, t1
  <2>0. n1 \in Int /\ t1 \in Int /\ points[i] \in Int /\ g \in Int
    BY <1>2, <1>4, <2>1
  <2>4. n1 * (g * points[i] + 1) = (n1 * g) * points[i] + n1 /\ g * t1 \in Int
        /\ (-(n1 * g)) * points[i] = -((n1 * g) * points[i]) /\ (n1 * g) * points[i] \in Int
    <3>1. \A n, t, p, h \in Int : n * (h * p + 1) = (n * h) * p + n
      OBVIOUS
    <3>2. \A n, t, p, h \in Int : h * t \in Int /\ (n * h) * p \in Int
      OBVIOUS
    <3>3. \A n, t, p, h \in Int : (-(n * h)) * p = -((n * h) * p)
      OBVIOUS
    <3>4. n1 * (g * points[i] + 1) = (n1 * g) * points[i] + n1
      BY ONLY <2>0, <3>1, Zenon
    <3>5. g * t1 \in Int /\ (n1 * g) * points[i] \in Int
      BY ONLY <2>0, <3>2, Zenon
    <3>6. (-(n1 * g)) * points[i] = -((n1 * g) * points[i])
      BY ONLY <2>0, <3>3, Zenon
    <3> QED
      BY ONLY <3>4, <3>5, <3>6
  <2> QED
    BY <1>2, <2>3, <2>4
<1>6. (-(n1 * g)) \in Int /\ n1 - g * t1 \in Int
  BY <1>2
<1>7. (-(n1 * g)) * t0 >= n0 * (n1 - g * t1)
  <2> HIDE DEF n1, t1
  <2> QED
    BY <1>2, <1>5, <1>6, TotalAbove
<1> HIDE DEF n0, n1, t0, t1
<1>8. n0 * n1 > 0
  BY <1>2, Signs
<1>9. (-(n1 * g)) * t0 - n0 * (n1 - g * t1) = g * (t1 * n0 - t0 * n1) - n0 * n1
  BY <1>2
<1>10. /\ (-(n1 * g)) * t0 \in Int /\ n0 * (n1 - g * t1) \in Int
       /\ g * (t1 * n0 - t0 * n1) \in Int /\ n0 * n1 \in Int
  BY <1>2
<1>11. g * (t1 * n0 - t0 * n1) > 0
  BY <1>7, <1>8, <1>9, <1>10
<1> QED
  BY <1>3, <1>4, <1>11 DEF Ahead

(* Lloyd's step splits again, the same way.                                  *)
LEMMA SplitsAgain ==
  ASSUME NEW g \in {1, -1}, NEW points \in Seq(Int), NEW labels, IsSplit(g, points, labels)
  PROVE  IsSplit(g, points, Labels(points, MeansOf(points, labels)))
<1> DEFINE S0 == Side(labels, 0)
           S1 == Side(labels, 1)
           n0 == Cardinality(S0)
           n1 == Cardinality(S1)
           t0 == Total(points, S0)
           t1 == Total(points, S1)
           c == MeansOf(points, labels)
<1>1. labels \in [DOMAIN points -> {0, 1}] /\ S0 # {} /\ S1 # {}
  BY DEF IsSplit
<1>2. /\ IsFiniteSet(S0) /\ \A i \in S0 : points[i] \in Int
      /\ n0 \in Nat \ {0} /\ t0 \in Int
      /\ IsFiniteSet(S1) /\ \A i \in S1 : points[i] \in Int
      /\ n1 \in Nat \ {0} /\ t1 \in Int
      /\ S0 \subseteq DOMAIN points /\ S1 \subseteq DOMAIN points
  BY <1>1, SideFacts
<1>3. c = << << t0, n0 >>, << t1, n1 >> >> /\ c \in Means /\ Ahead(g, c)
  BY MeansAhead DEF MeansOf
<1>4. g * (t1 * n0 - t0 * n1) > 0
  BY <1>3 DEF Ahead
<1>5. \A v : Beyond(g, v, c) <=> g * (2 * v * (n0 * n1) - (t0 * n1 + t1 * n0)) > 0
  BY <1>3 DEF Beyond
<1> HIDE DEF S0, S1
<1>6. -g \in Int /\ g \in Int
  OBVIOUS
<1>7. PICK j \in S1 : (g * points[j]) * n1 >= g * t1
  BY ONLY <1>1, <1>2, <1>6, MeanIsBetween
<1>8. PICK i \in S0 : ((-g) * points[i]) * n0 >= (-g) * t0
  BY ONLY <1>1, <1>2, <1>6, MeanIsBetween
<1> DEFINE v == points[j]
           w == points[i]
<1>9. v \in Int /\ w \in Int /\ i \in DOMAIN points /\ j \in DOMAIN points
  BY <1>2
<1> HIDE DEF n0, n1, t0, t1, v, w, c
<1>10. \A x, y, n \in Int : x >= y /\ n > 0 => n * x >= n * y
  <2> SUFFICES ASSUME NEW x \in Int, NEW y \in Int, NEW n \in Int, x >= y, n > 0 PROVE n * x >= n * y
    OBVIOUS
  <2>1. x - y \in Int /\ (x - y > 0 \/ x = y) /\ n * (x - y) = n * x - n * y /\ n * x \in Int /\ n * y \in Int
    OBVIOUS
  <2> QED
    BY <2>1, Signs
<1>11. g * (2 * v * (n0 * n1) - (t0 * n1 + t1 * n0)) > 0
  <2>1. (2 * n0) * ((g * v) * n1) >= (2 * n0) * (g * t1)
    <3>1. (g * v) * n1 \in Int /\ g * t1 \in Int /\ 2 * n0 \in Int /\ 2 * n0 > 0
      BY <1>2, <1>9
    <3> QED
      BY <1>7, <1>10, <3>1 DEF v
  <2>2. g * (2 * v * (n0 * n1) - (t0 * n1 + t1 * n0))
            = ((2 * n0) * ((g * v) * n1) - (2 * n0) * (g * t1)) + g * (t1 * n0 - t0 * n1)
    BY <1>2, <1>9
  <2>3. (2 * n0) * ((g * v) * n1) \in Int /\ (2 * n0) * (g * t1) \in Int
        /\ g * (t1 * n0 - t0 * n1) \in Int
    BY <1>2, <1>9
  <2> QED
    BY <1>4, <2>1, <2>2, <2>3
<1>12. ~(g * (2 * w * (n0 * n1) - (t0 * n1 + t1 * n0)) > 0)
  <2>1. (2 * n1) * (((-g) * w) * n0) >= (2 * n1) * ((-g) * t0)
    <3>1. ((-g) * w) * n0 \in Int /\ (-g) * t0 \in Int /\ 2 * n1 \in Int /\ 2 * n1 > 0
      BY <1>2, <1>9
    <3> QED
      BY <1>8, <1>10, <3>1 DEF w
  <2>2. g * (2 * w * (n0 * n1) - (t0 * n1 + t1 * n0))
            = (-((2 * n1) * (((-g) * w) * n0) - (2 * n1) * ((-g) * t0))) - g * (t1 * n0 - t0 * n1)
    BY <1>2, <1>9
  <2>3. (2 * n1) * (((-g) * w) * n0) \in Int /\ (2 * n1) * ((-g) * t0) \in Int
        /\ g * (t1 * n0 - t0 * n1) \in Int
    BY <1>2, <1>9
  <2> QED
    BY <1>4, <2>1, <2>2, <2>3
<1>13. Beyond(g, points[j], c) /\ ~Beyond(g, points[i], c)
  BY <1>5, <1>11, <1>12 DEF v, w
<1>14. Nearer1(points[j], c) /\ ~Nearer1(points[i], c)
  BY <1>3, <1>9, <1>13, NearerIsBeyond DEF v, w
<1>15. IsSplit(g, points, Labels(points, c))
  BY <1>3, <1>9, <1>14, NearerSplits
<1> QED
  BY <1>15 DEF c

LEMMA LeavingTheLess ==
  ASSUME NEW S, IsFiniteSet(S), NEW R \in SUBSET S, NEW f, \A x \in S : f[x] \in Int, NEW g \in Int,
         \A x \in S \ R, y \in R : g * f[x] =< g * f[y]
  PROVE  (g * Total(f, S)) * Cardinality(R) =< (g * Total(f, R)) * Cardinality(S)
<1> DEFINE n == Cardinality(R)
           k == Cardinality(S \ R)
           t == Total(f, R)
           u == Total(f, S \ R)
<1>1. /\ IsFiniteSet(R) /\ \A x \in R : f[x] \in Int
      /\ IsFiniteSet(S \ R) /\ \A x \in S \ R : f[x] \in Int
  BY FS_Subset
<1>2. t \in Int /\ u \in Int
  BY ONLY <1>1, TotalFacts
<1>3. Total(f, S) = t + u
  BY TotalParts
<1>4. n \in Nat /\ k \in Nat /\ Cardinality(S) = n + k
  <2>1. R \cap (S \ R) = {} /\ R \cup (S \ R) = S
    OBVIOUS
  <2> QED
    BY <1>1, <2>1, PartsAddUp
<1> HIDE DEF n, k, t, u
<1>5. ASSUME NEW x \in S \ R PROVE (-(n * g)) * f[x] >= -(g * t)
  <2>1. f[x] \in Int
    BY <1>1
  <2> DEFINE p == f[x]
             m == g * p
  <2>2. p \in Int /\ m \in Int
    BY <2>1
  <2>3. \A y \in R : f[y] \in Int /\ g * f[y] >= m
    <3> SUFFICES ASSUME NEW y \in R PROVE f[y] \in Int /\ g * f[y] >= m
      OBVIOUS
    <3>1. f[y] \in Int /\ g * f[x] =< g * f[y]
      OBVIOUS
    <3>2. g * f[x] \in Int /\ g * f[y] \in Int
      BY <2>1, <3>1
    <3> QED
      BY <3>1, <3>2
  <2> HIDE DEF m
  <2>4. g * t >= n * m
    BY <1>1, <2>2, <2>3, TotalAbove DEF n, t
  <2>5. n \in Int /\ t \in Int /\ p \in Int /\ g \in Int
    BY <1>2, <1>4, <2>2
  <2> HIDE DEF p
  <2>6. (-(n * g)) * p = -(n * (g * p)) /\ n * (g * p) \in Int /\ g * t \in Int
    BY ONLY <2>5
  <2>7. (-(n * g)) * p >= -(g * t)
    BY ONLY <2>4, <2>6 DEF m
  <2> QED
    BY ONLY <2>7 DEF p
<1>6. (-(n * g)) \in Int /\ -(g * t) \in Int
  BY <1>2, <1>4
<1>7. (-(n * g)) * u >= k * (-(g * t))
  <2> DEFINE a == -(n * g)
             m == -(g * t)
  <2>1. a \in Int /\ m \in Int /\ \A x \in S \ R : f[x] \in Int /\ a * f[x] >= m
    BY <1>1, <1>5, <1>6
  <2> HIDE DEF a, m
  <2>2. a * u >= k * m
    BY ONLY <1>1, <2>1, TotalAbove DEF k, u
  <2> QED
    BY <2>2 DEF a, m
<1>8. /\ (-(n * g)) * u = -((g * u) * n) /\ k * (-(g * t)) = -((g * t) * k)
      /\ (g * (t + u)) * n = (g * t) * n + (g * u) * n /\ (g * t) * (n + k) = (g * t) * n + (g * t) * k
      /\ (g * u) * n \in Int /\ (g * t) * k \in Int /\ (g * t) * n \in Int
  BY <1>2, <1>4
<1>9. (g * (t + u)) * n =< (g * t) * (n + k)
  BY ONLY <1>7, <1>8
<1> QED
  BY <1>3, <1>4, <1>9 DEF n, t

LEMMA HalfWayMoves ==
  ASSUME NEW g \in Int, NEW v \in Int,
         NEW n0 \in Nat \ {0}, NEW n1 \in Nat \ {0}, NEW s0 \in Int, NEW s1 \in Int,
         NEW k0 \in Nat \ {0}, NEW k1 \in Nat \ {0}, NEW t0 \in Int, NEW t1 \in Int,
         (g * s0) * k0 =< (g * t0) * n0, (g * s1) * k1 =< (g * t1) * n1,
         g * (2 * v * (k0 * k1) - (t0 * k1 + t1 * k0)) > 0
  PROVE  g * (2 * v * (n0 * n1) - (s0 * n1 + s1 * n0)) > 0
<1> DEFINE x == g * (2 * v * (k0 * k1) - (t0 * k1 + t1 * k0))
           y == g * (2 * v * (n0 * n1) - (s0 * n1 + s1 * n0))
           d0 == (g * t0) * n0 - (g * s0) * k0
           d1 == (g * t1) * n1 - (g * s1) * k1
<1>1. x \in Int /\ y \in Int /\ d0 \in Int /\ d1 \in Int /\ d0 >= 0 /\ d1 >= 0 /\ x > 0
  <2>1. (g * t0) * n0 \in Int /\ (g * s0) * k0 \in Int /\ (g * t1) * n1 \in Int /\ (g * s1) * k1 \in Int
    OBVIOUS
  <2>2. x \in Int /\ y \in Int
    OBVIOUS
  <2> QED
    BY <2>1, <2>2
<1>2. (k0 * k1) * y - (n0 * n1) * x = (n1 * k1) * d0 + (n0 * k0) * d1
  OBVIOUS
<1> HIDE DEF x, y, d0, d1
<1>3. \A a, b \in Nat \ {0} : a * b \in Nat \ {0}
  BY Signs
<1>4. \A a \in Nat \ {0}, d \in Int : d >= 0 => a * d \in Int /\ a * d >= 0
  <2> SUFFICES ASSUME NEW a \in Nat \ {0}, NEW d \in Int, d >= 0 PROVE a * d \in Int /\ a * d >= 0
    OBVIOUS
  <2>1. d = 0 \/ d > 0
    OBVIOUS
  <2>2. d = 0 => a * d = 0
    OBVIOUS
  <2>3. d > 0 => a * d > 0
    BY Signs
  <2> QED
    BY <2>1, <2>2, <2>3
<1>5. (n1 * k1) * d0 \in Int /\ (n1 * k1) * d0 >= 0 /\ (n0 * k0) * d1 \in Int /\ (n0 * k0) * d1 >= 0
  BY <1>1, <1>3, <1>4
<1>6. n0 * n1 \in Nat \ {0} /\ k0 * k1 \in Nat \ {0}
  BY <1>3
<1>7. (n0 * n1) * x > 0 /\ (n0 * n1) * x \in Int /\ (k0 * k1) * y \in Int
  <2> DEFINE a == n0 * n1
             b == k0 * k1
  <2> HIDE DEF a, b
  <2>1. a \in Nat \ {0} /\ b \in Nat \ {0}
    BY <1>6 DEF a, b
  <2>2. a * x > 0 /\ a * x \in Int /\ b * y \in Int
    BY <1>1, <2>1, Signs
  <2> QED
    BY <2>2 DEF a, b
<1>8. (k0 * k1) * y > 0
  BY <1>2, <1>5, <1>7
<1>9. y > 0
  <2> DEFINE b == k0 * k1
  <2>1. b \in Nat \ {0} /\ b * y > 0
    BY <1>6, <1>8
  <2> HIDE DEF b
  <2> QED
    BY <1>1, <2>1, Signs
<1> QED
  BY <1>9 DEF y

(* The second of two splits that moves rows to its first cluster is followed  *)
(* by one that does not take any back.                                       *)
LEMMA StepIsMonotone ==
  ASSUME NEW g \in {1, -1}, NEW points \in Seq(Int), NEW labels, NEW moved,
         IsSplit(g, points, labels), IsSplit(g, points, moved), Side(moved, 1) \subseteq Side(labels, 1)
  PROVE  Side(Labels(points, MeansOf(points, moved)), 1)
             \subseteq Side(Labels(points, MeansOf(points, labels)), 1)
<1> DEFINE L0 == Side(labels, 0)
           L1 == Side(labels, 1)
           M0 == Side(moved, 0)
           M1 == Side(moved, 1)
           n0 == Cardinality(L0)
           n1 == Cardinality(L1)
           k0 == Cardinality(M0)
           k1 == Cardinality(M1)
           s0 == Total(points, L0)
           s1 == Total(points, L1)
           t0 == Total(points, M0)
           t1 == Total(points, M1)
           c == MeansOf(points, labels)
           d == MeansOf(points, moved)
<1>1. /\ labels \in [DOMAIN points -> {0, 1}] /\ L0 # {} /\ L1 # {}
      /\ moved \in [DOMAIN points -> {0, 1}] /\ M0 # {} /\ M1 # {}
  BY DEF IsSplit
<1>2. /\ \A i \in L0, j \in L1 : g * points[i] < g * points[j]
      /\ \A i \in M0, j \in M1 : g * points[i] < g * points[j]
  BY DEF IsSplit
<1>3. M1 \subseteq L1 /\ L0 \subseteq M0 /\ L1 \ M1 \subseteq M0 /\ M0 \ L0 \subseteq L1
  BY <1>1 DEF Side
<1>4. /\ IsFiniteSet(L1) /\ \A i \in L1 : points[i] \in Int
      /\ n1 \in Nat \ {0} /\ s1 \in Int /\ n0 \in Nat \ {0} /\ s0 \in Int
  BY ONLY <1>1, points \in Seq(Int), SideFacts
<1>5. /\ IsFiniteSet(M0) /\ \A i \in M0 : points[i] \in Int
      /\ k1 \in Nat \ {0} /\ t1 \in Int /\ k0 \in Nat \ {0} /\ t0 \in Int
  BY ONLY <1>1, points \in Seq(Int), SideFacts
<1>6. /\ c = << << s0, n0 >>, << s1, n1 >> >> /\ c \in Means /\ Ahead(g, c)
      /\ d = << << t0, k0 >>, << t1, k1 >> >> /\ d \in Means /\ Ahead(g, d)
  BY MeansAhead DEF MeansOf
<1> HIDE DEF L0, L1, M0, M1
<1>7. g \in Int /\ -g \in Int
  OBVIOUS
<1>8. (g * s1) * k1 =< (g * t1) * n1
  <2>1. \A x \in L1 \ M1, y \in M1 : g * points[x] =< g * points[y]
    <3> SUFFICES ASSUME NEW x \in L1 \ M1, NEW y \in M1 PROVE g * points[x] =< g * points[y]
      OBVIOUS
    <3>1. g * points[x] < g * points[y] /\ points[x] \in Int /\ points[y] \in Int
      BY <1>2, <1>3, <1>4
    <3> DEFINE p == points[x]
               q == points[y]
    <3>2. p \in Int /\ q \in Int /\ g * p < g * q
      BY <3>1
    <3> HIDE DEF p, q
    <3>3. g * p =< g * q
      BY ONLY <1>7, <3>2
    <3> QED
      BY <3>3 DEF p, q
  <2> QED
    BY ONLY <1>3, <1>4, <1>7, <2>1, LeavingTheLess
<1>9. (g * s0) * k0 =< (g * t0) * n0
  <2>1. \A x \in M0 \ L0, y \in L0 : (-g) * points[x] =< (-g) * points[y]
    <3> SUFFICES ASSUME NEW x \in M0 \ L0, NEW y \in L0 PROVE (-g) * points[x] =< (-g) * points[y]
      OBVIOUS
    <3>1. g * points[y] < g * points[x] /\ points[x] \in Int /\ points[y] \in Int
      BY <1>2, <1>3, <1>5
    <3> DEFINE p == points[x]
               q == points[y]
    <3>2. p \in Int /\ q \in Int /\ g * q < g * p
      BY <3>1
    <3> HIDE DEF p, q
    <3>3. (-g) * p = -(g * p) /\ (-g) * q = -(g * q) /\ g * p \in Int /\ g * q \in Int
      BY ONLY <1>7, <3>2
    <3>4. (-g) * p =< (-g) * q
      BY ONLY <3>2, <3>3
    <3> QED
      BY <3>4 DEF p, q
  <2>2. ((-g) * t0) * n0 =< ((-g) * s0) * k0
    BY ONLY <1>3, <1>5, <1>7, <2>1, LeavingTheLess
  <2> HIDE DEF n0, k0, s0, t0
  <2>3. ((-g) * t0) * n0 = -((g * t0) * n0) /\ ((-g) * s0) * k0 = -((g * s0) * k0)
        /\ (g * t0) * n0 \in Int /\ (g * s0) * k0 \in Int
    <3>1. \A h, t, n \in Int : ((-h) * t) * n = -((h * t) * n) /\ (h * t) * n \in Int
      OBVIOUS
    <3>2. g \in Int /\ t0 \in Int /\ n0 \in Int /\ s0 \in Int /\ k0 \in Int
      BY <1>4, <1>5, <1>7
    <3>3. ((-g) * t0) * n0 = -((g * t0) * n0) /\ (g * t0) * n0 \in Int
      BY ONLY <3>1, <3>2, Zenon
    <3>4. ((-g) * s0) * k0 = -((g * s0) * k0) /\ (g * s0) * k0 \in Int
      BY ONLY <3>1, <3>2, Zenon
    <3> QED
      BY ONLY <3>3, <3>4
  <2> QED
    BY ONLY <2>2, <2>3
<1> HIDE DEF n0, n1, k0, k1, s0, s1, t0, t1, c, d
<1>10. ASSUME NEW v \in Int, Nearer1(v, d) PROVE Nearer1(v, c)
  <2>1. Beyond(g, v, d)
    BY <1>6, <1>10, NearerIsBeyond
  <2>2. g * (2 * v * (k0 * k1) - (t0 * k1 + t1 * k0)) > 0
    BY <1>6, <2>1 DEF Beyond
  <2>3. g * (2 * v * (n0 * n1) - (s0 * n1 + s1 * n0)) > 0
    BY ONLY <1>4, <1>5, <1>7, <1>8, <1>9, v \in Int, <2>2, HalfWayMoves
  <2>4. Beyond(g, v, c)
    BY <1>6, <2>3 DEF Beyond
  <2> QED
    BY <1>6, <2>4, NearerIsBeyond
<1>11. \A e : Side(Labels(points, e), 1) = { i \in DOMAIN points : Nearer1(points[i], e) }
  BY DEF Side, Labels
<1>12. \A i \in DOMAIN points : points[i] \in Int
  OBVIOUS
<1>13. Side(Labels(points, d), 1) \subseteq Side(Labels(points, c), 1)
  BY <1>10, <1>11, <1>12
<1> QED
  BY <1>13 DEF c, d

(* Of two splits the same way, one has the second cluster of the other in its. *)
LEMMA SplitsAreNested ==
  ASSUME NEW g \in {1, -1}, NEW points \in Seq(Int), NEW labels, NEW moved,
         IsSplit(g, points, labels), IsSplit(g, points, moved)
  PROVE  Side(moved, 1) \subseteq Side(labels, 1) \/ Side(labels, 1) \subseteq Side(moved, 1)
<1> SUFFICES ASSUME NEW i \in Side(moved, 1), i \notin Side(labels, 1),
                    NEW j \in Side(labels, 1), j \notin Side(moved, 1)
             PROVE  FALSE
  OBVIOUS
<1>1. i \in Side(labels, 0) /\ j \in Side(moved, 0) /\ i \in DOMAIN points /\ j \in DOMAIN points
  BY DEF Side, IsSplit
<1>2. g * points[i] < g * points[j] /\ g * points[j] < g * points[i]
  BY <1>1 DEF IsSplit
<1> DEFINE p == points[i]
           q == points[j]
<1>3. p \in Int /\ q \in Int /\ g * p < g * q /\ g * q < g * p
  BY <1>1, <1>2
<1> HIDE DEF p, q
<1> QED
  BY <1>3

LEMMA Largest ==
  ASSUME NEW N \in Nat \ {0}, NEW f \in [1 .. N -> Int]
  PROVE  \E i \in 1 .. N : \A k \in 1 .. N : f[k] =< f[i]
<1> DEFINE Good == { n \in Nat : n \in 1 .. N => \E i \in 1 .. n : \A k \in 1 .. n : f[k] =< f[i] }
<1>1. 0 \in Good
  OBVIOUS
<1>2. ASSUME NEW n \in Nat, n \in Good PROVE n + 1 \in Good
  <2> SUFFICES ASSUME n + 1 \in 1 .. N PROVE \E i \in 1 .. n + 1 : \A k \in 1 .. n + 1 : f[k] =< f[i]
    OBVIOUS
  <2>1. CASE n = 0
    <3>1. f[1] =< f[1] /\ 1 .. n + 1 = {1}
      BY <2>1
    <3> QED
      BY <3>1
  <2>2. CASE n # 0
    <3>1. n \in 1 .. N
      BY <2>2
    <3>2. PICK i \in 1 .. n : \A k \in 1 .. n : f[k] =< f[i]
      BY <1>2, <3>1
    <3>3. \A k \in 1 .. n + 1 : k \in 1 .. n \/ k = n + 1
      OBVIOUS
    <3>4. f[i] \in Int /\ f[n + 1] \in Int /\ \A k \in 1 .. n : f[k] \in Int
      OBVIOUS
    <3>5. CASE f[n + 1] =< f[i]
      <4>1. i \in 1 .. n + 1 /\ \A k \in 1 .. n + 1 : f[k] =< f[i]
        BY <3>2, <3>3, <3>5
      <4> QED
        BY <4>1
    <3>6. CASE f[i] =< f[n + 1]
      <4>1. \A k \in 1 .. n + 1 : f[k] =< f[n + 1]
        BY <3>2, <3>3, <3>4, <3>6
      <4> QED
        BY <4>1
    <3> QED
      BY <3>4, <3>5, <3>6
  <2> QED
    BY <2>1, <2>2
<1> HIDE DEF Good
<1>3. N \in Good
  BY <1>1, <1>2, SetInduction
<1> QED
  BY <1>3 DEF Good

(* The seeds are two of the rows, and differ when any two rows do.           *)
LEMMA SeedsFacts ==
  ASSUME NEW points \in Seq(Int), points # << >>
  PROVE  \E far \in DOMAIN points :
             /\ SeedCentroids(points) = << << points[1], 1 >>, << points[far], 1 >> >>
             /\ points[far] = points[1] => \A i \in DOMAIN points : points[i] = points[1]
<1> DEFINE N == Len(points)
           Far(i) == (points[i] - points[1]) * (points[i] - points[1])
           Farthest == { i \in DOMAIN points : \A k \in DOMAIN points : Far(k) =< Far(i) }
           far == Min(Farthest)
           away == [i \in 1 .. N |-> Far(i)]
<1>1. N \in Nat \ {0} /\ DOMAIN points = 1 .. N /\ \A i \in 1 .. N : points[i] \in Int
  OBVIOUS
<1>2. \A i \in 1 .. N : Far(i) \in Int
  BY <1>1
<1>3. Farthest # {}
  <2>1. away \in [1 .. N -> Int]
    BY <1>2
  <2>2. \A i \in 1 .. N : away[i] = Far(i)
    OBVIOUS
  <2> HIDE DEF away
  <2>3. PICK i \in 1 .. N : \A k \in 1 .. N : away[k] =< away[i]
    BY ONLY <1>1, <2>1, Largest
  <2> HIDE DEF N, Far
  <2> QED
    BY <1>1, <2>2, <2>3
<1>4. far \in Farthest
  <2>1. Farthest \in SUBSET Nat
    BY <1>1
  <2> HIDE DEF Farthest
  <2> QED
    BY <1>3, <2>1, MinIsLeast
<1>5. SeedCentroids(points) = << << points[1], 1 >>, << points[far], 1 >> >>
  BY DEF SeedCentroids
<1> HIDE DEF far
<1>6. far \in DOMAIN points
  BY <1>4
<1>7. ASSUME points[far] = points[1], NEW i \in DOMAIN points PROVE points[i] = points[1]
  <2>1. Far(i) =< Far(far)
    BY <1>4
  <2>2. points[i] \in Int /\ points[1] \in Int /\ Far(far) = 0
    BY <1>1, <1>7
  <2> DEFINE x == points[i] - points[1]
  <2>3. x \in Int /\ x * x =< 0
    BY <2>1, <2>2
  <2> HIDE DEF x
  <2>4. x = 0
    BY ONLY <2>3
  <2> QED
    BY <2>2, <2>4 DEF x
<1> QED
  BY <1>5, <1>6, <1>7

(* Lloyd's step on a state of the loop.                                      *)
Lloyd(points, state) ==
    LET labels == Labels(points, state.centroids)
    IN  IF state.settled \/ labels = state.labels
        THEN [state EXCEPT !.settled = TRUE]
        ELSE [settled |-> FALSE, labels |-> labels,
              centroids |-> Centroids(points, labels, state.centroids)]

LloydStart(points) == [settled |-> FALSE, labels |-> << >>, centroids |-> SeedCentroids(points)]

(* run is what a loop of N steps goes through.                               *)
IsLloydRun(run, points, N) ==
    /\ run[0] = LloydStart(points)
    /\ \A k \in 1 .. N : run[k] = Lloyd(points, run[k - 1])
    /\ KmeansTwoClusters(points, N) = run[N].labels

LEMMA LloydRuns ==
  ASSUME NEW points \in Seq(Int), Len(points) > 1, NEW N \in Nat
  PROVE  \E run : IsLloydRun(run, points, N)
<1> DEFINE L == [DOMAIN points -> {0, 1}] \cup {<< >>}
           St == [settled : BOOLEAN, labels : L, centroids : Means]
           P == SUBSET (1 .. N)
           start == LloydStart(points)
           order == [k \in 1 .. N |-> k]
           step == [k \in 1 .. N |-> [state \in St |-> Lloyd(points, state)]]
           Fold(f) == f = [s \in P |-> IF s = {} THEN start
                                       ELSE Lloyd(points, f[s \ {Max(s)}])]
           iter == CHOOSE f : Fold(f)
<1>1. start \in St
  <2>1. PICK far \in DOMAIN points :
              SeedCentroids(points) = << << points[1], 1 >>, << points[far], 1 >> >>
    BY SeedsFacts
  <2>2. SeedCentroids(points) \in Means
    BY <2>1 DEF Means
  <2> QED
    BY <2>2 DEF LloydStart
<1>2. ASSUME NEW state \in St PROVE Lloyd(points, state) \in St
  <2> DEFINE labels == Labels(points, state.centroids)
             c == Centroids(points, labels, state.centroids)
  <2>1. labels \in [DOMAIN points -> {0, 1}]
    BY DEF Labels
  <2> HIDE DEF labels
  <2>2. \A side \in {0, 1} : Side(labels, side) = { i \in DOMAIN points : labels[i] = side }
    BY <2>1 DEF Side
  <2>3. ASSUME NEW side \in {0, 1}
        PROVE  << Total(points, Side(labels, side)), Cardinality(Side(labels, side)) >> \in Int \X Nat
               /\ (Side(labels, side) # {} => Cardinality(Side(labels, side)) # 0)
    BY <2>1, SideFacts
  <2> DEFINE Mean(side) == IF Side(labels, side) = {} THEN state.centroids[side + 1]
                           ELSE << Total(points, Side(labels, side)), Cardinality(Side(labels, side)) >>
  <2>4. c = << Mean(0), Mean(1) >>
    BY <2>2 DEF Centroids, Total
  <2>5. Mean(0) \in Int \X (Nat \ {0}) /\ Mean(1) \in Int \X (Nat \ {0})
    <3>1. state.centroids[1] \in Int \X (Nat \ {0}) /\ state.centroids[2] \in Int \X (Nat \ {0})
      BY DEF Means
    <3> QED
      BY <2>3, <3>1
  <2> HIDE DEF Mean
  <2>6. c \in Means
    BY <2>4, <2>5 DEF Means
  <2> HIDE DEF c
  <2>7. [settled |-> FALSE, labels |-> labels, centroids |-> c] \in St
    BY <2>1, <2>6
  <2>8. [state EXCEPT !.settled = TRUE] \in St
    OBVIOUS
  <2> QED
    BY <2>7, <2>8 DEF Lloyd, labels, c
<1> HIDE DEF St, start
<1>3. step \in [1 .. N -> [St -> St]]
  BY <1>2
<1>4. \E f : Fold(f)
  <2>1. PICK f \in [P -> St] : IsFold(f, N, start, step)
    <3> HIDE DEF step
    <3> QED
      BY <1>1, <1>3, FoldExists
  <2>2. ASSUME NEW s \in P
        PROVE  f[s] = IF s = {} THEN start ELSE Lloyd(points, f[s \ {Max(s)}])
    <3>1. f[s] = IF s = {} THEN start ELSE step[Max(s)][f[s \ {Max(s)}]]
      <4> HIDE DEF step
      <4> QED
        BY <2>1 DEF IsFold
    <3>2. CASE s = {}
      BY <3>1, <3>2
    <3>3. CASE s # {}
      <4> DEFINE m == Max(s)
      <4>1. m \in 1 .. N
        BY <3>3, LastPlaceFacts
      <4> HIDE DEF m
      <4>2. f[s \ {m}] \in St
        <5>1. s \ {m} \in P
          OBVIOUS
        <5> QED
          BY <2>1, <5>1
      <4>3. step[m][f[s \ {m}]] = Lloyd(points, f[s \ {m}])
        BY <4>1, <4>2
      <4> HIDE DEF step
      <4> QED
        BY <3>1, <3>3, <4>3 DEF m
    <3> QED
      BY <3>2, <3>3
  <2>3. Fold(f)
    <3>1. f = [s \in P |-> f[s]]
      BY <2>1
    <3> QED
      BY <2>2, <3>1
  <2> QED
    BY <2>3
<1>5. Fold(iter)
  <2> HIDE DEF Fold
  <2> QED
    BY <1>4
<1>6. KmeansTwoClusters(points, N) = iter[1 .. N].labels
  BY DEF KmeansTwoClusters, FoldLeft, MapThenFoldSet, Lloyd, LloydStart, start, order
<1> HIDE DEF iter
<1> DEFINE run == [k \in 0 .. N |-> iter[1 .. k]]
<1>7. iter[1 .. 0] = start
  BY <1>5, FirstPlaces
<1>8. \A k \in 1 .. N : iter[1 .. k] = Lloyd(points, iter[1 .. k - 1])
  <2> SUFFICES ASSUME NEW k \in 1 .. N
               PROVE  iter[1 .. k] = Lloyd(points, iter[1 .. k - 1])
    OBVIOUS
  <2>1. 1 .. k \in P /\ 1 .. k # {} /\ Max(1 .. k) = k /\ (1 .. k) \ {k} = 1 .. k - 1
    BY FirstPlaces
  <2>2. \A s \in P : iter[s] = IF s = {} THEN start ELSE Lloyd(points, iter[s \ {Max(s)}])
    BY <1>5
  <2> HIDE DEF P
  <2> QED
    BY <2>1, <2>2
<1>9. run[0] = start /\ \A k \in 1 .. N : run[k] = Lloyd(points, run[k - 1])
  BY <1>7, <1>8
<1>10. run[N] = iter[1 .. N]
  OBVIOUS
<1> HIDE DEF run
<1>11. IsLloydRun(run, points, N)
  BY <1>6, <1>9, <1>10 DEF IsLloydRun, start
<1> QED
  BY <1>11

LEMMA SplitSizes ==
  ASSUME NEW g, NEW points \in Seq(Int), NEW labels, IsSplit(g, points, labels)
  PROVE  /\ IsFiniteSet(Side(labels, 1)) /\ Cardinality(Side(labels, 1)) \in Nat
         /\ Cardinality(Side(labels, 1)) >= 1
         /\ Cardinality(Side(labels, 1)) + 1 =< Len(points)
         /\ DOMAIN labels = DOMAIN points /\ labels \in [DOMAIN points -> {0, 1}]
         /\ ToSet(labels) = {0, 1} /\ labels # << >>
<1> DEFINE S == Side(labels, 1)
<1>1. /\ labels \in [DOMAIN points -> {0, 1}] /\ Side(labels, 0) # {} /\ S # {}
  BY DEF IsSplit
<1>2. S \in SUBSET DOMAIN points /\ S # DOMAIN points
  BY <1>1 DEF Side
<1>3. PICK i \in DOMAIN points : labels[i] = 0
  BY <1>1 DEF Side
<1>4. PICK j \in DOMAIN points : labels[j] = 1
  BY <1>1 DEF Side
<1>5. ToSet(labels) = {0, 1} /\ labels # << >>
  BY <1>1, <1>3, <1>4 DEF ToSet
<1> HIDE DEF S
<1>6. /\ IsFiniteSet(S) /\ Cardinality(S) \in Nat /\ Cardinality(S) =< Len(points)
      /\ Cardinality(S) # Len(points)
  BY <1>2, PlacesAreFinite
<1>7. Cardinality(S) # 0
  BY <1>1, <1>6, FS_EmptySet
<1>8. Cardinality(S) >= 1 /\ Cardinality(S) + 1 =< Len(points)
  BY <1>6, <1>7
<1> QED
  BY <1>1, <1>5, <1>6, <1>8 DEF S

(* Two labellings with the same second cluster are one.                      *)
LEMMA SameSides ==
  ASSUME NEW D, NEW labels \in [D -> {0, 1}], NEW moved \in [D -> {0, 1}],
         Side(labels, 1) = Side(moved, 1)
  PROVE  labels = moved
<1>1. ASSUME NEW i \in D PROVE labels[i] = moved[i]
  <2>1. labels[i] \in {0, 1} /\ moved[i] \in {0, 1}
    OBVIOUS
  <2>2. i \in Side(labels, 1) <=> labels[i] = 1
    BY DEF Side
  <2>3. i \in Side(moved, 1) <=> moved[i] = 1
    BY DEF Side
  <2> QED
    BY <2>1, <2>2, <2>3
<1> QED
  BY <1>1

NextSplit(points, labels) == Labels(points, MeansOf(points, labels))

(* What the loop keeps once it has made a step, while rows differ: a split and *)
(* its means, and until it settles rows that have moved all to the same side, *)
(* one at least in every round.                                              *)
IsMoving(state, g, points, k) ==
    LET labels == state.labels
        moved == NextSplit(points, labels)
    IN  /\ IsSplit(g, points, labels) /\ state.centroids = MeansOf(points, labels)
        /\ state.settled \in BOOLEAN
        /\ IF state.settled THEN moved = labels
           ELSE \/ /\ Side(moved, 1) \subseteq Side(labels, 1)
                   /\ Cardinality(Side(labels, 1)) + k =< Len(points)
                \/ /\ Side(labels, 1) \subseteq Side(moved, 1)
                   /\ Cardinality(Side(labels, 1)) >= k

LEMMA MovingGoesOn ==
  ASSUME NEW g \in {1, -1}, NEW points \in Seq(Int), NEW k \in Nat, NEW state,
         IsMoving(state, g, points, k)
  PROVE  IsMoving(Lloyd(points, state), g, points, k + 1)
<1> DEFINE labels == state.labels
           moved == NextSplit(points, labels)
           again == NextSplit(points, moved)
           next == Lloyd(points, state)
<1>1. IsSplit(g, points, labels) /\ state.centroids = MeansOf(points, labels)
  BY DEF IsMoving
<1>2. IsSplit(g, points, moved) /\ moved = Labels(points, state.centroids)
  BY <1>1, SplitsAgain DEF NextSplit
<1>3. CASE state.settled \/ moved = labels
  <2>1. next = [state EXCEPT !.settled = TRUE] /\ moved = labels
    BY <1>2, <1>3 DEF Lloyd, IsMoving
  <2>2. next.labels = labels /\ next.centroids = state.centroids /\ next.settled = TRUE
    BY <2>1
  <2> QED
    BY <1>1, <2>1, <2>2 DEF IsMoving
<1>4. CASE ~state.settled /\ moved # labels
  <2>1. next = [settled |-> FALSE, labels |-> moved,
                centroids |-> Centroids(points, moved, state.centroids)]
    BY <1>2, <1>4 DEF Lloyd
  <2>2. next.centroids = MeansOf(points, moved) /\ next.labels = moved /\ next.settled = FALSE
    <3>1. Centroids(points, moved, state.centroids) = MeansOf(points, moved)
      BY <1>2, CentroidsOfSplit DEF IsSplit
    <3> QED
      BY <2>1, <3>1
  <2> DEFINE S == Side(labels, 1)
             T == Side(moved, 1)
             U == Side(again, 1)
  <2>3. /\ IsFiniteSet(S) /\ Cardinality(S) \in Nat
        /\ labels \in [DOMAIN points -> {0, 1}]
    BY ONLY <1>1, points \in Seq(Int), SplitSizes
  <2>4. /\ IsFiniteSet(T) /\ Cardinality(T) \in Nat
        /\ moved \in [DOMAIN points -> {0, 1}]
    BY ONLY <1>2, points \in Seq(Int), SplitSizes
  <2>5. S # T
    BY <1>4, <2>3, <2>4, SameSides
  <2>6. T \subseteq S => U \subseteq T
    BY <1>1, <1>2, StepIsMonotone DEF NextSplit
  <2>7. S \subseteq T => T \subseteq U
    BY <1>1, <1>2, StepIsMonotone DEF NextSplit
  <2>8. \/ T \subseteq S /\ Cardinality(S) + k =< Len(points)
        \/ S \subseteq T /\ Cardinality(S) >= k
    BY <1>4 DEF IsMoving
  <2> HIDE DEF S, T, U, again, moved, next, labels
  <2>9. CASE T \subseteq S /\ Cardinality(S) + k =< Len(points)
    <3>1. Cardinality(T) =< Cardinality(S) /\ Cardinality(T) # Cardinality(S)
      BY <2>3, <2>5, <2>9, FS_Subset
    <3>2. Cardinality(T) + (k + 1) =< Len(points)
      BY <2>3, <2>4, <2>9, <3>1
    <3> QED
      BY <1>2, <2>2, <2>6, <2>9, <3>2 DEF IsMoving, T, U, again, next
  <2>10. CASE S \subseteq T /\ Cardinality(S) >= k
    <3>1. Cardinality(S) =< Cardinality(T) /\ Cardinality(T) # Cardinality(S)
      BY <2>4, <2>5, <2>10, FS_Subset
    <3>2. Cardinality(T) >= k + 1
      BY <2>3, <2>4, <2>10, <3>1
    <3> QED
      BY <1>2, <2>2, <2>7, <2>10, <3>2 DEF IsMoving, T, U, again, next
  <2> QED
    BY <2>8, <2>9, <2>10
<1> QED
  BY <1>3, <1>4

(* The first round splits the rows, if they differ.                          *)
LEMMA MovingStarts ==
  ASSUME NEW points \in Seq(Int), Len(points) > 1, \E i \in DOMAIN points : points[i] # points[1]
  PROVE  \E g \in {1, -1} : IsMoving(Lloyd(points, LloydStart(points)), g, points, 1)
<1>1. PICK far \in DOMAIN points :
             /\ SeedCentroids(points) = << << points[1], 1 >>, << points[far], 1 >> >>
             /\ points[far] = points[1] => \A i \in DOMAIN points : points[i] = points[1]
  BY SeedsFacts
<1> DEFINE p == points[1]
           q == points[far]
           c == SeedCentroids(points)
           g == IF q > p THEN 1 ELSE -1
           start == LloydStart(points)
           labels == Labels(points, c)
           next == Lloyd(points, start)
<1>2. p \in Int /\ q \in Int /\ q # p /\ 1 \in DOMAIN points
  BY <1>1
<1>3. c = << << p, 1 >>, << q, 1 >> >> /\ c \in Means
  BY <1>1, <1>2 DEF Means
<1> HIDE DEF p, q, c
<1>4. g \in {1, -1} /\ Ahead(g, c)
  <2>1. g * (q * 1 - p * 1) > 0
    BY <1>2
  <2> QED
    BY <1>3, <2>1 DEF Ahead
<1> HIDE DEF g
<1>5. ~Nearer1(p, c) /\ Nearer1(q, c)
  <2>1. (p - q) * (p - q) > 0
    <3> DEFINE d == p - q
    <3>1. d \in Int /\ (d > 0 \/ d < 0)
      BY <1>2
    <3> HIDE DEF d
    <3>2. d * d > 0
      BY <3>1, Signs
    <3> QED
      BY <3>2 DEF d
  <2>2. (q - p) * (q - p) = (p - q) * (p - q)
    BY <1>2
  <2>3. Nearer1(p, c) <=> (p - q) * (p - q) < 0
    BY <1>2, <1>3 DEF Nearer1
  <2>4. Nearer1(q, c) <=> 0 < (q - p) * (q - p)
    BY <1>2, <1>3 DEF Nearer1
  <2>5. (p - q) * (p - q) \in Int
    BY <1>2
  <2> QED
    BY <2>1, <2>2, <2>3, <2>4, <2>5
<1>6. IsSplit(g, points, labels)
  BY <1>2, <1>3, <1>4, <1>5, NearerSplits DEF p, q
<1>7. /\ labels # << >> /\ labels \in [DOMAIN points -> {0, 1}]
      /\ Cardinality(Side(labels, 1)) \in Nat /\ Cardinality(Side(labels, 1)) >= 1
      /\ Cardinality(Side(labels, 1)) + 1 =< Len(points)
  BY ONLY <1>6, points \in Seq(Int), SplitSizes
<1>8. next = [settled |-> FALSE, labels |-> labels, centroids |-> Centroids(points, labels, c)]
  BY <1>7 DEF Lloyd, LloydStart, c
<1>9. Centroids(points, labels, c) = MeansOf(points, labels)
  BY <1>6, CentroidsOfSplit DEF IsSplit
<1>10. IsSplit(g, points, NextSplit(points, labels))
  BY <1>4, <1>6, SplitsAgain DEF NextSplit
<1>11. \/ Side(NextSplit(points, labels), 1) \subseteq Side(labels, 1)
       \/ Side(labels, 1) \subseteq Side(NextSplit(points, labels), 1)
  BY <1>4, <1>6, <1>10, SplitsAreNested
<1> HIDE DEF labels, next, start
<1>12. IsMoving(next, g, points, 1)
  BY <1>6, <1>7, <1>8, <1>9, <1>11 DEF IsMoving
<1> QED
  BY <1>4, <1>12 DEF next, start

(* The loop ends with a split, settled if there were as many rounds as rows    *)
(* but one.                                                                  *)
LEMMA DifferentRowsSettle ==
  ASSUME NEW points \in Seq(Int), Len(points) > 1, NEW N \in Nat \ {0},
         \E i \in DOMAIN points : points[i] # points[1]
  PROVE  LET labels == KmeansTwoClusters(points, N)
             centroids == Centroids(points, labels, SeedCentroids(points))
         IN  /\ Len(points) =< N + 1 => labels = Labels(points, centroids)
             /\ ToSet(labels) = {0, 1}
<1> DEFINE labels == KmeansTwoClusters(points, N)
           centroids == Centroids(points, labels, SeedCentroids(points))
           moved == NextSplit(points, labels)
           n == Len(points)
<1>1. PICK run : IsLloydRun(run, points, N)
  BY LloydRuns
<1>2. PICK g \in {1, -1} : IsMoving(Lloyd(points, LloydStart(points)), g, points, 1)
  BY MovingStarts
<1> DEFINE Good == { k \in Nat : k + 1 =< N => IsMoving(run[k + 1], g, points, k + 1) }
<1>3. 0 \in Good
  <2>1. 1 \in 1 .. N /\ 1 - 1 = 0
    OBVIOUS
  <2>2. run[1] = Lloyd(points, LloydStart(points))
    BY <1>1, <2>1 DEF IsLloydRun
  <2> QED
    BY <1>2, <2>2
<1>4. ASSUME NEW k \in Nat, k \in Good PROVE k + 1 \in Good
  <2> SUFFICES ASSUME (k + 1) + 1 =< N PROVE IsMoving(run[(k + 1) + 1], g, points, (k + 1) + 1)
    OBVIOUS
  <2>1. (k + 1) + 1 \in 1 .. N /\ ((k + 1) + 1) - 1 = k + 1 /\ k + 1 =< N /\ k + 1 \in Nat
    OBVIOUS
  <2>2. run[(k + 1) + 1] = Lloyd(points, run[k + 1])
    BY <1>1, <2>1 DEF IsLloydRun
  <2>3. IsMoving(run[k + 1], g, points, k + 1)
    BY <1>4, <2>1
  <2> QED
    BY <2>1, <2>2, <2>3, MovingGoesOn
<1> HIDE DEF Good
<1>5. N - 1 \in Good
  <2>1. Nat \subseteq Good
    BY <1>3, <1>4, SetInduction
  <2>2. N - 1 \in Nat
    OBVIOUS
  <2> QED
    BY <2>1, <2>2
<1>6. IsMoving(run[N], g, points, N) /\ labels = run[N].labels
  <2>1. N - 1 \in Nat /\ (N - 1) + 1 = N
    OBVIOUS
  <2> QED
    BY <1>1, <1>5, <2>1 DEF Good, IsLloydRun
<1> HIDE DEF labels
<1>7. IsSplit(g, points, labels)
  BY <1>6 DEF IsMoving
<1>8. centroids = MeansOf(points, labels)
  BY <1>7, CentroidsOfSplit DEF IsSplit
<1>9. ToSet(labels) = {0, 1}
  BY ONLY <1>7, points \in Seq(Int), SplitSizes
<1>10. ASSUME n =< N + 1 PROVE moved = labels
  <2> SUFFICES ASSUME moved # labels PROVE FALSE
    OBVIOUS
  <2> DEFINE S == Side(labels, 1)
             T == Side(moved, 1)
  <2>1. IsSplit(g, points, moved)
    BY <1>7, SplitsAgain DEF NextSplit
  <2>2. /\ IsFiniteSet(S) /\ Cardinality(S) \in Nat
        /\ labels \in [DOMAIN points -> {0, 1}]
    BY ONLY <1>7, points \in Seq(Int), SplitSizes
  <2>3. /\ IsFiniteSet(T) /\ Cardinality(T) \in Nat /\ Cardinality(T) >= 1
        /\ Cardinality(T) + 1 =< n /\ moved \in [DOMAIN points -> {0, 1}]
    BY ONLY <2>1, points \in Seq(Int), SplitSizes
  <2>4. S # T
    BY <2>2, <2>3, SameSides
  <2>5. \/ T \subseteq S /\ Cardinality(S) + N =< n
        \/ S \subseteq T /\ Cardinality(S) >= N
    BY <1>6 DEF IsMoving
  <2> HIDE DEF S, T, moved
  <2>6. n \in Nat
    OBVIOUS
  <2> HIDE DEF n
  <2>7. CASE T \subseteq S /\ Cardinality(S) + N =< n
    <3>1. Cardinality(T) =< Cardinality(S) /\ Cardinality(T) # Cardinality(S)
      BY <2>2, <2>4, <2>7, FS_Subset
    <3> QED
      BY <1>10, <2>2, <2>3, <2>6, <2>7, <3>1
  <2>8. CASE S \subseteq T /\ Cardinality(S) >= N
    <3>1. Cardinality(S) =< Cardinality(T) /\ Cardinality(T) # Cardinality(S)
      BY <2>3, <2>4, <2>8, FS_Subset
    <3> QED
      BY <1>10, <2>2, <2>3, <2>6, <2>8, <3>1
  <2> QED
    BY <2>5, <2>7, <2>8
<1>11. n =< N + 1 => labels = Labels(points, centroids)
  BY <1>8, <1>10 DEF NextSplit
<1> QED
  BY <1>9, <1>11 DEF labels

(* Rows that are all the same make centroids that are, and no row is nearer to *)
(* the second.                                                               *)
AllAre(c, p) == c \in Means /\ c[1][1] = c[1][2] * p /\ c[2][1] = c[2][2] * p

LEMMA NoneIsNearer ==
  ASSUME NEW points \in Seq(Int), NEW p \in Int, \A i \in DOMAIN points : points[i] = p,
         NEW c, AllAre(c, p)
  PROVE  Labels(points, c) = [i \in DOMAIN points |-> 0]
<1> DEFINE m == c[1][2]
           n == c[2][2]
<1>1. m \in Int /\ n \in Int /\ c[1][1] = m * p /\ c[2][1] = n * p
  BY DEF AllAre, Means
<1> HIDE DEF m, n
<1>2. (p * n - n * p) * (p * n - n * p) * m * m = 0 /\ (p * m - m * p) * (p * m - m * p) * n * n = 0
  BY <1>1
<1>3. ~Nearer1(p, c)
  BY <1>1, <1>2 DEF Nearer1, m, n
<1> QED
  BY <1>3 DEF Labels

LEMMA TotalOfEqual ==
  ASSUME NEW S, IsFiniteSet(S), NEW f, NEW p \in Int, \A x \in S : f[x] = p
  PROVE  Total(f, S) = Cardinality(S) * p
<1>1. Total(f, S) \in Int
  BY TotalFacts
<1>2. Cardinality(S) \in Nat
  BY FS_CardinalityType
<1>3. 1 * Total(f, S) >= Cardinality(S) * p
  <2> DEFINE a == 1
  <2>1. a \in Int /\ \A x \in S : f[x] \in Int /\ a * f[x] >= p
    OBVIOUS
  <2> HIDE DEF a
  <2>2. a * Total(f, S) >= Cardinality(S) * p
    BY <2>1, TotalAbove
  <2> QED
    BY <2>2 DEF a
<1>4. (-1) * Total(f, S) >= Cardinality(S) * (-p)
  <2> DEFINE a == -1
             m == -p
  <2>1. a \in Int /\ m \in Int /\ \A x \in S : f[x] \in Int /\ a * f[x] >= m
    OBVIOUS
  <2> HIDE DEF a, m
  <2>2. a * Total(f, S) >= Cardinality(S) * m
    BY <2>1, TotalAbove
  <2> QED
    BY <2>2 DEF a, m
<1> DEFINE t == Total(f, S)
           n == Cardinality(S)
<1>5. t \in Int /\ n \in Nat /\ 1 * t >= n * p /\ (-1) * t >= n * (-p)
  BY <1>1, <1>2, <1>3, <1>4
<1> HIDE DEF t, n
<1>6. t = n * p
  <2>1. n * (-p) = -(n * p) /\ n * p \in Int
    BY <1>5
  <2> QED
    BY <1>5, <2>1
<1> QED
  BY <1>6 DEF t, n

LEMMA CentroidsOfEqual ==
  ASSUME NEW points \in Seq(Int), NEW p \in Int, \A i \in DOMAIN points : points[i] = p,
         NEW labels \in [DOMAIN points -> {0, 1}], NEW c, AllAre(c, p)
  PROVE  AllAre(Centroids(points, labels, c), p)
<1> DEFINE Mean(side) == IF Side(labels, side) = {} THEN c[side + 1]
                         ELSE << Total(points, Side(labels, side)), Cardinality(Side(labels, side)) >>
<1>1. \A side \in {0, 1} : Side(labels, side) = { i \in DOMAIN points : labels[i] = side }
  BY DEF Side
<1>2. Centroids(points, labels, c) = << Mean(0), Mean(1) >>
  BY <1>1 DEF Centroids, Total
<1>3. ASSUME NEW side \in {0, 1}
      PROVE  Mean(side) \in Int \X (Nat \ {0}) /\ Mean(side)[1] = Mean(side)[2] * p
  <2>1. CASE Side(labels, side) = {}
    <3>1. c[side + 1] \in Int \X (Nat \ {0}) /\ c[side + 1][1] = c[side + 1][2] * p
      BY DEF AllAre, Means
    <3> QED
      BY <2>1, <3>1
  <2>2. CASE Side(labels, side) # {}
    <3> DEFINE S == Side(labels, side)
    <3>1. /\ IsFiniteSet(S) /\ \A i \in S : points[i] = p
          /\ Cardinality(S) \in Nat \ {0} /\ Total(points, S) \in Int
      BY <2>2, SideFacts
    <3> HIDE DEF S
    <3>2. Total(points, S) = Cardinality(S) * p
      BY <3>1, TotalOfEqual
    <3> QED
      BY <2>2, <3>1, <3>2 DEF S
  <2> QED
    BY <2>1, <2>2
<1> HIDE DEF Mean
<1>4. << Mean(0), Mean(1) >> \in Means
  BY <1>3 DEF Means
<1> QED
  BY <1>2, <1>3, <1>4 DEF AllAre

LEMMA SameRowsSettle ==
  ASSUME NEW points \in Seq(Int), Len(points) > 1, NEW N \in Nat \ {0},
         \A i \in DOMAIN points : points[i] = points[1]
  PROVE  LET labels == KmeansTwoClusters(points, N)
         IN  labels = Labels(points, Centroids(points, labels, SeedCentroids(points)))
<1> DEFINE p == points[1]
           zeros == [i \in DOMAIN points |-> 0]
           seeds == SeedCentroids(points)
           IsDone(state) == AllAre(state.centroids, p) /\ state.labels = zeros
<1>1. p \in Int /\ \A i \in DOMAIN points : points[i] = p
  OBVIOUS
<1>2. AllAre(seeds, p)
  <2>1. PICK far \in DOMAIN points : seeds = << << points[1], 1 >>, << points[far], 1 >> >>
    BY SeedsFacts
  <2>2. seeds = << << p, 1 >>, << p, 1 >> >> /\ p = 1 * p
    BY <1>1, <2>1
  <2> HIDE DEF p, seeds
  <2> QED
    BY <1>1, <2>2 DEF AllAre, Means
<1>3. PICK run : IsLloydRun(run, points, N)
  BY LloydRuns
<1> HIDE DEF p
<1>4. zeros \in [DOMAIN points -> {0, 1}] /\ zeros # << >>
  <2>1. 1 \in DOMAIN points
    OBVIOUS
  <2> QED
    BY <2>1
<1> HIDE DEF zeros, seeds
<1>5. ASSUME NEW state, AllAre(state.centroids, p)
      PROVE  Labels(points, state.centroids) = zeros
  BY <1>1, <1>5, NoneIsNearer DEF zeros
<1>6. IsDone(Lloyd(points, LloydStart(points)))
  <2> DEFINE start == LloydStart(points)
  <2>1. start = [settled |-> FALSE, labels |-> << >>, centroids |-> seeds]
    BY DEF LloydStart, seeds
  <2> HIDE DEF start
  <2>2. Labels(points, start.centroids) = zeros
    BY <1>2, <1>5, <2>1
  <2>3. Lloyd(points, start) = [settled |-> FALSE, labels |-> zeros,
                                centroids |-> Centroids(points, zeros, seeds)]
    BY <1>4, <2>1, <2>2 DEF Lloyd
  <2>4. AllAre(Centroids(points, zeros, seeds), p)
    BY <1>1, <1>2, <1>4, CentroidsOfEqual
  <2> QED
    BY <2>3, <2>4 DEF start
<1>7. ASSUME NEW state, IsDone(state) PROVE IsDone(Lloyd(points, state))
  <2>1. Labels(points, state.centroids) = zeros
    BY <1>5, <1>7
  <2>2. Lloyd(points, state) = [state EXCEPT !.settled = TRUE]
    BY <1>7, <2>1 DEF Lloyd
  <2> QED
    BY <1>7, <2>2
<1> DEFINE Good == { k \in Nat : k + 1 =< N => IsDone(run[k + 1]) }
<1> HIDE DEF IsDone
<1>8. 0 \in Good
  <2>1. 1 \in 1 .. N /\ 1 - 1 = 0
    OBVIOUS
  <2>2. run[1] = Lloyd(points, LloydStart(points))
    BY <1>3, <2>1 DEF IsLloydRun
  <2> QED
    BY <1>6, <2>2
<1>9. ASSUME NEW k \in Nat, k \in Good PROVE k + 1 \in Good
  <2> SUFFICES ASSUME (k + 1) + 1 =< N PROVE IsDone(run[(k + 1) + 1])
    OBVIOUS
  <2>1. (k + 1) + 1 \in 1 .. N /\ ((k + 1) + 1) - 1 = k + 1 /\ k + 1 =< N
    OBVIOUS
  <2>2. run[(k + 1) + 1] = Lloyd(points, run[k + 1])
    BY <1>3, <2>1 DEF IsLloydRun
  <2> QED
    BY <1>7, <1>9, <2>1, <2>2
<1> HIDE DEF Good
<1>10. N - 1 \in Good
  <2>1. Nat \subseteq Good
    BY <1>8, <1>9, SetInduction
  <2>2. N - 1 \in Nat
    OBVIOUS
  <2> QED
    BY <2>1, <2>2
<1>11. IsDone(run[N]) /\ KmeansTwoClusters(points, N) = run[N].labels
  <2>1. N - 1 \in Nat /\ (N - 1) + 1 = N
    OBVIOUS
  <2> QED
    BY <1>3, <1>10, <2>1 DEF Good, IsLloydRun
<1>12. KmeansTwoClusters(points, N) = zeros
  BY <1>11 DEF IsDone
<1>13. AllAre(Centroids(points, zeros, seeds), p)
  BY <1>1, <1>2, <1>4, CentroidsOfEqual
<1>14. Labels(points, Centroids(points, zeros, seeds)) = zeros
  BY <1>1, <1>13, NoneIsNearer DEF zeros
<1> QED
  BY <1>12, <1>14 DEF seeds
=============================================================================
