------------------------ MODULE CorpusPipelineProofs ------------------------
(***************************************************************************)
(* Proofs about the corpus pipeline, for every raw corpus, every length     *)
(* filter and every composition of characters that is one.                  *)
(***************************************************************************)
EXTENDS CorpusPipeline, OperatorProofs

(* What cleaning returns: the valid normal forms of the pairs, each once.   *)
LEMMA CleanPairsFacts ==
  ASSUME NEW X, NEW pairs \in Seq(X)
  PROVE  LET forms == { NormalizePair(p) : p \in ToSet(pairs) }
         IN  /\ CleanPairs(pairs) \in Seq(forms)
             /\ ToSet(CleanPairs(pairs)) = { pair \in forms : IsValidLength(pair) }
             /\ IsInjective(CleanPairs(pairs))
<1> DEFINE forms == { NormalizePair(p) : p \in ToSet(pairs) }
           normal == [i \in DOMAIN pairs |-> NormalizePair(pairs[i])]
           once == Firsts(normal)
           valid == { i \in DOMAIN once : IsValidLength(once[i]) }
<1>1. normal \in Seq(forms) /\ ToSet(normal) = forms
  BY DEF ToSet
<1>2. once \in Seq(forms) /\ ToSet(once) = forms /\ IsInjective(once)
  <2> HIDE DEF normal, forms
  <2> QED
    BY <1>1, FirstsFacts
<1>3. CleanPairs(pairs) = Kept(once, valid)
  BY DEF CleanPairs, FilterPairsByLength, DeduplicatePairs
<1>4. Kept(once, valid) \in Seq(forms) /\ ToSet(Kept(once, valid)) = { once[i] : i \in valid }
  <2> HIDE DEF once, forms
  <2> QED
    BY <1>2, KeptFacts, KeptElements
<1>5. IsInjective(Kept(once, valid))
  <2>1. \A i, j \in valid : once[i] = once[j] => i = j
    <3> HIDE DEF once
    <3> QED
      BY <1>2 DEF IsInjective
  <2> HIDE DEF once, forms
  <2> QED
    BY <1>2, <2>1, KeptOnce
<1>6. { once[i] : i \in valid } = { pair \in forms : IsValidLength(pair) }
  <2> HIDE DEF once, forms
  <2> QED
    BY <1>2 DEF ToSet
<1> QED
  BY <1>3, <1>4, <1>5, <1>6

(* A pair of valid lengths has two fields, none of them blank.              *)
LEMMA ValidIsNotBlank ==
  ASSUME NEW p, IsValidLength(NormalizePair(p))
  PROVE  ~IsBlankLine(NormalizePair(p)) /\ Len(NormalizePair(p)) = 2
<1>1. DOMAIN NormalizePair(p) = 1 .. 2 /\ Len(NormalizePair(p)) = 2
  BY DEF NormalizePair
<1>2. Strip(NormalizePair(p)[1]) # << >>
  BY DEF IsValidLength
<1> QED
  BY <1>1, <1>2 DEF IsBlankLine

(* No cleaned pair is lost or refused when the file is read back.           *)
LEMMA CleanIsContent ==
  ASSUME NEW X, NEW pairs \in Seq(X)
  PROVE  /\ ContentLines(CleanPairs(pairs)) = CleanPairs(pairs)
         /\ IsWellFormed(CleanPairs(pairs))
<1> DEFINE forms == { NormalizePair(p) : p \in ToSet(pairs) }
           clean == CleanPairs(pairs)
<1>1. clean \in Seq(forms) /\ ToSet(clean) = { pair \in forms : IsValidLength(pair) }
  BY CleanPairsFacts
<1>2. \A i \in DOMAIN clean : ~IsBlankLine(clean[i]) /\ Len(clean[i]) = 2
  <2> SUFFICES ASSUME NEW i \in DOMAIN clean PROVE ~IsBlankLine(clean[i]) /\ Len(clean[i]) = 2
    OBVIOUS
  <2>1. clean[i] \in forms /\ IsValidLength(clean[i])
    BY <1>1 DEF ToSet
  <2>2. PICK p : clean[i] = NormalizePair(p)
    BY <2>1
  <2> QED
    BY <2>1, <2>2, ValidIsNotBlank
<1>3. Kept(clean, DOMAIN clean) = clean
  <2> HIDE DEF clean, forms
  <2> QED
    BY <1>1, KeptAll
<1> QED
  BY <1>2, <1>3 DEF ContentLines, IsWellFormed

-----------------------------------------------------------------------------
(* Normalisation is idempotent: what it returns is settled, and what is     *)
(* settled it returns.                                                      *)

(* No mark follows a letter it would join.                                  *)
IsComposed(text) ==
    \A i \in 1 .. Len(text) - 1 : << text[i], text[i + 1] >> \notin DOMAIN Composition

(* White space is a single blank, with no other beside it.                  *)
IsCollapsed(text) ==
    \A i \in 1 .. Len(text) :
        text[i] \in Spaces => text[i] = " " /\ (i > 1 => text[i - 1] \notin Spaces)

IsUnified(text) == \A i \in 1 .. Len(text) : text[i] # "lookalike"

IsStripped(text) ==
    text # << >> => text[1] \notin Spaces /\ text[Len(text)] \notin Spaces

IsNormal(text) ==
    IsComposed(text) /\ IsUnified(text) /\ IsCollapsed(text) /\ IsStripped(text)

Strings == Seq(Characters)

LEMMA WithMarkFacts ==
  ASSUME NEW text \in Strings, NEW c \in Characters
  PROVE  /\ WithMark(text, c) \in Strings
         /\ IsComposed(text) => IsComposed(WithMark(text, c))
<1>1. CASE text # << >> /\ << Last(text), c >> \in DOMAIN Composition
  <2>1. Composition[<< Last(text), c >>] \in Characters
    BY <1>1, CompositionAssumption
  <2>2. \A q \in DOMAIN Composition : Composition[<< Last(text), c >>] # q[2]
    BY <1>1, CompositionAssumption
  <2>3. /\ Front(text) \in Strings /\ Len(Front(text)) = Len(text) - 1
        /\ \A i \in 1 .. Len(text) - 1 : Front(text)[i] = text[i]
    BY <1>1, FrontFacts DEF Strings
  <2> DEFINE d == Composition[<< Last(text), c >>]
             joined == Append(Front(text), d)
  <2>4. WithMark(text, c) = joined
    BY <1>1 DEF WithMark
  <2>5. /\ joined \in Strings /\ Len(joined) = Len(text)
        /\ \A i \in 1 .. Len(text) - 1 : joined[i] = text[i]
        /\ joined[Len(text)] = Composition[<< Last(text), c >>]
    <3>1. /\ joined \in Strings /\ Len(joined) = Len(Front(text)) + 1
          /\ \A i \in 1 .. Len(Front(text)) : joined[i] = Front(text)[i]
          /\ joined[Len(Front(text)) + 1] = d
      <4>1. d \in Characters /\ Front(text) \in Seq(Characters)
        BY <2>1, <2>3 DEF Strings
      <4> HIDE DEF d
      <4> QED
        BY <4>1, AppendFacts DEF Strings
    <3>2. Len(text) \in Nat
      BY DEF Strings
    <3> HIDE DEF joined
    <3> QED
      BY <2>3, <3>1, <3>2
  <2>6. ASSUME IsComposed(text), NEW i \in 1 .. Len(text) - 1
        PROVE  << joined[i], joined[i + 1] >> \notin DOMAIN Composition
    <3>1. CASE i + 1 = Len(text)
      BY <2>2, <2>5, <3>1
    <3>2. CASE i + 1 # Len(text)
      <4>1. i \in 1 .. Len(text) - 1 /\ i + 1 \in 1 .. Len(text) - 1
        BY <3>2 DEF Strings
      <4> HIDE DEF joined
      <4> QED
        BY <2>5, <2>6, <4>1 DEF IsComposed
    <3> QED
      BY <3>1, <3>2
  <2> HIDE DEF joined
  <2> QED
    BY <2>4, <2>5, <2>6 DEF IsComposed
<1>2. CASE ~(text # << >> /\ << Last(text), c >> \in DOMAIN Composition)
  <2>1. WithMark(text, c) = Append(text, c)
    BY <1>2 DEF WithMark
  <2>2. /\ Append(text, c) \in Strings /\ Len(Append(text, c)) = Len(text) + 1
        /\ \A i \in 1 .. Len(text) : Append(text, c)[i] = text[i]
        /\ Append(text, c)[Len(text) + 1] = c
        /\ Len(text) \in Nat
    BY AppendFacts DEF Strings
  <2>3. ASSUME IsComposed(text), NEW i \in 1 .. Len(text)
        PROVE  << Append(text, c)[i], Append(text, c)[i + 1] >> \notin DOMAIN Composition
    <3>1. CASE i = Len(text)
      <4>1. text # << >> /\ Last(text) = text[i]
        BY <3>1 DEF Last, Strings
      <4> QED
        BY <1>2, <2>2, <3>1, <4>1
    <3>2. CASE i # Len(text)
      <4>1. i \in 1 .. Len(text) - 1 /\ i + 1 \in 1 .. Len(text)
        BY <2>2, <3>2
      <4> QED
        BY <2>2, <2>3, <4>1 DEF IsComposed
    <3> QED
      BY <3>1, <3>2
  <2> QED
    BY <2>1, <2>2, <2>3 DEF IsComposed
<1> QED
  BY <1>1, <1>2

(* The composition of a text, one character at a time.                      *)
LEMMA ComposedSteps ==
  ASSUME NEW text \in Strings
  PROVE  \E done \in [0 .. Len(text) -> Strings] :
             /\ done[0] = << >>
             /\ \A n \in 1 .. Len(text) : done[n] = WithMark(done[n - 1], text[n])
             /\ Composed(text) = done[Len(text)]
<1> DEFINE N == Len(text)
           empty == << >>
           step == [n \in 1 .. N |-> [t \in Strings |-> WithMark(t, text[n])]]
           Steps(f) == f = [n \in 0 .. N |->
                               IF n = 0 THEN << >> ELSE WithMark(f[n - 1], text[n])]
           done == CHOOSE f : Steps(f)
<1>1. N \in Nat /\ << >> \in Strings /\ \A n \in 1 .. N : text[n] \in Characters
  BY DEF Strings
<1>2. step \in [1 .. N -> [Strings -> Strings]]
  BY <1>1, WithMarkFacts
<1>3. \E f : Steps(f)
  <2>1. PICK f \in [0 .. N -> Strings] :
            f[0] = << >> /\ \A n \in 1 .. N : f[n] = step[n][f[n - 1]]
    <3>1. empty \in Strings
      BY <1>1
    <3> HIDE DEF step, N, empty
    <3>2. \E f \in [0 .. N -> Strings] :
              f[0] = empty /\ \A n \in 1 .. N : f[n] = step[n][f[n - 1]]
      BY <1>1, <1>2, <3>1, RecursionExists
    <3> QED
      BY <3>2 DEF empty
  <2>2. \A n \in 1 .. N : step[n][f[n - 1]] = WithMark(f[n - 1], text[n])
    <3> SUFFICES ASSUME NEW n \in 1 .. N
                 PROVE  step[n][f[n - 1]] = WithMark(f[n - 1], text[n])
      OBVIOUS
    <3>1. n \in 1 .. N /\ n - 1 \in 0 .. N
      BY <1>1
    <3>2. f[n - 1] \in Strings
      BY <2>1, <3>1
    <3> QED
      BY <3>1, <3>2
  <2>3. Steps(f)
    <3>1. f = [n \in 0 .. N |-> f[n]]
      BY <2>1
    <3>2. \A n \in 0 .. N : f[n] = IF n = 0 THEN << >> ELSE WithMark(f[n - 1], text[n])
      <4> HIDE DEF step
      <4> QED
        BY <1>1, <2>1, <2>2
    <3> QED
      BY <3>1, <3>2
  <2> QED
    BY <2>3
<1>4. Steps(done)
  <2> HIDE DEF Steps
  <2> QED
    BY <1>3
<1>5. Composed(text) = done[N]
  BY DEF Composed
<1> DEFINE Typed == { n \in Nat : n =< N => done[n] \in Strings }
<1> HIDE DEF done
<1>6. done[0] = << >> /\ \A n \in 1 .. N : done[n] = WithMark(done[n - 1], text[n])
  BY <1>1, <1>4
<1>7. \A n \in 0 .. N : done[n] \in Strings
  <2>1. 0 \in Typed
    BY <1>1, <1>6
  <2>2. \A n \in Nat : n \in Typed => n + 1 \in Typed
    <3> SUFFICES ASSUME NEW n \in Nat, n \in Typed, n + 1 =< N
                 PROVE  done[n + 1] \in Strings
      OBVIOUS
    <3>1. done[n] \in Strings /\ n + 1 \in 1 .. N
      BY <1>1
    <3>2. done[n + 1] = WithMark(done[n], text[n + 1])
      BY <1>6, <3>1
    <3> QED
      BY <1>1, <3>1, <3>2, WithMarkFacts
  <2>3. Nat \subseteq Typed
    <3> HIDE DEF Typed
    <3> QED
      BY <2>1, <2>2, SetInduction
  <2> QED
    BY <1>1, <2>3
<1>8. done \in [0 .. N -> Strings]
  BY <1>4, <1>7
<1> QED
  BY <1>5, <1>6, <1>8

LEMMA ComposedIsComposed ==
  ASSUME NEW text \in Strings
  PROVE  Composed(text) \in Strings /\ IsComposed(Composed(text))
<1>1. PICK done \in [0 .. Len(text) -> Strings] :
             /\ done[0] = << >>
             /\ \A n \in 1 .. Len(text) : done[n] = WithMark(done[n - 1], text[n])
             /\ Composed(text) = done[Len(text)]
  BY ComposedSteps
<1>2. Len(text) \in Nat /\ \A n \in 1 .. Len(text) : text[n] \in Characters
  BY DEF Strings
<1> DEFINE Good == { n \in Nat : n =< Len(text) => IsComposed(done[n]) }
<1>3. 0 \in Good
  BY <1>1 DEF IsComposed
<1>4. \A n \in Nat : n \in Good => n + 1 \in Good
  <2> SUFFICES ASSUME NEW n \in Nat, n \in Good, n + 1 =< Len(text)
               PROVE  IsComposed(done[n + 1])
    OBVIOUS
  <2>1. n + 1 \in 1 .. Len(text) /\ done[n] \in Strings /\ IsComposed(done[n])
    BY <1>1, <1>2
  <2>2. done[n + 1] = WithMark(done[n], text[n + 1])
    BY <1>1, <2>1
  <2> QED
    BY <1>2, <2>1, <2>2, WithMarkFacts
<1>5. Nat \subseteq Good
  <2> HIDE DEF Good
  <2> QED
    BY <1>3, <1>4, SetInduction
<1> QED
  BY <1>1, <1>2, <1>5

LEMMA ComposedKeeps ==
  ASSUME NEW text \in Strings, IsComposed(text)
  PROVE  Composed(text) = text
<1>1. PICK done \in [0 .. Len(text) -> Strings] :
             /\ done[0] = << >>
             /\ \A n \in 1 .. Len(text) : done[n] = WithMark(done[n - 1], text[n])
             /\ Composed(text) = done[Len(text)]
  BY ComposedSteps
<1>2. Len(text) \in Nat
  BY DEF Strings
<1> DEFINE Good == { n \in Nat : n =< Len(text) => done[n] = SubSeq(text, 1, n) }
<1>3. 0 \in Good
  BY <1>1 DEF Strings
<1>4. \A n \in Nat : n \in Good => n + 1 \in Good
  <2> SUFFICES ASSUME NEW n \in Nat, n \in Good, n + 1 =< Len(text)
               PROVE  done[n + 1] = SubSeq(text, 1, n + 1)
    OBVIOUS
  <2>1. n + 1 \in 1 .. Len(text) /\ done[n] = SubSeq(text, 1, n)
    BY <1>2
  <2>2. done[n + 1] = WithMark(SubSeq(text, 1, n), text[n + 1])
    <3>1. done[n + 1] = WithMark(done[(n + 1) - 1], text[n + 1]) /\ (n + 1) - 1 = n
      BY <1>1, <2>1
    <3> QED
      BY <2>1, <3>1
  <2>3. Append(SubSeq(text, 1, n), text[n + 1]) = SubSeq(text, 1, n + 1)
    BY <1>2, <2>1 DEF Strings
  <2>4. SubSeq(text, 1, n) # << >> => n >= 1 /\ Last(SubSeq(text, 1, n)) = text[n]
    BY <1>2, <2>1 DEF Strings, Last
  <2>5. n >= 1 => << text[n], text[n + 1] >> \notin DOMAIN Composition
    BY <1>2, <2>1 DEF IsComposed
  <2> QED
    BY <2>2, <2>3, <2>4, <2>5 DEF WithMark
<1>5. Nat \subseteq Good
  <2> HIDE DEF Good
  <2> QED
    BY <1>3, <1>4, SetInduction
<1>6. SubSeq(text, 1, Len(text)) = text
  BY DEF Strings
<1> QED
  BY <1>1, <1>2, <1>5, <1>6

LEMMA UnifiedFacts ==
  ASSUME NEW text \in Strings
  PROVE  /\ NormalizeGlottalMarks(text) \in Strings
         /\ IsUnified(NormalizeGlottalMarks(text))
         /\ IsComposed(text) => IsComposed(NormalizeGlottalMarks(text))
         /\ IsUnified(text) => NormalizeGlottalMarks(text) = text
<1> DEFINE u == NormalizeGlottalMarks(text)
<1>1. /\ u \in Strings /\ Len(u) = Len(text)
      /\ \A i \in 1 .. Len(text) : u[i] = IF text[i] = "lookalike" THEN "'" ELSE text[i]
  <2>1. DOMAIN text = 1 .. Len(text) /\ Len(text) \in Nat
    BY DEF Strings
  <2>2. \A i \in 1 .. Len(text) : text[i] \in Characters
    BY DEF Strings
  <2>3. u = [i \in 1 .. Len(text) |-> IF text[i] = "lookalike" THEN "'" ELSE text[i]]
    BY <2>1 DEF NormalizeGlottalMarks
  <2>4. "'" \in Characters
    BY GlottalMarkAssumption
  <2>5. u \in [1 .. Len(text) -> Characters]
    BY <2>2, <2>3, <2>4
  <2> HIDE DEF u
  <2> QED
    BY <2>1, <2>3, <2>5 DEF Strings
<1>2. IsUnified(u)
  BY <1>1 DEF IsUnified
<1>3. ASSUME IsComposed(text), NEW i \in 1 .. Len(text) - 1
      PROVE  << u[i], u[i + 1] >> \notin DOMAIN Composition
  <2>1. i \in 1 .. Len(text) /\ i + 1 \in 1 .. Len(text)
    BY DEF Strings
  <2>2. \A p \in DOMAIN Composition : p[1] # "'" /\ p[2] # "'"
    BY CompositionAssumption
  <2>3. CASE text[i] = "lookalike" \/ text[i + 1] = "lookalike"
    BY <1>1, <2>1, <2>2, <2>3
  <2>4. CASE text[i] # "lookalike" /\ text[i + 1] # "lookalike"
    BY <1>1, <1>3, <2>1, <2>4 DEF IsComposed
  <2> QED
    BY <2>3, <2>4
<1>4. IsUnified(text) => u = text
  BY DEF NormalizeGlottalMarks, IsUnified, Strings
<1> QED
  BY <1>1, <1>2, <1>3, <1>4 DEF IsComposed

(* Two consecutive kept places have only dropped ones between them.         *)
LEMMA PlacesNextTo ==
  ASSUME NEW I \in SUBSET Nat, NEW n \in Nat, NEW at \in [1 .. n -> I],
         \A j, k \in 1 .. n : j < k => at[j] < at[k],
         \A i \in I : \E k \in 1 .. n : at[k] = i,
         NEW k \in 1 .. n - 1
  PROVE  /\ at[k] + 1 \in I => at[k + 1] = at[k] + 1
         /\ at[k + 1] - 1 \in I => at[k + 1] = at[k] + 1
<1>1. k \in 1 .. n /\ k + 1 \in 1 .. n /\ at[k] \in Nat /\ at[k + 1] \in Nat /\ at[k] < at[k + 1]
  <2>1. k \in 1 .. n /\ k + 1 \in 1 .. n /\ k < k + 1
    OBVIOUS
  <2>2. at[k] \in Nat /\ at[k + 1] \in Nat
    BY <2>1
  <2> QED
    BY <2>1, <2>2
<1>2. ASSUME NEW i \in I, at[k] < i, i < at[k + 1] PROVE FALSE
  <2>1. PICK j \in 1 .. n : at[j] = i
    OBVIOUS
  <2>2. ~(k + 1 < j) /\ k + 1 # j
    BY <1>1, <1>2, <2>1
  <2>3. ~(j < k) /\ j # k
    BY <1>1, <1>2, <2>1
  <2> QED
    BY <2>2, <2>3
<1> QED
  BY <1>1, <1>2

LEMMA CollapseFacts ==
  ASSUME NEW text \in Strings
  PROVE  /\ CollapseWhitespace(text) \in Strings
         /\ IsCollapsed(CollapseWhitespace(text))
         /\ IsUnified(text) => IsUnified(CollapseWhitespace(text))
         /\ IsComposed(text) => IsComposed(CollapseWhitespace(text))
         /\ IsCollapsed(text) => CollapseWhitespace(text) = text
<1> DEFINE I == { i \in DOMAIN text : i > 1 /\ text[i] \in Spaces => text[i - 1] \notin Spaces }
           n == Cardinality(I)
           one == Kept(text, I)
           out == CollapseWhitespace(text)
<1>1. /\ DOMAIN text = 1 .. Len(text) /\ Len(text) \in Nat
      /\ \A i \in 1 .. Len(text) : text[i] \in Characters
  BY DEF Strings
<1>2. out = [k \in DOMAIN one |-> IF one[k] \in Spaces THEN " " ELSE one[k]]
  BY DEF CollapseWhitespace
<1>3. I \in SUBSET DOMAIN text /\ I \in SUBSET Nat /\ text \in Seq(Characters)
  BY <1>1 DEF Strings
<1>4. n \in Nat
  BY <1>3, PlacesAreFinite
<1>5. /\ one \in Seq(Characters) /\ DOMAIN one = 1 .. n /\ Len(one) = n
      /\ \E at : IsPlacing(at, text, I)
  <2> HIDE DEF I
  <2> QED
    BY <1>3, KeptFacts
<1>6. PICK at \in [1 .. n -> I] :
          /\ \A j, k \in 1 .. n : j < k => at[j] < at[k]
          /\ \A i \in I : \E k \in 1 .. n : at[k] = i
          /\ \A k \in 1 .. n : one[k] = text[at[k]]
  BY <1>5 DEF IsPlacing
<1>7. \A k \in 1 .. n : out[k] = IF text[at[k]] \in Spaces THEN " " ELSE text[at[k]]
  BY <1>2, <1>5, <1>6
<1>8. out \in Strings /\ Len(out) = n /\ DOMAIN out = 1 .. n
  <2>1. out \in [1 .. n -> Characters]
    <3>1. \A k \in 1 .. n : one[k] \in Characters
      <4> HIDE DEF one
      <4> QED
        BY <1>4, <1>5
    <3>2. " " \in Characters
      BY GlottalMarkAssumption
    <3> HIDE DEF one, n, out
    <3> QED
      BY <1>2, <1>5, <3>1, <3>2
  <2> HIDE DEF out, n
  <2> QED
    BY <1>4, <2>1 DEF Strings
<1>9. " " \in Spaces
  BY DEF Spaces
<1> HIDE DEF out, one, n
<1>10. \A k \in 1 .. n - 1 : /\ at[k] + 1 \in I => at[k + 1] = at[k] + 1
                             /\ at[k + 1] - 1 \in I => at[k + 1] = at[k] + 1
  <2> HIDE DEF I
  <2> QED
    BY <1>3, <1>4, <1>6, PlacesNextTo
<1>11. \A k \in 1 .. n : at[k] \in I /\ at[k] \in 1 .. Len(text)
  BY <1>1, <1>6
<1>12. ASSUME NEW k \in 1 .. n, out[k] \in Spaces
       PROVE  out[k] = " " /\ (k > 1 => out[k - 1] \notin Spaces)
  <2>1. text[at[k]] \in Spaces /\ out[k] = " "
    BY <1>7, <1>12
  <2>2. ASSUME k > 1 PROVE out[k - 1] \notin Spaces
    <3>1. k - 1 \in 1 .. n - 1 /\ (k - 1) + 1 = k /\ k - 1 \in 1 .. n
      BY <1>4, <2>2
    <3>2. at[k - 1] < at[k] /\ at[k - 1] \in 1 .. Len(text)
      BY <1>6, <1>11, <3>1
    <3>3. at[k] > 1 /\ text[at[k] - 1] \notin Spaces
      <4>1. at[k] > 1 /\ at[k] \in I
        BY <1>1, <1>11, <3>2
      <4> QED
        BY <2>1, <4>1
    <3>4. at[k] - 1 \in I
      BY <1>1, <1>11, <3>3
    <3>5. at[k] = at[k - 1] + 1
      BY <1>10, <3>1, <3>4
    <3>6. text[at[k - 1]] \notin Spaces
      BY <3>2, <3>3, <3>5
    <3> QED
      BY <1>7, <3>1, <3>6
  <2> QED
    BY <2>1, <2>2
<1>13. IsCollapsed(out)
  BY <1>8, <1>12 DEF IsCollapsed
<1>14. IsUnified(text) => IsUnified(out)
  BY <1>7, <1>8, <1>11 DEF IsUnified
<1>15. ASSUME IsComposed(text), NEW k \in 1 .. n - 1
       PROVE  << out[k], out[k + 1] >> \notin DOMAIN Composition
  <2>1. k \in 1 .. n /\ k + 1 \in 1 .. n /\ at[k] < at[k + 1]
    BY <1>4, <1>6
  <2>2. \A p \in DOMAIN Composition : p[1] \notin Spaces /\ p[2] \notin Spaces
    BY CompositionAssumption
  <2>3. CASE text[at[k]] \in Spaces \/ text[at[k + 1]] \in Spaces
    BY <1>7, <1>9, <2>1, <2>2, <2>3
  <2>4. CASE text[at[k]] \notin Spaces /\ text[at[k + 1]] \notin Spaces
    <3>1. at[k] \in 1 .. Len(text) - 1
      BY <1>1, <1>11, <2>1
    <3>2. at[k] + 1 \in I
      BY <1>1, <2>4, <3>1
    <3>3. at[k + 1] = at[k] + 1
      BY <1>10, <3>2
    <3>4. out[k] = text[at[k]] /\ out[k + 1] = text[at[k + 1]]
      BY <1>7, <2>1, <2>4
    <3> QED
      BY <1>15, <3>1, <3>3, <3>4 DEF IsComposed
  <2> QED
    BY <2>3, <2>4
<1>16. IsComposed(text) => IsComposed(out)
  BY <1>8, <1>15 DEF IsComposed
<1>17. ASSUME IsCollapsed(text) PROVE out = text
  <2>1. I = DOMAIN text
    BY <1>1, <1>17 DEF IsCollapsed
  <2>2. one = text
    BY <1>3, <2>1, KeptAll DEF one
  <2>3. \A k \in 1 .. Len(text) : text[k] \in Spaces => text[k] = " "
    BY <1>17 DEF IsCollapsed
  <2>4. out = [k \in 1 .. Len(text) |-> text[k]]
    BY <1>1, <1>2, <2>2, <2>3
  <2> QED
    BY <1>1, <2>4 DEF Strings
<1> QED
  BY <1>8, <1>13, <1>14, <1>16, <1>17 DEF out

LEMMA StripFacts ==
  ASSUME NEW text \in Strings
  PROVE  /\ Strip(text) \in Strings
         /\ IsStripped(Strip(text))
         /\ IsComposed(text) => IsComposed(Strip(text))
         /\ IsUnified(text) => IsUnified(Strip(text))
         /\ IsCollapsed(text) => IsCollapsed(Strip(text))
         /\ IsStripped(text) => Strip(text) = text
<1> DEFINE ink == { i \in DOMAIN text : text[i] \notin Spaces }
<1>1. DOMAIN text = 1 .. Len(text) /\ Len(text) \in Nat
  BY DEF Strings
<1>2. CASE ink = {}
  <2>1. Strip(text) = << >>
    BY <1>2 DEF Strip
  <2>2. << >> \in Strings /\ Len(<< >>) = 0
    BY DEF Strings
  <2>3. IsStripped(text) => text = << >>
    BY <1>1, <1>2 DEF IsStripped, Strings
  <2> QED
    BY <2>1, <2>2, <2>3 DEF IsStripped, IsComposed, IsUnified, IsCollapsed
<1>3. CASE ink # {}
  <2> DEFINE m == Min(ink)
             n == Max(ink)
             out == SubSeq(text, m, n)
  <2>1. Strip(text) = out
    BY <1>3 DEF Strip
  <2>2. ink \in SUBSET Nat /\ \A i \in ink : i =< Len(text)
    BY <1>1
  <2>3. m \in ink /\ n \in ink /\ \A i \in ink : m =< i /\ i =< n
    <3> HIDE DEF ink
    <3> QED
      BY <1>1, <1>3, <2>2, MinIsLeast, MaxIsGreatest
  <2>4. /\ m \in 1 .. Len(text) /\ n \in m .. Len(text)
        /\ text[m] \notin Spaces /\ text[n] \notin Spaces
    BY <1>1, <2>3
  <2> HIDE DEF m, n
  <2>5. m \in 1 .. Len(text) + 1 /\ n \in m - 1 .. Len(text) /\ n - m + 1 \in Nat \ {0}
    BY <1>1, <2>4
  <2>6. /\ out \in Strings /\ Len(out) = n - m + 1
        /\ \A i \in 1 .. n - m + 1 : out[i] = text[m + i - 1]
    <3> HIDE DEF out
    <3> QED
      BY <2>5, SubSeqFacts DEF Strings, out
  <2> HIDE DEF out
  <2>7. IsStripped(out)
    <3>1. m + 1 - 1 = m /\ m + (n - m + 1) - 1 = n
      BY <2>4
    <3> QED
      BY <2>4, <2>5, <2>6, <3>1 DEF IsStripped
  <2>8. \A i \in 1 .. n - m + 1 : m + i - 1 \in 1 .. Len(text)
    BY <1>1, <2>4
  <2>9. ASSUME IsComposed(text) PROVE IsComposed(out)
    <3> SUFFICES ASSUME NEW i \in 1 .. n - m PROVE << out[i], out[i + 1] >> \notin DOMAIN Composition
      BY <2>4, <2>6 DEF IsComposed
    <3>1. i \in 1 .. n - m + 1 /\ i + 1 \in 1 .. n - m + 1 /\ m + (i + 1) - 1 = (m + i - 1) + 1
      BY <2>4
    <3>2. m + i - 1 \in 1 .. Len(text) - 1
      BY <1>1, <2>4
    <3> QED
      BY <2>6, <2>9, <3>1, <3>2 DEF IsComposed
  <2>10. IsUnified(text) => IsUnified(out)
    BY <2>6, <2>8 DEF IsUnified
  <2>11. ASSUME IsCollapsed(text) PROVE IsCollapsed(out)
    <3> SUFFICES ASSUME NEW i \in 1 .. n - m + 1, out[i] \in Spaces
                 PROVE  out[i] = " " /\ (i > 1 => out[i - 1] \notin Spaces)
      BY <2>6 DEF IsCollapsed
    <3>1. /\ out[i] = text[m + i - 1] /\ m + i - 1 \in 1 .. Len(text)
      BY <2>6, <2>8
    <3>2. i > 1 => /\ i - 1 \in 1 .. n - m + 1
                   /\ m + (i - 1) - 1 = (m + i - 1) - 1 /\ m + i - 1 > 1
      BY <2>4
    <3>3. i > 1 => out[i - 1] = text[(m + i - 1) - 1]
      BY <2>6, <3>2
    <3> QED
      BY <2>11, <3>1, <3>2, <3>3 DEF IsCollapsed
  <2>12. ASSUME IsStripped(text) PROVE out = text
    <3>1. text # << >> /\ 1 \in DOMAIN text /\ Len(text) \in DOMAIN text
      BY <1>1, <2>4
    <3>2. 1 \in ink /\ Len(text) \in ink
      BY <2>12, <3>1 DEF IsStripped
    <3>3. m = 1 /\ n = Len(text)
      BY <1>1, <2>3, <2>4, <3>2
    <3> QED
      BY <1>1, <3>3 DEF out, Strings
  <2> QED
    BY <2>1, <2>6, <2>7, <2>9, <2>10, <2>11, <2>12
<1> QED
  BY <1>2, <1>3

LEMMA NormalizeIsNormal ==
  ASSUME NEW text \in Strings
  PROVE  NormalizeText(text) \in Strings /\ IsNormal(NormalizeText(text))
<1>1. Composed(text) \in Strings /\ IsComposed(Composed(text))
  BY ComposedIsComposed
<1> DEFINE a == Composed(text)
           b == NormalizeGlottalMarks(a)
           c == CollapseWhitespace(b)
<1>2. b \in Strings /\ IsComposed(b) /\ IsUnified(b)
  BY <1>1, UnifiedFacts
<1>3. c \in Strings /\ IsComposed(c) /\ IsUnified(c) /\ IsCollapsed(c)
  <2> HIDE DEF b
  <2> QED
    BY <1>2, CollapseFacts
<1>4. Strip(c) \in Strings /\ IsNormal(Strip(c))
  <2> HIDE DEF c
  <2> QED
    BY <1>3, StripFacts DEF IsNormal
<1> QED
  BY <1>4 DEF NormalizeText

LEMMA NormalIsKept ==
  ASSUME NEW text \in Strings, IsNormal(text)
  PROVE  NormalizeText(text) = text
BY ComposedKeeps, UnifiedFacts, CollapseFacts, StripFacts DEF NormalizeText, IsNormal

-----------------------------------------------------------------------------
(* The files.                                                               *)

Lines == Seq(Seq(Seq(Characters)))

(* A cleaned file is what cleaning makes of the raw file that was there.    *)
FilesInv ==
    /\ files = [raw |-> files.raw, clean |-> files.clean]
    /\ files.raw \in RawCorpora
    /\ DOMAIN files.clean = Splits
    /\ \A split \in Splits :
           Written(split) => /\ IsReadable("raw", split)
                             /\ files.clean[split] = CleanPairs(PairsOf("raw", split))

(* What was reported last is about the files as they are.                   *)
LeaksInv ==
    outcome.kind = "leaks" =>
        /\ outcome.stage \in Stages
        /\ \A split \in Splits : IsReadable(outcome.stage, split)
        /\ outcome.overlap.exact = ExactPairOverlap(PairsOf(outcome.stage, "train"),
                                            PairsOf(outcome.stage, "validation"))

CorpusInv == FilesInv /\ LeaksInv

LEMMA RawPairs ==
  ASSUME FilesInv, NEW split \in Splits, IsReadable("raw", split)
  PROVE  PairsOf("raw", split) \in Lines
<1>1. files["raw"][split] \in Lines
  BY RawCorporaAssumption DEF FilesInv, IsReadable, Lines
<1> DEFINE I == { i \in DOMAIN files["raw"][split] : ~IsBlankLine(files["raw"][split][i]) }
<1>2. Kept(files["raw"][split], I) \in Lines
  <2>1. I \in SUBSET DOMAIN files["raw"][split]
    OBVIOUS
  <2> HIDE DEF I
  <2> QED
    BY <1>1, <2>1, KeptFacts DEF Lines
<1> QED
  BY <1>2 DEF PairsOf, ReadTsvPairs, ContentLines

(* A cleaned file reads back as it was written.                             *)
LEMMA CleanedPairs ==
  ASSUME FilesInv, NEW split \in Splits, Written(split)
  PROVE  /\ PairsOf("clean", split) = CleanPairs(PairsOf("raw", split))
         /\ IsReadable("clean", split)
         /\ PairsOf("raw", split) \in Lines
<1>1. PairsOf("raw", split) \in Lines
  BY RawPairs DEF FilesInv
<1>2. files["clean"][split] = CleanPairs(PairsOf("raw", split))
  BY DEF FilesInv
<1> QED
  BY <1>1, <1>2, CleanIsContent DEF PairsOf, ReadTsvPairs, IsReadable, Written, Lines

LEMMA CorpusInitInv == CorpusInit => CorpusInv
BY DEF CorpusInit, CorpusInv, FilesInv, LeaksInv, NothingYet, Written

LEMMA CleanInv ==
  ASSUME CorpusInv, NEW split \in Splits, CleanCorpusFile(split)
  PROVE  CorpusInv'
<1>1. /\ files'.raw = files.raw
      /\ files' = [raw |-> files'.raw, clean |-> files'.clean]
      /\ files'.clean = [files.clean EXCEPT ![split] = CleanPairs(PairsOf("raw", split))]
  BY DEF CleanCorpusFile, CorpusInv, FilesInv, WriteTsvPairs
<1>2. \A s \in Splits : /\ IsReadable("raw", s)' = IsReadable("raw", s)
                        /\ PairsOf("raw", s)' = PairsOf("raw", s)
  BY <1>1 DEF IsReadable, PairsOf
<1>3. FilesInv'
  <2>1. DOMAIN files'.clean = Splits /\ files'.raw \in RawCorpora
    BY <1>1 DEF CorpusInv, FilesInv
  <2>2. ASSUME NEW s \in Splits, Written(s)'
        PROVE  IsReadable("raw", s)' /\ files'.clean[s] = CleanPairs(PairsOf("raw", s)')
    <3>1. CASE s = split
      BY <1>1, <1>2, <3>1 DEF CleanCorpusFile, CorpusInv, FilesInv
    <3>2. CASE s # split
      BY <1>1, <1>2, <3>2, <2>2 DEF CorpusInv, FilesInv, Written
    <3> QED
      BY <3>1, <3>2
  <2> QED
    BY <1>1, <2>1, <2>2 DEF FilesInv
<1>4. LeaksInv'
  BY DEF CleanCorpusFile, LeaksInv, NothingYet
<1> QED
  BY <1>3, <1>4 DEF CorpusInv

LEMMA ValidateInv ==
  ASSUME CorpusInv, NEW stage \in Stages, ValidateSplitFiles(stage)
  PROVE  CorpusInv'
<1>1. files' = files
  BY DEF ValidateSplitFiles
<1>2. FilesInv'
  BY <1>1 DEF CorpusInv, FilesInv, Written, IsReadable, PairsOf
<1>3. /\ outcome'.stage = stage
      /\ outcome'.overlap.exact = ExactPairOverlap(PairsOf(stage, "train"), PairsOf(stage, "validation"))
  BY DEF ValidateSplitFiles, ValidateSplitIntegrity
<1>4. LeaksInv'
  BY <1>1, <1>3 DEF ValidateSplitFiles, LeaksInv, IsReadable, PairsOf
<1> QED
  BY <1>2, <1>4 DEF CorpusInv

(* Every command of the pipeline keeps both.                                *)
LEMMA CorpusNextInv == CorpusInv /\ CorpusNext => CorpusInv'
BY CleanInv, ValidateInv DEF CorpusNext

(* A command that only looks at files, and reports something else, does too. *)
LEMMA CorpusStutterInv ==
  CorpusInv /\ UNCHANGED files /\ (UNCHANGED outcome \/ outcome'.kind # "leaks") => CorpusInv'
BY DEF CorpusInv, FilesInv, LeaksInv, Written, IsReadable, PairsOf

-----------------------------------------------------------------------------
(* What follows for the pairs.                                              *)

LEMMA LosesNothing == CorpusInv => CleaningLosesNothing
<1> SUFFICES ASSUME CorpusInv, NEW split \in Splits, Written(split)
             PROVE  LET raw == ToSet(PairsOf("raw", split))
                        clean == PairsOf("clean", split)
                    IN  /\ ToSet(clean) = { pair \in { NormalizePair(p) : p \in raw } :
                                                IsValidLength(pair) }
                        /\ Cardinality(ToSet(clean)) = Len(clean)
  BY DEF CleaningLosesNothing
<1>1. /\ PairsOf("raw", split) \in Lines
      /\ PairsOf("clean", split) = CleanPairs(PairsOf("raw", split))
  BY CleanedPairs DEF CorpusInv
<1>2. /\ PairsOf("clean", split) \in Seq({ NormalizePair(p) : p \in ToSet(PairsOf("raw", split)) })
      /\ IsInjective(PairsOf("clean", split))
      /\ ToSet(PairsOf("clean", split)) =
             { pair \in { NormalizePair(p) : p \in ToSet(PairsOf("raw", split)) } :
                  IsValidLength(pair) }
  BY <1>1, CleanPairsFacts DEF Lines
<1>3. Cardinality(ToSet(PairsOf("clean", split))) = Len(PairsOf("clean", split))
  BY <1>2, LengthOfInjective
<1> QED
  BY <1>2, <1>3

(* A pair that is in both files is in the overlap that is reported.         *)
LEMMA OverlapIsFound ==
  ASSUME NEW X, NEW train, NEW validation \in Seq(X),
         ExactPairOverlap(train, validation) = << >>
  PROVE  ToSet(train) \cap ToSet(validation) = {}
<1> DEFINE I == { i \in DOMAIN validation : validation[i] \in ToSet(train) }
<1>1. Kept(validation, I) \in Seq(X) /\ ToSet(Kept(validation, I)) = { validation[i] : i \in I }
  <2>1. I \in SUBSET DOMAIN validation
    OBVIOUS
  <2> HIDE DEF I
  <2> QED
    BY <2>1, KeptFacts, KeptElements
<1>2. ToSet(Firsts(Kept(validation, I))) = { validation[i] : i \in I }
  <2> HIDE DEF I
  <2> QED
    BY <1>1, FirstsFacts
<1>3. Firsts(Kept(validation, I)) = << >>
  BY DEF ExactPairOverlap
<1>4. { validation[i] : i \in I } = {}
  <2>1. ToSet(<< >>) = {}
    BY DEF ToSet
  <2> HIDE DEF I
  <2> QED
    BY <1>2, <1>3, <2>1
<1> QED
  BY <1>4 DEF ToSet

LEMMA LeakFree == CorpusInv => ValidatedSplitIsLeakFree
<1> SUFFICES ASSUME CorpusInv, outcome.kind = "leaks", outcome.stage = "clean",
                    outcome.overlap.exact = << >>,
                    NEW p \in ToSet(PairsOf("raw", "train")),
                    NEW q \in ToSet(PairsOf("raw", "validation")),
                    NormalizePair(p) = NormalizePair(q), IsValidLength(NormalizePair(p))
             PROVE  FALSE
  BY DEF ValidatedSplitIsLeakFree
<1>1. Written("train") /\ Written("validation")
  BY DEF CorpusInv, LeaksInv, IsReadable, Written, Splits
<1>2. \A split \in Splits : /\ PairsOf("raw", split) \in Lines
                            /\ PairsOf("clean", split) = CleanPairs(PairsOf("raw", split))
  BY <1>1, CleanedPairs DEF CorpusInv, Splits
<1>3. \A split \in Splits :
          /\ PairsOf("clean", split) \in Seq({ NormalizePair(r) : r \in ToSet(PairsOf("raw", split)) })
          /\ ToSet(PairsOf("clean", split)) =
             { pair \in { NormalizePair(r) : r \in ToSet(PairsOf("raw", split)) } :
                  IsValidLength(pair) }
  BY <1>2, CleanPairsFacts DEF Lines
<1>4. /\ NormalizePair(p) \in ToSet(PairsOf("clean", "train"))
      /\ NormalizePair(p) \in ToSet(PairsOf("clean", "validation"))
  BY <1>3 DEF Splits
<1>5. ExactPairOverlap(PairsOf("clean", "train"), PairsOf("clean", "validation")) = << >>
  BY DEF CorpusInv, LeaksInv
<1> QED
  BY <1>3, <1>4, <1>5, OverlapIsFound DEF Splits
(* Pairs of normal, distinct, valid texts are what cleaning leaves alone.   *)
LEMMA CleanPairsKeeps ==
  ASSUME NEW X, NEW pairs \in Seq(X), IsInjective(pairs),
         \A i \in DOMAIN pairs : NormalizePair(pairs[i]) = pairs[i] /\ IsValidLength(pairs[i])
  PROVE  CleanPairs(pairs) = pairs
<1>1. [i \in DOMAIN pairs |-> NormalizePair(pairs[i])] = pairs
  <2>1. pairs = [i \in DOMAIN pairs |-> pairs[i]]
    OBVIOUS
  <2> QED
    BY <2>1
<1>2. Firsts(pairs) = pairs
  BY FirstsFacts
<1>3. { i \in DOMAIN pairs : IsValidLength(pairs[i]) } = DOMAIN pairs
  OBVIOUS
<1>4. Kept(pairs, DOMAIN pairs) = pairs
  BY KeptAll
<1> QED
  BY <1>1, <1>2, <1>3, <1>4 DEF CleanPairs, DeduplicatePairs, FilterPairsByLength

(* A raw line that is read has two fields, each a text.                     *)
LEMMA RawFields ==
  ASSUME FilesInv, NEW split \in Splits, IsReadable("raw", split),
         NEW p \in ToSet(PairsOf("raw", split))
  PROVE  p[1] \in Strings /\ p[2] \in Strings
<1> DEFINE file == files["raw"][split]
           I == { i \in DOMAIN file : ~IsBlankLine(file[i]) }
<1>1. file \in Lines /\ IsWellFormed(file)
  BY RawCorporaAssumption DEF FilesInv, IsReadable, Lines
<1>2. ToSet(Kept(file, I)) = { file[i] : i \in I }
  <2>1. I \in SUBSET DOMAIN file
    OBVIOUS
  <2> HIDE DEF I, file
  <2> QED
    BY <1>1, <2>1, KeptElements DEF Lines
<1>3. PICK i \in I : p = file[i]
  <2>1. p \in ToSet(Kept(file, I))
    BY DEF PairsOf, ReadTsvPairs, ContentLines
  <2> HIDE DEF I, file
  <2> QED
    BY <1>2, <2>1
<1>4. Len(p) = 2 /\ p \in Seq(Seq(Characters))
  <2>1. i \in DOMAIN file /\ ~IsBlankLine(file[i])
    OBVIOUS
  <2> HIDE DEF I, file
  <2>2. Len(file[i]) = 2
    BY <1>1, <2>1 DEF IsWellFormed
  <2>3. file[i] \in Seq(Seq(Characters))
    BY <1>1, <2>1 DEF Lines
  <2> QED
    BY <1>3, <2>2, <2>3
<1>5. p[1] \in Seq(Characters) /\ p[2] \in Seq(Characters)
  <2> DEFINE T == Seq(Characters)
  <2>1. Len(p) = 2 /\ p \in Seq(T)
    BY <1>4
  <2> HIDE DEF T
  <2>2. 1 \in 1 .. Len(p) /\ 2 \in 1 .. Len(p)
    BY <2>1
  <2>3. p[1] \in T /\ p[2] \in T
    BY <2>1, <2>2, ElementOf
  <2> QED
    BY <2>3 DEF T
<1> QED
  BY <1>5 DEF Strings

LEMMA Settled == CorpusInv => CleanedIsSettled
<1> SUFFICES ASSUME CorpusInv, NEW split \in Splits, Written(split)
             PROVE  /\ IsReadable("clean", split)
                    /\ CleanPairs(PairsOf("clean", split)) = PairsOf("clean", split)
  BY DEF CleanedIsSettled
<1> DEFINE raw == PairsOf("raw", split)
           clean == PairsOf("clean", split)
           forms == { NormalizePair(p) : p \in ToSet(raw) }
<1>1. /\ IsReadable("clean", split) /\ IsReadable("raw", split)
      /\ raw \in Lines /\ clean = CleanPairs(raw)
  BY CleanedPairs DEF CorpusInv, FilesInv
<1>2. /\ clean \in Seq(forms) /\ IsInjective(clean)
      /\ ToSet(clean) = { pair \in forms : IsValidLength(pair) }
  <2> HIDE DEF raw, clean
  <2> QED
    BY <1>1, CleanPairsFacts DEF Lines
<1>3. ASSUME NEW i \in DOMAIN clean
      PROVE  NormalizePair(clean[i]) = clean[i] /\ IsValidLength(clean[i])
  <2>1. clean[i] \in forms /\ IsValidLength(clean[i])
    <3> HIDE DEF clean, forms
    <3> QED
      BY <1>2 DEF ToSet
  <2>2. PICK p \in ToSet(raw) : clean[i] = NormalizePair(p)
    <3> HIDE DEF clean
    <3> QED
      BY <2>1
  <2>3. p[1] \in Strings /\ p[2] \in Strings
    BY <1>1, RawFields DEF CorpusInv
  <2>4. /\ NormalizeText(NormalizeText(p[1])) = NormalizeText(p[1])
        /\ NormalizeText(NormalizeText(p[2])) = NormalizeText(p[2])
    BY <2>3, NormalizeIsNormal, NormalIsKept
  <2>5. NormalizePair(NormalizePair(p)) = NormalizePair(p)
    BY <2>4 DEF NormalizePair
  <2> QED
    BY <2>1, <2>2, <2>5
<1>4. CleanPairs(clean) = clean
  <2> HIDE DEF clean, forms
  <2> QED
    BY <1>2, <1>3, CleanPairsKeeps
<1> QED
  BY <1>1, <1>4
=============================================================================
