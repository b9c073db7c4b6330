----------------------- MODULE TrainingWorkbenchProofs -----------------------
(***************************************************************************)
(* The workbench, proved for every alphabet, corpus, base vocabulary, run   *)
(* and bound its constants may stand for.                                   *)
(***************************************************************************)
EXTENDS TrainingWorkbench, CorpusPipelineProofs

-----------------------------------------------------------------------------
(* The corpus: every other action leaves the files alone and reports no     *)
(* leak, so the invariant of the pipeline is one of the workbench.          *)

LEMMA DiagnoseKeepsFiles ==
  Diagnose => /\ UNCHANGED << files, job, artifacts, checkpoints >>
              /\ outcome'.kind \in {"alignment", "dialect", "rectify"}
<1> SUFFICES ASSUME Diagnose
             PROVE  /\ UNCHANGED << files, job, artifacts, checkpoints >>
                    /\ outcome'.kind \in {"alignment", "dialect", "rectify"}
  OBVIOUS
<1>1. UNCHANGED << files, job, artifacts, checkpoints >>
  BY DEF Diagnose, lineageVars
<1>2. ASSUME NEW similarity, AnalyzeAlignmentSignal(similarity, 3)
      PROVE  outcome'.kind = "alignment"
  BY <1>2 DEF AnalyzeAlignmentSignal
<1>3. ASSUME NEW points, AnalyzeDialectSignal(points) PROVE outcome'.kind = "dialect"
  BY <1>3 DEF AnalyzeDialectSignal
<1>4. ASSUME NEW probs, NEW delta, Rectify(probs, delta) PROVE outcome'.kind = "rectify"
  BY <1>4 DEF Rectify
<1> QED
  BY <1>1, <1>2, <1>3, <1>4 DEF Diagnose

LEMMA LineageKeepsFiles ==
  LineageNext => UNCHANGED files /\ outcome'.kind \in {"nothing", "evaluation", "answer"}
<1> SUFFICES ASSUME LineageNext
             PROVE  UNCHANGED files /\ outcome'.kind \in {"nothing", "evaluation", "answer"}
  OBVIOUS
<1>1. ASSUME NEW args \in TrainingRuns, NEW init \in 0 .. Len(artifacts),
             StartTrainingJob(args, init)
      PROVE  UNCHANGED files /\ outcome'.kind = "nothing"
  BY <1>1 DEF StartTrainingJob, NothingYet
<1>2. ASSUME ExtendVocabularyForExamples
      PROVE  UNCHANGED files /\ outcome'.kind = "nothing"
  BY <1>2 DEF ExtendVocabularyForExamples, NothingYet
<1>3. ASSUME FineTuneEpoch
      PROVE  UNCHANGED files /\ outcome'.kind = "nothing"
  BY <1>3 DEF FineTuneEpoch, NothingYet
<1>4. ASSUME SaveModelAndTokenizer
      PROVE  UNCHANGED files /\ outcome'.kind = "nothing"
  BY <1>4 DEF SaveModelAndTokenizer, NothingYet
<1>5. ASSUME NEW spelling \in Spellings, GenerateBatch(spelling)
      PROVE  UNCHANGED files /\ outcome'.kind = "nothing"
  BY <1>5 DEF GenerateBatch, NothingYet
<1>6. ASSUME WriteModelCard
      PROVE  UNCHANGED files /\ outcome'.kind = "nothing"
  BY <1>6 DEF WriteModelCard, NothingYet
<1>7. ASSUME JobDies
      PROVE  UNCHANGED files /\ outcome'.kind = "nothing"
  BY <1>7 DEF JobDies, NothingYet
<1>8. ASSUME NEW n \in 1 .. AverageN, AverageCheckpoints(n)
      PROVE  UNCHANGED files /\ outcome'.kind = "nothing"
  BY <1>8 DEF AverageCheckpoints, NothingYet
<1>9. ASSUME NEW a \in DOMAIN artifacts, NEW corpus \in Stages, NEW direction \in Directions,
             EvaluateCheckpoint(a, corpus, direction)
      PROVE  UNCHANGED files /\ outcome'.kind = "evaluation"
  BY <1>9 DEF EvaluateCheckpoint
<1>10. ASSUME NEW a \in DOMAIN artifacts, NEW request \in Requests, Serve(a, request)
       PROVE  UNCHANGED files /\ outcome'.kind = "answer"
  BY <1>10 DEF Serve
<1> QED
  BY <1>1, <1>2, <1>3, <1>4, <1>5, <1>6, <1>7, <1>8, <1>9, <1>10 DEF LineageNext

LEMMA CorpusInvInductive ==
  /\ Init => CorpusInv
  /\ CorpusInv /\ [Next]_vars => CorpusInv'
<1>1. Init => CorpusInv
  BY CorpusInitInv DEF Init
<1>2. ASSUME CorpusInv, Diagnose PROVE CorpusInv'
  BY <1>2, DiagnoseKeepsFiles, CorpusStutterInv
<1>3. ASSUME CorpusInv, CorpusNext PROVE CorpusInv'
  BY <1>3, CorpusNextInv
<1>4. ASSUME CorpusInv, LineageNext PROVE CorpusInv'
  BY <1>4, LineageKeepsFiles, CorpusStutterInv
<1>5. ASSUME CorpusInv, UNCHANGED vars PROVE CorpusInv'
  BY <1>5, CorpusStutterInv DEF vars
<1> QED
  BY <1>1, <1>2, <1>3, <1>4, <1>5 DEF Next

THEOREM CorpusIsInvariant == Spec => []CorpusInv
BY CorpusInvInductive, PTL DEF Spec

(* Cleaning a cleaned file changes nothing, whatever the corpus.            *)
THEOREM CleanedFilesAreSettled == Spec => []CleanedIsSettled
BY CorpusIsInvariant, Settled, PTL

(* Cleaning loses and invents no sentence pair, whatever the corpus.        *)
THEOREM NothingIsLostInCleaning == Spec => []CleaningLosesNothing
BY CorpusIsInvariant, LosesNothing, PTL

(* A cleaned split found free of exact overlap hides no leak.               *)
THEOREM ValidatedSplitsAreLeakFree == Spec => []ValidatedSplitIsLeakFree
BY CorpusIsInvariant, LeakFree, PTL

-----------------------------------------------------------------------------
(* What can be read stays as it is.                                         *)

LEMMA FilesStay ==
  ASSUME CorpusInv, [Next]_vars, NEW corpus \in Stages, NEW split \in Splits,
         IsReadable(corpus, split)
  PROVE  IsReadable(corpus, split)' /\ PairsOf(corpus, split)' = PairsOf(corpus, split)
<1>1. CASE UNCHANGED files
  BY <1>1 DEF IsReadable, PairsOf
<1>2. ASSUME NEW s \in Splits, CleanCorpusFile(s)
      PROVE  files'[corpus][split] = files[corpus][split]
  <2>1. files' = [files EXCEPT !["clean"][s] = WriteTsvPairs(CleanPairs(PairsOf("raw", s)))]
    BY <1>2 DEF CleanCorpusFile
  <2>2. /\ files = [raw |-> files.raw, clean |-> files.clean] /\ DOMAIN files.clean = Splits
        /\ Written(s) => files.clean[s] = CleanPairs(PairsOf("raw", s))
    BY DEF CorpusInv, FilesInv
  <2>3. CASE corpus = "clean" /\ split = s
    <3>1. Written(s)
      BY <2>3 DEF IsReadable, Written
    <3> QED
      BY <2>1, <2>2, <2>3, <3>1 DEF WriteTsvPairs
  <2>4. CASE corpus # "clean" \/ split # s
    BY <2>1, <2>2, <2>4 DEF Stages
  <2> QED
    BY <2>3, <2>4
<1>3. CASE CorpusNext
  <2>1. CASE \E s \in Splits : CleanCorpusFile(s)
    BY <1>2, <2>1 DEF IsReadable, PairsOf
  <2>2. CASE \E stage \in Stages : ValidateSplitFiles(stage)
    BY <1>1, <2>2 DEF ValidateSplitFiles
  <2> QED
    BY <1>3, <2>1, <2>2 DEF CorpusNext
<1>4. Diagnose \/ LineageNext \/ UNCHANGED vars => UNCHANGED files
  BY DiagnoseKeepsFiles, LineageKeepsFiles DEF vars
<1> QED
  BY <1>1, <1>3, <1>4 DEF Next

LEMMA PairsFacts ==
  ASSUME CorpusInv, NEW corpus \in Stages, NEW split \in Splits, IsReadable(corpus, split)
  PROVE  PairsOf(corpus, split) \in Seq(Strings \X Strings)
<1> DEFINE Pairs == Strings \X Strings
           raw == PairsOf("raw", split)
           file == files["raw"][split]
           I == { i \in DOMAIN file : ~IsBlankLine(file[i]) }
<1>1. ASSUME IsReadable("raw", split) PROVE raw \in Seq(Pairs)
  <2>1. raw \in Lines
    BY <1>1, RawPairs DEF CorpusInv
  <2>2. \A p \in ToSet(raw) : p \in Pairs
    <3> SUFFICES ASSUME NEW p \in ToSet(raw) PROVE p \in Pairs
      OBVIOUS
    <3>1. p[1] \in Strings /\ p[2] \in Strings
      BY <1>1, RawFields DEF CorpusInv
    <3>2. file \in Lines /\ IsWellFormed(file)
      BY <1>1, RawCorporaAssumption DEF CorpusInv, FilesInv, IsReadable, Lines
    <3>3. ToSet(Kept(file, I)) = { file[i] : i \in I }
      <4>1. I \in SUBSET DOMAIN file
        OBVIOUS
      <4> HIDE DEF I, file
      <4> QED
        BY <3>2, <4>1, KeptElements DEF Lines
    <3>4. p \in ToSet(Kept(file, I))
      BY DEF PairsOf, ReadTsvPairs, ContentLines
    <3>5. PICK i \in I : p = file[i]
      <4> HIDE DEF I, file
      <4> QED
        BY <3>3, <3>4
    <3>6. i \in DOMAIN file /\ ~IsBlankLine(file[i])
      OBVIOUS
    <3> HIDE DEF I, file, raw
    <3>7. Len(p) = 2 /\ p \in Seq(Seq(Characters))
      BY <3>2, <3>5, <3>6 DEF IsWellFormed, Lines
    <3> QED
      BY <3>1, <3>7
  <2> HIDE DEF raw, Pairs
  <2> QED
    BY <2>1, <2>2 DEF Lines, ToSet
<1>2. CASE corpus = "raw"
  BY <1>1, <1>2
<1>3. CASE corpus = "clean"
  <2>1. /\ Written(split) /\ IsReadable("raw", split)
        /\ PairsOf("clean", split) = CleanPairs(raw)
    <3>1. Written(split)
      BY <1>3 DEF IsReadable, Written
    <3> QED
      BY <3>1, CleanedPairs DEF CorpusInv, FilesInv
  <2>2. raw \in Seq(Pairs)
    BY <1>1, <2>1
  <2>3. CleanPairs(raw) \in Seq({ NormalizePair(p) : p \in ToSet(raw) })
    <3> HIDE DEF raw, Pairs
    <3> QED
      BY <2>2, CleanPairsFacts
  <2>4. { NormalizePair(p) : p \in ToSet(raw) } \subseteq Pairs
    <3> SUFFICES ASSUME NEW p \in ToSet(raw) PROVE NormalizePair(p) \in Pairs
      OBVIOUS
    <3>1. p[1] \in Strings /\ p[2] \in Strings
      BY <2>1, RawFields DEF CorpusInv
    <3> QED
      BY <3>1, NormalizeIsNormal DEF NormalizePair
  <2> DEFINE forms == { NormalizePair(p) : p \in ToSet(raw) }
  <2>5. CleanPairs(raw) \in Seq(Pairs)
    <3>1. CleanPairs(raw) \in Seq(forms) /\ forms \subseteq Pairs
      BY <2>3, <2>4
    <3> HIDE DEF raw, Pairs, forms
    <3> QED
      BY <3>1
  <2> QED
    BY <1>3, <2>1, <2>5
<1> QED
  BY <1>2, <1>3 DEF Stages

-----------------------------------------------------------------------------
(* Finite sets of texts, and the tokens they call for.                      *)

LEMMA ImageIsFinite ==
  ASSUME NEW S, IsFiniteSet(S), NEW f, DOMAIN f = S
  PROVE  IsFiniteSet({ f[x] : x \in S })
<1> DEFINE g == [x \in S |-> f[x]]
<1>1. g \in Surjection(S, { f[x] : x \in S })
  BY DEF Surjection
<1> QED
  BY <1>1, FS_Surjection

LEMMA ToSetIsFinite ==
  ASSUME NEW X, NEW s \in Seq(X)
  PROVE  IsFiniteSet(ToSet(s)) /\ ToSet(s) \subseteq X
<1>1. Len(s) \in Nat /\ DOMAIN s = 1 .. Len(s)
  OBVIOUS
<1>2. IsFiniteSet(1 .. Len(s))
  BY <1>1, IntervalSize
<1>3. ToSet(s) = { s[i] : i \in 1 .. Len(s) }
  BY <1>1 DEF ToSet
<1>4. IsFiniteSet({ s[i] : i \in 1 .. Len(s) })
  BY <1>1, <1>2, ImageIsFinite
<1> QED
  BY <1>1, <1>3, <1>4 DEF ToSet

(* The tokens some texts call for, whatever is known already, and the whole  *)
(* words among those a vocabulary does not have.                             *)
Candidates(texts) ==
    { << c >> : c \in { d \in UNION { ToSet(text) : text \in texts } : d \notin Spaces } }
    \cup UNION { ToSet(Words(text)) : text \in texts }
NewWords(texts, vocab) == { t \in Candidates(texts) \ ToSet(vocab) : Len(t) > 1 }

LEMMA SeqGrows ==
  ASSUME NEW X, NEW Y, X \subseteq Y, NEW s \in Seq(X)
  PROVE  s \in Seq(Y)
OBVIOUS

LEMMA WordsAreTexts ==
  ASSUME NEW text \in Strings
  PROVE  ToSet(Words(text)) \subseteq Strings /\ IsFiniteSet(ToSet(Words(text)))
<1>1. Words(text) \in Seq(Strings)
  BY WordsFacts DEF Strings
<1> QED
  BY <1>1, ToSetIsFinite

LEMMA CandidatesFacts ==
  ASSUME NEW texts \in SUBSET Strings, IsFiniteSet(texts)
  PROVE  Candidates(texts) \subseteq Strings /\ IsFiniteSet(Candidates(texts))
<1> DEFINE letters == UNION { ToSet(text) : text \in texts }
           inked == { d \in letters : d \notin Spaces }
           singles == { << c >> : c \in inked }
           words == UNION { ToSet(Words(text)) : text \in texts }
<1>1. letters \subseteq Characters /\ IsFiniteSet(letters)
  <2> DEFINE f == [text \in texts |-> ToSet(text)]
  <2>1. \A text \in texts : ToSet(text) \subseteq Characters /\ IsFiniteSet(ToSet(text))
    BY ToSetIsFinite DEF Strings
  <2>2. IsFiniteSet({ f[text] : text \in texts })
    BY ImageIsFinite
  <2>3. letters = UNION { f[text] : text \in texts }
    OBVIOUS
  <2>4. \A T \in { f[text] : text \in texts } : IsFiniteSet(T)
    BY <2>1
  <2>5. IsFiniteSet(UNION { f[text] : text \in texts })
    <3> DEFINE F == { f[text] : text \in texts }
    <3>1. IsFiniteSet(F) /\ \A T \in F : IsFiniteSet(T)
      BY <2>2, <2>4
    <3> HIDE DEF F
    <3>2. IsFiniteSet(UNION F)
      BY <3>1, FS_UNION
    <3> QED
      BY <3>2 DEF F
  <2> QED
    BY <2>1, <2>3, <2>5
<1>2. singles \subseteq Strings /\ IsFiniteSet(singles)
  <2> DEFINE g == [c \in inked |-> << c >>]
  <2>1. inked \subseteq Characters /\ IsFiniteSet(inked)
    BY <1>1, FS_Subset
  <2>2. IsFiniteSet({ g[c] : c \in inked })
    <3> HIDE DEF inked
    <3> QED
      BY <2>1, ImageIsFinite
  <2>3. singles = { g[c] : c \in inked }
    OBVIOUS
  <2>4. singles \subseteq Seq(Characters)
    <3> HIDE DEF inked
    <3>1. \A c \in inked : << c >> \in Seq(Characters)
      BY <2>1
    <3> QED
      BY <3>1
  <2> QED
    BY <2>2, <2>3, <2>4 DEF Strings
<1>3. words \subseteq Strings /\ IsFiniteSet(words)
  <2> DEFINE F == { ToSet(Words(text)) : text \in texts }
             f == [text \in texts |-> ToSet(Words(text))]
  <2>1. F = { f[text] : text \in texts }
    OBVIOUS
  <2>2. IsFiniteSet({ f[text] : text \in texts })
    BY ImageIsFinite
  <2>3. \A T \in F : T \subseteq Strings /\ IsFiniteSet(T)
    BY WordsAreTexts
  <2>4. IsFiniteSet(F)
    BY <2>1, <2>2
  <2> HIDE DEF F
  <2>5. IsFiniteSet(UNION F) /\ UNION F \subseteq Strings
    BY <2>3, <2>4, FS_UNION
  <2> QED
    BY <2>5 DEF F
<1>4. Candidates(texts) = singles \cup words
  BY DEF Candidates
<1> HIDE DEF singles, words
<1> QED
  BY <1>2, <1>3, <1>4, FS_Union

LEMMA CandidatesGrow ==
  ASSUME NEW texts, NEW more, texts \subseteq more
  PROVE  Candidates(texts) \subseteq Candidates(more)
BY DEF Candidates

LEMMA SelectedTokens ==
  ASSUME NEW S \in SUBSET Strings, IsFiniteSet(S), NEW vocab
  PROVE  /\ SelectNewTokens(S, vocab) \in Seq(Strings)
         /\ ToSet(SelectNewTokens(S, vocab)) = S \ ToSet(vocab)
         /\ IsInjective(SelectNewTokens(S, vocab))
         /\ Len(SelectNewTokens(S, vocab)) = Cardinality(S \ ToSet(vocab))
<1> DEFINE new == S \ ToSet(vocab)
<1>1. new \in SUBSET Strings /\ IsFiniteSet(new)
  BY FS_Subset
<1> HIDE DEF new
<1>2. /\ SortedBy(new, Precedes) \in Seq(new)
      /\ ToSet(SortedBy(new, Precedes)) = new
      /\ IsInjective(SortedBy(new, Precedes))
      /\ Len(SortedBy(new, Precedes)) = Cardinality(new)
  BY <1>1, SortedTexts DEF Strings
<1>3. SortedBy(new, Precedes) \in Seq(Strings)
  BY <1>1, <1>2
<1> QED
  BY <1>2, <1>3 DEF SelectNewTokens, new

(* The tokens compute_new_tokens_for_texts returns are the candidates the     *)
(* vocabulary does not have, each once.                                      *)
LEMMA NewTokens ==
  ASSUME NEW texts \in SUBSET Strings, IsFiniteSet(texts), NEW vocab
  PROVE  LET new == ComputeNewTokensForTexts(texts, vocab)
         IN  /\ new \in Seq(Strings) /\ IsInjective(new)
             /\ ToSet(new) = Candidates(texts) \ ToSet(vocab)
             /\ Len(new) = Cardinality(Candidates(texts) \ ToSet(vocab))
             /\ SelectWholeWordTokens(new) = NewWords(texts, vocab)
<1> DEFINE found == FindMissingCharacters(texts, ToSet(vocab))
                        \cup FindMissingWords(texts, ToSet(vocab))
           new == ComputeNewTokensForTexts(texts, vocab)
<1>1. found = Candidates(texts) \ ToSet(vocab)
  BY DEF FindMissingCharacters, FindMissingWords, Candidates
<1>2. found \in SUBSET Strings /\ IsFiniteSet(found)
  <2> HIDE DEF found
  <2> QED
    BY <1>1, CandidatesFacts, FS_Subset
<1>3. new = SelectNewTokens(found, vocab)
  BY DEF ComputeNewTokensForTexts
<1> HIDE DEF found, new
<1>4. /\ new \in Seq(Strings) /\ IsInjective(new)
      /\ ToSet(new) = found \ ToSet(vocab)
      /\ Len(new) = Cardinality(found \ ToSet(vocab))
  BY <1>2, <1>3, SelectedTokens
<1>5. found \ ToSet(vocab) = Candidates(texts) \ ToSet(vocab)
  BY <1>1
<1>6. SelectWholeWordTokens(new) = NewWords(texts, vocab)
  BY <1>4, <1>5 DEF SelectWholeWordTokens, NewWords
<1> QED
  BY <1>4, <1>5, <1>6 DEF new

LEMMA NewPieces ==
  ASSUME NEW pieces \in Seq(Strings), NEW vocab
  PROVE  LET new == ComputeNewSubwordTokens(pieces, vocab)
         IN  new \in Seq(Strings) /\ IsInjective(new) /\ ToSet(new) \cap ToSet(vocab) = {}
<1> DEFINE S == SelectHighValueSubwords(pieces)
<1>1. S \in SUBSET Strings /\ IsFiniteSet(S)
  BY ToSetIsFinite, FS_Subset DEF SelectHighValueSubwords
<1> HIDE DEF S
<1>2. /\ SelectNewTokens(S, vocab) \in Seq(Strings)
      /\ ToSet(SelectNewTokens(S, vocab)) = S \ ToSet(vocab)
      /\ IsInjective(SelectNewTokens(S, vocab))
  BY <1>1, SelectedTokens
<1> QED
  BY <1>2 DEF ComputeNewSubwordTokens, S

(* The texts of a corpus.                                                   *)
LEMMA PairTexts ==
  ASSUME NEW pairs \in Seq(Strings \X Strings)
  PROVE  /\ { pairs[i][2] : i \in DOMAIN pairs } \subseteq Strings
         /\ IsFiniteSet({ pairs[i][2] : i \in DOMAIN pairs })
         /\ UNION { ToSet(pairs[i]) : i \in DOMAIN pairs } \subseteq Strings
         /\ IsFiniteSet(UNION { ToSet(pairs[i]) : i \in DOMAIN pairs })
         /\ { pairs[i][2] : i \in DOMAIN pairs } \subseteq UNION { ToSet(pairs[i]) : i \in DOMAIN pairs }
<1> DEFINE Pairs == Strings \X Strings
           both == { ToSet(pairs[i]) : i \in DOMAIN pairs }
           right == { pairs[i][2] : i \in DOMAIN pairs }
<1>1. IsFiniteSet(DOMAIN pairs) /\ \A i \in DOMAIN pairs : pairs[i] \in Pairs
  <2> HIDE DEF Pairs
  <2>1. pairs \in Seq(Pairs)
    BY DEF Pairs
  <2>2. Len(pairs) \in Nat /\ DOMAIN pairs = 1 .. Len(pairs) /\ \A i \in DOMAIN pairs : pairs[i] \in Pairs
    BY <2>1
  <2> QED
    BY <2>2, IntervalSize
<1>2. \A i \in DOMAIN pairs : /\ ToSet(pairs[i]) = {pairs[i][1], pairs[i][2]}
                              /\ pairs[i][1] \in Strings /\ pairs[i][2] \in Strings
  <2> SUFFICES ASSUME NEW i \in DOMAIN pairs
               PROVE  /\ ToSet(pairs[i]) = {pairs[i][1], pairs[i][2]}
                      /\ pairs[i][1] \in Strings /\ pairs[i][2] \in Strings
    OBVIOUS
  <2>1. PICK e \in Strings, c \in Strings : pairs[i] = << e, c >>
    BY <1>1
  <2> QED
    BY <2>1 DEF ToSet
<1>3. IsFiniteSet(right)
  <2> DEFINE f == [i \in DOMAIN pairs |-> pairs[i][2]]
  <2>1. IsFiniteSet({ f[i] : i \in DOMAIN pairs })
    <3>1. DOMAIN f = DOMAIN pairs
      OBVIOUS
    <3> HIDE DEF f
    <3> QED
      BY ONLY <1>1, <3>1, ImageIsFinite
  <2> QED
    BY <2>1
<1>4. IsFiniteSet(both)
  <2> DEFINE f == [i \in DOMAIN pairs |-> ToSet(pairs[i])]
  <2>1. IsFiniteSet({ f[i] : i \in DOMAIN pairs })
    <3>1. DOMAIN f = DOMAIN pairs
      OBVIOUS
    <3> HIDE DEF f
    <3> QED
      BY ONLY <1>1, <3>1, ImageIsFinite
  <2> QED
    BY <2>1
<1>5. \A T \in both : T \subseteq Strings /\ IsFiniteSet(T)
  <2> SUFFICES ASSUME NEW i \in DOMAIN pairs
               PROVE  ToSet(pairs[i]) \subseteq Strings /\ IsFiniteSet(ToSet(pairs[i]))
    OBVIOUS
  <2>1. IsFiniteSet({pairs[i][1]} \cup {pairs[i][2]})
    BY FS_Singleton, FS_Union
  <2>2. {pairs[i][1]} \cup {pairs[i][2]} = ToSet(pairs[i])
    BY <1>2
  <2> QED
    BY <1>2, <2>1, <2>2
<1>6. right \subseteq UNION both
  BY <1>2
<1>7. UNION both \subseteq Strings /\ IsFiniteSet(UNION both)
  <2> HIDE DEF both
  <2> QED
    BY <1>4, <1>5, FS_UNION
<1> QED
  BY <1>3, <1>6, <1>7

LEMMA TagsAreTexts == DirectionTags \subseteq Strings /\ IsFiniteSet(DirectionTags)
<1>1. DirectionTags = {DirectionTag["es"]} \cup {DirectionTag["cak"]}
  BY DEF DirectionTags, Langs
<1>2. IsFiniteSet({DirectionTag["es"]} \cup {DirectionTag["cak"]})
  BY FS_Singleton, FS_Union
<1> QED
  BY <1>1, <1>2, TagAssumption DEF Strings

LEMMA SampleFacts ==
  ASSUME NEW pairs \in Seq(Strings \X Strings), NEW scoping
  PROVE  LET texts == TrainSampleTexts(pairs, scoping)
         IN  /\ texts \subseteq Strings /\ IsFiniteSet(texts)
             /\ TrainSampleTexts(pairs, KaqchikelOnly) \subseteq texts
<1> DEFINE right == { pairs[i][2] : i \in DOMAIN pairs }
           both == UNION { ToSet(pairs[i]) : i \in DOMAIN pairs }
<1>1. /\ right \subseteq Strings /\ IsFiniteSet(right)
      /\ both \subseteq Strings /\ IsFiniteSet(both) /\ right \subseteq both
  BY PairTexts
<1>2. /\ TrainSampleTexts(pairs, KaqchikelOnly) = right \cup DirectionTags
      /\ TrainSampleTexts(pairs, scoping) = (IF scoping = KaqchikelOnly THEN right ELSE both) \cup DirectionTags
  BY DEF TrainSampleTexts
<1> HIDE DEF right, both
<1>3. IsFiniteSet(right \cup DirectionTags) /\ IsFiniteSet(both \cup DirectionTags)
  BY <1>1, TagsAreTexts, FS_Union
<1> QED
  BY <1>1, <1>2, <1>3, TagsAreTexts

(* A direction is trained on every pair, in one or in both directions.       *)
LEMMA ExamplesFacts ==
  ASSUME NEW X, NEW pairs \in Seq(X), NEW direction \in Directions
  PROVE  LET examples == BuildDirectionExamples(pairs, direction)
             Made == { Example(pair, "es", "cak") : pair \in ToSet(pairs) }
                         \cup { Example(pair, "cak", "es") : pair \in ToSet(pairs) }
         IN  /\ examples \in Seq(Made)
             /\ Len(examples) >= Len(pairs)
             /\ \A pair \in ToSet(pairs) : \/ Example(pair, "es", "cak") \in ToSet(examples)
                                           \/ Example(pair, "cak", "es") \in ToSet(examples)
<1> DEFINE examples == BuildDirectionExamples(pairs, direction)
           Made == { Example(pair, "es", "cak") : pair \in ToSet(pairs) }
                       \cup { Example(pair, "cak", "es") : pair \in ToSet(pairs) }
           there == [i \in DOMAIN pairs |-> Example(pairs[i], "es", "cak")]
           back == [i \in DOMAIN pairs |-> Example(pairs[i], "cak", "es")]
<1>1. Len(pairs) \in Nat /\ DOMAIN pairs = 1 .. Len(pairs)
  OBVIOUS
<1>2. /\ there \in Seq(Made) /\ Len(there) = Len(pairs)
      /\ back \in Seq(Made) /\ Len(back) = Len(pairs)
  <2>1. \A i \in 1 .. Len(pairs) : Example(pairs[i], "es", "cak") \in Made
                                   /\ Example(pairs[i], "cak", "es") \in Made
    BY <1>1 DEF ToSet
  <2> HIDE DEF Made
  <2> QED
    BY <1>1, <2>1
<1>3. \A pair \in ToSet(pairs) : /\ Example(pair, "es", "cak") \in ToSet(there)
                                 /\ Example(pair, "cak", "es") \in ToSet(back)
  BY <1>1 DEF ToSet
<1>4. /\ there \o << >> = there /\ << >> \o back = back
      /\ there \o back \in Seq(Made) /\ Len(there \o back) = Len(there) + Len(back)
      /\ ToSet(there) \subseteq ToSet(there \o back)
  <2> HIDE DEF Made, there, back
  <2>1. there \in Seq(Made) /\ back \in Seq(Made)
    BY <1>2
  <2> QED
    BY <2>1, ConcatFacts
<1>5. \/ examples = there /\ direction = "es->cak"
      \/ examples = back /\ direction = "cak->es"
      \/ examples = there \o back /\ direction = "both"
  <2>1. examples = (IF direction \in {"es->cak", "both"} THEN there ELSE << >>)
                      \o (IF direction \in {"cak->es", "both"} THEN back ELSE << >>)
    BY DEF BuildDirectionExamples
  <2> HIDE DEF examples, there, back
  <2> QED
    BY <1>4, <2>1 DEF Directions
<1>6. /\ examples \in Seq(Made) /\ Len(examples) >= Len(pairs)
      /\ \A pair \in ToSet(pairs) : \/ Example(pair, "es", "cak") \in ToSet(examples)
                                    \/ Example(pair, "cak", "es") \in ToSet(examples)
  <2> HIDE DEF examples, there, back, Made
  <2>1. CASE examples = there
    BY <1>1, <1>2, <1>3, <2>1
  <2>2. CASE examples = back
    BY <1>1, <1>2, <1>3, <2>2
  <2>3. CASE examples = there \o back
    <3>1. \A pair \in ToSet(pairs) : Example(pair, "es", "cak") \in ToSet(there \o back)
      BY <1>3, <1>4
    <3>2. Len(there \o back) >= Len(pairs)
      BY <1>1, <1>2, <1>4
    <3> QED
      BY <1>4, <2>3, <3>1, <3>2
  <2> QED
    BY <1>5, <2>1, <2>2, <2>3
<1> QED
  BY <1>6

(* Whatever the direction, the Kaqchikel side of a training set is the        *)
(* Kaqchikel column of its pairs.                                            *)
LEMMA KaqchikelTexts ==
  ASSUME NEW X, NEW pairs \in Seq(X), NEW direction \in Directions
  PROVE  CollectTextsForLanguage(BuildDirectionExamples(pairs, direction), "cak")
             = { pairs[i][2] : i \in DOMAIN pairs }
<1> DEFINE examples == BuildDirectionExamples(pairs, direction)
           texts == CollectTextsForLanguage(examples, "cak")
           Made == { Example(pair, "es", "cak") : pair \in ToSet(pairs) }
                       \cup { Example(pair, "cak", "es") : pair \in ToSet(pairs) }
<1>1. /\ examples \in Seq(Made)
      /\ \A pair \in ToSet(pairs) : \/ Example(pair, "es", "cak") \in ToSet(examples)
                                    \/ Example(pair, "cak", "es") \in ToSet(examples)
  BY ExamplesFacts
<1>2. \A e \in Made : \E pair \in ToSet(pairs) :
          \/ e.from = "cak" /\ e.to = "es" /\ e.source = pair[2]
          \/ e.from = "es" /\ e.to = "cak" /\ e.target = pair[2]
  <2>1. \A pair \in ToSet(pairs) :
            /\ Example(pair, "cak", "es").from = "cak" /\ Example(pair, "cak", "es").to = "es"
            /\ Example(pair, "cak", "es").source = pair[2]
            /\ Example(pair, "es", "cak").from = "es" /\ Example(pair, "es", "cak").to = "cak"
            /\ Example(pair, "es", "cak").target = pair[2]
    BY DEF Example
  <2> QED
    BY <2>1
<1>3. \A pair \in ToSet(pairs) : /\ Example(pair, "cak", "es").from = "cak" /\ Example(pair, "cak", "es").source = pair[2]
                                 /\ Example(pair, "es", "cak").to = "cak" /\ Example(pair, "es", "cak").target = pair[2]
  BY DEF Example
<1>4. texts = { examples[i].source : i \in { k \in DOMAIN examples : examples[k].from = "cak" } }
              \cup { examples[i].target : i \in { k \in DOMAIN examples : examples[k].to = "cak" } }
  BY DEF CollectTextsForLanguage
<1>5. \A i \in DOMAIN examples : examples[i] \in Made
  <2> HIDE DEF examples, Made
  <2> QED
    BY <1>1
<1>6. \A e \in ToSet(examples) : \E i \in DOMAIN examples : examples[i] = e
  BY DEF ToSet
<1>7. ToSet(pairs) = { pairs[i] : i \in DOMAIN pairs }
  BY DEF ToSet
<1> HIDE DEF examples, Made, texts
<1>8. ASSUME NEW t \in texts PROVE \E pair \in ToSet(pairs) : t = pair[2]
  <2>1. PICK i \in DOMAIN examples : \/ examples[i].from = "cak" /\ t = examples[i].source
                                     \/ examples[i].to = "cak" /\ t = examples[i].target
    BY <1>4
  <2> QED
    BY <1>2, <1>5, <2>1
<1>9. ASSUME NEW pair \in ToSet(pairs) PROVE pair[2] \in texts
  <2>1. CASE Example(pair, "es", "cak") \in ToSet(examples)
    BY <1>3, <1>4, <1>6, <2>1
  <2>2. CASE Example(pair, "cak", "es") \in ToSet(examples)
    BY <1>3, <1>4, <1>6, <2>2
  <2> QED
    BY <1>1, <2>1, <2>2
<1>10. texts = { pairs[i][2] : i \in DOMAIN pairs }
  BY <1>7, <1>8, <1>9
<1> QED
  BY <1>10 DEF texts, examples

-----------------------------------------------------------------------------
(* What is read back from a card.                                           *)

(* A card has one line of a key, with this value, or none when there is none. *)
LineIs(card, key, value) ==
    { line \in ToSet(card) : line[1] = key } = IF value = Absent THEN {} ELSE {<< key, value >>}

LEMMA FirstLineOf ==
  ASSUME NEW X, NEW card \in Seq(X), NEW key, NEW value, LineIs(card, key, value)
  PROVE  FirstLine(card, key) = value
<1> DEFINE I == { i \in 1 .. Len(card) : card[i][1] = key }
           at == SelectInSeq(card, LAMBDA line : line[1] = key)
           lines == { line \in ToSet(card) : line[1] = key }
<1>1. Len(card) \in Nat /\ DOMAIN card = 1 .. Len(card)
  OBVIOUS
<1>2. lines = IF value = Absent THEN {} ELSE {<< key, value >>}
  BY DEF LineIs
<1>3. \A i \in I : card[i] \in lines
  BY <1>1 DEF ToSet
<1>4. \A line \in lines : \E i \in I : card[i] = line
  BY <1>1 DEF ToSet
<1>5. FirstLine(card, key) = IF at = 0 THEN Absent ELSE card[at][2]
  BY DEF FirstLine
<1>6. at = IF I # {} THEN Min(I) ELSE 0
  BY DEF SelectInSeq
<1>7. CASE value = Absent
  <2>1. I = {}
    <3> HIDE DEF lines, I
    <3> QED
      BY <1>2, <1>3, <1>7
  <2>2. at = 0
    BY <1>6, <2>1
  <2> HIDE DEF at
  <2> QED
    BY <1>5, <1>7, <2>2
<1>8. CASE value # Absent
  <2>1. I # {} /\ \A i \in I : card[i] = << key, value >>
    <3> HIDE DEF lines, I
    <3> QED
      BY <1>2, <1>3, <1>4, <1>8
  <2>2. Min(I) \in I
    <3>1. I \in SUBSET Nat
      BY <1>1
    <3> HIDE DEF I
    <3> QED
      BY <2>1, <3>1, MinIsLeast
  <2>3. at = Min(I)
    BY <1>6, <2>1
  <2>4. at # 0 /\ card[at] = << key, value >>
    <3>1. I \subseteq 1 .. Len(card)
      OBVIOUS
    <3> HIDE DEF at, I
    <3>2. at \in I
      BY <2>2, <2>3
    <3> QED
      BY <1>1, <2>1, <3>1, <3>2
  <2> HIDE DEF at
  <2> QED
    BY <1>5, <2>4
<1> QED
  BY <1>7, <1>8

LEMMA NoCardIsSilent == \A key : FirstLine(NoCard, key) = Absent
<1> SUFFICES ASSUME NEW key PROVE FirstLine(NoCard, key) = Absent
  OBVIOUS
<1>1. NoCard \in Seq({}) /\ ToSet(NoCard) = {}
  BY DEF NoCard, ToSet
<1> QED
  BY <1>1, FirstLineOf DEF LineIs

LEMMA ReportedFacts ==
  ASSUME NEW key, NEW value
  PROVE  /\ Reported(key, value) \in Seq({<< key, value >>})
         /\ ToSet(Reported(key, value)) = IF value = Absent THEN {} ELSE {<< key, value >>}
<1>1. CASE value = Absent
  BY <1>1 DEF Reported, ToSet
<1>2. CASE value # Absent
  <2>1. Reported(key, value) = << << key, value >> >>
    BY <1>2 DEF Reported
  <2> QED
    BY <1>2, <2>1 DEF ToSet
<1> QED
  BY <1>1, <1>2

(* A card says of the job what the job reported, whatever its scores.         *)
LEMMA CardFacts ==
  ASSUME NEW j, NEW predictions, NEW references, NEW X, NEW directions \in Seq(X)
  PROVE  LET card == RunEvaluation(predictions, references, directions, Hyperparameters(j))
         IN  /\ card # NoCard
             /\ FirstLine(card, "new_tokens_added") = j.added
             /\ FirstLine(card, "embedding_init_compositional_coverage") = j.coverage
             /\ FirstLine(card, "vocab_extension_scoping") = j.scoping
<1> DEFINE A == Reported("new_tokens_added", j.added)
           B == Reported("embedding_init_compositional_coverage", j.coverage)
           C == Reported("vocab_extension_scoping", j.scoping)
           card == RunEvaluation(predictions, references, directions, Hyperparameters(j))
<1>1. PICK metrics, byDirection :
          /\ card = Hyperparameters(j) \o << << "BLEU", metrics >> >>
                        \o [k \in DOMAIN byDirection |-> << "BLEU", byDirection[k][2] >>]
          /\ \E n \in Nat : DOMAIN byDirection = 1 .. n
  <2> DEFINE hyp == ReadLines(predictions)
             ref == ReadLines(references)
             dir == ReadLines(directions)
             by == ComputeMetricsByDirection(hyp, ref, dir)
  <2>1. card = Hyperparameters(j) \o << << "BLEU", ComputeMetrics(hyp, ref) >> >>
                        \o [k \in DOMAIN by |-> << "BLEU", by[k][2] >>]
    BY DEF RunEvaluation, RenderModelCard
  <2>2. dir \in Seq(ToSet(dir))
    <3>1. dir = [i \in 1 .. Len(directions) |-> Strip(directions[i])] /\ Len(directions) \in Nat
      BY DEF ReadLines
    <3> HIDE DEF dir
    <3> QED
      BY <3>1 DEF ToSet
  <2>3. Firsts(dir) \in Seq(ToSet(dir))
    BY <2>2, FirstsFacts
  <2>4. DOMAIN by = DOMAIN Firsts(dir)
    BY DEF ComputeMetricsByDirection
  <2>5. \E n \in Nat : DOMAIN by = 1 .. n
    BY <2>3, <2>4
  <2> HIDE DEF by
  <2> QED
    BY <2>1, <2>5
<1> DEFINE D == [k \in DOMAIN byDirection |-> << "BLEU", byDirection[k][2] >>]
           E == << << "BLEU", metrics >> >>
           Scores == ToSet(D) \cup {<< "BLEU", metrics >>}
           U == {<< "new_tokens_added", j.added >>,
                 << "embedding_init_compositional_coverage", j.coverage >>,
                 << "vocab_extension_scoping", j.scoping >>} \cup Scores
<1>2. card = ((A \o B) \o C) \o E \o D
  BY <1>1 DEF Hyperparameters
<1>3. D \in Seq(U) /\ E \in Seq(U) /\ ToSet(E) = {<< "BLEU", metrics >>}
  <2>1. PICK n \in Nat : DOMAIN byDirection = 1 .. n
    BY <1>1
  <2>2. D = [k \in 1 .. n |-> << "BLEU", byDirection[k][2] >>]
    BY <2>1
  <2>3. \A k \in 1 .. n : D[k] \in U
    BY <2>1 DEF ToSet
  <2>4. << "BLEU", metrics >> \in U
    OBVIOUS
  <2> HIDE DEF U
  <2> QED
    BY <2>2, <2>3, <2>4 DEF ToSet
<1>4. A \in Seq(U) /\ B \in Seq(U) /\ C \in Seq(U)
  <2>1. /\ A \in Seq({<< "new_tokens_added", j.added >>})
        /\ B \in Seq({<< "embedding_init_compositional_coverage", j.coverage >>})
        /\ C \in Seq({<< "vocab_extension_scoping", j.scoping >>})
    BY ReportedFacts
  <2>2. /\ {<< "new_tokens_added", j.added >>} \subseteq U
        /\ {<< "embedding_init_compositional_coverage", j.coverage >>} \subseteq U
        /\ {<< "vocab_extension_scoping", j.scoping >>} \subseteq U
    OBVIOUS
  <2> HIDE DEF U, A, B, C
  <2> QED
    BY <2>1, <2>2, SeqGrows
<1>5. card \in Seq(U) /\ ToSet(card) = ToSet(A) \cup ToSet(B) \cup ToSet(C) \cup ToSet(E) \cup ToSet(D)
  <2> HIDE DEF U, A, B, C, D, E, card
  <2> DEFINE P == A \o B
             Q == P \o C
             R == Q \o E
  <2>1. P \in Seq(U) /\ ToSet(P) = ToSet(A) \cup ToSet(B)
    BY <1>4, ConcatFacts
  <2> HIDE DEF P
  <2>2. Q \in Seq(U) /\ ToSet(Q) = ToSet(P) \cup ToSet(C)
    BY <1>4, <2>1, ConcatFacts
  <2> HIDE DEF Q
  <2>3. R \in Seq(U) /\ ToSet(R) = ToSet(Q) \cup ToSet(E)
    BY <1>3, <2>2, ConcatFacts
  <2> HIDE DEF R
  <2>4. R \o D \in Seq(U) /\ ToSet(R \o D) = ToSet(R) \cup ToSet(D)
    BY <1>3, <2>3, ConcatFacts
  <2>5. card = R \o D
    BY <1>2 DEF P, Q, R
  <2> QED
    BY <2>1, <2>2, <2>3, <2>4, <2>5
<1>6. \A line \in ToSet(D) \cup ToSet(E) : line[1] = "BLEU"
  <2>1. \A line \in ToSet(D) : line[1] = "BLEU"
    BY DEF ToSet
  <2> QED
    BY <1>3, <2>1
<1>7. /\ ToSet(A) = IF j.added = Absent THEN {} ELSE {<< "new_tokens_added", j.added >>}
      /\ ToSet(B) = IF j.coverage = Absent THEN {}
                    ELSE {<< "embedding_init_compositional_coverage", j.coverage >>}
      /\ ToSet(C) = IF j.scoping = Absent THEN {}
                    ELSE {<< "vocab_extension_scoping", j.scoping >>}
  BY ReportedFacts
<1>8. card # NoCard
  <2>1. << "BLEU", metrics >> \in ToSet(card)
    BY <1>3, <1>5
  <2> QED
    BY <2>1 DEF ToSet, NoCard
<1> HIDE DEF A, B, C, D, E, U, card
<1>9. FirstLine(card, "new_tokens_added") = j.added
  <2>1. { line \in ToSet(card) : line[1] = "new_tokens_added" } = ToSet(A)
    BY <1>5, <1>6, <1>7
  <2>2. LineIs(card, "new_tokens_added", j.added)
    BY <1>7, <2>1 DEF LineIs
  <2> QED
    BY <1>5, <2>2, FirstLineOf
<1>10. FirstLine(card, "embedding_init_compositional_coverage") = j.coverage
  <2>1. { line \in ToSet(card) : line[1] = "embedding_init_compositional_coverage" } = ToSet(B)
    BY <1>5, <1>6, <1>7
  <2>2. LineIs(card, "embedding_init_compositional_coverage", j.coverage)
    BY <1>7, <2>1 DEF LineIs
  <2> QED
    BY <1>5, <2>2, FirstLineOf
<1>11. FirstLine(card, "vocab_extension_scoping") = j.scoping
  <2>1. { line \in ToSet(card) : line[1] = "vocab_extension_scoping" } = ToSet(C)
    BY <1>5, <1>6, <1>7
  <2>2. LineIs(card, "vocab_extension_scoping", j.scoping)
    BY <1>7, <2>1 DEF LineIs
  <2> QED
    BY <1>5, <2>2, FirstLineOf
<1> QED
  BY <1>8, <1>9, <1>10, <1>11 DEF card

-----------------------------------------------------------------------------
(* What holds of every model directory, of the job and of the checkpoints.  *)

Tokens == ToSet(BaseVocab) \cup Strings

IsVocabulary(vocab) ==
    vocab \in Seq(Tokens) /\ IsInjective(vocab) /\ ToSet(BaseVocab) \subseteq ToSet(vocab)

SampleTexts(corpus, scoping) == TrainSampleTexts(PairsOf(corpus, "train"), scoping)

(* A model directory, whoever wrote it.                                      *)
IsDirectory(dir) ==
    /\ DOMAIN dir = {"vocab", "rows", "weights", "card", "direction", "composed", "past"}
    /\ DOMAIN dir.weights = {"spelling", "epochs"} /\ dir.weights.spelling \in Spellings
    /\ DOMAIN dir.past = {"runs", "corpora", "words", "carded", "asked"}
    /\ IsVocabulary(dir.vocab)
    /\ dir.rows \in Seq(Tokens) /\ Len(dir.rows) >= Len(dir.vocab)
    /\ dir.past.runs \in 1 .. MaxJobs
    /\ dir.past.corpora \subseteq Stages /\ dir.past.corpora # {}
    /\ dir.past.words \subseteq ToSet(dir.vocab)

(* Its weights are those of the last epochs of its run.                      *)
LastEpochs(n) == [k \in 1 .. n |-> Epochs - n + k]

IsAverage(dir) ==
    /\ dir.past.asked \in Nat \ {0}
    /\ dir.weights.epochs = LastEpochs(Min({dir.past.asked, Epochs}))

(* The corpora whose training file reads.                                    *)
Readable == { corpus \in Stages : IsReadable(corpus, "train") }

ArtifactsInv ==
    /\ artifacts \in Seq(ToSet(artifacts))
    /\ \A a \in 1 .. Len(artifacts) :
           /\ IsDirectory(artifacts[a]) /\ IsAverage(artifacts[a])
           /\ artifacts[a].past.corpora \subseteq Readable

Source(init) == IF init = 0 THEN BaseModel ELSE artifacts[init]

(* The job as it was started: it reads a corpus that does not change, and the *)
(* directory it continues from is there.                                     *)
StartedInv ==
    /\ DOMAIN job = {"stage", "args", "init", "scoping", "train", "val", "tokenizer", "rows",
                     "mode", "words", "added", "composed", "coverage", "epoch", "features",
                     "pending", "hypotheses"}
    /\ job.stage \in {"loaded", "extended", "training", "saved"}
    /\ job.args \in TrainingRuns
    /\ \A split \in Splits : IsReadable(job.args.corpus, split)
    /\ PairsOf(job.args.corpus, "train") # << >>
    /\ job.train = BuildDirectionExamples(PairsOf(job.args.corpus, "train"), job.args.direction)
    /\ job.val = BuildDirectionExamples(PairsOf(job.args.corpus, "validation"), job.args.direction)
    /\ job.init \in 0 .. Len(artifacts) /\ Past(job.init).runs < MaxJobs
    /\ job.stage = "saved" => job.init < Len(artifacts)
    /\ job.scoping = VocabExtensionScoping(job.init)

(* Its tokenizer: the vocabulary of that directory, then the added tokens.   *)
(* Every token the Kaqchikel texts call for is in it.                        *)
TokenizerInv ==
    LET source == Source(job.init)
        texts == SampleTexts(job.args.corpus, KaqchikelOnly)
    IN  IF job.stage = "loaded"
        THEN job.tokenizer = [vocab |-> source.vocab, marks |-> {}] /\ job.rows = source.rows
        ELSE /\ IsVocabulary(job.tokenizer.vocab)
             /\ ToSet(source.vocab) \cup Candidates(texts) \subseteq ToSet(job.tokenizer.vocab)
             /\ job.words = NewWords(texts, source.vocab)
             /\ job.added = Cardinality(ToSet(job.tokenizer.vocab) \ ToSet(source.vocab))
             /\ job.added \in Nat
             /\ job.rows \in Seq(Tokens) /\ Len(job.rows) >= Len(job.tokenizer.vocab)

JobInv == job = Idle \/ (StartedInv /\ TokenizerInv)

(* The checkpoints of a run: the last epochs, one after another.             *)
AtStep(saved, steps) == saved.step = saved.epoch * steps

EpochsOf(saved, last, steps) ==
    /\ saved \in Seq(ToSet(saved))
    /\ Len(saved) = Min({last, SaveTotalLimit})
    /\ steps \in Nat \ {0}
    /\ \A i \in 1 .. Len(saved) :
           /\ saved[i].epoch = last - Len(saved) + i
           /\ AtStep(saved[i], steps)

CheckpointsInv ==
    \/ /\ checkpoints = << >> /\ job.stage \in {"idle", "loaded", "extended"}
       /\ job.stage # "idle" => job.epoch = 0
    \/ /\ job.stage = "training"
       /\ job.epoch \in 1 .. Epochs /\ EpochsOf(checkpoints, job.epoch, StepsPerEpoch(job.train))
       /\ \A i \in 1 .. Len(checkpoints) :
              checkpoints[i].dir = Len(artifacts) + 1 /\ checkpoints[i].rows = job.rows
    \/ /\ job.stage \in {"idle", "saved"} /\ \E steps \in Nat : EpochsOf(checkpoints, Epochs, steps)
       /\ \E dir \in 1 .. Len(artifacts) : \A i \in 1 .. Len(checkpoints) :
              checkpoints[i].dir = dir /\ checkpoints[i].rows = artifacts[dir].rows

CoreInv == CorpusInv /\ ArtifactsInv /\ JobInv /\ CheckpointsInv

(* The training pairs of each corpus.                                        *)
Trains == [corpus \in Stages |-> PairsOf(corpus, "train")]

(* What a card with this scoping claims of the words of a directory is true.  *)
ScopedTruly(dir, scoping, trains) ==
    scoping = KaqchikelOnly =>
        dir.past.words \subseteq
            DirectionTags \cup
            UNION { UNION { ToSet(Words(pair[2])) : pair \in ToSet(trains[corpus]) } :
                    corpus \in dir.past.corpora }

(* The words of a chain of carded jobs on one corpus are the whole words the  *)
(* base vocabulary lacks, and its directory has all that the texts call for. *)
Rebuilt(dir, scoping, trains) ==
    \A corpus \in Stages :
        dir.past.corpora = {corpus} /\ dir.past.carded =>
            LET texts == TrainSampleTexts(trains[corpus], scoping)
            IN  /\ dir.past.words = NewWords(texts, BaseVocab)
                /\ Candidates(texts) \subseteq ToSet(dir.vocab)

(* One job, and its card counts the tokens it added.                         *)
Counted(dir, added) ==
    dir.past.runs = 1 => added = Cardinality(ToSet(dir.vocab) \ ToSet(BaseVocab))

CardInv(dir, trains) ==
    LET scoping == FirstLine(dir.card, "vocab_extension_scoping")
        added == FirstLine(dir.card, "new_tokens_added")
    IN  /\ ScopedTruly(dir, scoping, trains)
        /\ dir.card # NoCard => Rebuilt(dir, scoping, trains)
        /\ added # Absent => added \in Nat /\ Counted(dir, added)

(* Until its card is written, a directory owes what the card will say.        *)
SavedInv ==
    job.stage = "saved" =>
        LET dir == artifacts[Len(artifacts)]
        IN  /\ dir.card = NoCard
            /\ dir.vocab = job.tokenizer.vocab
            /\ ScopedTruly(dir, job.scoping, Trains)
            /\ Rebuilt(dir, job.scoping, Trains)
            /\ Counted(dir, job.added)

CardsInv == (\A a \in 1 .. Len(artifacts) : CardInv(artifacts[a], Trains)) /\ SavedInv

(* The hypotheses of a saved model, sentence by sentence.                    *)
HypothesesInv ==
    job.stage = "saved" =>
        job.hypotheses \in Seq(ToSet(job.hypotheses)) /\ Len(job.hypotheses) = Len(job.val)

(* What a training job feeds its model is made of its examples.              *)
FeaturesInv ==
    job.stage = "training" =>
        job.features = [i \in DOMAIN job.train |->
            Features(job.tokenizer.vocab, job.train[i], job.args.sampling)]

(* A card reports the coverage of the rows that were composed, as the job and *)
(* its directory know it before the card is written.                         *)
IsCovered(composed, coverage) == coverage # Absent => coverage = composed

CoverageOfCard(card) == FirstLine(card, "embedding_init_compositional_coverage")

CoverageInv ==
    /\ \A a \in 1 .. Len(artifacts) :
           IsCovered(artifacts[a].composed, CoverageOfCard(artifacts[a].card))
    /\ job.stage # "idle" => IsCovered(job.composed, job.coverage)
    /\ job.stage = "saved" => artifacts[Len(artifacts)].composed = job.composed

(* What an evaluation reported is about the directory as it is.              *)
OutcomeInv ==
    /\ outcome.kind \in {"nothing", "leaks", "evaluation", "answer",
                         "alignment", "dialect", "rectify"}
    /\ outcome.kind \in {"evaluation", "answer"} => outcome.artifact \in 1 .. Len(artifacts)
    /\ outcome.kind = "evaluation" =>
        LET dir == artifacts[outcome.artifact]
            scoping == FirstLine(dir.card, "vocab_extension_scoping")
            added == FirstLine(dir.card, "new_tokens_added")
        IN  /\ outcome.corpus \in Stages /\ IsReadable(outcome.corpus, "train")
            /\ outcome.marks = NewWords(SampleTexts(outcome.corpus, scoping), BaseVocab)
            /\ outcome.warns = Diagnosis(dir.vocab, outcome.marks, added)

-----------------------------------------------------------------------------
(* Vocabularies and directories, whoever makes them.                        *)

LEMMA BlankIsText == << >> \in Strings
BY DEF Strings

LEMMA BaseIsVocabulary == IsVocabulary(BaseVocab)
<1>1. BaseVocab \in Seq(Tokens)
  <2>1. BaseVocab \in Seq(ToSet(BaseVocab)) /\ ToSet(BaseVocab) \subseteq Tokens
    BY BaseVocabAssumption DEF Tokens
  <2> QED
    BY <2>1, SeqGrows
<1> QED
  BY <1>1, BaseVocabAssumption DEF IsVocabulary

LEMMA TextsAreTokens ==
  ASSUME NEW new \in Seq(Strings)
  PROVE  new \in Seq(Tokens)
<1>1. Strings \subseteq Tokens
  BY DEF Tokens
<1> QED
  BY <1>1, SeqGrows

LEMMA BaseRowsFacts == BaseRows \in Seq(Tokens) /\ Len(BaseRows) >= Len(BaseVocab)
<1> DEFINE padding == [i \in 1 .. Padding |-> << >>]
<1>1. padding \in Seq(Tokens) /\ Len(padding) = Padding /\ Padding \in Nat
  BY BlankIsText, BaseVocabAssumption DEF Tokens
<1>2. BaseVocab \in Seq(Tokens)
  BY BaseIsVocabulary DEF IsVocabulary
<1>3. BaseRows = BaseVocab \o padding
  BY DEF BaseRows
<1> HIDE DEF padding
<1>4. BaseVocab \o padding \in Seq(Tokens) /\ Len(BaseVocab \o padding) = Len(BaseVocab) + Padding
  BY <1>1, <1>2, ConcatFacts
<1>5. Len(BaseVocab) \in Nat
  BY <1>2
<1> QED
  BY <1>1, <1>3, <1>4, <1>5

LEMMA VocabularyGrows ==
  ASSUME NEW vocab, IsVocabulary(vocab), NEW new \in Seq(Strings), IsInjective(new),
         ToSet(new) \cap ToSet(vocab) = {}
  PROVE  /\ IsVocabulary(vocab \o new) /\ ToSet(vocab \o new) = ToSet(vocab) \cup ToSet(new)
         /\ Len(vocab \o new) = Len(vocab) + Len(new)
         /\ SubSeq(vocab \o new, Len(vocab) + 1, Len(vocab \o new)) = new
         /\ Len(new) = Cardinality(ToSet(vocab \o new) \ ToSet(vocab))
<1>1. /\ vocab \in Seq(Tokens) /\ IsInjective(vocab) /\ ToSet(BaseVocab) \subseteq ToSet(vocab)
      /\ new \in Seq(Tokens)
  BY TextsAreTokens DEF IsVocabulary
<1>2. /\ vocab \o new \in Seq(Tokens) /\ ToSet(vocab \o new) = ToSet(vocab) \cup ToSet(new)
      /\ Len(vocab \o new) = Len(vocab) + Len(new)
      /\ SubSeq(vocab \o new, Len(vocab) + 1, Len(vocab \o new)) = new
  BY <1>1, ConcatFacts
<1>3. IsInjective(vocab \o new)
  BY <1>1, ConcatOnce
<1>4. Cardinality(ToSet(new)) = Len(new)
  BY LengthOfInjective
<1>5. ToSet(vocab \o new) \ ToSet(vocab) = ToSet(new)
  BY <1>2
<1> QED
  BY <1>1, <1>2, <1>3, <1>4, <1>5 DEF IsVocabulary

LEMMA RowsGrow ==
  ASSUME NEW vocab \in Seq(Tokens), NEW rows \in Seq(Tokens), Len(rows) >= Len(vocab),
         NEW new \in Seq(Strings)
  PROVE  rows \o new \in Seq(Tokens) /\ Len(rows \o new) >= Len(vocab) + Len(new)
<1>1. new \in Seq(Tokens)
  BY TextsAreTokens
<1>2. rows \o new \in Seq(Tokens) /\ Len(rows \o new) = Len(rows) + Len(new)
  BY <1>1, ConcatFacts
<1>3. Len(rows) \in Nat /\ Len(vocab) \in Nat /\ Len(new) \in Nat
  OBVIOUS
<1> QED
  BY <1>2, <1>3

(* The directory a legacy model left.                                        *)
LEMMA LegacyFacts ==
  ASSUME CorpusInv, IsReadable("raw", "train")
  PROVE  LET dir == LegacyArtifact(PairsOf("raw", "train"), "raw")
         IN  IsDirectory(dir) /\ IsAverage(dir) /\ dir.past.corpora = {"raw"} /\ CardInv(dir, Trains)
<1> DEFINE pairs == PairsOf("raw", "train")
           texts == LegacyTexts(pairs)
           new == ComputeNewTokensForTexts(texts, BaseVocab)
           card == << << "new_tokens_added", Len(new) >>, << "BLEU", [matches |-> 0, total |-> 0] >> >>
           dir == LegacyArtifact(pairs, "raw")
<1>1. pairs \in Seq(Strings \X Strings)
  BY PairsFacts DEF Stages, Splits
<1>2. texts = SampleTexts("raw", Absent)
  BY AbsentAssumption DEF LegacyTexts, SampleTexts, TrainSampleTexts
<1>3. texts \in SUBSET Strings /\ IsFiniteSet(texts)
  BY <1>1, <1>2, SampleFacts DEF SampleTexts
<1>4. dir = [vocab |-> BaseVocab \o new, rows |-> BaseRows \o new,
             weights |-> [spelling |-> "words", epochs |-> << Epochs >>],
             card |-> card, direction |-> "both", composed |-> 0,
             past |-> [runs |-> 1, corpora |-> {"raw"},
                       words |-> SelectWholeWordTokens(new), carded |-> TRUE, asked |-> 1]]
  BY DEF LegacyArtifact
<1> HIDE DEF texts, dir, pairs
<1>5. /\ new \in Seq(Strings) /\ IsInjective(new)
      /\ ToSet(new) = Candidates(texts) \ ToSet(BaseVocab)
      /\ SelectWholeWordTokens(new) = NewWords(texts, BaseVocab)
  BY <1>3, NewTokens
<1> HIDE DEF new
<1>6. ToSet(new) \cap ToSet(BaseVocab) = {}
  BY <1>5
<1>7. /\ IsVocabulary(BaseVocab \o new)
      /\ ToSet(BaseVocab \o new) = ToSet(BaseVocab) \cup ToSet(new)
      /\ Len(BaseVocab \o new) = Len(BaseVocab) + Len(new)
      /\ Len(new) = Cardinality(ToSet(BaseVocab \o new) \ ToSet(BaseVocab))
  BY <1>5, <1>6, BaseIsVocabulary, VocabularyGrows
<1>8. BaseRows \o new \in Seq(Tokens) /\ Len(BaseRows \o new) >= Len(BaseVocab \o new)
  BY <1>5, <1>7, RowsGrow, BaseRowsFacts, BaseIsVocabulary DEF IsVocabulary
<1>9. NewWords(texts, BaseVocab) \subseteq ToSet(new)
  BY <1>5 DEF NewWords
<1>10. /\ DOMAIN dir = {"vocab", "rows", "weights", "card", "direction", "composed", "past"}
       /\ DOMAIN dir.weights = {"spelling", "epochs"} /\ dir.weights.spelling = "words"
       /\ dir.weights.epochs = << Epochs >>
       /\ DOMAIN dir.past = {"runs", "corpora", "words", "carded", "asked"}
       /\ dir.vocab = BaseVocab \o new /\ dir.rows = BaseRows \o new /\ dir.card = card
       /\ dir.past.runs = 1 /\ dir.past.corpora = {"raw"} /\ dir.past.carded /\ dir.past.asked = 1
       /\ dir.past.words = NewWords(texts, BaseVocab)
  BY <1>4, <1>5
<1> HIDE DEF card
<1>11. IsDirectory(dir) /\ IsAverage(dir)
  <2>1. Epochs \in Nat \ {0} /\ 1 \in 1 .. MaxJobs
    BY NumbersAssumption
  <2>2. << Epochs >> = LastEpochs(1)
    BY <2>1 DEF LastEpochs
  <2>3. IsAverage(dir)
    <3>1. Min({dir.past.asked, Epochs}) = 1
      BY <1>10, <2>1, MinOfTwo
    <3> QED
      BY <1>10, <2>2, <3>1 DEF IsAverage
  <2>4. NewWords(texts, BaseVocab) \subseteq ToSet(BaseVocab \o new)
    BY <1>7, <1>9
  <2>5. dir.weights.spelling \in Spellings /\ dir.past.corpora \subseteq Stages
    BY <1>10 DEF Spellings, Stages
  <2>6. IsDirectory(dir)
    BY <1>7, <1>8, <1>10, <2>1, <2>4, <2>5 DEF IsDirectory
  <2> QED
    BY <2>3, <2>6
<1>12. /\ FirstLine(card, "vocab_extension_scoping") = Absent
       /\ FirstLine(card, "new_tokens_added") = Len(new)
  <2> DEFINE metrics == [matches |-> 0, total |-> 0]
             X == {<< "new_tokens_added", Len(new) >>, << "BLEU", metrics >>}
  <2> HIDE DEF metrics
  <2>1. card = << << "new_tokens_added", Len(new) >>, << "BLEU", metrics >> >>
    BY DEF card, metrics
  <2>2. card \in Seq(X) /\ ToSet(card) = X
    BY <2>1 DEF ToSet
  <2>3. Len(new) # Absent
    BY <1>5, AbsentAssumption
  <2>4. /\ LineIs(card, "vocab_extension_scoping", Absent)
        /\ LineIs(card, "new_tokens_added", Len(new))
    BY <2>2, <2>3 DEF LineIs
  <2> QED
    BY <2>2, <2>4, FirstLineOf
<1>13. CardInv(dir, Trains)
  <2>1. dir.card = card /\ dir.past.runs = 1 /\ dir.past.corpora = {"raw"} /\ dir.past.carded
        /\ dir.past.words = NewWords(texts, BaseVocab) /\ dir.vocab = BaseVocab \o new
    BY <1>10
  <2>2. ScopedTruly(dir, Absent, Trains)
    BY AbsentAssumption DEF ScopedTruly
  <2>3. Rebuilt(dir, Absent, Trains)
    <3> SUFFICES ASSUME NEW corpus \in Stages, dir.past.corpora = {corpus}
                 PROVE  LET sample == TrainSampleTexts(Trains[corpus], Absent)
                        IN  /\ dir.past.words = NewWords(sample, BaseVocab)
                            /\ Candidates(sample) \subseteq ToSet(dir.vocab)
      BY DEF Rebuilt
    <3>1. corpus = "raw" /\ TrainSampleTexts(Trains[corpus], Absent) = SampleTexts("raw", Absent)
      BY <2>1 DEF Trains, SampleTexts
    <3>2. Candidates(texts) \subseteq ToSet(BaseVocab \o new)
      BY <1>5, <1>7
    <3> QED
      BY <1>2, <2>1, <3>1, <3>2
  <2>4. Len(new) \in Nat
    BY <1>5
  <2>5. Counted(dir, Len(new))
    BY <1>7, <2>1 DEF Counted
  <2> QED
    BY <1>12, <2>1, <2>2, <2>3, <2>4, <2>5 DEF CardInv
<1> QED
  BY <1>10, <1>11, <1>13 DEF dir, pairs

LEMMA InitInv == Init => CoreInv /\ CardsInv /\ HypothesesInv /\ OutcomeInv
<1> SUFFICES ASSUME Init PROVE CoreInv /\ CardsInv /\ HypothesesInv /\ OutcomeInv
  OBVIOUS
<1>1. CorpusInv /\ job = Idle /\ job.stage = "idle" /\ checkpoints = << >> /\ outcome.kind = "nothing"
  BY CorpusInitInv DEF Init, CorpusInit, LineageInit, Idle, NothingYet
<1> DEFINE legacy == LegacyArtifact(PairsOf("raw", "train"), "raw")
<1>2. artifacts = << >> \/ (IsReadable("raw", "train") /\ artifacts = << legacy >>)
  BY DEF Init, LineageInit
<1>3. artifacts = << >> => ArtifactsInv /\ CardsInv
  BY <1>1 DEF ArtifactsInv, CardsInv, SavedInv, ToSet
<1>4. ASSUME IsReadable("raw", "train"), artifacts = << legacy >> PROVE ArtifactsInv /\ CardsInv
  <2>1. IsDirectory(legacy) /\ IsAverage(legacy) /\ legacy.past.corpora = {"raw"} /\ CardInv(legacy, Trains)
    BY <1>1, <1>4, LegacyFacts
  <2> HIDE DEF legacy
  <2>2. Len(artifacts) = 1 /\ artifacts[1] = legacy /\ artifacts \in Seq(ToSet(artifacts))
    BY <1>4 DEF ToSet
  <2>3. \A a \in 1 .. Len(artifacts) : artifacts[a] = legacy
    BY <2>2
  <2> QED
    BY <1>1, <1>4, <2>1, <2>2, <2>3 DEF ArtifactsInv, CardsInv, SavedInv, Readable, Stages
<1>5. JobInv /\ CheckpointsInv /\ HypothesesInv /\ OutcomeInv
  BY <1>1 DEF JobInv, CheckpointsInv, HypothesesInv, OutcomeInv
<1> QED
  BY <1>1, <1>2, <1>3, <1>4, <1>5 DEF CoreInv

-----------------------------------------------------------------------------
(* What a step that leaves it alone leaves true.                            *)

LEMMA ReadableStays ==
  ASSUME CorpusInv, [Next]_vars
  PROVE  Readable \subseteq Readable'
BY FilesStay DEF Readable, Splits

LEMMA ArtifactsStay ==
  ASSUME CorpusInv, ArtifactsInv, [Next]_vars, artifacts' = artifacts
  PROVE  ArtifactsInv'
<1>1. Readable \subseteq Readable'
  BY ReadableStays
<1> QED
  BY <1>1 DEF ArtifactsInv

LEMMA ArtifactsAdded ==
  ASSUME CorpusInv, ArtifactsInv, [Next]_vars, NEW dir, artifacts' = Append(artifacts, dir),
         IsDirectory(dir), IsAverage(dir), dir.past.corpora \subseteq Readable
  PROVE  /\ ArtifactsInv'
         /\ Len(artifacts) \in Nat /\ Len(artifacts') = Len(artifacts) + 1
         /\ artifacts'[Len(artifacts')] = dir
         /\ \A a \in 1 .. Len(artifacts) : artifacts'[a] = artifacts[a]
<1>1. Readable \subseteq Readable'
  BY ReadableStays
<1> DEFINE X == ToSet(artifacts) \cup {dir}
<1>2. artifacts \in Seq(ToSet(artifacts)) /\ ToSet(artifacts) \subseteq X /\ dir \in X
  BY DEF ArtifactsInv
<1>3. artifacts \in Seq(X) /\ Len(artifacts) \in Nat
  BY <1>2, SeqGrows
<1>4. /\ artifacts' \in Seq(X) /\ Len(artifacts') = Len(artifacts) + 1
      /\ \A a \in 1 .. Len(artifacts) : artifacts'[a] = artifacts[a]
      /\ artifacts'[Len(artifacts) + 1] = dir
  <2> HIDE DEF X
  <2> QED
    BY <1>2, <1>3, AppendFacts
<1>5. artifacts' \in Seq(ToSet(artifacts'))
  <2> HIDE DEF X
  <2> QED
    BY <1>4 DEF ToSet
<1>6. \A a \in 1 .. Len(artifacts') : a \in 1 .. Len(artifacts) \/ a = Len(artifacts) + 1
  BY <1>3, <1>4
<1> QED
  BY <1>1, <1>3, <1>4, <1>5, <1>6 DEF ArtifactsInv

(* What the job was started with, and what was there, is still so.           *)
KeepsStart ==
    /\ DOMAIN job' = DOMAIN job /\ job'.args = job.args /\ job'.init = job.init
    /\ job'.scoping = job.scoping /\ job'.train = job.train /\ job'.val = job.val
KeepsDirectories ==
    /\ Len(artifacts) \in Nat /\ Len(artifacts') \in Nat /\ Len(artifacts') >= Len(artifacts)
    /\ \A a \in 1 .. Len(artifacts) : artifacts'[a] = artifacts[a]
KeepsTokenizer ==
    /\ job'.tokenizer = job.tokenizer /\ job'.rows = job.rows
    /\ job'.words = job.words /\ job'.added = job.added

LEMMA StartedFacts ==
  ASSUME StartedInv
  PROVE  /\ job.args.corpus \in Stages /\ job.args.direction \in Directions
         /\ job.args.spelling \in Spellings /\ job.args.pieces \in Seq(Strings)
         /\ IsReadable(job.args.corpus, "train") /\ IsReadable(job.args.corpus, "validation")
BY TrainingRunsAssumption DEF StartedInv, Splits, Strings

LEMMA StartedStays ==
  ASSUME CorpusInv, [Next]_vars, StartedInv, KeepsStart, KeepsDirectories,
         job'.stage \in {"loaded", "extended", "training", "saved"},
         job'.stage = "saved" => job.init < Len(artifacts')
  PROVE  StartedInv'
<1>1. \A split \in Splits : /\ IsReadable(job.args.corpus, split)'
                             /\ PairsOf(job.args.corpus, split)' = PairsOf(job.args.corpus, split)
  <2>1. \A split \in Splits : IsReadable(job.args.corpus, split)
    BY DEF StartedInv
  <2>2. job'.args = job.args /\ job.args.corpus \in Stages
    BY StartedFacts DEF KeepsStart
  <2>3. \A split \in Splits : \A corpus \in Stages : IsReadable(corpus, split) =>
            IsReadable(corpus, split)' /\ PairsOf(corpus, split)' = PairsOf(corpus, split)
    BY FilesStay
  <2> QED
    BY <2>1, <2>2, <2>3 DEF IsReadable, PairsOf
<1>2. job.init \in 0 .. Len(artifacts)
  BY DEF StartedInv
<1>3. job.init # 0 => artifacts'[job.init] = artifacts[job.init]
  BY <1>2 DEF KeepsDirectories
<1>4. Past(job.init)' = Past(job.init) /\ VocabExtensionScoping(job.init)' = VocabExtensionScoping(job.init)
  BY <1>3 DEF KeepsStart, Past, VocabExtensionScoping, Card
<1> QED
  BY <1>1, <1>2, <1>4 DEF StartedInv, KeepsStart, KeepsDirectories, Splits

LEMMA SampleStays ==
  ASSUME CorpusInv, [Next]_vars, NEW corpus \in Readable, NEW scoping
  PROVE  SampleTexts(corpus, scoping)' = SampleTexts(corpus, scoping)
BY FilesStay DEF Readable, Splits, SampleTexts

LEMMA TokenizerStays ==
  ASSUME CorpusInv, [Next]_vars, StartedInv, TokenizerInv, KeepsStart, KeepsDirectories,
         KeepsTokenizer, job.stage # "loaded", job'.stage # "loaded"
  PROVE  TokenizerInv'
<1>1. job.init # 0 => artifacts'[job.init] = artifacts[job.init]
  BY DEF KeepsDirectories, StartedInv
<1>2. Source(job.init)' = Source(job.init)
  BY <1>1 DEF Source, KeepsStart
<1>3. job.args.corpus \in Readable /\ job'.args = job.args
  BY StartedFacts DEF Readable, KeepsStart
<1>4. SampleTexts(job.args.corpus, KaqchikelOnly)' = SampleTexts(job.args.corpus, KaqchikelOnly)
  BY <1>3, SampleStays DEF SampleTexts, PairsOf
<1> QED
  BY <1>2, <1>4 DEF TokenizerInv, KeepsTokenizer

-----------------------------------------------------------------------------
(* A job starts.                                                            *)

LEMMA StartCore ==
  ASSUME CoreInv, [Next]_vars, NEW args \in TrainingRuns, NEW init \in 0 .. Len(artifacts),
         StartTrainingJob(args, init)
  PROVE  CoreInv'
<1>1. CorpusInv /\ ArtifactsInv /\ Len(artifacts) \in Nat
  BY DEF CoreInv, ArtifactsInv
<1>2. /\ DOMAIN job' = {"stage", "args", "init", "scoping", "train", "val", "tokenizer", "rows",
                     "mode", "words", "added", "composed", "coverage", "epoch", "features",
                     "pending", "hypotheses"}
      /\ job'.stage = "loaded" /\ job'.args = args /\ job'.init = init /\ job'.epoch = 0
      /\ job'.scoping = VocabExtensionScoping(init)
      /\ job'.train = BuildDirectionExamples(PairsOf(args.corpus, "train"), args.direction)
      /\ job'.val = BuildDirectionExamples(PairsOf(args.corpus, "validation"), args.direction)
      /\ job'.tokenizer = [vocab |-> Source(init).vocab, marks |-> {}]
      /\ job'.rows = Source(init).rows
  BY DEF StartTrainingJob, Source
<1>3. /\ artifacts' = artifacts /\ files' = files /\ checkpoints' = << >>
      /\ Past(init).runs < MaxJobs /\ PairsOf(args.corpus, "train") # << >>
      /\ \A split \in Splits : IsReadable(args.corpus, split)
  BY DEF StartTrainingJob
<1>4. CorpusInv' /\ ArtifactsInv'
  BY <1>1, <1>3, CorpusInvInductive, ArtifactsStay
<1>5. /\ \A split \in Splits : IsReadable(args.corpus, split)'
      /\ PairsOf(args.corpus, "train")' = PairsOf(args.corpus, "train")
      /\ PairsOf(args.corpus, "validation")' = PairsOf(args.corpus, "validation")
  BY <1>3 DEF IsReadable, PairsOf
<1>6. /\ Past(init)' = Past(init) /\ VocabExtensionScoping(init)' = VocabExtensionScoping(init)
      /\ Source(init)' = Source(init)
  BY <1>3 DEF Past, VocabExtensionScoping, Card, Source
<1>7. StartedInv'
  BY <1>1, <1>2, <1>3, <1>5, <1>6 DEF StartedInv, IsReadable, PairsOf, Past, VocabExtensionScoping, Card
<1>8. TokenizerInv'
  BY <1>2, <1>6 DEF TokenizerInv, Source
<1>9. CheckpointsInv'
  BY <1>2, <1>3 DEF CheckpointsInv
<1> QED
  BY <1>4, <1>7, <1>8, <1>9 DEF CoreInv, JobInv

-----------------------------------------------------------------------------
(* Its vocabulary is extended.                                              *)

LEMMA SourceFacts ==
  ASSUME ArtifactsInv, NEW init \in 0 .. Len(artifacts)
  PROVE  /\ IsVocabulary(Source(init).vocab) /\ Source(init).vocab \in Seq(Tokens)
         /\ Source(init).rows \in Seq(Tokens) /\ Len(Source(init).rows) >= Len(Source(init).vocab)
<1>1. CASE init = 0
  BY <1>1, BaseIsVocabulary, BaseRowsFacts DEF Source, BaseModel, IsVocabulary
<1>2. CASE init # 0
  BY <1>2 DEF Source, ArtifactsInv, IsDirectory, IsVocabulary
<1> QED
  BY <1>1, <1>2

(* The texts a job's vocabulary is extended with are those a card that claims *)
(* the scoping sends a re-evaluation to.                                     *)
LEMMA ExtensionTexts ==
  ASSUME CorpusInv, StartedInv
  PROVE  LET texts == CollectTextsForLanguage(job.train, "cak")
             sample == SampleTexts(job.args.corpus, KaqchikelOnly)
         IN  /\ texts # {} /\ texts \cup DirectionTags = sample
             /\ sample \in SUBSET Strings /\ IsFiniteSet(sample)
<1> DEFINE pairs == PairsOf(job.args.corpus, "train")
           texts == CollectTextsForLanguage(job.train, "cak")
           sample == SampleTexts(job.args.corpus, KaqchikelOnly)
<1>1. /\ pairs # << >> /\ job.train = BuildDirectionExamples(pairs, job.args.direction)
      /\ job.args.direction \in Directions
      /\ pairs \in Seq(Strings \X Strings)
  <2>1. job.args.corpus \in Stages /\ IsReadable(job.args.corpus, "train")
    BY StartedFacts
  <2>2. pairs \in Seq(Strings \X Strings)
    BY <2>1, PairsFacts DEF Splits
  <2> QED
    BY <2>2, StartedFacts DEF StartedInv
<1>2. texts = { pairs[i][2] : i \in DOMAIN pairs }
  <2> HIDE DEF pairs
  <2> DEFINE Pairs == Strings \X Strings
  <2>1. pairs \in Seq(Pairs)
    BY <1>1
  <2> HIDE DEF Pairs
  <2> QED
    BY <1>1, <2>1, KaqchikelTexts
<1>3. sample = { pairs[i][2] : i \in DOMAIN pairs } \cup DirectionTags
  BY DEF SampleTexts, TrainSampleTexts
<1>4. texts # {}
  <2> HIDE DEF pairs, texts
  <2> DEFINE Pairs == Strings \X Strings
  <2>1. pairs \in Seq(Pairs)
    BY <1>1
  <2> HIDE DEF Pairs
  <2>2. 1 \in DOMAIN pairs
    BY <1>1, <2>1
  <2> QED
    BY <1>2, <2>2
<1>5. sample \in SUBSET Strings /\ IsFiniteSet(sample)
  <2> HIDE DEF pairs
  <2> QED
    BY <1>1, SampleFacts DEF SampleTexts, pairs
<1> QED
  BY <1>2, <1>3, <1>4, <1>5

LEMMA ConcatAssociates ==
  ASSUME NEW X, NEW s \in Seq(X), NEW t \in Seq(X), NEW u \in Seq(X)
  PROVE  (s \o t) \o u = s \o (t \o u)
OBVIOUS

(* What one tokenizer extension after another comes to.                      *)
IsExtended(tokenizer, texts, pieces, words, after, added) ==
    /\ IsVocabulary(tokenizer.vocab) /\ tokenizer.marks = {}
    /\ texts \in SUBSET Strings /\ IsFiniteSet(texts) /\ pieces \in Seq(Strings)
    /\ words = ExtendTokenizerVocab(tokenizer, texts)
    /\ after = ExtendTokenizerVocabWithSubwords(words, pieces)
    /\ added = SubSeq(after.vocab, Len(tokenizer.vocab) + 1, Len(after.vocab))

Extends(vocab, texts, words, after, added) ==
    /\ words.marks = NewWords(texts, vocab)
    /\ IsVocabulary(after.vocab)
    /\ ToSet(vocab) \cup Candidates(texts) \subseteq ToSet(after.vocab)
    /\ added \in Seq(Strings) /\ Len(after.vocab) = Len(vocab) + Len(added)
    /\ Len(added) = Cardinality(ToSet(after.vocab) \ ToSet(vocab))

LEMMA ExtensionFacts ==
  ASSUME NEW tokenizer, NEW sentences, NEW pieces, NEW first, NEW second, NEW extra,
         IsExtended(tokenizer, sentences, pieces, first, second, extra)
  PROVE  Extends(tokenizer.vocab, sentences, first, second, extra)
<1> DEFINE vocab == tokenizer.vocab
           one == ComputeNewTokensForTexts(sentences, vocab)
           two == ComputeNewSubwordTokens(pieces, first.vocab)
<1>0. /\ IsVocabulary(vocab) /\ sentences \in SUBSET Strings /\ IsFiniteSet(sentences)
      /\ pieces \in Seq(Strings) /\ extra = SubSeq(second.vocab, Len(vocab) + 1, Len(second.vocab))
  BY DEF IsExtended
<1>1. first.vocab = vocab \o one /\ first.marks = SelectWholeWordTokens(one)
  BY DEF IsExtended, ExtendTokenizerVocab
<1>2. second.vocab = first.vocab \o two
  BY DEF IsExtended, ExtendTokenizerVocabWithSubwords
<1> HIDE DEF vocab
<1>3. /\ one \in Seq(Strings) /\ IsInjective(one)
      /\ ToSet(one) = Candidates(sentences) \ ToSet(vocab)
      /\ SelectWholeWordTokens(one) = NewWords(sentences, vocab)
  BY <1>0, NewTokens
<1> HIDE DEF one
<1>4. two \in Seq(Strings) /\ IsInjective(two) /\ ToSet(two) \cap ToSet(first.vocab) = {}
  BY <1>0, NewPieces
<1> HIDE DEF two
<1>5. ToSet(vocab \o one) = ToSet(vocab) \cup ToSet(one)
  BY <1>0, <1>3, VocabularyGrows
<1> DEFINE news == one \o two
<1>6. news \in Seq(Strings) /\ IsInjective(news) /\ ToSet(news) = ToSet(one) \cup ToSet(two)
  <2>1. ToSet(one) \cap ToSet(two) = {}
    BY <1>1, <1>4, <1>5
  <2> QED
    BY <1>3, <1>4, <2>1, ConcatFacts, ConcatOnce
<1>7. second.vocab = vocab \o news
  <2>1. vocab \in Seq(Tokens) /\ one \in Seq(Tokens) /\ two \in Seq(Tokens)
    BY <1>0, <1>3, <1>4, TextsAreTokens DEF IsVocabulary
  <2>2. (vocab \o one) \o two = vocab \o (one \o two)
    <3> HIDE DEF one, two, news
    <3> QED
      BY <2>1, ConcatAssociates
  <2> QED
    BY <1>1, <1>2, <2>2
<1> HIDE DEF news
<1>8. ToSet(news) \cap ToSet(vocab) = {}
  BY <1>1, <1>3, <1>4, <1>5, <1>6
<1>9. /\ IsVocabulary(vocab \o news) /\ ToSet(vocab \o news) = ToSet(vocab) \cup ToSet(news)
      /\ Len(vocab \o news) = Len(vocab) + Len(news)
      /\ SubSeq(vocab \o news, Len(vocab) + 1, Len(vocab \o news)) = news
      /\ Len(news) = Cardinality(ToSet(vocab \o news) \ ToSet(vocab))
  BY <1>0, <1>6, <1>8, VocabularyGrows
<1>10. extra = news
  BY <1>0, <1>7, <1>9
<1>11. ToSet(vocab) \cup Candidates(sentences) \subseteq ToSet(second.vocab)
  BY <1>3, <1>6, <1>7, <1>9
<1> QED
  BY <1>1, <1>3, <1>6, <1>7, <1>9, <1>10, <1>11 DEF vocab, Extends

LEMMA ExtendCore ==
  ASSUME CoreInv, [Next]_vars, ExtendVocabularyForExamples
  PROVE  CoreInv'
<1>1. CorpusInv /\ ArtifactsInv /\ Len(artifacts) \in Nat
  BY DEF CoreInv, ArtifactsInv
<1>2. job.stage = "loaded" /\ UNCHANGED << files, artifacts, checkpoints >>
  BY DEF ExtendVocabularyForExamples
<1>3. CorpusInv' /\ ArtifactsInv'
  BY <1>1, <1>2, CorpusInvInductive, ArtifactsStay
<1>4. StartedInv /\ TokenizerInv
  BY <1>2 DEF CoreInv, JobInv, Idle
<1> DEFINE before == Source(job.init).vocab
           texts == CollectTextsForLanguage(job.train, "cak")
           sample == SampleTexts(job.args.corpus, KaqchikelOnly)
           words == ExtendTokenizerVocab(job.tokenizer, texts \cup DirectionTags)
           after == ExtendTokenizerVocabWithSubwords(words, job.args.pieces)
           added == SubSeq(after.vocab, Len(before) + 1, Len(after.vocab))
<1>5. job.tokenizer = [vocab |-> before, marks |-> {}] /\ job.rows = Source(job.init).rows
  BY <1>2, <1>4 DEF TokenizerInv
<1>6. /\ texts # {} /\ texts \cup DirectionTags = sample
      /\ sample \in SUBSET Strings /\ IsFiniteSet(sample)
  BY <1>1, <1>4, ExtensionTexts
<1>7. /\ KeepsStart /\ KeepsDirectories
      /\ job'.stage = "extended" /\ job'.tokenizer = after /\ job'.words = words.marks
      /\ job'.added = Len(added) /\ job'.rows = job.rows \o added /\ job'.epoch = job.epoch
  <2>1. job.tokenizer.vocab = before
    BY <1>5
  <2> HIDE DEF before, texts
  <2>2. \E composed, coverage : job' = [job EXCEPT
               !.stage = "extended", !.tokenizer = after, !.added = Len(added),
               !.words = words.marks, !.rows = job.rows \o added,
               !.composed = composed, !.coverage = coverage]
    BY <1>6, <2>1 DEF ExtendVocabularyForExamples, ResizeEmbeddingsForNewTokens, texts
  <2>3. PICK composed, coverage : job' = [job EXCEPT
               !.stage = "extended", !.tokenizer = after, !.added = Len(added),
               !.words = words.marks, !.rows = job.rows \o added,
               !.composed = composed, !.coverage = coverage]
    BY <2>2
  <2> HIDE DEF words, after, added
  <2> QED
    BY <1>1, <1>2, <1>4, <2>3 DEF StartedInv, KeepsStart, KeepsDirectories
<1>8. StartedInv'
  BY <1>1, <1>4, <1>7, StartedStays
<1>9. /\ before \in Seq(Tokens) /\ IsVocabulary(before)
      /\ job.rows \in Seq(Tokens) /\ Len(job.rows) >= Len(before)
  BY <1>1, <1>4, <1>5, SourceFacts DEF StartedInv
<1>10. /\ words.marks = NewWords(sample, before)
       /\ IsVocabulary(after.vocab)
       /\ ToSet(before) \cup Candidates(sample) \subseteq ToSet(after.vocab)
       /\ added \in Seq(Strings) /\ Len(after.vocab) = Len(before) + Len(added)
       /\ Len(added) = Cardinality(ToSet(after.vocab) \ ToSet(before))
  <2>1. words = ExtendTokenizerVocab(job.tokenizer, sample) /\ job.tokenizer.vocab = before
        /\ job.tokenizer.marks = {}
    BY <1>5, <1>6
  <2>2. job.args.pieces \in Seq(Strings)
    BY <1>4, StartedFacts
  <2>3. /\ after = ExtendTokenizerVocabWithSubwords(words, job.args.pieces)
        /\ added = SubSeq(after.vocab, Len(before) + 1, Len(after.vocab))
    OBVIOUS
  <2>4. sample \in SUBSET Strings /\ IsFiniteSet(sample) /\ IsVocabulary(before)
    BY <1>6, <1>9
  <2> HIDE DEF before, sample, texts, words, after, added
  <2> QED
    <3>1. IsExtended(job.tokenizer, sample, job.args.pieces, words, after, added)
      BY <2>1, <2>2, <2>3, <2>4 DEF IsExtended
    <3>2. job.tokenizer.vocab = before
      BY <2>1
    <3>3. Extends(job.tokenizer.vocab, sample, words, after, added)
      BY <3>1, ExtensionFacts
    <3>4. Extends(before, sample, words, after, added)
      BY <3>2, <3>3
    <3> QED
      BY <3>4 DEF Extends
<1>11. job.rows \o added \in Seq(Tokens) /\ Len(job.rows \o added) >= Len(before) + Len(added)
  <2> HIDE DEF before, added
  <2> QED
    BY <1>9, <1>10, RowsGrow
<1>12. Source(job.init)' = Source(job.init) /\ sample' = sample
  <2>1. job.args.corpus \in Readable
    BY <1>4, StartedFacts DEF Readable
  <2> QED
    BY <1>1, <1>2, <1>7, <2>1, SampleStays DEF Source, KeepsStart, SampleTexts, PairsOf
<1>13. TokenizerInv'
  <2> DEFINE source == Source(job.init)
  <2>1. source' = source /\ before = source.vocab
    BY <1>12
  <2>2. Len(added) \in Nat
    BY <1>10
  <2> HIDE DEF source, before, words, after, added, sample
  <2> QED
    BY <1>7, <1>10, <1>11, <1>12, <2>1, <2>2 DEF TokenizerInv, source, sample
<1>14. CheckpointsInv'
  BY <1>2, <1>7 DEF CoreInv, CheckpointsInv
<1> QED
  BY <1>3, <1>8, <1>13, <1>14 DEF CoreInv, JobInv

-----------------------------------------------------------------------------
(* It is fine-tuned, epoch by epoch.                                        *)

IsTail(t, s, n) ==
    /\ Len(t) = IF Len(s) =< n THEN Len(s) ELSE n
    /\ \A i \in 1 .. Len(t) : t[i] = s[Len(s) - Len(t) + i]

LEMMA LastNFacts ==
  ASSUME NEW X, NEW s \in Seq(X), NEW n \in Nat \ {0}
  PROVE  LastN(s, n) \in Seq(X) /\ IsTail(LastN(s, n), s, n)
<1> DEFINE l == Len(s)
           m == IF l =< n THEN 1 ELSE l - n + 1
           t == SubSeq(s, m, l)
<1>1. l \in Nat
  OBVIOUS
<1>2. LastN(s, n) = t
  <2>1. Max({1, l - n + 1}) = m
    BY <1>1, MaxOfTwo
  <2> HIDE DEF m
  <2> QED
    BY <2>1 DEF LastN
<1>3. m \in 1 .. l + 1 /\ l \in m - 1 .. l /\ l - m + 1 = IF l =< n THEN l ELSE n
  BY <1>1
<1>4. t \in Seq(X) /\ Len(t) = l - m + 1 /\ \A i \in 1 .. l - m + 1 : t[i] = s[m + i - 1]
  <2> HIDE DEF m
  <2> QED
    BY <1>3, SubSeqFacts
<1>5. \A i \in 1 .. l - m + 1 : m + i - 1 = l - (l - m + 1) + i
  BY <1>1
<1> HIDE DEF m, t
<1> QED
  BY <1>1, <1>2, <1>3, <1>4, <1>5 DEF IsTail

LEMMA Grows ==
  ASSUME NEW a \in Int, NEW b \in Int, NEW c \in Nat \ {0}
  PROVE  a < b <=> a * c < b * c
OBVIOUS

LEMMA QuotientPositive ==
  ASSUME NEW n \in Nat \ {0}, NEW b \in Nat \ {0}
  PROVE  (n + b - 1) \div b \in Nat \ {0}
OBVIOUS

(* An epoch is a step or more.                                              *)
LEMMA StepsArePositive ==
  ASSUME CorpusInv, StartedInv
  PROVE  StepsPerEpoch(job.train) \in Nat \ {0}
<1> DEFINE pairs == PairsOf(job.args.corpus, "train")
           X == Strings \X Strings
           Made == { Example(pair, "es", "cak") : pair \in ToSet(pairs) }
                         \cup { Example(pair, "cak", "es") : pair \in ToSet(pairs) }
<1>1. /\ pairs \in Seq(X) /\ pairs # << >> /\ job.args.direction \in Directions
      /\ job.train = BuildDirectionExamples(pairs, job.args.direction)
  <2>1. job.args.corpus \in Stages /\ IsReadable(job.args.corpus, "train")
    BY StartedFacts
  <2>2. pairs \in Seq(X)
    BY <2>1, PairsFacts DEF Splits
  <2> QED
    BY <2>2, StartedFacts DEF StartedInv
<1> HIDE DEF X
<1>2. job.train \in Seq(Made) /\ Len(job.train) >= Len(pairs)
  <2> HIDE DEF pairs
  <2> QED
    BY <1>1, ExamplesFacts
<1> HIDE DEF pairs, Made
<1>3. Len(pairs) \in Nat \ {0} /\ Len(job.train) \in Nat
  BY <1>1, <1>2
<1>4. Len(job.train) \in Nat \ {0}
  BY <1>2, <1>3
<1> QED
  BY <1>4, QuotientPositive, NumbersAssumption DEF StepsPerEpoch

(* Retention keeps the last epochs when one more is saved.                   *)
LEMMA EpochSaved ==
  ASSUME NEW saved, NEW epoch \in Nat, NEW steps, EpochsOf(saved, epoch, steps), NEW c,
         c.epoch = epoch + 1, AtStep(c, steps),
         NEW kept, kept = Retained(Append(saved, c))
  PROVE  /\ EpochsOf(kept, epoch + 1, steps)
         /\ \A i \in 1 .. Len(kept) : kept[i] \in ToSet(saved) \cup {c}
<1> DEFINE X == ToSet(saved) \cup {c}
           all == Append(saved, c)
           n == Len(saved)
           L == SaveTotalLimit
<1>1. L \in Nat \ {0} /\ n \in Nat /\ steps \in Nat \ {0}
  BY NumbersAssumption DEF SaveTotalLimit, EpochsOf
<1>2. n = IF epoch =< L THEN epoch ELSE L
  <2> HIDE DEF L
  <2> QED
    BY <1>1, MinOfTwo DEF EpochsOf, L
<1>3. /\ all \in Seq(X) /\ Len(all) = n + 1 /\ all[n + 1] = c
      /\ \A i \in 1 .. n : all[i] = saved[i]
  <2>1. saved \in Seq(ToSet(saved)) /\ ToSet(saved) \subseteq X /\ c \in X
    BY DEF EpochsOf
  <2>2. saved \in Seq(X)
    BY <2>1, SeqGrows
  <2> HIDE DEF X
  <2> QED
    BY <2>1, <2>2, AppendFacts
<1> HIDE DEF all, L
<1>4. kept = LastN(all, L)
  BY DEF Retained, L, all
<1>5. /\ kept \in Seq(X) /\ Len(kept) = IF n + 1 =< L THEN n + 1 ELSE L
      /\ \A i \in 1 .. Len(kept) : kept[i] = all[n + 1 - Len(kept) + i]
  <2> HIDE DEF X
  <2>1. kept \in Seq(X) /\ IsTail(kept, all, L)
    BY <1>1, <1>3, <1>4, LastNFacts
  <2>2. Len(all) = n + 1
    BY <1>3
  <2> QED
    BY <2>1, <2>2 DEF IsTail
<1>6. \A i \in 1 .. n + 1 : all[i].epoch = epoch - n + i /\ AtStep(all[i], steps)
  <2> SUFFICES ASSUME NEW i \in 1 .. n + 1
               PROVE  all[i].epoch = epoch - n + i /\ AtStep(all[i], steps)
    OBVIOUS
  <2>1. CASE i = n + 1
    BY <1>1, <1>3, <2>1
  <2>2. CASE i # n + 1
    <3>1. i \in 1 .. n
      BY <1>1, <2>2
    <3>2. saved[i].epoch = epoch - n + i /\ AtStep(saved[i], steps)
      BY <3>1 DEF EpochsOf
    <3> QED
      BY <1>3, <3>1, <3>2
  <2> QED
    BY <2>1, <2>2
<1>7. Len(kept) = Min({epoch + 1, L}) /\ Len(kept) \in Nat /\ Len(kept) =< n + 1
  <2>1. Min({epoch + 1, L}) = IF epoch + 1 =< L THEN epoch + 1 ELSE L
    BY <1>1, MinOfTwo
  <2> QED
    BY <1>1, <1>2, <1>5, <2>1
<1>8. \A i \in 1 .. Len(kept) :
          kept[i].epoch = (epoch + 1) - Len(kept) + i /\ AtStep(kept[i], steps)
  <2> SUFFICES ASSUME NEW i \in 1 .. Len(kept)
               PROVE  kept[i].epoch = (epoch + 1) - Len(kept) + i /\ AtStep(kept[i], steps)
    OBVIOUS
  <2>1. n + 1 - Len(kept) + i \in 1 .. n + 1
        /\ epoch - n + (n + 1 - Len(kept) + i) = (epoch + 1) - Len(kept) + i
    <3>1. epoch \in Nat /\ i \in 1 .. Len(kept)
      OBVIOUS
    <3> QED
      BY ONLY <1>1, <1>7, <3>1
  <2>2. kept[i] = all[n + 1 - Len(kept) + i]
    BY <1>5
  <2> QED
    BY <1>6, <2>1, <2>2
<1>9. kept \in Seq(ToSet(kept)) /\ \A i \in 1 .. Len(kept) : kept[i] \in X
  <2> HIDE DEF X
  <2> QED
    BY <1>5 DEF ToSet
<1>10. EpochsOf(kept, epoch + 1, steps)
  <2> DEFINE next == epoch + 1
  <2>1. \A i \in 1 .. Len(kept) : kept[i].epoch = next - Len(kept) + i /\ AtStep(kept[i], steps)
    BY <1>8
  <2>2. Len(kept) = Min({next, SaveTotalLimit})
    BY <1>7 DEF L
  <2> HIDE DEF next
  <2>3. EpochsOf(kept, next, steps)
    BY <1>1, <1>9, <2>1, <2>2 DEF EpochsOf
  <2> QED
    BY <2>3 DEF next
<1> QED
  BY <1>9, <1>10

LEMMA FineTuneCore ==
  ASSUME CoreInv, [Next]_vars, FineTuneEpoch
  PROVE  CoreInv'
<1>1. CorpusInv /\ ArtifactsInv /\ Len(artifacts) \in Nat
  BY DEF CoreInv, ArtifactsInv
<1>2. /\ job.stage \in {"extended", "training"} /\ job.epoch < Epochs
      /\ UNCHANGED << files, artifacts >>
  BY DEF FineTuneEpoch
<1>3. CorpusInv' /\ ArtifactsInv'
  BY <1>1, <1>2, CorpusInvInductive, ArtifactsStay
<1>4. StartedInv /\ TokenizerInv
  BY <1>2 DEF CoreInv, JobInv, Idle
<1>5. /\ KeepsStart /\ KeepsDirectories /\ KeepsTokenizer
      /\ job'.stage = "training" /\ job'.epoch = job.epoch + 1
  BY <1>1, <1>2, <1>4 DEF FineTuneEpoch, StartedInv, KeepsStart, KeepsDirectories, KeepsTokenizer
<1>6. StartedInv' /\ TokenizerInv'
  BY <1>1, <1>2, <1>4, <1>5, StartedStays, TokenizerStays
<1> DEFINE steps == StepsPerEpoch(job.train)
           c == [step |-> (job.epoch + 1) * steps, rows |-> job.rows,
                 epoch |-> job.epoch + 1, dir |-> Len(artifacts) + 1]
<1>7. /\ c.epoch = job.epoch + 1 /\ c.dir = Len(artifacts) + 1 /\ c.rows = job.rows
      /\ AtStep(c, steps) /\ checkpoints' = Retained(Append(checkpoints, c))
  BY DEF FineTuneEpoch, AtStep
<1> HIDE DEF c
<1>8. /\ job.epoch \in 0 .. Epochs - 1 /\ Epochs \in Nat /\ EpochsOf(checkpoints, job.epoch, steps)
      /\ \A i \in 1 .. Len(checkpoints) :
             checkpoints[i].dir = Len(artifacts) + 1 /\ checkpoints[i].rows = job.rows
  <2>0. Epochs \in Nat \ {0} /\ SaveTotalLimit \in Nat /\ steps \in Nat \ {0}
    BY <1>1, <1>4, StepsArePositive, NumbersAssumption DEF SaveTotalLimit
  <2>1. CASE job.stage = "extended"
    <3>1. checkpoints = << >> /\ job.epoch = 0
      BY <2>1 DEF CoreInv, CheckpointsInv
    <3>2. Min({0, SaveTotalLimit}) = 0
      BY <2>0, MinOfTwo
    <3>3. EpochsOf(<< >>, 0, steps)
      BY <2>0, <3>2 DEF EpochsOf, ToSet
    <3> QED
      BY <2>0, <3>1, <3>3
  <2>2. CASE job.stage = "training"
    <3>1. /\ job.epoch \in 1 .. Epochs /\ EpochsOf(checkpoints, job.epoch, StepsPerEpoch(job.train))
          /\ \A i \in 1 .. Len(checkpoints) :
                 checkpoints[i].dir = Len(artifacts) + 1 /\ checkpoints[i].rows = job.rows
      BY <2>2 DEF CoreInv, CheckpointsInv
    <3> QED
      BY <1>2, <2>0, <3>1
  <2> QED
    BY <1>2, <2>1, <2>2
<1>9. /\ EpochsOf(checkpoints', job.epoch + 1, steps)
      /\ \A i \in 1 .. Len(checkpoints') : checkpoints'[i] \in ToSet(checkpoints) \cup {c}
  <2> HIDE DEF steps
  <2>1. job.epoch \in Nat
    BY <1>8
  <2> QED
    BY <1>7, <1>8, <2>1, EpochSaved
<1>10. CheckpointsInv'
  <2>1. \A i \in 1 .. Len(checkpoints') :
            checkpoints'[i].dir = Len(artifacts) + 1 /\ checkpoints'[i].rows = job.rows
    <3>1. DOMAIN checkpoints = 1 .. Len(checkpoints)
      BY <1>8 DEF EpochsOf
    <3> QED
      BY <1>7, <1>8, <1>9, <3>1 DEF ToSet
  <2>2. /\ steps' = steps /\ job'.rows = job.rows /\ artifacts' = artifacts
        /\ job'.epoch \in 1 .. Epochs
    BY <1>2, <1>5, <1>8 DEF KeepsStart, KeepsTokenizer, StepsPerEpoch
  <2> QED
    BY <1>5, <1>9, <2>1, <2>2 DEF CheckpointsInv
<1> QED
  BY <1>3, <1>6, <1>10 DEF CoreInv, JobInv

-----------------------------------------------------------------------------
(* Its model is saved.                                                      *)

LEMMA PastFacts ==
  ASSUME ArtifactsInv, NEW init \in 0 .. Len(artifacts)
  PROVE  /\ Past(init).runs \in Nat /\ Past(init).corpora \subseteq Readable
         /\ Past(init).words \subseteq ToSet(Source(init).vocab)
<1>1. CASE init = 0
  BY <1>1 DEF Past, NoPast
<1>2. CASE init # 0
  BY <1>2, NumbersAssumption DEF Past, Source, ArtifactsInv, IsDirectory
<1> QED
  BY <1>1, <1>2

(* What a job leaves in its directory.                                       *)
SavedDirectory(dir) ==
    /\ DOMAIN dir = {"vocab", "rows", "weights", "card", "direction", "composed", "past"}
    /\ DOMAIN dir.weights = {"spelling", "epochs"} /\ dir.weights.spelling = job.args.spelling
    /\ dir.weights.epochs = << Epochs >>
    /\ DOMAIN dir.past = {"runs", "corpora", "words", "carded", "asked"}
    /\ dir.vocab = job.tokenizer.vocab /\ dir.rows = job.rows /\ dir.card = NoCard
    /\ dir.past.runs = Past(job.init).runs + 1
    /\ dir.past.corpora = Past(job.init).corpora \cup {job.args.corpus}
    /\ dir.past.words = Past(job.init).words \cup job.words
    /\ dir.past.carded = (Past(job.init).carded /\ (job.init = 0 \/ Card(job.init) # NoCard))
    /\ dir.past.asked = 1
    /\ dir.direction = job.args.direction /\ dir.composed = job.composed

LEMMA SaveFacts ==
  ASSUME SaveModelAndTokenizer, StartedInv
  PROVE  /\ job.stage = "training" /\ job.epoch = Epochs /\ UNCHANGED << files, checkpoints >>
         /\ KeepsStart /\ KeepsTokenizer
         /\ job'.stage = "saved" /\ job'.hypotheses = [i \in DOMAIN job.val |-> Absent]
         /\ job'.mode = "eval" /\ job'.pending = Batches(job.val)
         /\ \E dir : SavedDirectory(dir) /\ artifacts' = Append(artifacts, dir)
<1> DEFINE dir == [vocab |-> job.tokenizer.vocab, rows |-> job.rows,
            weights |-> [spelling |-> job.args.spelling, epochs |-> << Epochs >>],
            card |-> NoCard, direction |-> job.args.direction, composed |-> job.composed,
            past |-> [runs |-> Past(job.init).runs + 1,
                      corpora |-> Past(job.init).corpora \cup {job.args.corpus},
                      words |-> Past(job.init).words \cup job.words,
                      carded |-> Past(job.init).carded /\ (job.init = 0 \/ Card(job.init) # NoCard),
                      asked |-> 1]]
<1>1. /\ job.stage = "training" /\ job.epoch = Epochs /\ UNCHANGED << files, checkpoints >>
      /\ KeepsStart /\ KeepsTokenizer
      /\ job'.stage = "saved" /\ job'.hypotheses = [i \in DOMAIN job.val |-> Absent]
      /\ job'.mode = "eval" /\ job'.pending = Batches(job.val)
  BY DEF SaveModelAndTokenizer, StartedInv, KeepsStart, KeepsTokenizer, ModelEval
<1>2. artifacts' = Append(artifacts, dir)
  BY DEF SaveModelAndTokenizer
<1>3. SavedDirectory(dir)
  BY DEF SavedDirectory
<1> HIDE DEF dir
<1> QED
  BY <1>1, <1>2, <1>3

LEMMA SavedIsDirectory ==
  ASSUME CorpusInv, ArtifactsInv, StartedInv, TokenizerInv, job.stage = "training",
         NEW dir, SavedDirectory(dir)
  PROVE  IsDirectory(dir) /\ IsAverage(dir) /\ dir.past.corpora \subseteq Readable
<1>1. /\ job.init \in 0 .. Len(artifacts) /\ Past(job.init).runs < MaxJobs
      /\ job.args.corpus \in Readable /\ job.args.spelling \in Spellings
  BY StartedFacts DEF StartedInv, Readable
<1> DEFINE source == Source(job.init)
           texts == SampleTexts(job.args.corpus, KaqchikelOnly)
<1>2. /\ IsVocabulary(job.tokenizer.vocab)
      /\ ToSet(source.vocab) \cup Candidates(texts) \subseteq ToSet(job.tokenizer.vocab)
      /\ job.words = NewWords(texts, source.vocab)
      /\ job.rows \in Seq(Tokens) /\ Len(job.rows) >= Len(job.tokenizer.vocab)
  BY DEF TokenizerInv
<1>3. /\ Past(job.init).runs \in Nat /\ Past(job.init).corpora \subseteq Readable
      /\ Past(job.init).words \subseteq ToSet(source.vocab)
  BY <1>1, PastFacts
<1> HIDE DEF source, texts
<1>4. job.words \subseteq Candidates(texts)
  BY <1>2 DEF NewWords
<1>5. Past(job.init).runs + 1 \in 1 .. MaxJobs
  BY <1>1, <1>3, NumbersAssumption
<1>6. Past(job.init).words \cup job.words \subseteq ToSet(job.tokenizer.vocab)
  BY <1>2, <1>3, <1>4
<1>7. dir.past.corpora \subseteq Readable /\ dir.past.corpora # {} /\ dir.past.corpora \subseteq Stages
  BY <1>1, <1>3 DEF SavedDirectory, Readable
<1>8. IsDirectory(dir)
  BY <1>1, <1>2, <1>5, <1>6, <1>7 DEF IsDirectory, SavedDirectory
<1>9. IsAverage(dir)
  <2>1. Epochs \in Nat \ {0}
    BY NumbersAssumption
  <2>2. << Epochs >> = LastEpochs(1)
    BY <2>1 DEF LastEpochs
  <2>3. dir.past.asked = 1 /\ dir.weights.epochs = << Epochs >>
    BY DEF SavedDirectory
  <2>4. Min({dir.past.asked, Epochs}) = 1
    BY <2>1, <2>3, MinOfTwo
  <2> QED
    BY <2>2, <2>3, <2>4 DEF IsAverage
<1> QED
  BY <1>7, <1>8, <1>9

LEMMA SaveCore ==
  ASSUME CoreInv, [Next]_vars, SaveModelAndTokenizer
  PROVE  CoreInv'
<1>1. CorpusInv /\ ArtifactsInv /\ Len(artifacts) \in Nat
  BY DEF CoreInv, ArtifactsInv
<1>2. job.stage = "training"
  BY DEF SaveModelAndTokenizer
<1>3. StartedInv /\ TokenizerInv
  BY <1>2 DEF CoreInv, JobInv, Idle
<1>4. /\ job.epoch = Epochs /\ checkpoints' = checkpoints
      /\ KeepsStart /\ KeepsTokenizer /\ job'.stage = "saved"
  BY <1>3, SaveFacts
<1>5. PICK dir : SavedDirectory(dir) /\ artifacts' = Append(artifacts, dir)
  BY <1>3, SaveFacts
<1>6. IsDirectory(dir) /\ IsAverage(dir) /\ dir.past.corpora \subseteq Readable
  BY <1>1, <1>2, <1>3, <1>5, SavedIsDirectory
<1>7. /\ ArtifactsInv' /\ Len(artifacts') = Len(artifacts) + 1
      /\ artifacts'[Len(artifacts')] = dir
      /\ \A a \in 1 .. Len(artifacts) : artifacts'[a] = artifacts[a]
  BY <1>1, <1>5, <1>6, ArtifactsAdded
<1>8. CorpusInv' /\ KeepsDirectories
  BY <1>1, <1>7, CorpusInvInductive DEF KeepsDirectories
<1>9. StartedInv' /\ TokenizerInv'
  <2>1. job.init < Len(artifacts')
    BY <1>1, <1>3, <1>7 DEF StartedInv
  <2> QED
    BY <1>1, <1>2, <1>3, <1>4, <1>8, <2>1, StartedStays, TokenizerStays
<1>10. CheckpointsInv'
  <2>1. /\ EpochsOf(checkpoints, Epochs, StepsPerEpoch(job.train))
        /\ \A i \in 1 .. Len(checkpoints) :
               checkpoints[i].dir = Len(artifacts) + 1 /\ checkpoints[i].rows = job.rows
    BY <1>2, <1>4 DEF CoreInv, CheckpointsInv
  <2>2. artifacts'[Len(artifacts) + 1].rows = job.rows /\ Len(artifacts) + 1 \in 1 .. Len(artifacts')
    BY <1>1, <1>5, <1>7 DEF SavedDirectory
  <2>3. StepsPerEpoch(job.train) \in Nat
    BY <1>1, <1>3, StepsArePositive
  <2> QED
    BY <1>4, <2>1, <2>2, <2>3 DEF CheckpointsInv
<1> QED
  BY <1>7, <1>8, <1>9, <1>10 DEF CoreInv, JobInv

-----------------------------------------------------------------------------
(* The translations are generated, the card is written, the process ends.   *)

LEMMA GenerateCore ==
  ASSUME CoreInv, [Next]_vars, NEW spelling, GenerateBatch(spelling)
  PROVE  CoreInv'
<1>1. CorpusInv /\ ArtifactsInv /\ Len(artifacts) \in Nat
  BY DEF CoreInv, ArtifactsInv
<1>2. job.stage = "saved" /\ UNCHANGED << files, artifacts, checkpoints >>
  BY DEF GenerateBatch
<1>3. CorpusInv' /\ ArtifactsInv'
  BY <1>1, <1>2, CorpusInvInductive, ArtifactsStay
<1>4. StartedInv /\ TokenizerInv
  BY <1>2 DEF CoreInv, JobInv, Idle
<1>5. /\ KeepsStart /\ KeepsDirectories /\ KeepsTokenizer /\ job'.stage = "saved"
  <2>1. PICK hypotheses : job' = [job EXCEPT !.pending = Tail(@), !.hypotheses = hypotheses]
    BY DEF GenerateBatch
  <2> QED
    BY <1>1, <1>2, <1>4, <2>1 DEF StartedInv, KeepsStart, KeepsDirectories, KeepsTokenizer
<1>6. StartedInv' /\ TokenizerInv'
  <2>1. job.init < Len(artifacts')
    BY <1>2, <1>4 DEF StartedInv
  <2> QED
    BY <1>1, <1>2, <1>4, <1>5, <2>1, StartedStays, TokenizerStays
<1>7. CheckpointsInv'
  BY <1>2, <1>5 DEF CoreInv, CheckpointsInv
<1> QED
  BY <1>3, <1>6, <1>7 DEF CoreInv, JobInv

LEMMA CardCore ==
  ASSUME CoreInv, [Next]_vars, WriteModelCard
  PROVE  CoreInv'
<1>1. CorpusInv /\ ArtifactsInv /\ Len(artifacts) \in Nat
  BY DEF CoreInv, ArtifactsInv
<1>2. /\ job.stage = "saved" /\ job' = Idle /\ UNCHANGED << files, checkpoints >>
  BY DEF WriteModelCard
<1>3. PICK card : artifacts' = [artifacts EXCEPT ![Len(artifacts)].card = card]
  BY DEF WriteModelCard
<1>4. /\ Len(artifacts') = Len(artifacts) /\ artifacts' \in Seq(ToSet(artifacts'))
      /\ \A a \in 1 .. Len(artifacts) :
             artifacts'[a] = IF a = Len(artifacts) THEN [artifacts[a] EXCEPT !.card = card]
                             ELSE artifacts[a]
  <2>1. DOMAIN artifacts = 1 .. Len(artifacts)
    BY <1>1 DEF ArtifactsInv
  <2>2. /\ DOMAIN artifacts' = 1 .. Len(artifacts)
        /\ \A a \in 1 .. Len(artifacts) :
             artifacts'[a] = IF a = Len(artifacts) THEN [artifacts[a] EXCEPT !.card = card]
                             ELSE artifacts[a]
    BY <1>3, <2>1
  <2>3. artifacts' = [a \in 1 .. Len(artifacts) |-> artifacts'[a]]
    BY <1>3, <2>2
  <2>4. \A a \in 1 .. Len(artifacts) : artifacts'[a] \in ToSet(artifacts')
    BY <2>2 DEF ToSet
  <2> QED
    BY <1>1, <2>2, <2>3, <2>4
<1>5. \A a \in 1 .. Len(artifacts) :
          /\ DOMAIN artifacts'[a] = DOMAIN artifacts[a]
          /\ artifacts'[a].vocab = artifacts[a].vocab /\ artifacts'[a].rows = artifacts[a].rows
          /\ artifacts'[a].weights = artifacts[a].weights /\ artifacts'[a].past = artifacts[a].past
  BY <1>1, <1>4 DEF ArtifactsInv, IsDirectory
<1>6. CorpusInv' /\ Readable \subseteq Readable'
  BY <1>1, <1>2, CorpusInvInductive, ReadableStays
<1>7. \A a \in 1 .. Len(artifacts) :
          IsDirectory(artifacts'[a]) /\ IsAverage(artifacts'[a])
              /\ artifacts'[a].past.corpora \subseteq Readable'
  <2> SUFFICES ASSUME NEW a \in 1 .. Len(artifacts)
               PROVE  IsDirectory(artifacts'[a]) /\ IsAverage(artifacts'[a])
                          /\ artifacts'[a].past.corpora \subseteq Readable'
    OBVIOUS
  <2> DEFINE old == artifacts[a]
             new == artifacts'[a]
  <2>1. IsDirectory(old) /\ IsAverage(old) /\ old.past.corpora \subseteq Readable
    BY <1>1 DEF ArtifactsInv
  <2>2. /\ DOMAIN new = DOMAIN old /\ new.vocab = old.vocab /\ new.rows = old.rows
        /\ new.weights = old.weights /\ new.past = old.past
    BY <1>5
  <2> HIDE DEF old, new
  <2>3. IsDirectory(new) /\ IsAverage(new) /\ new.past.corpora \subseteq Readable'
    BY <1>6, <2>1, <2>2 DEF IsDirectory, IsAverage
  <2> QED
    BY <2>3 DEF new
<1>8. ArtifactsInv'
  BY <1>4, <1>7 DEF ArtifactsInv
<1>9. CheckpointsInv'
  <2>1. /\ \E steps \in Nat : EpochsOf(checkpoints, Epochs, steps)
        /\ \E dir \in 1 .. Len(artifacts) : \A i \in 1 .. Len(checkpoints) :
              checkpoints[i].dir = dir /\ checkpoints[i].rows = artifacts[dir].rows
    BY <1>2 DEF CoreInv, CheckpointsInv
  <2>2. PICK dir \in 1 .. Len(artifacts) : \A i \in 1 .. Len(checkpoints) :
              checkpoints[i].dir = dir /\ checkpoints[i].rows = artifacts[dir].rows
    BY <2>1
  <2>3. dir \in 1 .. Len(artifacts') /\ artifacts'[dir].rows = artifacts[dir].rows
    BY <1>4, <1>5
  <2>4. job'.stage = "idle"
    BY <1>2 DEF Idle
  <2> QED
    BY <1>2, <2>1, <2>2, <2>3, <2>4 DEF CheckpointsInv
<1> QED
  BY <1>2, <1>6, <1>8, <1>9 DEF CoreInv, JobInv

LEMMA DieCore ==
  ASSUME CoreInv, [Next]_vars, JobDies
  PROVE  CoreInv'
<1>1. CorpusInv /\ ArtifactsInv
  BY DEF CoreInv
<1>2. /\ job' = Idle /\ job'.stage = "idle" /\ UNCHANGED << files, artifacts >>
      /\ checkpoints' = IF job.stage = "saved" THEN checkpoints ELSE << >>
  BY DEF JobDies, Idle
<1>3. CorpusInv' /\ ArtifactsInv'
  BY <1>1, <1>2, CorpusInvInductive, ArtifactsStay
<1>4. CheckpointsInv'
  BY <1>2 DEF CoreInv, CheckpointsInv
<1> QED
  BY <1>2, <1>3, <1>4 DEF CoreInv, JobInv

-----------------------------------------------------------------------------
(* The operator averages.                                                   *)

(* By number is the order the checkpoints were saved in.                     *)
LEMMA ByNumber ==
  ASSUME NEW saved, NEW last \in Nat, NEW steps, EpochsOf(saved, last, steps)
  PROVE  FindCheckpointDirs(saved) = saved
<1> DEFINE n == Len(saved)
<1>1. n \in Nat /\ DOMAIN saved = 1 .. n /\ steps \in Nat \ {0} /\ saved \in Seq(ToSet(saved))
  BY DEF EpochsOf
<1>2. \A i \in 1 .. n : saved[i].epoch = last - n + i /\ saved[i].step = saved[i].epoch * steps
  BY DEF EpochsOf, AtStep
<1>3. \A i, k \in 1 .. n : saved[i].step < saved[k].step <=> i < k
  <2> SUFFICES ASSUME NEW i \in 1 .. n, NEW k \in 1 .. n
               PROVE  saved[i].step < saved[k].step <=> i < k
    OBVIOUS
  <2>1. saved[i].epoch \in Int /\ saved[k].epoch \in Int
    BY <1>1, <1>2
  <2>2. saved[i].epoch < saved[k].epoch <=> i < k
    BY <1>1, <1>2
  <2>3. saved[i].epoch * steps < saved[k].epoch * steps <=> saved[i].epoch < saved[k].epoch
    BY <1>1, <2>1, Grows
  <2> QED
    BY <1>2, <2>2, <2>3
<1> DEFINE order == SortedBy(DOMAIN saved, LAMBDA i, k : saved[i].step < saved[k].step)
           places == SortedBy(DOMAIN saved, <)
<1>4. order = places
  <2>1. \A x \in DOMAIN saved : { y \in DOMAIN saved : saved[y].step < saved[x].step }
                                   = { y \in DOMAIN saved : y < x }
    BY <1>1, <1>3
  <2> DEFINE A == { << x, Cardinality({ y \in DOMAIN saved : saved[y].step < saved[x].step }) >> : x \in DOMAIN saved }
             B == { << x, Cardinality({ y \in DOMAIN saved : y < x }) >> : x \in DOMAIN saved }
  <2>2. A = B
    BY <2>1
  <2>3. order = [k \in 1 .. Cardinality(DOMAIN saved) |-> (CHOOSE r \in A : r[2] = k - 1)[1]]
    BY DEF SortedBy
  <2>4. places = [k \in 1 .. Cardinality(DOMAIN saved) |-> (CHOOSE r \in B : r[2] = k - 1)[1]]
    BY DEF SortedBy
  <2> HIDE DEF A, B, order, places
  <2> QED
    BY <2>2, <2>3, <2>4
<1>5. Kept(saved, DOMAIN saved) = saved
  BY <1>1, KeptAll
<1>6. Cardinality(DOMAIN saved) = n
  BY <1>1, IntervalSize
<1>7. FindCheckpointDirs(saved) = [k \in 1 .. n |-> saved[places[k]]]
  <2>1. FindCheckpointDirs(saved) = [k \in DOMAIN saved |-> saved[order[k]]]
    BY DEF FindCheckpointDirs
  <2> HIDE DEF order, places
  <2> QED
    BY <1>1, <1>4, <2>1
<1>8. Kept(saved, DOMAIN saved) = [k \in 1 .. n |-> saved[places[k]]]
  <2>1. Kept(saved, DOMAIN saved) = [k \in 1 .. Cardinality(DOMAIN saved) |-> saved[places[k]]]
    BY DEF Kept
  <2> HIDE DEF places
  <2> QED
    BY <1>6, <2>1
<1> QED
  BY <1>5, <1>7, <1>8

(* What averaging leaves: the run's own directory, its weights apart.        *)
AveragedDirectory(dir, run, n, epochs) ==
    /\ DOMAIN dir = DOMAIN run /\ DOMAIN dir.weights = DOMAIN run.weights
    /\ DOMAIN dir.past = DOMAIN run.past
    /\ dir.vocab = run.vocab /\ dir.rows = run.rows /\ dir.card = NoCard
    /\ dir.weights.spelling = run.weights.spelling /\ dir.weights.epochs = epochs
    /\ dir.past.runs = run.past.runs /\ dir.past.corpora = run.past.corpora
    /\ dir.past.words = run.past.words /\ dir.past.carded = run.past.carded
    /\ dir.past.asked = n

LEMMA AverageFacts ==
  ASSUME CoreInv, NEW n \in 1 .. AverageN, AverageCheckpoints(n)
  PROVE  /\ job = Idle /\ UNCHANGED << files, job, checkpoints >>
         /\ \E a \in 1 .. Len(artifacts) : \E dir :
                /\ AveragedDirectory(dir, artifacts[a], n, LastEpochs(Min({n, Epochs})))
                /\ artifacts' = Append(artifacts, dir)
<1> DEFINE chosen == LastN(FindCheckpointDirs(checkpoints), n)
           run == artifacts[chosen[1].dir]
           epochs == [i \in DOMAIN chosen |-> chosen[i].epoch]
           X == ToSet(checkpoints)
<1>1. job = Idle /\ job.stage = "idle" /\ UNCHANGED << files, job, checkpoints >> /\ checkpoints # << >>
  BY DEF AverageCheckpoints, Idle
<1>2. n \in Nat \ {0} /\ n =< AverageN /\ AverageN \in Nat /\ Epochs \in Nat \ {0}
  BY NumbersAssumption
<1>3. PICK steps \in Nat : EpochsOf(checkpoints, Epochs, steps)
  BY <1>1 DEF CoreInv, CheckpointsInv
<1>4. PICK a \in 1 .. Len(artifacts) : \A i \in 1 .. Len(checkpoints) :
              checkpoints[i].dir = a /\ checkpoints[i].rows = artifacts[a].rows
  BY <1>1 DEF CoreInv, CheckpointsInv
<1>5. chosen = LastN(checkpoints, n)
  BY <1>2, <1>3, ByNumber
<1>6. checkpoints \in Seq(X) /\ chosen \in Seq(X) /\ IsTail(chosen, checkpoints, n)
  <2>1. checkpoints \in Seq(X)
    BY <1>3 DEF EpochsOf
  <2> HIDE DEF X
  <2> QED
    BY <1>2, <1>5, <2>1, LastNFacts
<1> HIDE DEF chosen, X
<1>7. Len(checkpoints) \in Nat /\ Len(checkpoints) = IF Epochs =< AverageN + 2 THEN Epochs ELSE AverageN + 2
  <2>1. Min({Epochs, SaveTotalLimit}) = IF Epochs =< AverageN + 2 THEN Epochs ELSE AverageN + 2
    BY <1>2, MinOfTwo DEF SaveTotalLimit
  <2> QED
    BY <1>2, <1>3, <2>1 DEF EpochsOf
<1>8. Len(chosen) = (IF n =< Epochs THEN n ELSE Epochs) /\ Len(chosen) =< Len(checkpoints)
  <2>1. Len(chosen) = IF Len(checkpoints) =< n THEN Len(checkpoints) ELSE n
    BY <1>6 DEF IsTail
  <2> QED
    BY <1>2, <1>7, <2>1
<1> DEFINE m == Min({n, Epochs})
<1>9. m = Len(chosen) /\ m \in Nat \ {0} /\ DOMAIN chosen = 1 .. m
  <2>1. m = IF n =< Epochs THEN n ELSE Epochs
    BY <1>2, MinOfTwo
  <2> HIDE DEF m
  <2> QED
    BY <1>2, <1>6, <1>8, <2>1
<1>10. \A i \in 1 .. m : /\ chosen[i].epoch = Epochs - m + i
                         /\ chosen[i].dir = a /\ chosen[i].rows = artifacts[a].rows
  <2> SUFFICES ASSUME NEW i \in 1 .. m
               PROVE  /\ chosen[i].epoch = Epochs - m + i
                      /\ chosen[i].dir = a /\ chosen[i].rows = artifacts[a].rows
    OBVIOUS
  <2> DEFINE l == Len(checkpoints)
             k == l - m + i
  <2> HIDE DEF m
  <2>1. k \in 1 .. l /\ Epochs - l + k = Epochs - m + i
    BY <1>2, <1>7, <1>8, <1>9
  <2>2. chosen[i] = checkpoints[k]
    BY <1>6, <1>9 DEF IsTail
  <2> HIDE DEF k
  <2>3. checkpoints[k].epoch = Epochs - l + k
    BY <1>3, <2>1 DEF EpochsOf
  <2> QED
    BY <1>4, <2>1, <2>2, <2>3
<1> HIDE DEF m
<1>11. epochs = LastEpochs(m)
  <2>1. epochs = [i \in 1 .. m |-> chosen[i].epoch]
    BY <1>9
  <2>2. LastEpochs(m) = [i \in 1 .. m |-> Epochs - m + i]
    BY DEF LastEpochs
  <2> HIDE DEF epochs
  <2> QED
    BY <1>10, <2>1, <2>2
<1>12. run = artifacts[a] /\ chosen[1].rows = artifacts[a].rows
  BY <1>9, <1>10
<1> DEFINE dir == [run EXCEPT !.rows = chosen[1].rows, !.card = NoCard, !.past.asked = n,
                              !.weights.epochs = epochs]
<1>13. artifacts' = Append(artifacts, dir)
  BY DEF AverageCheckpoints, chosen
<1> HIDE DEF run, epochs
<1>14. IsDirectory(run)
  BY <1>12 DEF CoreInv, ArtifactsInv
<1>15. AveragedDirectory(dir, run, n, epochs)
  BY <1>12, <1>14 DEF AveragedDirectory, IsDirectory
<1> HIDE DEF dir
<1> QED
  BY <1>1, <1>11, <1>12, <1>13, <1>15 DEF m

LEMMA AverageCore ==
  ASSUME CoreInv, [Next]_vars, NEW n \in 1 .. AverageN, AverageCheckpoints(n)
  PROVE  CoreInv'
<1>1. CorpusInv /\ ArtifactsInv /\ Len(artifacts) \in Nat
  BY DEF CoreInv, ArtifactsInv
<1>2. job = Idle /\ job.stage = "idle" /\ UNCHANGED << files, job, checkpoints >>
  BY DEF AverageCheckpoints, Idle
<1>3a. PICK a \in 1 .. Len(artifacts) : \E dir :
          /\ AveragedDirectory(dir, artifacts[a], n, LastEpochs(Min({n, Epochs})))
          /\ artifacts' = Append(artifacts, dir)
  BY AverageFacts
<1>3. PICK dir : /\ AveragedDirectory(dir, artifacts[a], n, LastEpochs(Min({n, Epochs})))
                 /\ artifacts' = Append(artifacts, dir)
  BY <1>3a
<1> DEFINE run == artifacts[a]
<1>4. IsDirectory(run) /\ run.past.corpora \subseteq Readable
  BY <1>1 DEF ArtifactsInv
<1> HIDE DEF run
<1>5. IsDirectory(dir) /\ dir.past.corpora \subseteq Readable
  BY <1>3, <1>4 DEF AveragedDirectory, IsDirectory, run
<1>6. IsAverage(dir)
  <2>1. dir.past.asked = n /\ n \in Nat \ {0}
    BY <1>3, NumbersAssumption DEF AveragedDirectory
  <2>2. dir.weights.epochs = LastEpochs(Min({n, Epochs}))
    BY <1>3 DEF AveragedDirectory
  <2> QED
    BY <2>1, <2>2 DEF IsAverage
<1>7. /\ ArtifactsInv' /\ Len(artifacts') = Len(artifacts) + 1
      /\ \A b \in 1 .. Len(artifacts) : artifacts'[b] = artifacts[b]
  BY <1>1, <1>3, <1>5, <1>6, ArtifactsAdded
<1>8. CorpusInv'
  BY <1>1, CorpusInvInductive
<1>9. CheckpointsInv'
  <2>1. CASE checkpoints = << >>
    BY <1>2, <2>1 DEF CheckpointsInv
  <2>2. CASE checkpoints # << >>
    <3>1. PICK c \in 1 .. Len(artifacts) : \A i \in 1 .. Len(checkpoints) :
              checkpoints[i].dir = c /\ checkpoints[i].rows = artifacts[c].rows
      BY <1>2, <2>2 DEF CoreInv, CheckpointsInv
    <3>2. \E steps \in Nat : EpochsOf(checkpoints, Epochs, steps)
      BY <1>2, <2>2 DEF CoreInv, CheckpointsInv
    <3>3. c \in 1 .. Len(artifacts') /\ artifacts'[c] = artifacts[c]
      BY <1>1, <1>7
    <3> QED
      BY <1>2, <3>1, <3>2, <3>3 DEF CheckpointsInv
  <2> QED
    BY <2>1, <2>2
<1> QED
  BY <1>2, <1>7, <1>8, <1>9 DEF CoreInv, JobInv

-----------------------------------------------------------------------------
(* Every other step only looks.                                             *)

LEMMA QuietCore ==
  ASSUME CoreInv, [Next]_vars, UNCHANGED << job, artifacts, checkpoints >>
  PROVE  CoreInv'
<1>1. CorpusInv /\ ArtifactsInv /\ Len(artifacts) \in Nat
  BY DEF CoreInv, ArtifactsInv
<1>2. CorpusInv' /\ ArtifactsInv'
  BY <1>1, CorpusInvInductive, ArtifactsStay
<1>3. KeepsDirectories
  BY <1>1 DEF KeepsDirectories
<1>4. ASSUME StartedInv, TokenizerInv PROVE StartedInv' /\ TokenizerInv'
  <2>1. KeepsStart /\ KeepsTokenizer
    BY DEF KeepsStart, KeepsTokenizer
  <2>2. StartedInv'
    BY <1>1, <1>3, <1>4, <2>1, StartedStays DEF StartedInv
  <2>3. CASE job.stage = "loaded"
    <3>1. Source(job.init)' = Source(job.init)
      BY DEF Source
    <3> QED
      BY <1>4, <2>2, <2>3, <3>1 DEF TokenizerInv
  <2>4. CASE job.stage # "loaded"
    BY <1>1, <1>3, <1>4, <2>1, <2>2, <2>4, TokenizerStays
  <2> QED
    BY <2>2, <2>3, <2>4
<1>5. JobInv'
  BY <1>4 DEF CoreInv, JobInv
<1>6. CheckpointsInv'
  BY DEF CoreInv, CheckpointsInv
<1> QED
  BY <1>2, <1>5, <1>6 DEF CoreInv

(* The core invariant holds initially and every step keeps it.               *)
LEMMA CoreInductive ==
  /\ Init => CoreInv
  /\ CoreInv /\ [Next]_vars => CoreInv'
<1>1. Init => CoreInv
  BY InitInv
<1>2. ASSUME CoreInv, [Next]_vars PROVE CoreInv'
  <2>1. CASE Diagnose
    BY <1>2, <2>1, DiagnoseKeepsFiles, QuietCore
  <2>2. CASE CorpusNext /\ UNCHANGED lineageVars
    BY <1>2, <2>2, QuietCore DEF lineageVars
  <2>3. CASE LineageNext
    <3>1. ASSUME NEW args \in TrainingRuns, NEW init \in 0 .. Len(artifacts),
                 StartTrainingJob(args, init)
          PROVE  CoreInv'
      BY <1>2, <3>1, StartCore
    <3>2. CASE ExtendVocabularyForExamples
      BY <1>2, <3>2, ExtendCore
    <3>3. CASE FineTuneEpoch
      BY <1>2, <3>3, FineTuneCore
    <3>4. CASE SaveModelAndTokenizer
      BY <1>2, <3>4, SaveCore
    <3>5. ASSUME NEW spelling \in Spellings, GenerateBatch(spelling) PROVE CoreInv'
      BY <1>2, <3>5, GenerateCore
    <3>6. CASE WriteModelCard
      BY <1>2, <3>6, CardCore
    <3>7. CASE JobDies
      BY <1>2, <3>7, DieCore
    <3>8. ASSUME NEW n \in 1 .. AverageN, AverageCheckpoints(n) PROVE CoreInv'
      BY <1>2, <3>8, AverageCore
    <3>9. ASSUME NEW a \in DOMAIN artifacts, NEW corpus \in Stages, NEW direction \in Directions,
                 EvaluateCheckpoint(a, corpus, direction)
          PROVE  CoreInv'
      <4>1. UNCHANGED << job, artifacts, checkpoints >>
        BY <3>9 DEF EvaluateCheckpoint, lineageVars
      <4> QED
        BY <1>2, <4>1, QuietCore
    <3>10. ASSUME NEW a \in DOMAIN artifacts, NEW request \in Requests, Serve(a, request)
           PROVE  CoreInv'
      <4>1. UNCHANGED << job, artifacts, checkpoints >>
        BY <3>10 DEF Serve, lineageVars
      <4> QED
        BY <1>2, <4>1, QuietCore
    <3> QED
      BY <2>3, <3>1, <3>2, <3>3, <3>4, <3>5, <3>6, <3>7, <3>8, <3>9, <3>10 DEF LineageNext
  <2>4. CASE UNCHANGED vars
    BY <1>2, <2>4, QuietCore DEF vars
  <2> QED
    BY <1>2, <2>1, <2>2, <2>3, <2>4 DEF Next
<1> QED
  BY <1>1, <1>2

(* Whatever the jobs, however they die and whatever the operator averages,    *)
(* every directory is well formed, its vocabulary is one, and the checkpoints *)
(* on disk are the last epochs of their run.                                 *)
THEOREM CoreIsInvariant == Spec => []CoreInv
BY CoreInductive, PTL DEF Spec

(* The weights of a directory are those of the last epochs of its run, as     *)
(* many as were asked for.                                                   *)
LEMMA OfTheLastEpochs == ArtifactsInv => AverageIsOfTheLastEpochs
<1> SUFFICES ASSUME ArtifactsInv, NEW a \in DOMAIN artifacts
             PROVE  artifacts[a].weights.epochs
                        = [k \in 1 .. Min({artifacts[a].past.asked, Epochs})
                               |-> Epochs - Min({artifacts[a].past.asked, Epochs}) + k]
  BY DEF AverageIsOfTheLastEpochs
<1>1. a \in 1 .. Len(artifacts)
  BY DEF ArtifactsInv
<1> QED
  BY <1>1 DEF ArtifactsInv, IsAverage, LastEpochs

THEOREM AveragesAreOfTheLastEpochs == Spec => []AverageIsOfTheLastEpochs
<1>1. CoreInv => AverageIsOfTheLastEpochs
  BY OfTheLastEpochs DEF CoreInv
<1> QED
  BY <1>1, CoreIsInvariant, PTL
-----------------------------------------------------------------------------
(* Cards: what a card claims was true of the directory it joined.           *)

LEMMA TrainsStay ==
  ASSUME CorpusInv, [Next]_vars, NEW corpus \in Readable
  PROVE  Trains'[corpus] = Trains[corpus]
BY FilesStay DEF Readable, Splits, Trains, PairsOf

LEMMA NoCardPromisesNothing ==
  ASSUME NEW dir, NEW trains, dir.card = NoCard
  PROVE  CardInv(dir, trains)
BY NoCardIsSilent, AbsentAssumption DEF CardInv, ScopedTruly

(* Promises speak of the corpora of the directory only.                      *)
LEMMA PromisesKeep ==
  ASSUME NEW dir, NEW old, NEW new, NEW scoping, dir.past.corpora \subseteq Stages,
         \A corpus \in dir.past.corpora : new[corpus] = old[corpus]
  PROVE  /\ ScopedTruly(dir, scoping, old) => ScopedTruly(dir, scoping, new)
         /\ Rebuilt(dir, scoping, old) => Rebuilt(dir, scoping, new)
<1>1. ScopedTruly(dir, scoping, old) => ScopedTruly(dir, scoping, new)
  BY DEF ScopedTruly
<1>2. ASSUME Rebuilt(dir, scoping, old) PROVE Rebuilt(dir, scoping, new)
  <2> SUFFICES ASSUME NEW corpus \in Stages, dir.past.corpora = {corpus}, dir.past.carded
               PROVE  LET texts == TrainSampleTexts(new[corpus], scoping)
                      IN  /\ dir.past.words = NewWords(texts, BaseVocab)
                          /\ Candidates(texts) \subseteq ToSet(dir.vocab)
    BY DEF Rebuilt
  <2>1. new[corpus] = old[corpus]
    OBVIOUS
  <2> QED
    BY <1>2, <2>1 DEF Rebuilt
<1> QED
  BY <1>1, <1>2

LEMMA CardKeeps ==
  ASSUME NEW dir, NEW old, NEW new, dir.past.corpora \subseteq Stages,
         \A corpus \in dir.past.corpora : new[corpus] = old[corpus], CardInv(dir, old)
  PROVE  CardInv(dir, new)
BY PromisesKeep DEF CardInv

LEMMA OldCardsKeep ==
  ASSUME CorpusInv, ArtifactsInv, [Next]_vars, NEW a \in 1 .. Len(artifacts), CardInv(artifacts[a], Trains)
  PROVE  CardInv(artifacts[a], Trains')
<1>1. artifacts[a].past.corpora \subseteq Readable
  BY DEF ArtifactsInv
<1>2. artifacts[a].past.corpora \subseteq Stages
  BY <1>1 DEF Readable
<1>3. \A corpus \in artifacts[a].past.corpora : Trains'[corpus] = Trains[corpus]
  BY <1>1, TrainsStay
<1> QED
  BY <1>2, <1>3, CardKeeps

LEMMA QuietCards ==
  ASSUME CoreInv, CardsInv, [Next]_vars, artifacts' = artifacts,
         job'.stage = "saved" => /\ job.stage = "saved" /\ job'.tokenizer = job.tokenizer
                                 /\ job'.scoping = job.scoping /\ job'.added = job.added
  PROVE  CardsInv'
<1>1. CorpusInv /\ ArtifactsInv
  BY DEF CoreInv
<1>2. \A a \in 1 .. Len(artifacts') : CardInv(artifacts'[a], Trains')
  BY <1>1, OldCardsKeep DEF CardsInv
<1>3. ASSUME job'.stage = "saved" PROVE SavedInv'
  <2> DEFINE dir == artifacts[Len(artifacts)]
  <2>1. /\ dir.card = NoCard /\ dir.vocab = job.tokenizer.vocab
        /\ ScopedTruly(dir, job.scoping, Trains) /\ Rebuilt(dir, job.scoping, Trains)
        /\ Counted(dir, job.added)
    BY <1>3 DEF CardsInv, SavedInv
  <2>2. Len(artifacts) \in 1 .. Len(artifacts)
    <3>1. StartedInv /\ Len(artifacts) \in Nat
      BY <1>3 DEF CoreInv, JobInv, Idle, ArtifactsInv
    <3> QED
      BY <1>3, <3>1 DEF StartedInv
  <2>3. dir.past.corpora \subseteq Readable
    BY <1>1, <2>2 DEF ArtifactsInv
  <2> HIDE DEF dir
  <2>4. ScopedTruly(dir, job.scoping, Trains') /\ Rebuilt(dir, job.scoping, Trains')
    <3>1. dir.past.corpora \subseteq Stages
      BY <2>3 DEF Readable
    <3>2. \A corpus \in dir.past.corpora : Trains'[corpus] = Trains[corpus]
      BY <1>1, <2>3, TrainsStay
    <3> QED
      BY <2>1, <3>1, <3>2, PromisesKeep
  <2> QED
    BY <1>3, <2>1, <2>4 DEF SavedInv, dir
<1>4. job'.stage # "saved" => SavedInv'
  BY DEF SavedInv
<1> QED
  BY <1>2, <1>3, <1>4 DEF CardsInv
LEMMA AddedCards ==
  ASSUME CoreInv, CardsInv, [Next]_vars, NEW dir, artifacts' = Append(artifacts, dir), dir.card = NoCard
  PROVE  \A a \in 1 .. Len(artifacts') : CardInv(artifacts'[a], Trains')
<1>1. CorpusInv /\ ArtifactsInv /\ Len(artifacts) \in Nat
  BY DEF CoreInv, ArtifactsInv
<1> DEFINE X == ToSet(artifacts) \cup {dir}
<1>2. artifacts \in Seq(X) /\ dir \in X
  <2>1. artifacts \in Seq(ToSet(artifacts)) /\ ToSet(artifacts) \subseteq X /\ dir \in X
    BY <1>1 DEF ArtifactsInv
  <2> QED
    BY <2>1, SeqGrows
<1>3. /\ Len(artifacts') = Len(artifacts) + 1 /\ artifacts'[Len(artifacts) + 1] = dir
      /\ \A a \in 1 .. Len(artifacts) : artifacts'[a] = artifacts[a]
  <2> HIDE DEF X
  <2> QED
    BY <1>2, AppendFacts
<1>4. CardInv(dir, Trains')
  BY NoCardPromisesNothing
<1>5. \A a \in 1 .. Len(artifacts) : CardInv(artifacts'[a], Trains')
  <2> SUFFICES ASSUME NEW a \in 1 .. Len(artifacts) PROVE CardInv(artifacts'[a], Trains')
    OBVIOUS
  <2>1. CardInv(artifacts[a], Trains)
    BY DEF CardsInv
  <2>2. CardInv(artifacts[a], Trains')
    BY <1>1, <2>1, OldCardsKeep
  <2> QED
    BY <1>3, <2>2
<1>6. \A a \in 1 .. Len(artifacts') : a \in 1 .. Len(artifacts) \/ a = Len(artifacts) + 1
  BY <1>1, <1>3
<1> QED
  BY <1>3, <1>4, <1>5, <1>6

LEMMA AverageCards ==
  ASSUME CoreInv, CardsInv, [Next]_vars, NEW n \in 1 .. AverageN, AverageCheckpoints(n)
  PROVE  CardsInv'
<1>1. job' = job /\ job.stage = "idle"
  BY DEF AverageCheckpoints, Idle
<1>2. PICK a \in 1 .. Len(artifacts) : \E dir :
          /\ AveragedDirectory(dir, artifacts[a], n, LastEpochs(Min({n, Epochs})))
          /\ artifacts' = Append(artifacts, dir)
  BY AverageFacts
<1>3. PICK dir : /\ AveragedDirectory(dir, artifacts[a], n, LastEpochs(Min({n, Epochs})))
                 /\ artifacts' = Append(artifacts, dir)
  BY <1>2
<1>4. dir.card = NoCard
  BY <1>3 DEF AveragedDirectory
<1>5. \A b \in 1 .. Len(artifacts') : CardInv(artifacts'[b], Trains')
  BY <1>3, <1>4, AddedCards
<1> QED
  BY <1>1, <1>5 DEF CardsInv, SavedInv

LEMMA ExamplesAreSequences ==
  ASSUME CorpusInv, StartedInv
  PROVE  /\ Len(job.train) \in Nat /\ DOMAIN job.train = 1 .. Len(job.train)
         /\ Len(job.val) \in Nat /\ DOMAIN job.val = 1 .. Len(job.val)
<1> DEFINE train == PairsOf(job.args.corpus, "train")
           val == PairsOf(job.args.corpus, "validation")
           Pairs == Strings \X Strings
           Made(pairs) == { Example(pair, "es", "cak") : pair \in ToSet(pairs) }
                              \cup { Example(pair, "cak", "es") : pair \in ToSet(pairs) }
<1>1. /\ job.train = BuildDirectionExamples(train, job.args.direction)
      /\ job.val = BuildDirectionExamples(val, job.args.direction)
  BY DEF StartedInv
<1>2. train \in Seq(Pairs) /\ val \in Seq(Pairs) /\ job.args.direction \in Directions
  BY StartedFacts, PairsFacts DEF Splits
<1> HIDE DEF train, val, Pairs
<1>3. job.train \in Seq(Made(train)) /\ job.val \in Seq(Made(val))
  BY <1>1, <1>2, ExamplesFacts
<1> HIDE DEF Made
<1> QED
  BY <1>3

(* There is always a line of directions.                                     *)
LEMMA DirectionsOf ==
  ASSUME NEW examples, NEW m \in Nat, DOMAIN examples = 1 .. m
  PROVE  DirectionLines(examples) \in Seq(ToSet(DirectionLines(examples)))
<1> DEFINE directions == DirectionLines(examples)
           lines == [i \in DOMAIN examples |-> DirectionName(examples[i])]
<1>1. lines = [i \in 1 .. m |-> DirectionName(examples[i])]
  OBVIOUS
<1>2. lines \in Seq(ToSet(lines)) /\ ToSet(lines) = { lines[i] : i \in 1 .. m }
  <2>1. \A i \in 1 .. m : lines[i] \in ToSet(lines)
    BY <1>1 DEF ToSet
  <2>2. lines = [i \in 1 .. m |-> lines[i]]
    BY <1>1
  <2> HIDE DEF lines
  <2> QED
    BY <2>1, <2>2 DEF ToSet
<1>3. directions = IF lines = << >> THEN << << >> >> ELSE lines
  BY DEF DirectionLines, WriteLines
<1>4. << << >> >> \in Seq(ToSet(<< << >> >>))
  BY DEF ToSet
<1> HIDE DEF lines, directions
<1>5. directions \in Seq(ToSet(directions))
  BY <1>2, <1>3, <1>4
<1> QED
  BY <1>5 DEF directions

LEMMA DirectionsAreLines ==
  ASSUME CorpusInv, StartedInv
  PROVE  DirectionLines(job.val) \in Seq(ToSet(DirectionLines(job.val)))
<1>1. PICK m \in Nat : DOMAIN job.val = 1 .. m
  BY ExamplesAreSequences
<1> QED
  BY <1>1, DirectionsOf

LEMMA CardCards ==
  ASSUME CoreInv, CardsInv, [Next]_vars, WriteModelCard
  PROVE  CardsInv'
<1>1. CorpusInv /\ ArtifactsInv /\ Len(artifacts) \in Nat /\ DOMAIN artifacts = 1 .. Len(artifacts)
  BY DEF CoreInv, ArtifactsInv
<1>2. job.stage = "saved" /\ job' = Idle /\ job'.stage = "idle" /\ UNCHANGED files
  BY DEF WriteModelCard, Idle
<1>3. StartedInv /\ TokenizerInv
  BY <1>2 DEF CoreInv, JobInv, Idle
<1> DEFINE last == Len(artifacts)
           old == artifacts[last]
           directions == DirectionLines(job.val)
           predictions == Predictions(job.hypotheses)
           references == References(job.val)
           card == RunEvaluation(predictions, references, directions, Hyperparameters(job))
<1>4. last \in 1 .. Len(artifacts)
  BY <1>1, <1>2, <1>3 DEF StartedInv
<1>5. artifacts' = [artifacts EXCEPT ![last].card = card]
  BY DEF WriteModelCard
<1>6. directions \in Seq(ToSet(directions))
  BY <1>1, <1>3, DirectionsAreLines
<1> HIDE DEF directions, predictions, references
<1>7. /\ card # NoCard
      /\ FirstLine(card, "new_tokens_added") = job.added
      /\ FirstLine(card, "vocab_extension_scoping") = job.scoping
  BY <1>6, CardFacts
<1> HIDE DEF card
<1>8. /\ Len(artifacts') = Len(artifacts)
      /\ \A a \in 1 .. Len(artifacts) : a # last => artifacts'[a] = artifacts[a]
      /\ artifacts'[last] = [old EXCEPT !.card = card]
  <2> HIDE DEF last
  <2>1. DOMAIN artifacts' = DOMAIN artifacts
    BY <1>5
  <2>2. artifacts' \in Seq(ToSet(artifacts'))
    BY CardCore DEF CoreInv, ArtifactsInv
  <2>3. DOMAIN artifacts' = 1 .. Len(artifacts') /\ Len(artifacts') \in Nat
    BY <2>2
  <2>4. Len(artifacts') = Len(artifacts)
    BY <1>1, <2>1, <2>3
  <2> QED
    BY <1>1, <1>4, <1>5, <2>4
<1>9. IsDirectory(old) /\ old.past.corpora \subseteq Readable
  BY <1>1, <1>4 DEF ArtifactsInv
<1>10. /\ old.vocab = job.tokenizer.vocab
       /\ ScopedTruly(old, job.scoping, Trains) /\ Rebuilt(old, job.scoping, Trains)
       /\ Counted(old, job.added) /\ job.added \in Nat
  BY <1>2, <1>3 DEF CardsInv, SavedInv, TokenizerInv
<1>11. CardInv(artifacts'[last], Trains')
  <2> DEFINE new == artifacts'[last]
  <2> HIDE DEF last, old
  <2>1. new.card = card /\ new.vocab = old.vocab /\ new.past = old.past
    BY <1>8, <1>9 DEF IsDirectory
  <2>2. ScopedTruly(old, job.scoping, Trains') /\ Rebuilt(old, job.scoping, Trains')
    <3>1. old.past.corpora \subseteq Stages
      BY <1>9 DEF Readable
    <3>2. \A corpus \in old.past.corpora : Trains'[corpus] = Trains[corpus]
      BY <1>1, <1>9, TrainsStay
    <3> QED
      BY <1>10, <3>1, <3>2, PromisesKeep
  <2> HIDE DEF new
  <2>3. /\ ScopedTruly(new, job.scoping, Trains') /\ Rebuilt(new, job.scoping, Trains')
        /\ Counted(new, job.added)
    BY <1>10, <2>1, <2>2 DEF ScopedTruly, Rebuilt, Counted
  <2>4. CardInv(new, Trains')
    BY <1>7, <1>10, <2>1, <2>3 DEF CardInv
  <2> QED
    BY <2>4 DEF new
<1>12. \A a \in 1 .. Len(artifacts) : a # last => CardInv(artifacts'[a], Trains')
  <2> SUFFICES ASSUME NEW a \in 1 .. Len(artifacts), a # last
               PROVE  CardInv(artifacts'[a], Trains')
    OBVIOUS
  <2>1. CardInv(artifacts[a], Trains)
    BY DEF CardsInv
  <2>2. CardInv(artifacts[a], Trains')
    BY <1>1, <2>1, OldCardsKeep
  <2> QED
    BY <1>8, <2>2
<1> QED
  BY <1>2, <1>8, <1>11, <1>12 DEF CardsInv, SavedInv
LEMMA SixLetters ==
  ASSUME NEW X, NEW a \in X, NEW b \in X, NEW c \in X
  PROVE  /\ << a, a, b, c, a, a >> \in Seq(X) /\ << a, a, b, c, a, a >> # << >>
         /\ << a, a, b, c, a, a >>[1] = a
OBVIOUS

LEMMA SevenLetters ==
  ASSUME NEW X, NEW a \in X, NEW b \in X, NEW c \in X, NEW d \in X
  PROVE  /\ << a, a, b, c, d, a, a >> \in Seq(X) /\ << a, a, b, c, d, a, a >> # << >>
         /\ << a, a, b, c, d, a, a >>[1] = a
OBVIOUS

LEMMA HasNoSpace ==
  ASSUME NEW X, X \cap Spaces = {}, NEW t \in Seq(X)
  PROVE  \A i \in DOMAIN t : t[i] \notin Spaces
OBVIOUS

(* A tag is one word.                                                      *)
LEMMA TagIsOneWord == \A tag \in DirectionTags : ToSet(Words(tag)) = {tag}
<1> SUFFICES ASSUME NEW lang \in Langs PROVE ToSet(Words(DirectionTag[lang])) = {DirectionTag[lang]}
  BY DEF DirectionTags
<1>1. DirectionTag[lang] \in Seq(Characters)
  BY TagAssumption DEF DirectionTags
<1>2. DirectionTag[lang] # << >> /\ \A i \in DOMAIN DirectionTag[lang] : DirectionTag[lang][i] \notin Spaces
  <2>1. CASE lang = "es"
    <3> DEFINE letters == {"_", "e", "s"}
    <3>1. DirectionTag[lang] = << "_", "_", "e", "s", "_", "_" >>
      BY <2>1 DEF DirectionTag
    <3>2. letters \cap Spaces = {}
      BY DEF Spaces
    <3>3. "_" \in letters /\ "e" \in letters /\ "s" \in letters
      OBVIOUS
    <3> HIDE DEF letters
    <3>4. << "_", "_", "e", "s", "_", "_" >> \in Seq(letters) /\ << "_", "_", "e", "s", "_", "_" >> # << >>
      BY <3>3, SixLetters
    <3> QED
      BY <3>1, <3>2, <3>4, HasNoSpace
  <2>2. CASE lang = "cak"
    <3> DEFINE letters == {"_", "c", "a", "k"}
    <3>1. DirectionTag[lang] = << "_", "_", "c", "a", "k", "_", "_" >>
      BY <2>2 DEF DirectionTag
    <3>2. letters \cap Spaces = {}
      BY DEF Spaces
    <3>3. "_" \in letters /\ "c" \in letters /\ "a" \in letters /\ "k" \in letters
      OBVIOUS
    <3> HIDE DEF letters
    <3>4. << "_", "_", "c", "a", "k", "_", "_" >> \in Seq(letters) /\ << "_", "_", "c", "a", "k", "_", "_" >> # << >>
      BY <3>3, SevenLetters
    <3> QED
      BY <3>1, <3>2, <3>4, HasNoSpace
  <2> QED
    BY <2>1, <2>2 DEF Langs
<1> QED
  BY <1>1, <1>2, WordsFacts

(* The whole words some Kaqchikel texts call for are words of a sentence, or  *)
(* direction tags.                                                          *)
LEMMA WordsOfSample ==
  ASSUME NEW pairs \in Seq(Strings \X Strings), NEW vocab
  PROVE  NewWords(TrainSampleTexts(pairs, KaqchikelOnly), vocab)
             \subseteq DirectionTags \cup UNION { ToSet(Words(pair[2])) : pair \in ToSet(pairs) }
<1> DEFINE texts == TrainSampleTexts(pairs, KaqchikelOnly)
           right == { pairs[i][2] : i \in DOMAIN pairs }
<1>1. texts = right \cup DirectionTags
  BY DEF TrainSampleTexts
<1>2. \A text \in right : \E pair \in ToSet(pairs) : text = pair[2]
  BY DEF ToSet
<1>3. \A tag \in DirectionTags : ToSet(Words(tag)) = {tag}
  BY TagIsOneWord
<1> HIDE DEF texts, right
<1> SUFFICES ASSUME NEW word \in NewWords(texts, vocab)
             PROVE  word \in DirectionTags \cup UNION { ToSet(Words(pair[2])) : pair \in ToSet(pairs) }
  BY DEF texts
<1>4. \E text \in texts : word \in ToSet(Words(text))
  <2>1. word \in Candidates(texts) /\ Len(word) > 1
    BY DEF NewWords
  <2>2. ASSUME NEW c, word = << c >> PROVE FALSE
    BY <2>1, <2>2
  <2>3. word \notin { << c >> : c \in { d \in UNION { ToSet(text) : text \in texts } : d \notin Spaces } }
    BY <2>2
  <2> QED
    BY <2>1, <2>3 DEF Candidates
<1> QED
  BY <1>1, <1>2, <1>3, <1>4

(* What a saved directory owes the card its job is about to write.           *)
LEMMA SavedKeepsPromises ==
  ASSUME CoreInv, CardsInv, StartedInv, TokenizerInv, job.stage = "training",
         NEW dir, SavedDirectory(dir)
  PROVE  /\ ScopedTruly(dir, job.scoping, Trains) /\ Rebuilt(dir, job.scoping, Trains)
         /\ Counted(dir, job.added)
<1> DEFINE corpus == job.args.corpus
           pairs == PairsOf(corpus, "train")
           texts == TrainSampleTexts(pairs, KaqchikelOnly)
           source == Source(job.init)
           old == artifacts[job.init]
           claim == FirstLine(old.card, "vocab_extension_scoping")
<1>1. /\ job.init \in 0 .. Len(artifacts) /\ corpus \in Stages /\ Len(artifacts) \in Nat
      /\ Trains[corpus] = pairs /\ pairs \in Seq(Strings \X Strings)
      /\ job.scoping = VocabExtensionScoping(job.init)
  BY StartedFacts, PairsFacts DEF StartedInv, CoreInv, ArtifactsInv, Trains, Splits
<1>2. /\ ToSet(source.vocab) \cup Candidates(texts) \subseteq ToSet(dir.vocab)
      /\ job.words = NewWords(texts, source.vocab)
      /\ job.added = Cardinality(ToSet(dir.vocab) \ ToSet(source.vocab))
  BY DEF TokenizerInv, SampleTexts, SavedDirectory
<1>3. /\ dir.past.runs = Past(job.init).runs + 1
      /\ dir.past.corpora = Past(job.init).corpora \cup {corpus}
      /\ dir.past.words = Past(job.init).words \cup job.words
      /\ dir.past.carded = (Past(job.init).carded /\ (job.init = 0 \/ Card(job.init) # NoCard))
  BY DEF SavedDirectory
<1>4. job.words \subseteq DirectionTags \cup UNION { ToSet(Words(pair[2])) : pair \in ToSet(pairs) }
  <2> HIDE DEF pairs, source
  <2> QED
    BY <1>1, <1>2, WordsOfSample
<1>5. CASE job.init = 0
  <2>1. /\ Past(0).runs = 0 /\ Past(0).corpora = {} /\ Past(0).words = {} /\ source.vocab = BaseVocab
        /\ job.scoping = KaqchikelOnly
    BY <1>1, <1>5 DEF Past, NoPast, Source, BaseModel, VocabExtensionScoping
  <2>2. dir.past.corpora = {corpus} /\ dir.past.words = job.words /\ dir.past.runs = 1
    BY <1>3, <1>5, <2>1
  <2> HIDE DEF source, corpus, pairs
  <2>3. ScopedTruly(dir, job.scoping, Trains)
    BY <1>1, <1>4, <2>2 DEF ScopedTruly
  <2>4. Rebuilt(dir, job.scoping, Trains)
    <3> SUFFICES ASSUME NEW c \in Stages, dir.past.corpora = {c}
                 PROVE  LET sample == TrainSampleTexts(Trains[c], job.scoping)
                        IN  /\ dir.past.words = NewWords(sample, BaseVocab)
                            /\ Candidates(sample) \subseteq ToSet(dir.vocab)
      BY DEF Rebuilt
    <3>1. c = corpus
      BY <2>2
    <3>2. TrainSampleTexts(Trains[c], job.scoping) = texts
      BY <1>1, <2>1, <3>1
    <3> HIDE DEF texts
    <3> QED
      BY <1>2, <2>1, <2>2, <3>2
  <2>5. Counted(dir, job.added)
    BY <1>2, <2>1 DEF Counted
  <2> QED
    BY <2>3, <2>4, <2>5
<1>6. CASE job.init # 0
  <2>1. /\ Past(job.init) = old.past /\ source = old /\ Card(job.init) = old.card
        /\ job.scoping = IF claim = KaqchikelOnly THEN KaqchikelOnly ELSE Absent
    BY <1>1, <1>6 DEF Past, Source, VocabExtensionScoping, Card
  <2>2. IsDirectory(old) /\ CardInv(old, Trains)
    BY <1>1, <1>6 DEF CoreInv, ArtifactsInv, CardsInv
  <2> HIDE DEF source, corpus, pairs, old
  <2>3. /\ dir.past.runs = old.past.runs + 1 /\ dir.past.corpora = old.past.corpora \cup {corpus}
        /\ dir.past.words = old.past.words \cup job.words
        /\ dir.past.carded => old.past.carded /\ old.card # NoCard
    BY <1>3, <1>6, <2>1
  <2>4. /\ old.past.runs \in Nat \ {0} /\ old.past.corpora # {}
        /\ ScopedTruly(old, claim, Trains)
        /\ old.card # NoCard => Rebuilt(old, claim, Trains)
    BY <2>2, NumbersAssumption DEF IsDirectory, CardInv
  <2> HIDE DEF claim
  <2>5. ScopedTruly(dir, job.scoping, Trains)
    <3>1. CASE claim = KaqchikelOnly
      BY <1>1, <1>4, <2>3, <2>4, <3>1 DEF ScopedTruly
    <3>2. CASE claim # KaqchikelOnly
      BY <2>1, <3>2, AbsentAssumption DEF ScopedTruly
    <3> QED
      BY <3>1, <3>2
  <2>6. Rebuilt(dir, job.scoping, Trains)
    <3> SUFFICES ASSUME NEW c \in Stages, dir.past.corpora = {c}, dir.past.carded
                 PROVE  LET sample == TrainSampleTexts(Trains[c], job.scoping)
                        IN  /\ dir.past.words = NewWords(sample, BaseVocab)
                            /\ Candidates(sample) \subseteq ToSet(dir.vocab)
      BY DEF Rebuilt
    <3> DEFINE sample == TrainSampleTexts(Trains[c], claim)
    <3>1. c = corpus /\ old.past.corpora = {c}
      BY <2>3, <2>4
    <3>2. old.past.words = NewWords(sample, BaseVocab) /\ Candidates(sample) \subseteq ToSet(old.vocab)
      BY <2>3, <2>4, <3>1 DEF Rebuilt
    <3>3. TrainSampleTexts(Trains[c], job.scoping) = sample
      BY <2>1, AbsentAssumption DEF TrainSampleTexts
    <3>4. texts \subseteq sample
      BY <1>1, <3>1, SampleFacts
    <3> HIDE DEF sample, texts
    <3>5. Candidates(texts) \subseteq Candidates(sample)
      BY <3>4, CandidatesGrow
    <3>6. job.words = {}
      BY <1>2, <2>1, <3>2, <3>5 DEF NewWords
    <3>7. ToSet(old.vocab) \subseteq ToSet(dir.vocab)
      BY <1>2, <2>1
    <3> QED
      BY <2>3, <3>2, <3>3, <3>6, <3>7
  <2>7. Counted(dir, job.added)
    BY <2>3, <2>4 DEF Counted
  <2> QED
    BY <2>5, <2>6, <2>7
<1> QED
  BY <1>5, <1>6

LEMMA SaveCards ==
  ASSUME CoreInv, CardsInv, [Next]_vars, SaveModelAndTokenizer
  PROVE  CardsInv'
<1>1. CorpusInv /\ ArtifactsInv /\ Len(artifacts) \in Nat
  BY DEF CoreInv, ArtifactsInv
<1>2. job.stage = "training"
  BY DEF SaveModelAndTokenizer
<1>3. StartedInv /\ TokenizerInv
  BY <1>2 DEF CoreInv, JobInv, Idle
<1>4. KeepsStart /\ KeepsTokenizer /\ UNCHANGED files
  BY <1>3, SaveFacts
<1>5. PICK dir : SavedDirectory(dir) /\ artifacts' = Append(artifacts, dir)
  BY <1>3, SaveFacts
<1>6. dir.card = NoCard /\ dir.vocab = job.tokenizer.vocab
  BY <1>5 DEF SavedDirectory
<1>7. \A a \in 1 .. Len(artifacts') : CardInv(artifacts'[a], Trains')
  BY <1>5, <1>6, AddedCards
<1>8. IsDirectory(dir) /\ IsAverage(dir) /\ dir.past.corpora \subseteq Readable
  BY <1>1, <1>2, <1>3, <1>5, SavedIsDirectory
<1>9. artifacts'[Len(artifacts')] = dir
  BY <1>1, <1>5, <1>8, ArtifactsAdded
<1>10. /\ ScopedTruly(dir, job.scoping, Trains) /\ Rebuilt(dir, job.scoping, Trains)
       /\ Counted(dir, job.added)
  BY <1>2, <1>3, <1>5, SavedKeepsPromises
<1>11. Trains' = Trains
  BY <1>4 DEF Trains, PairsOf
<1> QED
  BY <1>4, <1>6, <1>7, <1>9, <1>10, <1>11 DEF CardsInv, SavedInv, KeepsStart, KeepsTokenizer
LEMMA CardsInductive ==
  ASSUME CoreInv, CardsInv, [Next]_vars
  PROVE  CardsInv'
<1>1. CASE Diagnose
  BY <1>1, DiagnoseKeepsFiles, QuietCards
<1>2. CASE CorpusNext /\ UNCHANGED lineageVars
  BY <1>2, QuietCards DEF lineageVars
<1>3. CASE LineageNext
  <2>1. ASSUME NEW args \in TrainingRuns, NEW init \in 0 .. Len(artifacts),
               StartTrainingJob(args, init)
        PROVE  CardsInv'
    <3>1. job'.stage = "loaded" /\ artifacts' = artifacts
      BY <2>1 DEF StartTrainingJob
    <3> QED
      BY <3>1, QuietCards
  <2>2. CASE ExtendVocabularyForExamples
    <3>1. StartedInv /\ artifacts' = artifacts
      BY <2>2 DEF ExtendVocabularyForExamples, CoreInv, JobInv, Idle
    <3>2. job'.stage = "extended"
      BY <2>2, <3>1 DEF ExtendVocabularyForExamples, StartedInv
    <3> QED
      BY <3>1, <3>2, QuietCards
  <2>3. CASE FineTuneEpoch
    <3>1. StartedInv /\ artifacts' = artifacts
      BY <2>3 DEF FineTuneEpoch, CoreInv, JobInv, Idle
    <3>2. job'.stage = "training"
      BY <2>3, <3>1 DEF FineTuneEpoch, StartedInv
    <3> QED
      BY <3>1, <3>2, QuietCards
  <2>4. CASE SaveModelAndTokenizer
    BY <2>4, SaveCards
  <2>5. ASSUME NEW spelling \in Spellings, GenerateBatch(spelling) PROVE CardsInv'
    <3>1. StartedInv /\ artifacts' = artifacts /\ job.stage = "saved"
      BY <2>5 DEF GenerateBatch, CoreInv, JobInv, Idle
    <3>2. PICK hypotheses : job' = [job EXCEPT !.pending = Tail(@), !.hypotheses = hypotheses]
      BY <2>5 DEF GenerateBatch
    <3>3. job'.tokenizer = job.tokenizer /\ job'.scoping = job.scoping /\ job'.added = job.added
      BY <3>1, <3>2 DEF StartedInv
    <3> QED
      BY <3>1, <3>3, QuietCards
  <2>6. CASE WriteModelCard
    BY <2>6, CardCards
  <2>7. CASE JobDies
    <3>1. job'.stage = "idle" /\ artifacts' = artifacts
      BY <2>7 DEF JobDies, Idle
    <3> QED
      BY <3>1, QuietCards
  <2>8. ASSUME NEW n \in 1 .. AverageN, AverageCheckpoints(n) PROVE CardsInv'
    BY <2>8, AverageCards
  <2>9. ASSUME NEW a \in DOMAIN artifacts, NEW corpus \in Stages, NEW direction \in Directions,
               EvaluateCheckpoint(a, corpus, direction)
        PROVE  CardsInv'
    <3>1. UNCHANGED << job, artifacts >>
      BY <2>9 DEF EvaluateCheckpoint, lineageVars
    <3> QED
      BY <3>1, QuietCards
  <2>10. ASSUME NEW a \in DOMAIN artifacts, NEW request \in Requests, Serve(a, request)
         PROVE  CardsInv'
    <3>1. UNCHANGED << job, artifacts >>
      BY <2>10 DEF Serve, lineageVars
    <3> QED
      BY <3>1, QuietCards
  <2> QED
    BY <1>3, <2>1, <2>2, <2>3, <2>4, <2>5, <2>6, <2>7, <2>8, <2>9, <2>10 DEF LineageNext
<1>4. CASE UNCHANGED vars
  BY <1>4, QuietCards DEF vars
<1> QED
  BY <1>1, <1>2, <1>3, <1>4 DEF Next

THEOREM CardsAreInvariant == Spec => [](CoreInv /\ CardsInv)
BY InitInv, CoreInductive, CardsInductive, PTL DEF Spec

(* A card that claims the scoping tells the truth of every job behind it.     *)
LEMMA CardsAreTrue == ArtifactsInv /\ CardsInv => ScopingIsTrue
<1> SUFFICES ASSUME ArtifactsInv, CardsInv, NEW a \in DOMAIN artifacts, Claims(a) = KaqchikelOnly
             PROVE  artifacts[a].past.words \subseteq
                        DirectionTags \cup
                        UNION { UNION { ToSet(Words(pair[2])) : pair \in ToSet(PairsOf(corpus, "train")) } :
                                corpus \in artifacts[a].past.corpora }
  BY DEF ScopingIsTrue
<1>1. a \in 1 .. Len(artifacts)
  BY DEF ArtifactsInv
<1>2. artifacts[a].past.corpora \subseteq Stages
  BY <1>1 DEF ArtifactsInv, IsDirectory
<1>3. \A corpus \in artifacts[a].past.corpora : Trains[corpus] = PairsOf(corpus, "train")
  BY <1>2 DEF Trains
<1>4. ScopedTruly(artifacts[a], KaqchikelOnly, Trains)
  BY <1>1 DEF CardsInv, CardInv, Claims
<1> QED
  BY <1>3, <1>4 DEF ScopedTruly

THEOREM ScopingClaimsAreTrue == Spec => []ScopingIsTrue
<1>1. CoreInv /\ CardsInv => ScopingIsTrue
  BY CardsAreTrue DEF CoreInv
<1> QED
  BY <1>1, CardsAreInvariant, PTL
-----------------------------------------------------------------------------
(* The files a job writes line up again.                                    *)

(* A text for a sentence takes its place; no other place moves.              *)
LEMMA WrittenBackFacts ==
  ASSUME NEW X, NEW hypotheses \in Seq(X), NEW batch, NEW texts
  PROVE  LET new == WrittenBack(hypotheses, batch, texts)
         IN  new \in Seq(ToSet(new)) /\ Len(new) = Len(hypotheses)
<1> DEFINE new == WrittenBack(hypotheses, batch, texts)
<1>1. DOMAIN new = 1 .. Len(hypotheses) /\ Len(hypotheses) \in Nat
  BY DEF WrittenBack
<1>2. new = [i \in 1 .. Len(hypotheses) |-> new[i]]
  BY <1>1 DEF WrittenBack
<1>3. \A i \in 1 .. Len(hypotheses) : new[i] \in ToSet(new)
  BY <1>1 DEF ToSet
<1> HIDE DEF new
<1> QED
  BY <1>1, <1>2, <1>3 DEF new

LEMMA HypothesesInductive ==
  ASSUME CoreInv, HypothesesInv, [Next]_vars
  PROVE  HypothesesInv'
<1>1. CASE job'.stage # "saved"
  BY <1>1 DEF HypothesesInv
<1>2. CASE job' = job
  BY <1>2 DEF HypothesesInv
<1>3. CASE SaveModelAndTokenizer
  <2>1. StartedInv /\ CorpusInv
    BY <1>3 DEF SaveModelAndTokenizer, CoreInv, JobInv, Idle
  <2>2. job'.hypotheses = [i \in DOMAIN job.val |-> Absent] /\ job'.val = job.val
    BY <1>3, <2>1, SaveFacts DEF KeepsStart
  <2>3. DOMAIN job.val = 1 .. Len(job.val) /\ Len(job.val) \in Nat
    BY <2>1, ExamplesAreSequences
  <2> DEFINE new == [i \in 1 .. Len(job.val) |-> Absent]
  <2>4. job'.hypotheses = new
    BY <2>2, <2>3
  <2>5. new \in Seq({Absent}) /\ Len(new) = Len(job.val)
    BY <2>3
  <2>6. \A i \in 1 .. Len(job.val) : new[i] \in ToSet(new)
    BY DEF ToSet
  <2> HIDE DEF new
  <2>7. new \in Seq(ToSet(new))
    BY <2>5, <2>6
  <2> QED
    BY <2>2, <2>4, <2>5, <2>7 DEF HypothesesInv
<1>4. ASSUME NEW spelling \in Spellings, GenerateBatch(spelling) PROVE HypothesesInv'
  <2>1. StartedInv /\ job.stage = "saved"
    BY <1>4 DEF GenerateBatch, CoreInv, JobInv, Idle
  <2>2. PICK batch, texts : job' = [job EXCEPT !.pending = Tail(@), !.hypotheses = WrittenBack(@, batch, texts)]
    BY <1>4 DEF GenerateBatch
  <2>3. job'.hypotheses = WrittenBack(job.hypotheses, batch, texts) /\ job'.val = job.val
    BY <2>1, <2>2 DEF StartedInv
  <2>4. job.hypotheses \in Seq(ToSet(job.hypotheses)) /\ Len(job.hypotheses) = Len(job.val)
    BY <2>1 DEF HypothesesInv
  <2> QED
    BY <2>3, <2>4, WrittenBackFacts DEF HypothesesInv
<1>5. CASE Diagnose
  BY <1>2, <1>5, DiagnoseKeepsFiles
<1>6. CASE CorpusNext /\ UNCHANGED lineageVars
  BY <1>2, <1>6 DEF lineageVars
<1>7. CASE LineageNext
  <2>1. ASSUME NEW args \in TrainingRuns, NEW init \in 0 .. Len(artifacts),
               StartTrainingJob(args, init)
        PROVE  HypothesesInv'
    <3>1. job'.stage = "loaded"
      BY <2>1 DEF StartTrainingJob
    <3> QED
      BY <1>1, <3>1
  <2>2. CASE ExtendVocabularyForExamples
    <3>1. StartedInv
      BY <2>2 DEF ExtendVocabularyForExamples, CoreInv, JobInv, Idle
    <3>2. job'.stage = "extended"
      BY <2>2, <3>1 DEF ExtendVocabularyForExamples, StartedInv
    <3> QED
      BY <1>1, <3>2
  <2>3. CASE FineTuneEpoch
    <3>1. StartedInv
      BY <2>3 DEF FineTuneEpoch, CoreInv, JobInv, Idle
    <3>2. job'.stage = "training"
      BY <2>3, <3>1 DEF FineTuneEpoch, StartedInv
    <3> QED
      BY <1>1, <3>2
  <2>4. CASE WriteModelCard \/ JobDies
    BY <1>1, <2>4 DEF WriteModelCard, JobDies, Idle
  <2>5. ASSUME NEW n \in 1 .. AverageN, AverageCheckpoints(n) PROVE HypothesesInv'
    BY <1>2, <2>5 DEF AverageCheckpoints
  <2>6. ASSUME NEW a \in DOMAIN artifacts, NEW corpus \in Stages, NEW direction \in Directions,
               EvaluateCheckpoint(a, corpus, direction)
        PROVE  HypothesesInv'
    BY <1>2, <2>6 DEF EvaluateCheckpoint, lineageVars
  <2>7. ASSUME NEW a \in DOMAIN artifacts, NEW request \in Requests, Serve(a, request)
        PROVE  HypothesesInv'
    BY <1>2, <2>7 DEF Serve, lineageVars
  <2> QED
    BY <1>3, <1>4, <1>7, <2>1, <2>2, <2>3, <2>4, <2>5, <2>6, <2>7 DEF LineageNext
<1>8. CASE UNCHANGED vars
  BY <1>2, <1>8 DEF vars
<1> QED
  BY <1>5, <1>6, <1>7, <1>8 DEF Next

(* A file has one line, or as many as there are texts, and is read so.        *)
LEMMA LinesOf ==
  ASSUME NEW X, NEW texts \in Seq(X)
  PROVE  Len(ReadLines(WriteLines(texts))) = IF Len(texts) = 0 THEN 1 ELSE Len(texts)
<1>1. Len(texts) \in Nat /\ DOMAIN texts = 1 .. Len(texts) /\ (texts = << >> <=> Len(texts) = 0)
  OBVIOUS
<1>2. CASE Len(texts) = 0
  <2>1. WriteLines(texts) = << << >> >>
    BY <1>1, <1>2 DEF WriteLines
  <2>2. ReadLines(<< << >> >>) = [i \in 1 .. 1 |-> Strip(<< << >> >>[i])]
    BY DEF ReadLines
  <2> QED
    BY <1>2, <2>1, <2>2
<1>3. CASE Len(texts) # 0
  <2>1. WriteLines(texts) = texts
    BY <1>1, <1>3 DEF WriteLines
  <2>2. ReadLines(texts) = [i \in 1 .. Len(texts) |-> Strip(texts[i])]
    BY <1>1 DEF ReadLines
  <2> QED
    BY <1>1, <1>3, <2>1, <2>2
<1> QED
  BY <1>2, <1>3

LEMMA FilesLineUp == CoreInv /\ HypothesesInv => LinesStayAligned
<1> SUFFICES ASSUME CoreInv, HypothesesInv, job.stage = "saved"
             PROVE  ScoresFiles(Predictions(job.hypotheses), References(job.val), DirectionLines(job.val))
  BY DEF LinesStayAligned
<1>1. CorpusInv /\ StartedInv
  BY DEF CoreInv, JobInv, Idle
<1> DEFINE n == Len(job.val)
           targets == [i \in DOMAIN job.val |-> job.val[i].target]
           names == [i \in DOMAIN job.val |-> DirectionName(job.val[i])]
<1>2. n \in Nat /\ DOMAIN job.val = 1 .. n
  BY <1>1, ExamplesAreSequences
<1>3. job.hypotheses \in Seq(ToSet(job.hypotheses)) /\ Len(job.hypotheses) = n
  BY DEF HypothesesInv
<1> HIDE DEF n
<1>4. targets \in Seq({ job.val[i].target : i \in 1 .. n }) /\ Len(targets) = n
  BY <1>2
<1>5. names \in Seq({ DirectionName(job.val[i]) : i \in 1 .. n }) /\ Len(names) = n
  BY <1>2
<1>6. Predictions(job.hypotheses) = WriteLines(job.hypotheses)
  BY DEF Predictions
<1>7. References(job.val) = WriteLines(targets) /\ DirectionLines(job.val) = WriteLines(names)
  BY DEF References, DirectionLines
<1> HIDE DEF targets, names
<1>8. /\ Len(ReadLines(WriteLines(job.hypotheses))) = IF n = 0 THEN 1 ELSE n
      /\ Len(ReadLines(WriteLines(targets))) = IF n = 0 THEN 1 ELSE n
      /\ Len(ReadLines(WriteLines(names))) = IF n = 0 THEN 1 ELSE n
  BY <1>3, <1>4, <1>5, LinesOf
<1> QED
  BY <1>6, <1>7, <1>8 DEF ScoresFiles

(* Whatever was generated, the card can be written.                          *)
THEOREM LinesAreAligned == Spec => []LinesStayAligned
<1>1. Spec => [](CoreInv /\ HypothesesInv)
  BY InitInv, CoreInductive, HypothesesInductive, PTL DEF Spec
<1> QED
  BY <1>1, FilesLineUp, PTL
-----------------------------------------------------------------------------
(* What an evaluation reports.                                              *)

(* The words an evaluation reconstructs.                                     *)
LEMMA ReconstructedWords ==
  ASSUME CorpusInv, NEW corpus \in Stages, IsReadable(corpus, "train"), NEW scoping, NEW vocab
  PROVE  BoundaryTokens(vocab, TrainSampleTexts(PairsOf(corpus, "train"), scoping))
             = NewWords(SampleTexts(corpus, scoping), BaseVocab)
<1> DEFINE pairs == PairsOf(corpus, "train")
           texts == TrainSampleTexts(pairs, scoping)
<1>1. pairs \in Seq(Strings \X Strings)
  BY PairsFacts DEF Splits
<1> HIDE DEF pairs
<1>2. texts \in SUBSET Strings /\ IsFiniteSet(texts)
  BY <1>1, SampleFacts
<1> HIDE DEF texts
<1>3. SelectWholeWordTokens(ComputeNewTokensForTexts(texts, BaseVocab)) = NewWords(texts, BaseVocab)
  BY <1>2, NewTokens
<1>4. BoundaryTokens(vocab, texts) = NewWords(texts, BaseVocab)
  BY <1>3 DEF BoundaryTokens, ReconstructWholeWordBoundaryTokens
<1> QED
  BY <1>4 DEF SampleTexts, texts, pairs

LEMMA EvaluateOutcome ==
  ASSUME CoreInv, NEW a \in DOMAIN artifacts, NEW corpus \in Stages, NEW direction \in Directions,
         EvaluateCheckpoint(a, corpus, direction)
  PROVE  OutcomeInv'
<1>1. CorpusInv /\ DOMAIN artifacts = 1 .. Len(artifacts)
  BY DEF CoreInv, ArtifactsInv
<1> DEFINE dir == artifacts[a]
           scoping == FirstLine(dir.card, "vocab_extension_scoping")
           added == FirstLine(dir.card, "new_tokens_added")
           marks == BoundaryTokens(dir.vocab, TrainSampleTexts(PairsOf(corpus, "train"), scoping))
<1>2. /\ outcome'.kind = "evaluation" /\ outcome'.artifact = a /\ outcome'.corpus = corpus
      /\ outcome'.marks = marks /\ outcome'.warns = Diagnosis(dir.vocab, marks, added)
      /\ UNCHANGED << files, artifacts >> /\ IsReadable(corpus, "train")
  BY DEF EvaluateCheckpoint, lineageVars, Splits
<1>3. marks = NewWords(SampleTexts(corpus, scoping), BaseVocab)
  BY <1>1, <1>2, ReconstructedWords
<1> HIDE DEF marks
<1>4. /\ IsReadable(corpus, "train")' /\ PairsOf(corpus, "train")' = PairsOf(corpus, "train")
  BY <1>2 DEF IsReadable, PairsOf
<1>5. SampleTexts(corpus, scoping)' = SampleTexts(corpus, scoping)
  BY <1>2, <1>4 DEF SampleTexts, PairsOf
<1> QED
  BY <1>1, <1>2, <1>3, <1>4, <1>5 DEF OutcomeInv, SampleTexts, IsReadable

LEMMA QuietOutcome ==
  ASSUME outcome'.kind \in {"nothing", "leaks", "alignment", "dialect", "rectify"}
  PROVE  OutcomeInv'
BY DEF OutcomeInv

LEMMA OutcomeInductive ==
  ASSUME CoreInv, OutcomeInv, [Next]_vars
  PROVE  OutcomeInv'
<1>1. CASE Diagnose
  BY <1>1, DiagnoseKeepsFiles, QuietOutcome
<1>2. CASE CorpusNext
  <2>1. ASSUME NEW split \in Splits, CleanCorpusFile(split) PROVE outcome'.kind = "nothing"
    BY <2>1 DEF CleanCorpusFile, NothingYet
  <2>2. ASSUME NEW stage \in Stages, ValidateSplitFiles(stage) PROVE outcome'.kind = "leaks"
    BY <2>2 DEF ValidateSplitFiles
  <2> QED
    BY <1>2, <2>1, <2>2, QuietOutcome DEF CorpusNext
<1>3. CASE LineageNext
  <2>1. CASE outcome'.kind = "nothing"
    BY <2>1, QuietOutcome
  <2>2. ASSUME NEW a \in DOMAIN artifacts, NEW corpus \in Stages, NEW direction \in Directions,
               EvaluateCheckpoint(a, corpus, direction)
        PROVE  OutcomeInv'
    BY <2>2, EvaluateOutcome
  <2>3. ASSUME NEW a \in DOMAIN artifacts, NEW request \in Requests, Serve(a, request)
        PROVE  OutcomeInv'
    <3>1. outcome'.kind = "answer" /\ outcome'.artifact = a /\ artifacts' = artifacts
      BY <2>3 DEF Serve, lineageVars
    <3>2. a \in 1 .. Len(artifacts')
      BY <3>1 DEF CoreInv, ArtifactsInv
    <3> QED
      BY <3>1, <3>2 DEF OutcomeInv
  <2>4. ASSUME NEW args \in TrainingRuns, NEW init \in 0 .. Len(artifacts),
               StartTrainingJob(args, init)
        PROVE  outcome'.kind = "nothing"
    BY <2>4 DEF StartTrainingJob, NothingYet
  <2>5. ExtendVocabularyForExamples => outcome'.kind = "nothing"
    BY DEF ExtendVocabularyForExamples, NothingYet
  <2>6. FineTuneEpoch => outcome'.kind = "nothing"
    BY DEF FineTuneEpoch, NothingYet
  <2>7. SaveModelAndTokenizer => outcome'.kind = "nothing"
    BY DEF SaveModelAndTokenizer, NothingYet
  <2>8. ASSUME NEW spelling \in Spellings, GenerateBatch(spelling) PROVE outcome'.kind = "nothing"
    BY <2>8 DEF GenerateBatch, NothingYet
  <2>9. WriteModelCard \/ JobDies => outcome'.kind = "nothing"
    BY DEF WriteModelCard, JobDies, NothingYet
  <2>10. ASSUME NEW n \in 1 .. AverageN, AverageCheckpoints(n) PROVE outcome'.kind = "nothing"
    BY <2>10 DEF AverageCheckpoints, NothingYet
  <2> QED
    BY <1>3, <2>1, <2>2, <2>3, <2>4, <2>5, <2>6, <2>7, <2>8, <2>9, <2>10 DEF LineageNext
<1>4. CASE UNCHANGED vars
  <2>1. UNCHANGED << files, outcome, artifacts >>
    BY <1>4 DEF vars
  <2>2. \A corpus, scoping : SampleTexts(corpus, scoping)' = SampleTexts(corpus, scoping)
    BY <2>1 DEF SampleTexts, PairsOf
  <2> QED
    BY <2>1, <2>2 DEF OutcomeInv, IsReadable, SampleTexts, PairsOf
<1> QED
  BY <1>1, <1>2, <1>3, <1>4 DEF Next

(* An evaluation with the corpus of the chain finds the words its jobs marked. *)
LEMMA WordsAreFound == ArtifactsInv /\ CardsInv /\ OutcomeInv => ReconstructionIsExact
<1> SUFFICES ASSUME ArtifactsInv, CardsInv, OutcomeInv, SameCorpus
             PROVE  /\ outcome.marks = artifacts[outcome.artifact].past.words
                    /\ outcome.warns.over = {}
  BY DEF ReconstructionIsExact
<1> DEFINE dir == artifacts[outcome.artifact]
           scoping == FirstLine(dir.card, "vocab_extension_scoping")
           added == FirstLine(dir.card, "new_tokens_added")
<1>1. /\ outcome.kind = "evaluation" /\ outcome.artifact \in 1 .. Len(artifacts)
      /\ dir.past.corpora = {outcome.corpus} /\ dir.past.carded /\ dir.card # NoCard
      /\ outcome.corpus \in Stages
      /\ outcome.marks = NewWords(SampleTexts(outcome.corpus, scoping), BaseVocab)
      /\ outcome.warns = Diagnosis(dir.vocab, outcome.marks, added)
  BY DEF SameCorpus, OutcomeInv
<1>2. IsDirectory(dir) /\ Rebuilt(dir, scoping, Trains)
  BY <1>1 DEF ArtifactsInv, CardsInv, CardInv
<1>3. Trains[outcome.corpus] = PairsOf(outcome.corpus, "train")
  BY <1>1 DEF Trains
<1> HIDE DEF dir, scoping, added
<1>4. dir.past.words = NewWords(SampleTexts(outcome.corpus, scoping), BaseVocab)
  BY <1>1, <1>2, <1>3 DEF Rebuilt, SampleTexts
<1>5. outcome.warns.over = outcome.marks \ ToSet(dir.vocab) /\ dir.past.words \subseteq ToSet(dir.vocab)
  BY <1>1, <1>2 DEF Diagnosis, IsDirectory
<1> QED
  BY <1>1, <1>4, <1>5 DEF dir

(* The one job behind a directory counted all the tokens that are ambiguous.  *)
LEMMA WarningNeedsAChain == ArtifactsInv /\ CardsInv /\ OutcomeInv => UnderWarningNeedsAChain
<1> DEFINE dir == artifacts[outcome.artifact]
           added == FirstLine(dir.card, "new_tokens_added")
           ambiguous == AmbiguousTokens(dir.vocab) \ outcome.marks
           extra == ToSet(dir.vocab) \ ToSet(BaseVocab)
<1> SUFFICES ASSUME ArtifactsInv, CardsInv, OutcomeInv, outcome.kind = "evaluation",
                    outcome.warns.under, ~ dir.past.runs > 1
             PROVE  FALSE
  BY DEF UnderWarningNeedsAChain
<1>1. /\ outcome.artifact \in 1 .. Len(artifacts)
      /\ added # Absent /\ Cardinality(ambiguous) > added
  <2>1. outcome.warns = Diagnosis(dir.vocab, outcome.marks, added)
    BY DEF OutcomeInv
  <2>2. outcome.artifact \in 1 .. Len(artifacts)
    BY DEF OutcomeInv
  <2> HIDE DEF dir, added
  <2>3. Diagnosis(dir.vocab, outcome.marks, added).under =
            (added # Absent /\ Cardinality(ambiguous) > added)
    BY DEF Diagnosis
  <2>4. Diagnosis(dir.vocab, outcome.marks, added).under
    BY <2>1
  <2> HIDE DEF ambiguous
  <2> QED
    BY <2>2, <2>3, <2>4, Zenon
<1>2. IsDirectory(dir) /\ added \in Nat /\ Counted(dir, added)
  BY <1>1 DEF ArtifactsInv, CardsInv, CardInv
<1> HIDE DEF dir, added
<1>3. added = Cardinality(extra)
  BY <1>2, NumbersAssumption DEF Counted, IsDirectory
<1>4. ambiguous \subseteq extra /\ IsFiniteSet(extra)
  <2>1. IsFiniteSet(ToSet(dir.vocab))
    BY <1>2, ToSetIsFinite DEF IsDirectory, IsVocabulary
  <2> QED
    BY <2>1, FS_Subset DEF AmbiguousTokens
<1>5. Cardinality(ambiguous) =< Cardinality(extra) /\ Cardinality(ambiguous) \in Nat
  BY <1>4, FS_Subset, FS_CardinalityType
<1> QED
  BY <1>1, <1>2, <1>3, <1>5

LEMMA WorkbenchIsInvariant == Spec => [](CoreInv /\ CardsInv /\ OutcomeInv)
BY InitInv, CoreInductive, CardsInductive, OutcomeInductive, PTL DEF Spec

(* A re-evaluation with the corpus of the chain reconstructs exactly the words *)
(* that the jobs of the chain marked.                                        *)
THEOREM ReconstructionsAreExact == Spec => []ReconstructionIsExact
<1>1. CoreInv /\ CardsInv /\ OutcomeInv => ReconstructionIsExact
  BY WordsAreFound DEF CoreInv
<1> QED
  BY <1>1, WorkbenchIsInvariant, PTL

(* Only a chain of jobs can make an evaluation warn of missing words.         *)
THEOREM UnderWarningsNeedAChain == Spec => []UnderWarningNeedsAChain
<1>1. CoreInv /\ CardsInv /\ OutcomeInv => UnderWarningNeedsAChain
  BY WarningNeedsAChain DEF CoreInv
<1> QED
  BY <1>1, WorkbenchIsInvariant, PTL
-----------------------------------------------------------------------------
(* Types.                                                                   *)

LEMMA DirectoriesAreTyped ==
  ASSUME NEW dir, IsDirectory(dir), IsAverage(dir)
  PROVE  ArtifactOK(dir) /\ IsInjective(dir.vocab)
<1>1. dir.vocab \in Seq(Tokens) /\ IsInjective(dir.vocab)
  BY DEF IsDirectory, IsVocabulary
<1>2. \A i \in DOMAIN dir.vocab : dir.vocab[i] \in ToSet(BaseVocab) \/ IsText(dir.vocab[i])
  <2>1. \A i \in DOMAIN dir.vocab : dir.vocab[i] \in Tokens
    BY <1>1
  <2> QED
    BY <2>1 DEF Tokens, IsText, Strings
<1>3. dir.weights.epochs \in Seq(1 .. Epochs)
  <2> DEFINE n == Min({dir.past.asked, Epochs})
  <2>1. dir.past.asked \in Nat \ {0} /\ Epochs \in Nat \ {0} /\ dir.weights.epochs = LastEpochs(n)
    BY NumbersAssumption DEF IsAverage
  <2>2. n = IF dir.past.asked =< Epochs THEN dir.past.asked ELSE Epochs
    BY <2>1, MinOfTwo
  <2> HIDE DEF n
  <2>3. n \in Nat /\ n =< Epochs /\ \A k \in 1 .. n : Epochs - n + k \in 1 .. Epochs
    BY <2>1, <2>2
  <2>4. LastEpochs(n) \in Seq(1 .. Epochs)
    BY <2>3 DEF LastEpochs
  <2> QED
    BY <2>1, <2>4
<1>4. Len(dir.rows) >= Len(dir.vocab) /\ dir.weights.spelling \in Spellings /\ dir.past.runs \in 1 .. MaxJobs
  BY DEF IsDirectory
<1> QED
  BY <1>1, <1>2, <1>3, <1>4 DEF ArtifactOK

LEMMA InvariantsAreTyped == CoreInv /\ OutcomeInv => TypeOK
<1> SUFFICES ASSUME CoreInv, OutcomeInv PROVE TypeOK
  OBVIOUS
<1>1. \A split \in Splits : Written(split) => IsWellFormed(files["clean"][split])
  <2> SUFFICES ASSUME NEW split \in Splits, Written(split) PROVE IsReadable("clean", split)
    BY DEF IsReadable
  <2> QED
    BY CleanedPairs DEF CoreInv, CorpusInv, FilesInv
<1>2. job.stage \in {"idle", "loaded", "extended", "training", "saved"}
  BY DEF CoreInv, JobInv, Idle, StartedInv
<1>3. DOMAIN artifacts = 1 .. Len(artifacts)
  BY DEF CoreInv, ArtifactsInv
<1>4. \A a \in DOMAIN artifacts : ArtifactOK(artifacts[a]) /\ IsInjective(artifacts[a].vocab)
  BY <1>3, DirectoriesAreTyped DEF CoreInv, ArtifactsInv
<1>5. Len(checkpoints) =< SaveTotalLimit
  <2>1. AverageN \in Nat /\ Epochs \in Nat
    BY NumbersAssumption
  <2>2. ASSUME NEW last \in Nat, NEW steps, EpochsOf(checkpoints, last, steps)
        PROVE  Len(checkpoints) =< SaveTotalLimit
    <3>1. Len(checkpoints) = Min({last, SaveTotalLimit}) /\ SaveTotalLimit \in Nat
      BY <2>1, <2>2 DEF EpochsOf, SaveTotalLimit
    <3>2. Min({last, SaveTotalLimit}) = IF last =< SaveTotalLimit THEN last ELSE SaveTotalLimit
      BY <3>1, MinOfTwo
    <3> QED
      BY <3>1, <3>2
  <2>3. CASE checkpoints = << >>
    BY <2>1, <2>3 DEF SaveTotalLimit
  <2>4. CASE checkpoints # << >>
    <3>1. \/ job.epoch \in 1 .. Epochs /\ EpochsOf(checkpoints, job.epoch, StepsPerEpoch(job.train))
          \/ \E steps \in Nat : EpochsOf(checkpoints, Epochs, steps)
      BY <2>4 DEF CoreInv, CheckpointsInv
    <3> QED
      BY <2>1, <2>2, <3>1
  <2> QED
    BY <2>3, <2>4
<1> QED
  BY <1>1, <1>2, <1>3, <1>4, <1>5 DEF TypeOK, OutcomeInv

(* Every variable keeps its shape, and no vocabulary has a token twice.       *)
THEOREM WorkbenchTypes == Spec => []TypeOK
BY InvariantsAreTyped, WorkbenchIsInvariant, PTL
-----------------------------------------------------------------------------
(* What a model is trained on.                                              *)

(* A piece of a text, its marker included.                                   *)
Marked == Seq(Characters \cup {Marker})

Cutting(X) == [pos : Nat \ {0}, pieces : Seq(Seq(X)), stuck : BOOLEAN]

(* One step of the decomposition of a token.                                 *)
Take(token, known, state) ==
    LET Ends == { end \in state.pos .. Len(token) : SubSeq(token, state.pos, end) \in known }
    IN  IF state.pos > Len(token) \/ state.stuck THEN state
        ELSE IF Ends = {} THEN [state EXCEPT !.stuck = TRUE]
        ELSE LET end == Max(Ends)
             IN  [state EXCEPT !.pos = end + 1,
                               !.pieces = Append(@, SubSeq(token, state.pos, end))]

LEMMA TakeFacts ==
  ASSUME NEW X, NEW token \in Seq(X), NEW known, NEW state \in Cutting(X)
  PROVE  Take(token, known, state) \in Cutting(X)
<1> DEFINE Ends == { end \in state.pos .. Len(token) : SubSeq(token, state.pos, end) \in known }
           end == Max(Ends)
           piece == SubSeq(token, state.pos, end)
<1>1. state.pos \in Nat \ {0} /\ state.pieces \in Seq(Seq(X)) /\ Len(token) \in Nat
  BY DEF Cutting
<1>2. CASE state.pos > Len(token) \/ state.stuck
  BY <1>2 DEF Take
<1>3. CASE ~(state.pos > Len(token) \/ state.stuck) /\ Ends = {}
  BY <1>3 DEF Take, Cutting
<1>4. CASE ~(state.pos > Len(token) \/ state.stuck) /\ Ends # {}
  <2>1. Take(token, known, state) = [state EXCEPT !.pos = end + 1, !.pieces = Append(@, piece)]
    BY <1>4 DEF Take
  <2>2. Ends \in SUBSET Nat /\ \A e \in Ends : e =< Len(token)
    BY <1>1
  <2>3. end \in Ends
    <3> HIDE DEF Ends
    <3> QED
      BY <1>1, <1>4, <2>2, MaxIsGreatest
  <2>4. end \in state.pos .. Len(token)
    <3> HIDE DEF end
    <3> QED
      BY <2>3
  <2> HIDE DEF end, Ends
  <2>5. piece \in Seq(X)
    BY <1>1, <2>4, SubSeqFacts
  <2> HIDE DEF piece
  <2>6. Append(state.pieces, piece) \in Seq(Seq(X)) /\ end + 1 \in Nat \ {0}
    BY <1>1, <2>4, <2>5
  <2> QED
    BY <2>1, <2>6 DEF Cutting
<1> QED
  BY <1>2, <1>3, <1>4

(* The pieces of a token, or none, are pieces.                               *)
LEMMA PiecesFacts ==
  ASSUME NEW X, NEW token \in Seq(X), NEW known
  PROVE  DecomposeTokenIntoKnownPieces(token, known) \in Seq(Seq(X))
<1> DEFINE N == Len(token)
           start == [pos |-> 1, pieces |-> << >>, stuck |-> FALSE]
           step == [n \in 1 .. N |-> [state \in Cutting(X) |-> Take(token, known, state)]]
           Steps(f) == f = [n \in 0 .. N |-> IF n = 0 THEN start ELSE Take(token, known, f[n - 1])]
           steps == CHOOSE f : Steps(f)
<1>1. N \in Nat /\ start \in Cutting(X)
  BY DEF Cutting
<1>2. step \in [1 .. N -> [Cutting(X) -> Cutting(X)]]
  BY TakeFacts
<1>3. \E f : Steps(f)
  <2>1. PICK f \in [0 .. N -> Cutting(X)] :
            f[0] = start /\ \A n \in 1 .. N : f[n] = step[n][f[n - 1]]
    <3>1. \E f : IsRecursion(f, Cutting(X), start, N, step)
      <4> HIDE DEF step, N, start, Steps, steps
      <4> QED
        BY <1>1, <1>2, RecursionRuns
    <3> HIDE DEF step, N, start
    <3> QED
      BY <3>1 DEF IsRecursion
  <2> HIDE DEF start
  <2>2. \A n \in 1 .. N : step[n][f[n - 1]] = Take(token, known, f[n - 1])
    <3> SUFFICES ASSUME NEW n \in 1 .. N
                 PROVE  step[n][f[n - 1]] = Take(token, known, f[n - 1])
      OBVIOUS
    <3>1. n \in 1 .. N /\ n - 1 \in 0 .. N
      BY <1>1
    <3>2. f[n - 1] \in Cutting(X)
      BY <2>1, <3>1
    <3> QED
      BY <3>1, <3>2
  <2>3. Steps(f)
    <3>1. f = [n \in 0 .. N |-> f[n]]
      BY <2>1
    <3>2. \A n \in 0 .. N : f[n] = IF n = 0 THEN start ELSE Take(token, known, f[n - 1])
      <4> HIDE DEF step
      <4> QED
        BY <1>1, <2>1, <2>2
    <3> QED
      BY <3>1, <3>2
  <2> QED
    BY <2>3
<1>4. Steps(steps)
  <2> HIDE DEF Steps
  <2> QED
    BY <1>3
<1>5. DecomposeTokenIntoKnownPieces(token, known)
          = IF steps[N].stuck THEN NoPieces ELSE steps[N].pieces
  BY DEF DecomposeTokenIntoKnownPieces, Take
<1> HIDE DEF steps, start
<1>6. steps[0] = start /\ \A n \in 1 .. N : steps[n] = Take(token, known, steps[n - 1])
  BY <1>1, <1>4
<1> DEFINE Typed == { n \in Nat : n =< N => steps[n] \in Cutting(X) }
<1>7. 0 \in Typed
  BY <1>1, <1>6
<1>8. \A n \in Nat : n \in Typed => n + 1 \in Typed
  <2> SUFFICES ASSUME NEW n \in Nat, n \in Typed, n + 1 =< N
               PROVE  steps[n + 1] \in Cutting(X)
    OBVIOUS
  <2>1. steps[n] \in Cutting(X) /\ n + 1 \in 1 .. N
    BY <1>1
  <2>2. steps[n + 1] = Take(token, known, steps[n])
    BY <1>6, <2>1
  <2> QED
    BY <2>1, <2>2, TakeFacts
<1>9. Nat \subseteq Typed
  <2> HIDE DEF Typed
  <2> QED
    BY <1>7, <1>8, SetInduction
<1>10. steps[N] \in Cutting(X)
  BY <1>1, <1>9
<1>11. NoPieces \in Seq(Seq(X))
  BY DEF NoPieces
<1> QED
  BY <1>5, <1>10, <1>11 DEF Cutting

LEMMA DecompositionFacts ==
  ASSUME NEW token \in Marked, NEW known
  PROVE  DecomposeTokenIntoKnownPieces(token, known) \in Seq(Marked)
BY PiecesFacts DEF Marked

(* With its marker or without, a word is a piece.                            *)
LEMMA PieceFacts ==
  ASSUME NEW C, NEW word \in Seq(C)
  PROVE  word \in Seq(C \cup {Marker}) /\ << Marker >> \o word \in Seq(C \cup {Marker})
<1> DEFINE X == C \cup {Marker}
<1>1. C \subseteq X /\ Marker \in X
  OBVIOUS
<1> HIDE DEF X
<1>2. word \in Seq(X)
  BY <1>1, SeqGrows
<1>3. << Marker >> \in Seq(X)
  BY <1>1
<1>4. << Marker >> \o word \in Seq(X)
  BY <1>2, <1>3, ConcatFacts
<1> QED
  BY <1>2, <1>4 DEF X

LEMMA MarkedFacts ==
  /\ Strings \subseteq Marked
  /\ \A text \in Strings : << Marker >> \o text \in Marked
BY PieceFacts DEF Strings, Marked

(* The encoder gives pieces of its text, whatever the vocabulary.            *)
LEMMA EncodedPieces ==
  ASSUME NEW C, NEW vocab, NEW text \in Seq(C), NEW sampling
  PROVE  Encode(vocab, text, sampling) \in Seq(Seq(C \cup {Marker}))
<1> DEFINE base == IF sampling
                   THEN { t \in ToSet(BaseVocab) : Len(WithoutPrefix(t, << Marker >>)) = 1 }
                   ELSE ToSet(BaseVocab)
           TokensOf(word) == IF Contains(vocab, word) THEN << word >>
                             ELSE DecomposeTokenIntoKnownPieces(<< Marker >> \o word, base)
           words == Words(text)
           seqs == [i \in DOMAIN words |-> TokensOf(words[i])]
           T == Seq(C)
           P == Seq(C \cup {Marker})
           S == Seq(P)
<1>1. Encode(vocab, text, sampling) = FlattenSeq(seqs)
  BY DEF Encode
<1>2. words \in Seq(T)
  BY WordsFacts
<1> HIDE DEF base
<1>3. \A word \in T : TokensOf(word) \in S
  <2> SUFFICES ASSUME NEW word \in T PROVE TokensOf(word) \in S
    OBVIOUS
  <2>1. word \in P /\ << Marker >> \o word \in P
    BY PieceFacts
  <2>2. DecomposeTokenIntoKnownPieces(<< Marker >> \o word, base) \in S
    <3> DEFINE marked == << Marker >> \o word
               X == C \cup {Marker}
    <3>1. marked \in Seq(X)
      BY <2>1
    <3> HIDE DEF marked, X
    <3>2. DecomposeTokenIntoKnownPieces(marked, base) \in Seq(Seq(X))
      BY <3>1, PiecesFacts
    <3> QED
      BY <3>2 DEF marked, X
  <2> HIDE DEF P
  <2>3. << word >> \in S
    BY <2>1
  <2> QED
    BY <2>2, <2>3
<1>4. seqs \in Seq(S)
  <2> HIDE DEF words, TokensOf, S, T
  <2>1. DOMAIN words = 1 .. Len(words) /\ Len(words) \in Nat /\ \A i \in DOMAIN words : words[i] \in T
    BY <1>2
  <2> QED
    BY <1>3, <2>1
<1> HIDE DEF seqs, P
<1>5. FlattenSeq(seqs) \in Seq(P)
  BY <1>4, FlattenFacts
<1> QED
  BY <1>1, <1>5 DEF P

LEMMA EncodeFacts ==
  ASSUME NEW vocab, NEW text \in Strings, NEW sampling
  PROVE  Encode(vocab, text, sampling) \in Seq(Marked)
BY EncodedPieces DEF Marked, Strings

IsTrained(f, tag) ==
    /\ Head(f.labels) = tag /\ f.decoder[2] = tag
    /\ Last(f.labels) = Eos /\ Len(f.labels) =< MaxTokens

LEMMA TagThenEnd ==
  ASSUME NEW X, NEW tag \in X, NEW end \in X, NEW body \in Seq(X)
  PROVE  LET labels == << tag >> \o body \o << end >>
         IN  /\ labels \in Seq(X) /\ Len(labels) = Len(body) + 2
             /\ labels[1] = tag /\ labels[Len(labels)] = end
<1>1. << tag >> \in Seq(X) /\ << end >> \in Seq(X)
  OBVIOUS
<1> DEFINE first == << tag >> \o body
<1>2. first \in Seq(X) /\ Len(first) = 1 + Len(body) /\ first[1] = tag
  <2>1. Len(<< tag >>) = 1 /\ << tag >>[1] = tag
    OBVIOUS
  <2> DEFINE one == << tag >>
  <2> HIDE DEF one
  <2>2. one \o body \in Seq(X) /\ Len(one \o body) = Len(one) + Len(body)
        /\ \A i \in 1 .. Len(one) : (one \o body)[i] = one[i]
    BY <1>1, ConcatFacts DEF one
  <2> QED
    BY <2>1, <2>2 DEF one
<1> HIDE DEF first
<1>3. /\ Append(first, end) \in Seq(X) /\ Len(Append(first, end)) = Len(first) + 1
      /\ \A i \in 1 .. Len(first) : Append(first, end)[i] = first[i]
      /\ Append(first, end)[Len(first) + 1] = end
  BY <1>2, AppendFacts
<1>4. first \o << end >> = Append(first, end)
  BY <1>1, <1>2
<1>5. Len(body) \in Nat
  OBVIOUS
<1> QED
  BY <1>2, <1>3, <1>4, <1>5 DEF first

LEMMA FeaturesFacts ==
  ASSUME NEW vocab, NEW example, example.target \in Strings, NEW sampling
  PROVE  IsTrained(Features(vocab, example, sampling), ForcedBosToken(example.to))
<1> DEFINE tag == DirectionTag[example.to]
           target == Encode(vocab, example.target, sampling)
           budget == Max({1, MaxTokens - 2})
           cut == SubSeq(target, 1, Min({Len(target), budget}))
           labels == << tag >> \o cut \o << Eos >>
           X == Marked \cup {tag} \cup {Eos}
           f == Features(vocab, example, sampling)
<1>1. f.labels = labels /\ f.decoder = << Eos >> \o Front(labels)
  BY DEF Features
<1>2. target \in Seq(Marked) /\ Len(target) \in Nat
  BY EncodeFacts
<1> HIDE DEF target
<1>3. MaxTokens \in Nat /\ MaxTokens >= 3 /\ budget = MaxTokens - 2
  <2>1. MaxTokens \in Nat /\ MaxTokens >= 3
    BY NumbersAssumption
  <2>2. Max({1, MaxTokens - 2}) = IF 1 >= MaxTokens - 2 THEN 1 ELSE MaxTokens - 2
    BY <2>1, MaxOfTwo
  <2> QED
    BY <2>1, <2>2
<1> HIDE DEF budget
<1>4. cut \in Seq(Marked) /\ Len(cut) =< MaxTokens - 2 /\ Len(cut) \in Nat
  <2> DEFINE m == Min({Len(target), budget})
  <2>1. m = IF Len(target) =< budget THEN Len(target) ELSE budget
    BY <1>2, <1>3, MinOfTwo
  <2> HIDE DEF m
  <2>2. m \in 0 .. Len(target) /\ m =< MaxTokens - 2 /\ 1 \in 1 .. Len(target) + 1
    BY <1>2, <1>3, <2>1
  <2>3. SubSeq(target, 1, m) \in Seq(Marked) /\ Len(SubSeq(target, 1, m)) = m - 1 + 1
    BY <1>2, <2>2, SubSeqFacts
  <2> DEFINE piece == SubSeq(target, 1, m)
  <2>4. m \in Nat /\ m - 1 + 1 = m
    BY <1>2, <2>2
  <2>5. piece \in Seq(Marked) /\ Len(piece) =< MaxTokens - 2 /\ Len(piece) \in Nat
    BY <2>2, <2>3, <2>4
  <2>6. cut = piece
    BY DEF m
  <2> HIDE DEF piece, cut
  <2> QED
    BY <2>5, <2>6
<1> HIDE DEF cut
<1>5. cut \in Seq(X) /\ tag \in X /\ Eos \in X
  <2>1. Marked \subseteq X /\ tag \in X /\ Eos \in X
    OBVIOUS
  <2> HIDE DEF X
  <2> QED
    BY <1>4, <2>1, SeqGrows
<1> HIDE DEF X, tag
<1>6. /\ labels \in Seq(X) /\ Len(labels) = Len(cut) + 2
      /\ labels[1] = tag /\ labels[Len(labels)] = Eos
  BY <1>5, TagThenEnd
<1> HIDE DEF labels
<1>7. labels # << >>
  BY <1>4, <1>6
<1>8. /\ Front(labels) \in Seq(X) /\ Len(Front(labels)) = Len(labels) - 1
      /\ \A i \in 1 .. Len(labels) - 1 : Front(labels)[i] = labels[i]
  BY <1>6, <1>7, FrontFacts
<1> DEFINE rest == Front(labels)
           one == << Eos >>
<1>9. one \in Seq(X) /\ Len(one) = 1
  BY <1>5
<1> HIDE DEF rest, one
<1>10. Len(rest) \in Nat /\ 1 \in 1 .. Len(rest) /\ rest[1] = tag /\ rest \in Seq(X)
  BY <1>4, <1>6, <1>8 DEF rest
<1>11. (one \o rest)[Len(one) + 1] = rest[1]
  <2>1. \A i \in 1 .. Len(rest) : (one \o rest)[Len(one) + i] = rest[i]
    <3> HIDE DEF Features
    <3> QED
      BY ONLY <1>9, <1>10, ConcatFacts
  <2> QED
    BY <1>10, <2>1
<1>12. f.decoder[2] = tag
  BY <1>1, <1>9, <1>10, <1>11 DEF one, rest
<1>13. Head(labels) = tag /\ Last(labels) = Eos /\ Len(labels) =< MaxTokens
  BY <1>3, <1>4, <1>6, <1>7 DEF Last
<1> HIDE DEF f
<1>14. IsTrained(f, tag)
  BY <1>1, <1>12, <1>13 DEF IsTrained
<1>15. f = Features(vocab, example, sampling) /\ tag = ForcedBosToken(example.to)
  BY DEF f, tag, ForcedBosToken
<1> QED
  BY <1>14, <1>15
LEMMA TargetsAreTexts ==
  ASSUME CorpusInv, StartedInv
  PROVE  \A i \in DOMAIN job.train : job.train[i].target \in Strings
<1> DEFINE train == PairsOf(job.args.corpus, "train")
           Pairs == Strings \X Strings
           Made == { Example(pair, "es", "cak") : pair \in ToSet(train) }
                       \cup { Example(pair, "cak", "es") : pair \in ToSet(train) }
<1>1. job.train = BuildDirectionExamples(train, job.args.direction)
  BY DEF StartedInv
<1>2. train \in Seq(Pairs) /\ job.args.direction \in Directions
  BY StartedFacts, PairsFacts DEF Splits
<1>3. \A pair \in ToSet(train) : pair[1] \in Strings /\ pair[2] \in Strings
  <2>1. ToSet(train) \subseteq Pairs
    BY <1>2 DEF ToSet
  <2> QED
    BY <2>1
<1> HIDE DEF train, Pairs
<1>4. job.train \in Seq(Made)
  BY <1>1, <1>2, ExamplesFacts
<1>5. \A example \in Made : example.target \in Strings
  <2>1. ASSUME NEW pair \in ToSet(train)
        PROVE  /\ Example(pair, "es", "cak").target = pair[2]
               /\ Example(pair, "cak", "es").target = pair[1]
    BY DEF Example
  <2> QED
    BY <1>3, <2>1
<1> HIDE DEF Made
<1> QED
  BY <1>4, <1>5

LEMMA FeaturesInductive ==
  ASSUME CoreInv, FeaturesInv, [Next]_vars
  PROVE  FeaturesInv'
<1>1. CASE job'.stage # "training"
  BY <1>1 DEF FeaturesInv
<1>2. CASE job' = job
  BY <1>2 DEF FeaturesInv
<1>3. CASE FineTuneEpoch
  <2>1. StartedInv
    BY <1>3 DEF FineTuneEpoch, CoreInv, JobInv, Idle
  <2> DEFINE fed == [i \in DOMAIN job.train |->
                        Features(job.tokenizer.vocab, job.train[i], job.args.sampling)]
  <2>2. job' = [job EXCEPT !.stage = "training", !.epoch = @ + 1, !.mode = "train",
                           !.features = fed]
    BY <1>3 DEF FineTuneEpoch
  <2> HIDE DEF fed
  <2>3. /\ job'.features = fed /\ job'.train = job.train
        /\ job'.tokenizer = job.tokenizer /\ job'.args = job.args
    BY <2>1, <2>2 DEF StartedInv
  <2> QED
    BY <2>3 DEF FeaturesInv, fed
<1>4. ASSUME NEW spelling \in Spellings, GenerateBatch(spelling) PROVE FeaturesInv'
  <2>1. StartedInv /\ job.stage = "saved"
    BY <1>4 DEF GenerateBatch, CoreInv, JobInv, Idle
  <2>2. PICK batch, texts : job' = [job EXCEPT !.pending = Tail(@), !.hypotheses = WrittenBack(@, batch, texts)]
    BY <1>4 DEF GenerateBatch
  <2>3. job'.stage = "saved"
    BY <2>1, <2>2 DEF StartedInv
  <2> QED
    BY <1>1, <2>3
<1>5. CASE Diagnose
  BY <1>2, <1>5, DiagnoseKeepsFiles
<1>6. CASE CorpusNext /\ UNCHANGED lineageVars
  BY <1>2, <1>6 DEF lineageVars
<1>7. CASE LineageNext
  <2>1. ASSUME NEW args \in TrainingRuns, NEW init \in 0 .. Len(artifacts),
               StartTrainingJob(args, init)
        PROVE  FeaturesInv'
    <3>1. job'.stage = "loaded"
      BY <2>1 DEF StartTrainingJob
    <3> QED
      BY <1>1, <3>1
  <2>2. CASE ExtendVocabularyForExamples
    <3>1. StartedInv
      BY <2>2 DEF ExtendVocabularyForExamples, CoreInv, JobInv, Idle
    <3>2. job'.stage = "extended"
      BY <2>2, <3>1 DEF ExtendVocabularyForExamples, StartedInv
    <3> QED
      BY <1>1, <3>2
  <2>3. CASE SaveModelAndTokenizer
    <3>1. StartedInv
      BY <2>3 DEF SaveModelAndTokenizer, CoreInv, JobInv, Idle
    <3>2. job'.stage = "saved"
      BY <2>3, <3>1 DEF SaveModelAndTokenizer, StartedInv
    <3> QED
      BY <1>1, <3>2
  <2>4. CASE WriteModelCard \/ JobDies
    BY <1>1, <2>4 DEF WriteModelCard, JobDies, Idle
  <2>5. ASSUME NEW n \in 1 .. AverageN, AverageCheckpoints(n) PROVE FeaturesInv'
    BY <1>2, <2>5 DEF AverageCheckpoints
  <2>6. ASSUME NEW a \in DOMAIN artifacts, NEW corpus \in Stages, NEW direction \in Directions,
               EvaluateCheckpoint(a, corpus, direction)
        PROVE  FeaturesInv'
    BY <1>2, <2>6 DEF EvaluateCheckpoint, lineageVars
  <2>7. ASSUME NEW a \in DOMAIN artifacts, NEW request \in Requests, Serve(a, request)
        PROVE  FeaturesInv'
    BY <1>2, <2>7 DEF Serve, lineageVars
  <2> QED
    BY <1>3, <1>4, <1>7, <2>1, <2>2, <2>3, <2>4, <2>5, <2>6, <2>7 DEF LineageNext
<1>8. CASE UNCHANGED vars
  BY <1>2, <1>8 DEF vars
<1> QED
  BY <1>5, <1>6, <1>7, <1>8 DEF Next

LEMMA TagsLead == CoreInv /\ FeaturesInv => TrainedAsGenerated
<1> SUFFICES ASSUME CoreInv, FeaturesInv, job.stage = "training", NEW i \in DOMAIN job.features
             PROVE  IsTrained(job.features[i], ForcedBosToken(job.train[i].to))
  BY DEF TrainedAsGenerated, IsTrained
<1>1. CorpusInv /\ StartedInv
  BY DEF CoreInv, JobInv, Idle
<1> DEFINE fed == [k \in DOMAIN job.train |->
                      Features(job.tokenizer.vocab, job.train[k], job.args.sampling)]
<1>2. job.features = fed
  BY DEF FeaturesInv
<1>3. /\ DOMAIN fed = DOMAIN job.train
      /\ \A k \in DOMAIN job.train :
             fed[k] = Features(job.tokenizer.vocab, job.train[k], job.args.sampling)
  OBVIOUS
<1> HIDE DEF fed
<1>4. i \in DOMAIN job.train
      /\ job.features[i] = Features(job.tokenizer.vocab, job.train[i], job.args.sampling)
  BY <1>2, <1>3
<1>5. job.train[i].target \in Strings
  BY <1>1, <1>4, TargetsAreTexts
<1> QED
  BY <1>4, <1>5, FeaturesFacts

(* The labels of every training example start with the tag generation is      *)
(* forced to start with, and end within the length limit.                    *)
THEOREM TrainingMatchesGeneration == Spec => []TrainedAsGenerated
<1>1. Init => FeaturesInv
  BY DEF Init, LineageInit, Idle, FeaturesInv
<1>2. Spec => [](CoreInv /\ FeaturesInv)
  BY <1>1, InitInv, CoreInductive, FeaturesInductive, PTL DEF Spec
<1> QED
  BY <1>2, TagsLead, PTL
-----------------------------------------------------------------------------
(* The rows counted are the rows composed.                                  *)

Shorter(tokens) ==
    { pair \in (DOMAIN tokens) \X (DOMAIN tokens) :
        \/ Len(tokens[pair[1]]) < Len(tokens[pair[2]])
        \/ Len(tokens[pair[1]]) = Len(tokens[pair[2]]) /\ pair[1] < pair[2] }

(* Each token has one place in the order they are composed in.               *)
LEMMA ShortestFirstFacts ==
  ASSUME NEW tokens \in Seq(Strings)
  PROVE  IsSorting(ShortestFirst(tokens), 1 .. Len(tokens), Shorter(tokens))
<1> DEFINE I == DOMAIN tokens
           R == Shorter(tokens)
           order == ShortestFirst(tokens)
<1>1. I = 1 .. Len(tokens) /\ Len(tokens) \in Nat
  OBVIOUS
<1>2. \A i \in I : Len(tokens[i]) \in Nat
  <2> SUFFICES ASSUME NEW i \in I PROVE Len(tokens[i]) \in Nat
    OBVIOUS
  <2>1. tokens[i] \in Strings
    BY <1>1
  <2> QED
    BY <2>1 DEF Strings
<1>3. IsFiniteSet(I)
  BY <1>1, IntervalSize
<1>4. IsStrictOrder(R, I)
  <2> DEFINE n(i) == Len(tokens[i])
             Before(i, j) == n(i) < n(j) \/ (n(i) = n(j) /\ i < j)
  <2>1. \A i, j \in I : << i, j >> \in R <=> Before(i, j)
    BY DEF Shorter
  <2>2. \A i, j \in I : n(i) \in Nat /\ i \in Nat
    BY <1>1, <1>2
  <2>3. \A i \in I : ~Before(i, i)
    BY <2>2
  <2>4. \A i, j, k \in I : Before(i, j) /\ Before(j, k) => Before(i, k)
    <3> HIDE DEF n
    <3> QED
      BY <2>2
  <2>5. \A i, j \in I : i = j \/ Before(i, j) \/ Before(j, i)
    <3> HIDE DEF n
    <3> QED
      BY <2>2
  <2> HIDE DEF Before, R, I
  <2> QED
    BY <2>1, <2>3, <2>4, <2>5 DEF IsStrictOrder
<1> DEFINE A == { << x, Cardinality({ y \in I : Len(tokens[y]) < Len(tokens[x])
                                        \/ (Len(tokens[y]) = Len(tokens[x]) /\ y < x) }) >> : x \in I }
           B == { << x, Cardinality(Below(R, I, x)) >> : x \in I }
<1>5. A = B
  <2>1. \A x \in I : { y \in I : Len(tokens[y]) < Len(tokens[x])
                                 \/ (Len(tokens[y]) = Len(tokens[x]) /\ y < x) } = Below(R, I, x)
    BY DEF Below, Shorter
  <2> QED
    BY <2>1
<1>6. order = [k \in 1 .. Cardinality(I) |-> (CHOOSE r \in A : r[2] = k - 1)[1]]
  BY DEF ShortestFirst, SortedBy
<1>7. IsSorting([k \in 1 .. Cardinality(I) |-> (CHOOSE r \in B : r[2] = k - 1)[1]], I, R)
  <2> HIDE DEF R, I
  <2> QED
    BY <1>3, <1>4, SortingExists
<1> HIDE DEF A, B, order
<1>8. IsSorting(order, I, R)
  BY <1>5, <1>6, <1>7
<1> QED
  BY <1>1, <1>8 DEF order

(* One token counted, and one row composed.                                 *)
CountOne(tokens, state, i) ==
    [count |-> state.count +
        (IF DecomposeTokenIntoKnownPieces(tokens[i], state.known) # NoPieces THEN 1 ELSE 0),
     known |-> state.known \cup {tokens[i]}]

ComposeOne(tokens, state, i) ==
    [rows  |-> [state.rows EXCEPT ![i] = DecomposeTokenIntoKnownPieces(tokens[i], state.known)],
     known |-> state.known \cup {tokens[i]}]

IsCounting(run, tokens, vocab) ==
    /\ run[0] = [count |-> 0, known |-> ToSet(vocab)]
    /\ \A n \in 1 .. Len(tokens) :
           run[n] = CountOne(tokens, run[n - 1], ShortestFirst(tokens)[n])
    /\ CountDecomposableTokens(tokens, vocab) = run[Len(tokens)].count

IsComposing(run, tokens, vocab) ==
    /\ run[0] = [rows |-> [i \in DOMAIN tokens |-> NoPieces], known |-> ToSet(vocab)]
    /\ \A n \in 1 .. Len(tokens) :
           run[n] = ComposeOne(tokens, run[n - 1], ShortestFirst(tokens)[n])
    /\ ComposedRows(tokens, vocab) = run[Len(tokens)].rows

(* Counting goes token by token.                                            *)
LEMMA Counting ==
  ASSUME NEW tokens \in Seq(Strings), NEW vocab
  PROVE  \E run : IsCounting(run, tokens, vocab)
<1> DEFINE N == Len(tokens)
           order == ShortestFirst(tokens)
           P == SUBSET (1 .. N)
           S == [count : Nat, known : SUBSET (ToSet(vocab) \cup ToSet(tokens))]
           start == [count |-> 0, known |-> ToSet(vocab)]
           step == [n \in 1 .. N |-> [state \in S |-> CountOne(tokens, state, order[n])]]
           Fold(f) == f = [s \in P |-> IF s = {} THEN start
                              ELSE CountOne(tokens, f[s \ {Max(s)}], order[Max(s)])]
           iter == CHOOSE f : Fold(f)
<1>1. N \in Nat /\ DOMAIN tokens = 1 .. N /\ start \in S
  OBVIOUS
<1>2. order \in [1 .. N -> 1 .. N] /\ DOMAIN order = 1 .. N
  <2>1. IsSorting(order, 1 .. N, Shorter(tokens))
    BY ShortestFirstFacts
  <2>2. Cardinality(1 .. N) = N
    BY <1>1, IntervalSize
  <2> HIDE DEF order
  <2> QED
    BY <2>1, <2>2 DEF IsSorting
<1> HIDE DEF order
<1>3. \A n \in 1 .. N, state \in S : CountOne(tokens, state, order[n]) \in S
  <2> SUFFICES ASSUME NEW n \in 1 .. N, NEW state \in S
               PROVE  CountOne(tokens, state, order[n]) \in S
    OBVIOUS
  <2>1. tokens[order[n]] \in ToSet(tokens)
    BY <1>1, <1>2 DEF ToSet
  <2> QED
    BY <2>1 DEF CountOne
<1> HIDE DEF S, start
<1>4. step \in [1 .. N -> [S -> S]]
  BY <1>3
<1>5. \E f : Fold(f)
  <2>1. PICK f \in [P -> S] : IsFold(f, N, start, step)
    <3> HIDE DEF step, N
    <3> QED
      BY <1>1, <1>4, FoldExists
  <2>2. ASSUME NEW s \in P
        PROVE  f[s] = IF s = {} THEN start
                      ELSE CountOne(tokens, f[s \ {Max(s)}], order[Max(s)])
    <3>1. f[s] = IF s = {} THEN start ELSE step[Max(s)][f[s \ {Max(s)}]]
      <4> HIDE DEF step
      <4> QED
        BY <2>1 DEF IsFold
    <3>2. CASE s = {}
      BY <3>1, <3>2
    <3>3. CASE s # {}
      <4> DEFINE m == Max(s)
      <4>1. m \in 1 .. N
        BY <1>1, <3>3, LastPlaceFacts
      <4> HIDE DEF m
      <4>2. f[s \ {m}] \in S
        <5>1. s \ {m} \in P
          OBVIOUS
        <5> QED
          BY <2>1, <5>1
      <4>3. step[m][f[s \ {m}]] = CountOne(tokens, f[s \ {m}], order[m])
        BY <4>1, <4>2
      <4> HIDE DEF step
      <4> QED
        BY <3>1, <3>3, <4>3 DEF m
    <3> QED
      BY <3>2, <3>3
  <2>3. Fold(f)
    <3>1. f = [s \in P |-> f[s]]
      BY <2>1
    <3> QED
      BY <2>2, <3>1
  <2> QED
    BY <2>3
<1>6. Fold(iter)
  <2> HIDE DEF Fold
  <2> QED
    BY <1>5
<1>7. CountDecomposableTokens(tokens, vocab) = iter[1 .. N].count
  BY <1>2 DEF CountDecomposableTokens, FoldLeft, MapThenFoldSet, CountOne, order, start
<1> HIDE DEF iter
<1> DEFINE run == [n \in 0 .. N |-> iter[1 .. n]]
<1>8. iter[1 .. 0] = start
  BY <1>1, <1>6, FirstPlaces
<1>9. \A n \in 1 .. N : iter[1 .. n] = CountOne(tokens, iter[1 .. n - 1], order[n])
  <2> SUFFICES ASSUME NEW n \in 1 .. N
               PROVE  iter[1 .. n] = CountOne(tokens, iter[1 .. n - 1], order[n])
    OBVIOUS
  <2>1. 1 .. n \in P /\ 1 .. n # {} /\ Max(1 .. n) = n /\ (1 .. n) \ {n} = 1 .. n - 1
    BY <1>1, FirstPlaces
  <2>2. \A s \in P : iter[s] = IF s = {} THEN start
                              ELSE CountOne(tokens, iter[s \ {Max(s)}], order[Max(s)])
    BY <1>6
  <2> HIDE DEF P
  <2> QED
    BY <2>1, <2>2
<1>10. run[0] = start /\ \A n \in 1 .. N : run[n] = CountOne(tokens, run[n - 1], order[n])
  BY <1>1, <1>8, <1>9
<1>11. run[N] = iter[1 .. N]
  BY <1>1
<1> HIDE DEF run
<1>12. IsCounting(run, tokens, vocab)
  BY <1>7, <1>10, <1>11 DEF IsCounting, start, order
<1> QED
  BY <1>12

(* So does composing.                                                       *)
LEMMA Composing ==
  ASSUME NEW tokens \in Seq(Strings), NEW vocab
  PROVE  \E run : IsComposing(run, tokens, vocab)
<1> DEFINE N == Len(tokens)
           order == ShortestFirst(tokens)
           P == SUBSET (1 .. N)
           Known == SUBSET (ToSet(vocab) \cup ToSet(tokens))
           Rows == { DecomposeTokenIntoKnownPieces(tokens[i], known) : i \in 1 .. N, known \in Known }
                       \cup {NoPieces}
           S == [rows : [1 .. N -> Rows], known : Known]
           start == [rows |-> [i \in DOMAIN tokens |-> NoPieces], known |-> ToSet(vocab)]
           step == [n \in 1 .. N |-> [state \in S |-> ComposeOne(tokens, state, order[n])]]
           Fold(f) == f = [s \in P |-> IF s = {} THEN start
                              ELSE ComposeOne(tokens, f[s \ {Max(s)}], order[Max(s)])]
           iter == CHOOSE f : Fold(f)
<1>1. N \in Nat /\ DOMAIN tokens = 1 .. N /\ start \in S
  OBVIOUS
<1>2. order \in [1 .. N -> 1 .. N] /\ DOMAIN order = 1 .. N
  <2>1. IsSorting(order, 1 .. N, Shorter(tokens))
    BY ShortestFirstFacts
  <2>2. Cardinality(1 .. N) = N
    BY <1>1, IntervalSize
  <2> HIDE DEF order
  <2> QED
    BY <2>1, <2>2 DEF IsSorting
<1> HIDE DEF order
<1> HIDE DEF S
<1>3. \A n \in 1 .. N, state \in S : ComposeOne(tokens, state, order[n]) \in S
  <2> SUFFICES ASSUME NEW n \in 1 .. N, NEW state \in S
               PROVE  ComposeOne(tokens, state, order[n]) \in S
    OBVIOUS
  <2> DEFINE i == order[n]
  <2>1. i \in 1 .. N /\ tokens[i] \in ToSet(tokens)
    BY <1>1, <1>2 DEF ToSet
  <2> HIDE DEF i
  <2>2. /\ state.known \cup {tokens[i]} \in Known /\ state.known \in Known
        /\ state.rows \in [1 .. N -> Rows]
    <3> HIDE DEF Rows
    <3> QED
      BY <2>1 DEF S
  <2>3. DecomposeTokenIntoKnownPieces(tokens[i], state.known) \in Rows
    BY <2>1, <2>2
  <2>4. ComposeOne(tokens, state, i) \in S
    <3> HIDE DEF Known, Rows
    <3> QED
      BY <2>2, <2>3 DEF ComposeOne, S
  <2> HIDE DEF Known, Rows
  <2> QED
    BY <2>4 DEF i
<1> HIDE DEF Known, Rows, start
<1>4. step \in [1 .. N -> [S -> S]]
  BY <1>3
<1>5. \E f : Fold(f)
  <2>1. PICK f \in [P -> S] : IsFold(f, N, start, step)
    <3> HIDE DEF step, N
    <3> QED
      BY <1>1, <1>4, FoldExists
  <2>2. ASSUME NEW s \in P
        PROVE  f[s] = IF s = {} THEN start
                      ELSE ComposeOne(tokens, f[s \ {Max(s)}], order[Max(s)])
    <3>1. f[s] = IF s = {} THEN start ELSE step[Max(s)][f[s \ {Max(s)}]]
      <4> HIDE DEF step
      <4> QED
        BY <2>1 DEF IsFold
    <3>2. CASE s = {}
      BY <3>1, <3>2
    <3>3. CASE s # {}
      <4> DEFINE m == Max(s)
      <4>1. m \in 1 .. N
        BY <1>1, <3>3, LastPlaceFacts
      <4> HIDE DEF m
      <4>2. f[s \ {m}] \in S
        <5>1. s \ {m} \in P
          OBVIOUS
        <5> QED
          BY <2>1, <5>1
      <4>3. step[m][f[s \ {m}]] = ComposeOne(tokens, f[s \ {m}], order[m])
        BY <4>1, <4>2
      <4> HIDE DEF step
      <4> QED
        BY <3>1, <3>3, <4>3 DEF m
    <3> QED
      BY <3>2, <3>3
  <2>3. Fold(f)
    <3>1. f = [s \in P |-> f[s]]
      BY <2>1
    <3> QED
      BY <2>2, <3>1
  <2> QED
    BY <2>3
<1>6. Fold(iter)
  <2> HIDE DEF Fold
  <2> QED
    BY <1>5
<1>7. ComposedRows(tokens, vocab) = iter[1 .. N].rows
  BY <1>2 DEF ComposedRows, FoldLeft, MapThenFoldSet, ComposeOne, order, start
<1> HIDE DEF iter
<1> DEFINE run == [n \in 0 .. N |-> iter[1 .. n]]
<1>8. iter[1 .. 0] = start
  BY <1>1, <1>6, FirstPlaces
<1>9. \A n \in 1 .. N : iter[1 .. n] = ComposeOne(tokens, iter[1 .. n - 1], order[n])
  <2> SUFFICES ASSUME NEW n \in 1 .. N
               PROVE  iter[1 .. n] = ComposeOne(tokens, iter[1 .. n - 1], order[n])
    OBVIOUS
  <2>1. 1 .. n \in P /\ 1 .. n # {} /\ Max(1 .. n) = n /\ (1 .. n) \ {n} = 1 .. n - 1
    BY <1>1, FirstPlaces
  <2>2. \A s \in P : iter[s] = IF s = {} THEN start
                              ELSE ComposeOne(tokens, iter[s \ {Max(s)}], order[Max(s)])
    BY <1>6
  <2> HIDE DEF P
  <2> QED
    BY <2>1, <2>2
<1>10. run[0] = start /\ \A n \in 1 .. N : run[n] = ComposeOne(tokens, run[n - 1], order[n])
  BY <1>1, <1>8, <1>9
<1>11. run[N] = iter[1 .. N]
  BY <1>1
<1> HIDE DEF run
<1>12. IsComposing(run, tokens, vocab)
  BY <1>7, <1>10, <1>11 DEF IsComposing, start, order
<1> QED
  BY <1>12

(* As many tokens are counted as rows are composed.                          *)
LEMMA CountedAreComposed ==
  ASSUME NEW tokens \in Seq(Strings), NEW vocab
  PROVE  Cardinality({ i \in DOMAIN tokens : ComposedRows(tokens, vocab)[i] # NoPieces })
             = CountDecomposableTokens(tokens, vocab)
<1> DEFINE N == Len(tokens)
           order == ShortestFirst(tokens)
<1>1. N \in Nat /\ DOMAIN tokens = 1 .. N
  OBVIOUS
<1>2. /\ order \in [1 .. N -> 1 .. N]
      /\ \A j, k \in 1 .. N : order[j] = order[k] => j = k
  <2>1. IsSorting(order, 1 .. N, Shorter(tokens))
    BY ShortestFirstFacts
  <2>2. Cardinality(1 .. N) = N
    BY <1>1, IntervalSize
  <2> HIDE DEF order
  <2> QED
    BY <2>1, <2>2 DEF IsSorting
<1>3. PICK counted : IsCounting(counted, tokens, vocab)
  BY Counting
<1>4. PICK composed : IsComposing(composed, tokens, vocab)
  BY Composing
<1> DEFINE Made(n) == { i \in 1 .. N : composed[n].rows[i] # NoPieces }
           Agree(n) ==
               /\ composed[n].known = counted[n].known
               /\ DOMAIN composed[n] = {"rows", "known"} /\ DOMAIN composed[n].rows = 1 .. N
               /\ IsFiniteSet(Made(n)) /\ Cardinality(Made(n)) = counted[n].count
               /\ \A k \in n + 1 .. N : composed[n].rows[order[k]] = NoPieces
           Agreeing == { n \in Nat : n =< N => Agree(n) }
<1>5. 0 \in Agreeing
  <2>1. counted[0] = [count |-> 0, known |-> ToSet(vocab)]
        /\ composed[0] = [rows |-> [i \in DOMAIN tokens |-> NoPieces], known |-> ToSet(vocab)]
    BY <1>3, <1>4 DEF IsCounting, IsComposing
  <2>2. Made(0) = {}
    BY <1>1, <2>1
  <2>3. IsFiniteSet({}) /\ Cardinality({}) = 0
    BY FS_EmptySet
  <2>4. \A k \in 0 + 1 .. N : order[k] \in 1 .. N
    BY <1>2
  <2>5. /\ composed[0].known = counted[0].known /\ counted[0].count = 0
        /\ DOMAIN composed[0] = {"rows", "known"} /\ DOMAIN composed[0].rows = 1 .. N
        /\ \A i \in 1 .. N : composed[0].rows[i] = NoPieces
    BY <1>1, <2>1
  <2>6. Agree(0)
    <3> HIDE DEF order, Made
    <3> QED
      BY <2>2, <2>3, <2>4, <2>5
  <2> HIDE DEF Agree
  <2> QED
    BY <2>6
<1>6. ASSUME NEW n \in Nat, n \in Agreeing PROVE n + 1 \in Agreeing
  <2> SUFFICES ASSUME n + 1 =< N PROVE Agree(n + 1)
    OBVIOUS
  <2>1. Agree(n)
    BY <1>1, <1>6
  <2> DEFINE o == order[n + 1]
             known == counted[n].known
             pieces == DecomposeTokenIntoKnownPieces(tokens[o], known)
  <2>2. n + 1 \in 1 .. N /\ (n + 1) - 1 = n
    BY <1>1
  <2>3. o \in 1 .. N /\ \A k \in n + 2 .. N : order[k] # o /\ order[k] \in 1 .. N
    BY <1>1, <1>2, <2>2
  <2>4. counted[n + 1] = CountOne(tokens, counted[n], o)
        /\ composed[n + 1] = ComposeOne(tokens, composed[n], o)
    BY <1>3, <1>4, <2>2 DEF IsCounting, IsComposing
  <2> HIDE DEF o
  <2>5. /\ counted[n + 1].count = counted[n].count + (IF pieces # NoPieces THEN 1 ELSE 0)
        /\ counted[n + 1].known = known \cup {tokens[o]}
    BY <2>4 DEF CountOne
  <2>6. /\ composed[n + 1].rows = [composed[n].rows EXCEPT ![o] = pieces]
        /\ composed[n + 1].known = known \cup {tokens[o]}
        /\ DOMAIN composed[n + 1] = {"rows", "known"}
    BY <2>1, <2>4 DEF ComposeOne
  <2> HIDE DEF pieces, known
  <2>7. /\ DOMAIN composed[n + 1].rows = 1 .. N
        /\ composed[n + 1].rows[o] = pieces
        /\ \A i \in 1 .. N : i # o => composed[n + 1].rows[i] = composed[n].rows[i]
    BY <2>1, <2>3, <2>6
  <2>8. o \notin Made(n)
    <3>1. n + 1 \in n + 1 .. N
      BY <1>1, <2>2
    <3> QED
      BY <2>1, <3>1 DEF o
  <2>9. Made(n + 1) = IF pieces # NoPieces THEN Made(n) \cup {o} ELSE Made(n)
    BY <2>3, <2>7, <2>8
  <2>10. IsFiniteSet(Made(n + 1)) /\ Cardinality(Made(n + 1)) = counted[n + 1].count
    <3>1. IsFiniteSet(Made(n)) /\ Cardinality(Made(n)) = counted[n].count /\ Cardinality(Made(n)) \in Nat
      BY <2>1, FS_CardinalityType
    <3>2. IsFiniteSet(Made(n) \cup {o}) /\ Cardinality(Made(n) \cup {o}) = Cardinality(Made(n)) + 1
      BY <2>8, <3>1, FS_AddElement
    <3> HIDE DEF Made
    <3> QED
      BY <2>5, <2>9, <3>1, <3>2
  <2>11. \A k \in (n + 1) + 1 .. N : composed[n + 1].rows[order[k]] = NoPieces
    <3> SUFFICES ASSUME NEW k \in (n + 1) + 1 .. N
                 PROVE  composed[n + 1].rows[order[k]] = NoPieces
      OBVIOUS
    <3>1. k \in n + 2 .. N /\ k \in n + 1 .. N
      BY <1>1
    <3>2. order[k] # o /\ order[k] \in 1 .. N /\ composed[n].rows[order[k]] = NoPieces
      BY <2>1, <2>3, <3>1
    <3> HIDE DEF order
    <3> QED
      BY <2>7, <3>2
  <2> HIDE DEF Made, order
  <2> QED
    BY <2>5, <2>6, <2>7, <2>10, <2>11
<1>7. Agree(N)
  <2>1. Nat \subseteq Agreeing
    <3> HIDE DEF Agreeing
    <3> QED
      BY <1>5, <1>6, SetInduction
  <2> HIDE DEF Agree
  <2> QED
    BY <1>1, <2>1
<1>8. CountDecomposableTokens(tokens, vocab) = counted[N].count
      /\ ComposedRows(tokens, vocab) = composed[N].rows
  BY <1>3, <1>4 DEF IsCounting, IsComposing
<1>9. Cardinality(Made(N)) = counted[N].count
  BY <1>7
<1> QED
  BY <1>1, <1>8, <1>9

LEMMA LegacyCoverage ==
  ASSUME CorpusInv, IsReadable("raw", "train")
  PROVE  CoverageOfCard(LegacyArtifact(PairsOf("raw", "train"), "raw").card) = Absent
<1> DEFINE pairs == PairsOf("raw", "train")
           n == Len(ComputeNewTokensForTexts(LegacyTexts(pairs), BaseVocab))
           metrics == [matches |-> 0, total |-> 0]
           card == << << "new_tokens_added", n >>, << "BLEU", metrics >> >>
           X == {<< "new_tokens_added", n >>, << "BLEU", metrics >>}
<1>1. LegacyArtifact(pairs, "raw").card = card
  BY DEF LegacyArtifact
<1> HIDE DEF n, metrics
<1>2. card \in Seq(X) /\ ToSet(card) = X
  BY DEF ToSet
<1>3. LineIs(card, "embedding_init_compositional_coverage", Absent)
  BY <1>2 DEF LineIs
<1> HIDE DEF X
<1>4. CoverageOfCard(card) = Absent
  <2> HIDE DEF card
  <2> QED
    BY <1>2, <1>3, FirstLineOf DEF CoverageOfCard
<1> QED
  BY <1>1, <1>4

LEMMA InitCoverage == Init => CoverageInv
<1> SUFFICES ASSUME Init PROVE CoverageInv
  OBVIOUS
<1>1. CorpusInv /\ job.stage = "idle"
  BY CorpusInitInv DEF Init, LineageInit, Idle
<1> DEFINE legacy == LegacyArtifact(PairsOf("raw", "train"), "raw")
<1>2. artifacts = << >> \/ (IsReadable("raw", "train") /\ artifacts = << legacy >>)
  BY DEF Init, LineageInit
<1>3. CASE artifacts = << >>
  BY <1>1, <1>3 DEF CoverageInv
<1>4. CASE IsReadable("raw", "train") /\ artifacts = << legacy >>
  <2>1. CoverageOfCard(legacy.card) = Absent
    BY <1>1, <1>4, LegacyCoverage
  <2> HIDE DEF legacy
  <2>2. \A a \in 1 .. Len(artifacts) : artifacts[a] = legacy
    BY <1>4
  <2> QED
    BY <1>1, <2>1, <2>2 DEF CoverageInv, IsCovered
<1> QED
  BY <1>2, <1>3, <1>4

LEMMA QuietCoverage ==
  ASSUME CoverageInv, artifacts' = artifacts,
         \/ job'.stage = "idle"
         \/ /\ job.stage # "idle" /\ (job'.stage = "saved" => job.stage = "saved")
            /\ job'.composed = job.composed /\ job'.coverage = job.coverage
  PROVE  CoverageInv'
BY DEF CoverageInv, IsCovered

LEMMA AddedCoverage ==
  ASSUME ArtifactsInv, CoverageInv, NEW dir, artifacts' = Append(artifacts, dir), dir.card = NoCard
  PROVE  /\ \A a \in 1 .. Len(artifacts') :
                IsCovered(artifacts'[a].composed, CoverageOfCard(artifacts'[a].card))
         /\ artifacts'[Len(artifacts')] = dir
<1> DEFINE X == ToSet(artifacts) \cup {dir}
<1>1. artifacts \in Seq(X) /\ dir \in X /\ Len(artifacts) \in Nat
  <2>1. artifacts \in Seq(ToSet(artifacts)) /\ ToSet(artifacts) \subseteq X /\ dir \in X
    BY DEF ArtifactsInv
  <2> QED
    BY <2>1, SeqGrows
<1>2. /\ Len(artifacts') = Len(artifacts) + 1 /\ artifacts'[Len(artifacts) + 1] = dir
      /\ \A a \in 1 .. Len(artifacts) : artifacts'[a] = artifacts[a]
  <2> HIDE DEF X
  <2> QED
    BY <1>1, AppendFacts
<1>3. IsCovered(dir.composed, CoverageOfCard(dir.card))
  BY NoCardIsSilent DEF CoverageOfCard, IsCovered
<1>4. \A a \in 1 .. Len(artifacts') : a \in 1 .. Len(artifacts) \/ a = Len(artifacts) + 1
  BY <1>1, <1>2
<1> QED
  BY <1>2, <1>3, <1>4 DEF CoverageInv

LEMMA ExtendCoverage ==
  ASSUME CoreInv, CoverageInv, ExtendVocabularyForExamples
  PROVE  CoverageInv'
<1>1. CorpusInv /\ ArtifactsInv /\ Len(artifacts) \in Nat
  BY DEF CoreInv, ArtifactsInv
<1>2. job.stage = "loaded" /\ artifacts' = artifacts
  BY DEF ExtendVocabularyForExamples
<1>3. StartedInv /\ TokenizerInv
  BY <1>2 DEF CoreInv, JobInv, Idle
<1> DEFINE before == job.tokenizer.vocab
           texts == CollectTextsForLanguage(job.train, "cak")
           words == ExtendTokenizerVocab(job.tokenizer, texts \cup DirectionTags)
           after == ExtendTokenizerVocabWithSubwords(words, job.args.pieces)
           added == SubSeq(after.vocab, Len(before) + 1, Len(after.vocab))
           rows == ComposedRows(added, before)
           compositional == job.args.strategy = "compositional"
<1>4. added \in Seq(Strings)
  <2> DEFINE sample == SampleTexts(job.args.corpus, KaqchikelOnly)
  <2>1. texts \cup DirectionTags = sample /\ sample \in SUBSET Strings /\ IsFiniteSet(sample)
    BY <1>1, <1>3, ExtensionTexts
  <2>2. job.tokenizer.marks = {} /\ IsVocabulary(job.tokenizer.vocab)
    <3>1. job.tokenizer = [vocab |-> Source(job.init).vocab, marks |-> {}]
      BY <1>2, <1>3 DEF TokenizerInv
    <3>2. IsVocabulary(Source(job.init).vocab)
      BY <1>1, <1>3, SourceFacts DEF StartedInv
    <3> QED
      BY <3>1, <3>2
  <2>3. job.args.pieces \in Seq(Strings)
    BY <1>3, StartedFacts
  <2>4. IsExtended(job.tokenizer, sample, job.args.pieces, words, after, added)
    <3>1. words = ExtendTokenizerVocab(job.tokenizer, sample)
      BY <2>1
    <3>2. added = SubSeq(after.vocab, Len(job.tokenizer.vocab) + 1, Len(after.vocab))
      OBVIOUS
    <3>3. after = ExtendTokenizerVocabWithSubwords(words, job.args.pieces)
      OBVIOUS
    <3> HIDE DEF words, after, added, sample
    <3> QED
      BY <2>1, <2>2, <2>3, <3>1, <3>2, <3>3 DEF IsExtended
  <2> HIDE DEF words, after, added, sample
  <2>5. Extends(job.tokenizer.vocab, sample, words, after, added)
    BY <2>4, ExtensionFacts
  <2> QED
    BY <2>5 DEF Extends
<1> DEFINE composed == IF compositional THEN Cardinality({ i \in DOMAIN added : rows[i] # NoPieces }) ELSE 0
           coverage == IF compositional THEN CountDecomposableTokens(added, before) ELSE Absent
<1>5. job'.stage = "extended" /\ job'.composed = composed /\ job'.coverage = coverage
  <2>1. job' = [job EXCEPT
               !.stage = "extended", !.tokenizer = after, !.added = Len(added),
               !.words = words.marks, !.rows = job.rows \o added,
               !.composed = composed, !.coverage = coverage]
    <3>1. texts # {}
      BY <1>1, <1>3, ExtensionTexts
    <3> HIDE DEF texts
    <3> QED
      BY <3>1 DEF ExtendVocabularyForExamples, ResizeEmbeddingsForNewTokens, texts
  <2> HIDE DEF composed, coverage, words, after, added
  <2> QED
    BY <1>3, <2>1 DEF StartedInv
<1>6. IsCovered(composed, coverage)
  <2> HIDE DEF added, before
  <2>1. Cardinality({ i \in DOMAIN added : rows[i] # NoPieces }) = CountDecomposableTokens(added, before)
    BY <1>4, CountedAreComposed
  <2> QED
    BY <2>1 DEF IsCovered
<1> HIDE DEF composed, coverage
<1> QED
  BY <1>2, <1>5, <1>6 DEF CoverageInv

LEMMA SaveCoverage ==
  ASSUME CoreInv, CoverageInv, SaveModelAndTokenizer
  PROVE  CoverageInv'
<1>1. ArtifactsInv /\ StartedInv
  BY DEF CoreInv, JobInv, SaveModelAndTokenizer, Idle
<1>2. PICK dir : SavedDirectory(dir) /\ artifacts' = Append(artifacts, dir)
  BY <1>1, SaveFacts
<1>3. dir.card = NoCard /\ dir.composed = job.composed
  BY <1>2 DEF SavedDirectory
<1>4. job.stage = "training" /\ job'.composed = job.composed /\ job'.coverage = job.coverage
  BY <1>1 DEF SaveModelAndTokenizer, StartedInv
<1>5. /\ \A a \in 1 .. Len(artifacts') :
             IsCovered(artifacts'[a].composed, CoverageOfCard(artifacts'[a].card))
      /\ artifacts'[Len(artifacts')] = dir
  BY <1>1, <1>2, <1>3, AddedCoverage
<1>6. IsCovered(job'.composed, job'.coverage)
  BY <1>4 DEF CoverageInv
<1> QED
  BY <1>3, <1>4, <1>5, <1>6 DEF CoverageInv

LEMMA CardCoverage ==
  ASSUME CoreInv, CoverageInv, [Next]_vars, WriteModelCard
  PROVE  CoverageInv'
<1>1. CorpusInv /\ ArtifactsInv /\ Len(artifacts) \in Nat /\ DOMAIN artifacts = 1 .. Len(artifacts)
  BY DEF CoreInv, ArtifactsInv
<1>2. job.stage = "saved" /\ job' = Idle /\ job'.stage = "idle"
  BY DEF WriteModelCard, Idle
<1>3. StartedInv
  BY <1>2 DEF CoreInv, JobInv, Idle
<1> DEFINE last == Len(artifacts)
           directions == DirectionLines(job.val)
           card == RunEvaluation(Predictions(job.hypotheses), References(job.val), directions,
                                 Hyperparameters(job))
<1>4. last \in 1 .. Len(artifacts) /\ IsDirectory(artifacts[last])
  BY <1>1, <1>2, <1>3 DEF StartedInv, ArtifactsInv
<1>5. artifacts' = [artifacts EXCEPT ![last].card = card]
  BY DEF WriteModelCard
<1>6. CoverageOfCard(card) = job.coverage
  <2>1. directions \in Seq(ToSet(directions))
    BY <1>1, <1>3, DirectionsAreLines
  <2> HIDE DEF directions
  <2> QED
    BY <2>1, CardFacts DEF CoverageOfCard
<1> HIDE DEF card
<1>7. Len(artifacts') = Len(artifacts)
  <2> HIDE DEF last
  <2>1. DOMAIN artifacts' = DOMAIN artifacts
    BY <1>5
  <2>2. artifacts' \in Seq(ToSet(artifacts'))
    BY CardCore DEF CoreInv, ArtifactsInv
  <2>3. DOMAIN artifacts' = 1 .. Len(artifacts') /\ Len(artifacts') \in Nat
    BY <2>2
  <2> QED
    BY <1>1, <2>1, <2>3
<1>8. /\ \A a \in 1 .. Len(artifacts) : a # last => artifacts'[a] = artifacts[a]
      /\ artifacts'[last] = [artifacts[last] EXCEPT !.card = card]
  <2> HIDE DEF last
  <2> QED
    BY <1>1, <1>4, <1>5
<1>9. IsCovered(artifacts'[last].composed, CoverageOfCard(artifacts'[last].card))
  <2>1. artifacts'[last].card = card /\ artifacts'[last].composed = artifacts[last].composed
    BY <1>4, <1>8 DEF IsDirectory
  <2>2. artifacts[last].composed = job.composed /\ IsCovered(job.composed, job.coverage)
    BY <1>2 DEF CoverageInv
  <2> HIDE DEF last
  <2> QED
    BY <1>6, <2>1, <2>2
<1> HIDE DEF last
<1> QED
  BY <1>2, <1>7, <1>8, <1>9 DEF CoverageInv

LEMMA CoverageInductive ==
  ASSUME CoreInv, CoverageInv, [Next]_vars
  PROVE  CoverageInv'
<1>1. CASE UNCHANGED << job, artifacts >>
  BY <1>1 DEF CoverageInv
<1>2. CASE Diagnose
  BY <1>1, <1>2, DiagnoseKeepsFiles
<1>3. CASE CorpusNext /\ UNCHANGED lineageVars
  BY <1>1, <1>3 DEF lineageVars
<1>4. CASE LineageNext
  <2>1. ASSUME NEW args \in TrainingRuns, NEW init \in 0 .. Len(artifacts),
               StartTrainingJob(args, init)
        PROVE  CoverageInv'
    <3>1. /\ artifacts' = artifacts /\ job'.stage = "loaded"
          /\ job'.composed = 0 /\ job'.coverage = Absent
      BY <2>1 DEF StartTrainingJob
    <3> QED
      BY <3>1 DEF CoverageInv, IsCovered
  <2>2. CASE ExtendVocabularyForExamples
    BY <2>2, ExtendCoverage
  <2>3. CASE FineTuneEpoch
    <3>1. StartedInv /\ artifacts' = artifacts
      BY <2>3 DEF FineTuneEpoch, CoreInv, JobInv, Idle
    <3>2. job'.stage = "training" /\ job'.composed = job.composed /\ job'.coverage = job.coverage
      BY <2>3, <3>1 DEF FineTuneEpoch, StartedInv
    <3>3. job.stage # "idle"
      BY <3>1 DEF StartedInv
    <3> QED
      BY <3>1, <3>2, <3>3, QuietCoverage
  <2>4. CASE SaveModelAndTokenizer
    BY <2>4, SaveCoverage
  <2>5. ASSUME NEW spelling \in Spellings, GenerateBatch(spelling) PROVE CoverageInv'
    <3>1. StartedInv /\ artifacts' = artifacts /\ job.stage = "saved"
      BY <2>5 DEF GenerateBatch, CoreInv, JobInv, Idle
    <3>2. PICK hypotheses : job' = [job EXCEPT !.pending = Tail(@), !.hypotheses = hypotheses]
      BY <2>5 DEF GenerateBatch
    <3>3. job'.composed = job.composed /\ job'.coverage = job.coverage
      BY <3>1, <3>2 DEF StartedInv
    <3> QED
      BY <3>1, <3>3, QuietCoverage
  <2>6. CASE WriteModelCard
    BY <2>6, CardCoverage
  <2>7. CASE JobDies
    <3>1. job'.stage = "idle" /\ artifacts' = artifacts
      BY <2>7 DEF JobDies, Idle
    <3> QED
      BY <3>1, QuietCoverage
  <2>8. ASSUME NEW n \in 1 .. AverageN, AverageCheckpoints(n) PROVE CoverageInv'
    <3>1. job' = job /\ job.stage = "idle" /\ ArtifactsInv
      BY <2>8 DEF AverageCheckpoints, Idle, CoreInv
    <3>2. PICK a \in 1 .. Len(artifacts) : \E dir :
              /\ AveragedDirectory(dir, artifacts[a], n, LastEpochs(Min({n, Epochs})))
              /\ artifacts' = Append(artifacts, dir)
      BY <2>8, AverageFacts
    <3>3. PICK dir : /\ AveragedDirectory(dir, artifacts[a], n, LastEpochs(Min({n, Epochs})))
                     /\ artifacts' = Append(artifacts, dir)
      BY <3>2
    <3>4. dir.card = NoCard
      BY <3>3 DEF AveragedDirectory
    <3> QED
      BY <3>1, <3>3, <3>4, AddedCoverage DEF CoverageInv
  <2>9. ASSUME NEW a \in DOMAIN artifacts, NEW corpus \in Stages, NEW direction \in Directions,
               EvaluateCheckpoint(a, corpus, direction)
        PROVE  CoverageInv'
    BY <1>1, <2>9 DEF EvaluateCheckpoint, lineageVars
  <2>10. ASSUME NEW a \in DOMAIN artifacts, NEW request \in Requests, Serve(a, request)
         PROVE  CoverageInv'
    BY <1>1, <2>10 DEF Serve, lineageVars
  <2> QED
    BY <1>4, <2>1, <2>2, <2>3, <2>4, <2>5, <2>6, <2>7, <2>8, <2>9, <2>10 DEF LineageNext
<1>5. CASE UNCHANGED vars
  BY <1>1, <1>5 DEF vars
<1> QED
  BY <1>2, <1>3, <1>4, <1>5 DEF Next

(* The coverage on a card is the number of rows that were composed: the two   *)
(* functions, each with its own growing set of pieces, agree on any tokens.   *)
THEOREM CoverageIsExact == Spec => []CoverageIsWhatWasComposed
<1>1. CoreInv /\ CoverageInv => CoverageIsWhatWasComposed
  <2> SUFFICES ASSUME CoreInv, CoverageInv, NEW a \in DOMAIN artifacts
               PROVE  IsCovered(artifacts[a].composed, CoverageOfCard(artifacts[a].card))
    BY DEF CoverageIsWhatWasComposed, IsCovered, CoverageOfCard
  <2>1. a \in 1 .. Len(artifacts)
    BY DEF CoreInv, ArtifactsInv
  <2> QED
    BY <2>1 DEF CoverageInv
<1>2. Spec => [](CoreInv /\ CoverageInv)
  BY InitInv, InitCoverage, CoreInductive, CoverageInductive, PTL DEF Spec
<1> QED
  BY <1>1, <1>2, PTL

-----------------------------------------------------------------------------
(* The numeric diagnostics.                                                 *)

(* What was reported last, when it is a number, is what was computed from the *)
(* numbers reported beside it.                                               *)
DiagnosedInv ==
    /\ outcome.kind = "alignment" =>
           /\ outcome.real \in [1 .. 3 -> Int] /\ outcome.control \in [1 .. 3 -> Int]
           /\ outcome.auc = AucSeparation(outcome.real, outcome.control)
    /\ outcome.kind = "dialect" =>
           /\ outcome.points \in PointSets
           /\ outcome.labels = KmeansTwoClusters(outcome.points, MaxIterations)
    /\ outcome.kind = "rectify" =>
           /\ outcome.probs \in Distributions /\ outcome.delta \in Deltas
           /\ outcome.result = RectifyProbabilities(outcome.probs, outcome.delta)

LEMMA OtherOutcomes ==
  ASSUME outcome'.kind \in {"nothing", "leaks", "evaluation", "answer"}
  PROVE  DiagnosedInv'
BY DEF DiagnosedInv

LEMMA CommandsReportOtherwise ==
  ASSUME CorpusNext \/ LineageNext
  PROVE  outcome'.kind \in {"nothing", "leaks", "evaluation", "answer"}
<1>1. CASE CorpusNext
  <2>1. ASSUME NEW split \in Splits, CleanCorpusFile(split) PROVE outcome'.kind = "nothing"
    BY <2>1 DEF CleanCorpusFile, NothingYet
  <2>2. ASSUME NEW stage \in Stages, ValidateSplitFiles(stage) PROVE outcome'.kind = "leaks"
    BY <2>2 DEF ValidateSplitFiles
  <2> QED
    BY <1>1, <2>1, <2>2 DEF CorpusNext
<1>2. CASE LineageNext
  <2>1. ASSUME NEW a \in DOMAIN artifacts, NEW corpus \in Stages, NEW direction \in Directions,
               EvaluateCheckpoint(a, corpus, direction)
        PROVE  outcome'.kind = "evaluation"
    BY <2>1 DEF EvaluateCheckpoint
  <2>2. ASSUME NEW a \in DOMAIN artifacts, NEW request \in Requests, Serve(a, request)
        PROVE  outcome'.kind = "answer"
    BY <2>2 DEF Serve
  <2>3. ASSUME NEW args \in TrainingRuns, NEW init \in 0 .. Len(artifacts),
               StartTrainingJob(args, init)
        PROVE  outcome'.kind = "nothing"
    BY <2>3 DEF StartTrainingJob, NothingYet
  <2>4. ExtendVocabularyForExamples \/ FineTuneEpoch => outcome'.kind = "nothing"
    BY DEF ExtendVocabularyForExamples, FineTuneEpoch, NothingYet
  <2>5. SaveModelAndTokenizer => outcome'.kind = "nothing"
    BY DEF SaveModelAndTokenizer, NothingYet
  <2>6. ASSUME NEW spelling \in Spellings, GenerateBatch(spelling) PROVE outcome'.kind = "nothing"
    BY <2>6 DEF GenerateBatch, NothingYet
  <2>7. WriteModelCard \/ JobDies => outcome'.kind = "nothing"
    BY DEF WriteModelCard, JobDies, NothingYet
  <2>8. ASSUME NEW n \in 1 .. AverageN, AverageCheckpoints(n) PROVE outcome'.kind = "nothing"
    BY <2>8 DEF AverageCheckpoints, NothingYet
  <2> QED
    BY <1>2, <2>1, <2>2, <2>3, <2>4, <2>5, <2>6, <2>7, <2>8 DEF LineageNext
<1> QED
  BY <1>1, <1>2

LEMMA DiagnosedInductive ==
  ASSUME DiagnosedInv, [Next]_vars
  PROVE  DiagnosedInv'
<1>1. CASE Diagnose
  <2>1. ASSUME NEW similarity \in Similarities, AnalyzeAlignmentSignal(similarity, 3)
        PROVE  DiagnosedInv'
    <3>1. PICK shuffle \in ShuffledControlIndices(3) :
              outcome' = [kind |-> "alignment",
                          real |-> [i \in 1 .. 3 |-> similarity[<< i, i >>]],
                          control |-> [i \in 1 .. 3 |-> similarity[<< i, shuffle[i] >>]],
                          auc |-> AucSeparation([i \in 1 .. 3 |-> similarity[<< i, i >>]],
                                      [i \in 1 .. 3 |-> similarity[<< i, shuffle[i] >>]])]
      BY <2>1 DEF AnalyzeAlignmentSignal
    <3>2. similarity \in [(1 .. 3) \X (1 .. 3) -> Int] /\ shuffle \in [1 .. 3 -> 1 .. 3]
      BY DiagnosticsAssumption DEF ShuffledControlIndices
    <3>3. /\ [i \in 1 .. 3 |-> similarity[<< i, i >>]] \in [1 .. 3 -> Int]
          /\ [i \in 1 .. 3 |-> similarity[<< i, shuffle[i] >>]] \in [1 .. 3 -> Int]
      <4>1. \A i \in 1 .. 3 : << i, i >> \in (1 .. 3) \X (1 .. 3)
                              /\ << i, shuffle[i] >> \in (1 .. 3) \X (1 .. 3)
        BY <3>2
      <4> QED
        BY <3>2, <4>1
    <3> QED
      BY <3>1, <3>3 DEF DiagnosedInv
  <2>2. ASSUME NEW points \in PointSets, AnalyzeDialectSignal(points)
        PROVE  DiagnosedInv'
    BY <2>2 DEF AnalyzeDialectSignal, DiagnosedInv
  <2>3. ASSUME NEW probs \in Distributions, NEW delta \in Deltas, Rectify(probs, delta)
        PROVE  DiagnosedInv'
    BY <2>3 DEF Rectify, DiagnosedInv
  <2> QED
    BY <1>1, <2>1, <2>2, <2>3 DEF Diagnose
<1>2. CASE CorpusNext \/ LineageNext
  BY <1>2, CommandsReportOtherwise, OtherOutcomes
<1>3. CASE UNCHANGED vars
  BY <1>3 DEF vars, DiagnosedInv
<1> QED
  BY <1>1, <1>2, <1>3 DEF Next

LEMMA DiagnosedIsInvariant == Spec => []DiagnosedInv
<1>1. Init => DiagnosedInv
  BY DEF Init, CorpusInit, NothingYet, DiagnosedInv
<1> QED
  BY <1>1, DiagnosedInductive, PTL DEF Spec

(* Subtracting and cutting at zero keeps the order; where nothing is left, the *)
(* distribution is as it was.                                                *)
LEMMA RectifiedFacts ==
  ASSUME NEW probs \in Distributions, NEW delta \in Deltas
  PROVE  LET result == RectifyProbabilities(probs, delta)
         IN  /\ SumFunction(result) > 0
             /\ \A i, k \in DOMAIN probs : probs[i] =< probs[k] => result[i] =< result[k]
             /\ \A i \in DOMAIN probs : probs[i] = 0 => result[i] = 0
<1> DEFINE D == DOMAIN probs
           rectified == [i \in D |-> Max({probs[i] - delta, 0})]
           result == RectifyProbabilities(probs, delta)
<1>1. /\ IsFiniteSet(D) /\ probs \in [D -> Nat] /\ delta \in Nat
      /\ \E i \in D : probs[i] > 0
  BY DiagnosticsAssumption
<1>2. \A i \in D : rectified[i] = IF probs[i] - delta >= 0 THEN probs[i] - delta ELSE 0
  <2> SUFFICES ASSUME NEW i \in D
               PROVE  Max({probs[i] - delta, 0}) = IF probs[i] - delta >= 0 THEN probs[i] - delta ELSE 0
    OBVIOUS
  <2>1. probs[i] - delta \in Int
    BY <1>1
  <2> QED
    BY <2>1, MaxOfTwo
<1>3. rectified \in [D -> Nat]
  <2>1. \A i \in D : rectified[i] \in Nat
    BY <1>1, <1>2
  <2> QED
    BY <2>1
<1>4. result = IF SumFunction(rectified) = 0 THEN probs ELSE rectified
  BY DEF RectifyProbabilities
<1> HIDE DEF D, rectified, result
<1>5. SumFunction(rectified) \in Nat
  BY <1>1, <1>3, SumFacts
<1>6. SumFunction(probs) > 0
  <2>1. PICK i \in D : probs[i] > 0
    BY <1>1
  <2>2. SumFunction(probs) \in Nat /\ probs[i] =< SumFunction(probs)
    BY <1>1, SumFacts
  <2> QED
    BY <1>1, <2>1, <2>2
<1>7. SumFunction(result) > 0
  BY <1>4, <1>5, <1>6
<1>8. \A i, k \in D : probs[i] =< probs[k] => rectified[i] =< rectified[k]
  BY <1>1, <1>2
<1>9. \A i \in D : probs[i] = 0 => rectified[i] = 0
  BY <1>1, <1>2
<1> QED
  BY <1>4, <1>7, <1>8, <1>9 DEF D, result

(* Rectified probabilities are a distribution over tokens the model allowed,  *)
(* in the order it had them in, for any number of tokens and any delta.      *)
THEOREM RectificationKeepsRanking == Spec => []RectifiedKeepsRanking
<1>1. DiagnosedInv => RectifiedKeepsRanking
  <2> SUFFICES ASSUME DiagnosedInv, outcome.kind = "rectify"
               PROVE  /\ SumFunction(outcome.result) > 0
                      /\ \A i, k \in DOMAIN outcome.probs :
                             outcome.probs[i] =< outcome.probs[k] => outcome.result[i] =< outcome.result[k]
                      /\ \A i \in DOMAIN outcome.probs : outcome.probs[i] = 0 => outcome.result[i] = 0
    BY DEF RectifiedKeepsRanking
  <2> QED
    BY RectifiedFacts DEF DiagnosedInv
<1> QED
  BY <1>1, DiagnosedIsInvariant, PTL

(* The reported AUC is the share of pairs the real score wins, a tie counting *)
(* half, whatever the similarities and the shuffle are.                      *)
THEOREM AucCountsPairs == Spec => []AucIsPairwise
<1>1. DiagnosedInv => AucIsPairwise
  <2> SUFFICES ASSUME DiagnosedInv, outcome.kind = "alignment" PROVE AucIsPairwise
    BY DEF AucIsPairwise
  <2> DEFINE real == outcome.real
             control == outcome.control
             Pairs == (1 .. 3) \X (1 .. 3)
             Wins == { p \in Pairs : real[p[1]] > control[p[2]] }
             Ties == { p \in Pairs : real[p[1]] = control[p[2]] }
  <2>1. /\ real \in [1 .. 3 -> Int] /\ control \in [1 .. 3 -> Int]
        /\ outcome.auc = AucSeparation(real, control)
    BY DEF DiagnosedInv
  <2> HIDE DEF real, control
  <2>2. /\ real \in Seq(Int) /\ Len(real) = 3 /\ DOMAIN real = 1 .. 3
        /\ control \in Seq(Int) /\ Len(control) = 3 /\ DOMAIN control = 1 .. 3
    <3>1. ASSUME NEW f \in [1 .. 3 -> Int]
          PROVE  f \in Seq(Int) /\ Len(f) = 3 /\ DOMAIN f = 1 .. 3
      <4> DEFINE g == [i \in 1 .. 3 |-> f[i]]
      <4>1. g \in Seq(Int) /\ Len(g) = 3 /\ DOMAIN g = 1 .. 3
        OBVIOUS
      <4>2. f = g
        OBVIOUS
      <4> QED
        BY <4>1, <4>2
    <3> QED
      BY <2>1, <3>1
  <2>3. /\ Cardinality(Wins) \in Nat /\ Cardinality(Ties) \in Nat
        /\ AucSeparation(real, control) = << 2 * Cardinality(Wins) + Cardinality(Ties), 2 * 3 * 3 >>
    BY <2>2, AucCounts
  <2> HIDE DEF Wins, Ties
  <2>4. outcome.auc[1] * 2 * 3 * 3 = outcome.auc[2] * (2 * Cardinality(Wins) + Cardinality(Ties))
    BY <2>1, <2>3
  <2> QED
    BY <2>2, <2>4 DEF AucIsPairwise, Wins, Ties, real, control
<1> QED
  BY <1>1, DiagnosedIsInvariant, PTL

(* The two dialects are a split of any corpus of two sentences or more whose   *)
(* rows are not all one, after any number of rounds; and the split is settled *)
(* once there were rounds enough, whichever the rows.                        *)
THEOREM DialectSplitIsSettled == Spec => []KmeansSettles
<1>1. DiagnosedInv => KmeansSettles
  <2> SUFFICES ASSUME DiagnosedInv, outcome.kind = "dialect", Len(outcome.points) > 1
               PROVE  KmeansSettles
    BY DEF KmeansSettles
  <2> DEFINE points == outcome.points
             labels == KmeansTwoClusters(points, MaxIterations)
             centroids == Centroids(points, labels, SeedCentroids(points))
             Differ == \E i \in DOMAIN points : points[i] # points[1]
  <2>1. points \in Seq(Int) /\ MaxIterations \in Nat \ {0} /\ outcome.labels = labels
    BY DiagnosticsAssumption DEF DiagnosedInv
  <2> HIDE DEF points, labels
  <2>2. Differ => /\ Len(points) =< MaxIterations + 1 => labels = Labels(points, centroids)
                  /\ ToSet(labels) = {0, 1}
    BY <2>1, DifferentRowsSettle DEF labels, points
  <2>3. ~Differ => labels = Labels(points, centroids)
    BY <2>1, SameRowsSettle DEF labels, points
  <2> QED
    BY <2>1, <2>2, <2>3 DEF KmeansSettles, points
<1> QED
  BY <1>1, DiagnosedIsInvariant, PTL

-----------------------------------------------------------------------------
(* The score on a card.                                                     *)

(* A search that nothing before a line answers finds that line.              *)
LEMMA FirstLineAfter ==
  ASSUME NEW X, NEW above \in Seq(X), NEW below \in Seq(X), NEW line \in X, NEW key, line[1] = key,
         \A i \in 1 .. Len(above) : above[i][1] # key
  PROVE  FirstLine(above \o << line >> \o below, key) = line[2]
<1> DEFINE upto == above \o << line >>
           card == upto \o below
           I == { i \in 1 .. Len(card) : card[i][1] = key }
           at == SelectInSeq(card, LAMBDA other : other[1] = key)
           n == Len(above) + 1
<1>1. /\ << line >> \in Seq(X) /\ Len(<< line >>) = 1 /\ << line >>[1] = line /\ Len(above) \in Nat
      /\ above \in Seq(X) /\ below \in Seq(X)
  OBVIOUS
<1>2. /\ upto \in Seq(X) /\ Len(upto) = n /\ upto[n] = line
      /\ \A i \in 1 .. Len(above) : upto[i] = above[i]
  <2> DEFINE one == << line >>
  <2>1. one \in Seq(X) /\ Len(one) = 1 /\ one[1] = line
    BY <1>1
  <2> HIDE DEF one
  <2>2. /\ above \o one \in Seq(X) /\ Len(above \o one) = Len(above) + Len(one)
        /\ \A i \in 1 .. Len(above) : (above \o one)[i] = above[i]
        /\ \A i \in 1 .. Len(one) : (above \o one)[Len(above) + i] = one[i]
    BY ONLY <1>1, <2>1, ConcatFacts
  <2> QED
    BY <2>1, <2>2 DEF one
<1> HIDE DEF upto
<1>3. /\ card \in Seq(X) /\ Len(card) = Len(upto) + Len(below) /\ Len(below) \in Nat
      /\ \A i \in 1 .. Len(upto) : card[i] = upto[i]
  <2>1. upto \in Seq(X) /\ below \in Seq(X) /\ Len(below) \in Nat
    BY <1>1, <1>2
  <2>2. /\ upto \o below \in Seq(X) /\ Len(upto \o below) = Len(upto) + Len(below)
        /\ \A i \in 1 .. Len(upto) : (upto \o below)[i] = upto[i]
    BY ONLY <2>1, ConcatFacts
  <2> QED
    BY ONLY <2>1, <2>2
<1> HIDE DEF card
<1>4. n \in I /\ I \in SUBSET Nat /\ \A i \in I : n =< i
  <2>1. n \in 1 .. Len(card) /\ n \in 1 .. Len(upto)
    BY <1>1, <1>2, <1>3
  <2>2. n \in I
    BY <1>2, <1>3, <2>1
  <2>3. ASSUME NEW i \in I, i < n PROVE FALSE
    <3>1. i \in 1 .. Len(above) /\ i \in 1 .. Len(upto)
      BY <1>1, <1>2, <2>3
    <3> QED
      BY <1>2, <1>3, <3>1
  <2> QED
    BY <1>1, <2>2, <2>3
<1>5. at = IF I # {} THEN Min(I) ELSE 0
  BY DEF SelectInSeq
<1>6. at = n
  <2> HIDE DEF I, at
  <2>1. Min(I) \in I /\ \A i \in I : Min(I) =< i
    BY <1>4, MinIsLeast
  <2>2. Min(I) \in Nat /\ n \in Nat /\ Min(I) =< n /\ n =< Min(I)
    BY <1>1, <1>4, <2>1
  <2> QED
    BY <1>4, <1>5, <2>2
<1>7. FirstLine(card, key) = IF at = 0 THEN Absent ELSE card[at][2]
  BY DEF FirstLine
<1>8. card[n] = line /\ n # 0
  <2>1. n \in 1 .. Len(upto)
    BY <1>1, <1>2
  <2> QED
    BY <1>1, <1>2, <1>3, <2>1
<1> HIDE DEF at
<1> QED
  BY <1>6, <1>7, <1>8 DEF card, upto

(* The first score on a card is that of all its sentences.                   *)
LEMMA CardScores ==
  ASSUME NEW Y, NEW hyperparameters \in Seq(Y), \A line \in Y : line[1] # "BLEU",
         NEW predictions, NEW references, NEW X, NEW directions \in Seq(X)
  PROVE  ParseModelCardMetrics(RunEvaluation(predictions, references, directions, hyperparameters))
             = ComputeMetrics(ReadLines(predictions), ReadLines(references))
<1> DEFINE hyp == ReadLines(predictions)
           ref == ReadLines(references)
           dir == ReadLines(directions)
           by == ComputeMetricsByDirection(hyp, ref, dir)
           D == [k \in DOMAIN by |-> << "BLEU", by[k][2] >>]
           line == << "BLEU", ComputeMetrics(hyp, ref) >>
           U == Y \cup {line} \cup ToSet(D)
<1>1. RunEvaluation(predictions, references, directions, hyperparameters)
          = hyperparameters \o << line >> \o D
  BY DEF RunEvaluation, RenderModelCard
<1>2. dir \in Seq(ToSet(dir))
  <2>1. dir = [i \in 1 .. Len(directions) |-> Strip(directions[i])] /\ Len(directions) \in Nat
    BY DEF ReadLines
  <2> HIDE DEF dir
  <2> QED
    BY <2>1 DEF ToSet
<1>3. Firsts(dir) \in Seq(ToSet(dir))
  BY <1>2, FirstsFacts
<1>4. DOMAIN by = DOMAIN Firsts(dir)
  BY DEF ComputeMetricsByDirection
<1> HIDE DEF by, dir
<1>5. PICK n \in Nat : DOMAIN by = 1 .. n
  BY <1>3, <1>4
<1>6. D \in Seq(U)
  <2>1. \A k \in 1 .. n : D[k] \in U
    BY <1>5 DEF ToSet
  <2>2. D = [k \in 1 .. n |-> D[k]]
    BY <1>5
  <2> HIDE DEF D, U
  <2> QED
    BY <2>1, <2>2
<1>7. hyperparameters \in Seq(U) /\ line \in U /\ line[1] = "BLEU" /\ line[2] = ComputeMetrics(hyp, ref)
  <2>1. Y \subseteq U /\ line \in U
    OBVIOUS
  <2>2. line[1] = "BLEU" /\ line[2] = ComputeMetrics(hyp, ref)
    OBVIOUS
  <2> HIDE DEF U, line
  <2> QED
    BY <2>1, <2>2, SeqGrows
<1>8. \A i \in 1 .. Len(hyperparameters) : hyperparameters[i][1] # "BLEU"
  BY ElementOf
<1> HIDE DEF U, D, line, hyp, ref
<1>9. FirstLine(hyperparameters \o << line >> \o D, "BLEU") = line[2]
  BY <1>6, <1>7, <1>8, FirstLineAfter
<1> QED
  BY <1>1, <1>7, <1>9 DEF ParseModelCardMetrics, hyp, ref

(* What a job says of itself is no score.                                    *)
LEMMA HyperparametersFacts ==
  ASSUME NEW j
  PROVE  \E Y : Hyperparameters(j) \in Seq(Y) /\ \A line \in Y : line[1] # "BLEU"
<1> DEFINE A == Reported("new_tokens_added", j.added)
           B == Reported("embedding_init_compositional_coverage", j.coverage)
           C == Reported("vocab_extension_scoping", j.scoping)
           Y == {<< "new_tokens_added", j.added >>,
                 << "embedding_init_compositional_coverage", j.coverage >>,
                 << "vocab_extension_scoping", j.scoping >>}
<1>1. A \in Seq(Y) /\ B \in Seq(Y) /\ C \in Seq(Y)
  <2>1. /\ A \in Seq({<< "new_tokens_added", j.added >>})
        /\ B \in Seq({<< "embedding_init_compositional_coverage", j.coverage >>})
        /\ C \in Seq({<< "vocab_extension_scoping", j.scoping >>})
    BY ReportedFacts
  <2>2. /\ {<< "new_tokens_added", j.added >>} \subseteq Y
        /\ {<< "embedding_init_compositional_coverage", j.coverage >>} \subseteq Y
        /\ {<< "vocab_extension_scoping", j.scoping >>} \subseteq Y
    OBVIOUS
  <2> HIDE DEF Y, A, B, C
  <2> QED
    BY <2>1, <2>2, SeqGrows
<1>2. \A line \in Y : line[1] # "BLEU"
  OBVIOUS
<1>3. Hyperparameters(j) = (A \o B) \o C
  BY DEF Hyperparameters
<1> HIDE DEF A, B, C, Y
<1>4. A \o B \in Seq(Y)
  BY <1>1, ConcatFacts
<1>5. (A \o B) \o C \in Seq(Y)
  BY <1>1, <1>4, ConcatFacts
<1> QED
  BY <1>2, <1>3, <1>5

-----------------------------------------------------------------------------
(* Every sentence of the validation set is in some batch.                   *)

LEMMA Multiples ==
  ASSUME NEW g \in Nat \ {0}, NEW j \in Nat, NEW k \in Nat
  PROVE  j * g \in Nat /\ (j + 1) * g = j * g + g /\ (j < k => j * g + g =< k * g)
OBVIOUS

LEMMA Quotients ==
  ASSUME NEW p \in Nat, NEW g \in Nat \ {0}
  PROVE  p \div g \in Nat /\ (p \div g) * g =< p /\ p < (p \div g) * g + g
OBVIOUS

CutUp(at) ==
    [k \in 1 .. (Len(at) + GenerationBatch - 1) \div GenerationBatch |->
        SubSeq(at, (k - 1) * GenerationBatch + 1, Min({k * GenerationBatch, Len(at)}))]

LEMMA CutFacts ==
  ASSUME NEW X, NEW at \in Seq(X)
  PROVE  /\ CutUp(at) \in Seq(Seq(X))
         /\ \A j \in 1 .. Len(at) : \E k \in 1 .. Len(CutUp(at)) : at[j] \in ToSet(CutUp(at)[k])
<1> DEFINE g == GenerationBatch
           n == Len(at)
           m == (n + g - 1) \div g
           S == Seq(X)
           Piece(k) == SubSeq(at, (k - 1) * g + 1, Min({k * g, n}))
<1>1. g \in Nat \ {0} /\ n \in Nat
  BY NumbersAssumption
<1> HIDE DEF g, n
<1>2. m \in Nat /\ m * g =< n + g - 1 /\ n + g - 1 < m * g + g
  <2>1. n + g - 1 \in Nat
    BY <1>1
  <2> QED
    BY <1>1, <2>1, Quotients
<1> HIDE DEF m
<1>3. ASSUME NEW k \in 1 .. m
      PROVE  /\ (k - 1) * g + 1 \in 1 .. n + 1
             /\ Min({k * g, n}) \in (k - 1) * g .. n
             /\ Min({k * g, n}) = IF k * g =< n THEN k * g ELSE n
  <2>1. k - 1 \in Nat /\ k - 1 < m /\ (k - 1) + 1 = k
    BY <1>2
  <2>2. (k - 1) * g \in Nat /\ k * g = (k - 1) * g + g /\ (k - 1) * g + g =< m * g
    BY <1>1, <1>2, <2>1, Multiples
  <2>3. Min({k * g, n}) = IF k * g =< n THEN k * g ELSE n
    BY <1>1, <2>2, MinOfTwo
  <2> DEFINE a == (k - 1) * g
             b == k * g
             c == m * g
             least == Min({k * g, n})
  <2>4. a \in Nat /\ b = a + g /\ c \in Nat /\ a + g =< c /\ c =< n + g - 1 /\ least = IF b =< n THEN b ELSE n
    <3>1. c \in Nat
      BY <1>1, <1>2, Multiples
    <3> QED
      BY <1>2, <2>2, <2>3, <3>1
  <2> HIDE DEF a, b, c, least
  <2>5. a + 1 \in 1 .. n + 1 /\ least \in a .. n
    BY <1>1, <2>4
  <2> QED
    BY <2>3, <2>5 DEF a, b, least
<1>4. ASSUME NEW k \in 1 .. m
      PROVE  /\ Piece(k) \in S
             /\ \A j \in (k - 1) * g + 1 .. Min({k * g, n}) : at[j] \in ToSet(Piece(k))
  <2> DEFINE first == (k - 1) * g + 1
             last == Min({k * g, n})
  <2>1. first \in 1 .. Len(at) + 1 /\ last \in first - 1 .. Len(at)
    <3>1. (k - 1) * g \in Int
      BY <1>1
    <3> QED
      BY <1>3, <3>1 DEF n
  <2> HIDE DEF first, last
  <2>2. /\ SubSeq(at, first, last) \in Seq(X) /\ Len(SubSeq(at, first, last)) = last - first + 1
        /\ \A i \in 1 .. last - first + 1 : SubSeq(at, first, last)[i] = at[first + i - 1]
    BY <2>1, SubSeqFacts
  <2> DEFINE piece == SubSeq(at, first, last)
  <2> HIDE DEF piece
  <2>3. ASSUME NEW j \in first .. last PROVE at[j] \in ToSet(piece)
    <3>1. j - first + 1 \in 1 .. last - first + 1 /\ first + (j - first + 1) - 1 = j
      BY <2>1
    <3>2. piece[j - first + 1] = at[j] /\ DOMAIN piece = 1 .. last - first + 1
      BY <2>2, <3>1 DEF piece
    <3> QED
      BY <3>1, <3>2 DEF ToSet
  <2> QED
    BY <2>2, <2>3 DEF first, last, piece
<1>5. CutUp(at) = [k \in 1 .. m |-> Piece(k)]
  BY DEF CutUp, m, g, n
<1>6. CutUp(at) \in Seq(S) /\ Len(CutUp(at)) = m
  <2> DEFINE cut == CutUp(at)
  <2>1. \A k \in 1 .. m : cut[k] \in S
    BY <1>4, <1>5
  <2>2. cut = [k \in 1 .. m |-> cut[k]]
    BY <1>5
  <2> HIDE DEF cut, S
  <2>3. cut \in Seq(S) /\ Len(cut) = m
    BY <1>2, <2>1, <2>2
  <2> QED
    BY <2>3 DEF cut
<1> HIDE DEF Piece, S
<1>7. ASSUME NEW j \in 1 .. n PROVE \E k \in 1 .. m : at[j] \in ToSet(Piece(k))
  <2> DEFINE q == (j - 1) \div g
             k == q + 1
  <2>1. j - 1 \in Nat
    BY <1>1
  <2>2. q \in Nat /\ q * g =< j - 1 /\ j - 1 < q * g + g
    BY <1>1, <2>1, Quotients
  <2> HIDE DEF q
  <2>3. q < m
    <3> SUFFICES ASSUME m =< q PROVE FALSE
      BY <1>2, <2>2
    <3>1. m * g =< q * g
      <4>1. m < q => m * g + g =< q * g
        BY <1>1, <1>2, <2>2, Multiples
      <4>2. m * g \in Nat /\ q * g \in Nat
        BY <1>1, <1>2, <2>2, Multiples
      <4>3. m < q \/ m = q
        BY <1>2, <2>2
      <4> QED
        BY <1>1, <4>1, <4>2, <4>3
    <3> DEFINE a == m * g
               b == q * g
    <3>2. a \in Nat /\ b \in Nat /\ a =< b /\ b =< j - 1 /\ n + g - 1 < a + g
      BY <1>1, <1>2, <2>2, <3>1, Multiples
    <3> HIDE DEF a, b
    <3> QED
      BY <1>1, <3>2
  <2>4. k \in 1 .. m /\ k - 1 = q
    BY <1>2, <2>2, <2>3
  <2>5. k * g = q * g + g /\ q * g \in Nat
    BY <1>1, <2>2, Multiples
  <2>6. j \in (k - 1) * g + 1 .. Min({k * g, n})
    <3>1. Min({k * g, n}) = IF k * g =< n THEN k * g ELSE n
      BY <1>3, <2>4
    <3> DEFINE b == q * g
               least == Min({k * g, n})
    <3>2. b \in Nat /\ (k - 1) * g = b /\ b =< j - 1 /\ j - 1 < b + g /\ least = IF b + g =< n THEN b + g ELSE n
      BY <2>2, <2>4, <2>5, <3>1
    <3> HIDE DEF b, least, k
    <3>3. j \in b + 1 .. least
      BY <1>1, <3>2
    <3> QED
      BY <3>2, <3>3 DEF least
  <2> HIDE DEF k
  <2>7. at[j] \in ToSet(Piece(k))
    BY <1>4, <2>4, <2>6 DEF Piece
  <2> QED
    BY <2>4, <2>7
<1>8. \A j \in 1 .. Len(at) : \E k \in 1 .. Len(CutUp(at)) : at[j] \in ToSet(CutUp(at)[k])
  <2> SUFFICES ASSUME NEW j \in 1 .. n PROVE \E k \in 1 .. m : at[j] \in ToSet(CutUp(at)[k])
    BY <1>6 DEF n
  <2>1. PICK k \in 1 .. m : at[j] \in ToSet(Piece(k))
    BY <1>7
  <2>2. CutUp(at)[k] = Piece(k)
    BY <1>5
  <2> QED
    BY <2>1, <2>2
<1> QED
  BY <1>6, <1>8 DEF S

LEMMA BatchesFacts ==
  ASSUME NEW n \in Nat, NEW examples, DOMAIN examples = 1 .. n
  PROVE  /\ Batches(examples) \in Seq(Seq(1 .. n))
         /\ \A i \in 1 .. n : \E k \in 1 .. Len(Batches(examples)) : i \in ToSet(Batches(examples)[k])
<1> DEFINE P(lang) == { i \in DOMAIN examples : examples[i].to = lang }
           Of(lang) == SortedBy(P(lang), <)
           langs == [i \in DOMAIN examples |-> examples[i].to]
           order == Firsts(langs)
           parts == [k \in DOMAIN order |-> CutUp(Of(order[k]))]
           S == Seq(1 .. n)
<1>1. Batches(examples) = FlattenSeq(parts)
  BY DEF Batches, CutUp
<1>2. ASSUME NEW lang
      PROVE  /\ Of(lang) \in S
             /\ \A i \in P(lang) : \E j \in 1 .. Len(Of(lang)) : Of(lang)[j] = i
  <2> DEFINE I == P(lang)
             at == Of(lang)
  <2>1. I \in SUBSET (1 .. n)
    OBVIOUS
  <2>2. at = SortedBy(I, <)
    OBVIOUS
  <2> HIDE DEF I, at
  <2>3. I \in SUBSET Nat /\ IsFiniteSet(I) /\ Cardinality(I) \in Nat
    <3>1. IsFiniteSet(1 .. n) /\ I \in SUBSET (1 .. n)
      BY <2>1, IntervalSize
    <3>2. IsFiniteSet(I)
      BY ONLY <3>1, FS_Subset
    <3> QED
      BY <3>1, <3>2, FS_CardinalityType
  <2>4. IsSorting(at, I, LessThan)
    BY <2>2, <2>3, PlacesInOrder
  <2>5. /\ at \in [1 .. Cardinality(I) -> I]
        /\ \A x \in I : \E k \in 1 .. Cardinality(I) : at[k] = x
    BY <2>4 DEF IsSorting
  <2>6. at \in Seq(1 .. n) /\ Len(at) = Cardinality(I)
    <3> DEFINE c == Cardinality(I)
    <3>1. c \in Nat /\ at \in [1 .. c -> 1 .. n]
      BY <2>1, <2>3, <2>5
    <3> HIDE DEF c
    <3>2. at \in Seq(1 .. n) /\ Len(at) = c
      BY ONLY <3>1
    <3> QED
      BY <3>2 DEF c
  <2> QED
    BY <2>5, <2>6 DEF I, at
<1>3. /\ langs \in Seq(ToSet(langs))
      /\ \A i \in 1 .. n : examples[i].to \in ToSet(langs)
  <2>1. langs = [i \in 1 .. n |-> langs[i]] /\ \A i \in 1 .. n : langs[i] \in ToSet(langs)
    BY DEF ToSet
  <2>2. \A i \in 1 .. n : langs[i] = examples[i].to
    OBVIOUS
  <2> HIDE DEF langs
  <2> QED
    BY <2>1, <2>2
<1>4. order \in Seq(ToSet(langs)) /\ ToSet(order) = ToSet(langs)
  <2> HIDE DEF langs
  <2> QED
    BY <1>3, FirstsFacts
<1> HIDE DEF order, Of, P
<1>5. DOMAIN order = 1 .. Len(order) /\ Len(order) \in Nat
  BY <1>4
<1>6. \A k \in 1 .. Len(order) : CutUp(Of(order[k])) \in Seq(S)
  BY <1>2, CutFacts
<1>7. parts \in Seq(Seq(S)) /\ Len(parts) = Len(order)
      /\ \A k \in 1 .. Len(order) : parts[k] = CutUp(Of(order[k]))
  <2> DEFINE T == Seq(S)
  <2>1. \A k \in 1 .. Len(order) : CutUp(Of(order[k])) \in T
    BY <1>6
  <2> HIDE DEF T
  <2>2. parts \in Seq(T) /\ Len(parts) = Len(order)
    BY <1>5, <2>1
  <2>3. \A k \in 1 .. Len(order) : parts[k] = CutUp(Of(order[k]))
    BY <1>5
  <2> QED
    BY <2>2, <2>3 DEF T
<1> HIDE DEF parts
<1>8. FlattenSeq(parts) \in Seq(S)
  <2> HIDE DEF S
  <2> QED
    BY <1>7, FlattenFacts
<1>9. ASSUME NEW i \in 1 .. n
      PROVE  \E k \in 1 .. Len(FlattenSeq(parts)) : i \in ToSet(FlattenSeq(parts)[k])
  <2> DEFINE lang == examples[i].to
             at == Of(lang)
  <2>1. lang \in ToSet(order)
    BY <1>3, <1>4
  <2>2. PICK k \in 1 .. Len(order) : order[k] = lang
    BY <1>5, <2>1 DEF ToSet
  <2>3. i \in P(lang)
    BY DEF P
  <2>4. at \in Seq(1 .. n)
    BY <1>2 DEF S
  <2>5. PICK j \in 1 .. Len(at) : at[j] = i
    BY <1>2, <2>3
  <2> HIDE DEF at, lang
  <2>6. PICK b \in 1 .. Len(CutUp(at)) : at[j] \in ToSet(CutUp(at)[b])
    BY <2>4, CutFacts
  <2>7. CutUp(at) \in Seq(S) /\ parts[k] = CutUp(at)
    BY <1>7, <2>2, <2>4, CutFacts DEF S, at
  <2>8. CutUp(at)[b] \in ToSet(parts[k])
    <3> HIDE DEF S
    <3>1. b \in DOMAIN CutUp(at)
      BY <2>6, <2>7
    <3> QED
      BY <2>7, <3>1 DEF ToSet
  <2>9. ToSet(parts[k]) \subseteq ToSet(FlattenSeq(parts))
    <3>1. k \in 1 .. Len(parts)
      BY <1>7, <2>2
    <3> HIDE DEF S
    <3> QED
      BY <1>7, <3>1, FlattenMembers
  <2>10. PICK c \in DOMAIN FlattenSeq(parts) : FlattenSeq(parts)[c] = CutUp(at)[b]
    BY <2>8, <2>9 DEF ToSet
  <2>11. c \in 1 .. Len(FlattenSeq(parts))
    <3> HIDE DEF S
    <3> QED
      BY <1>8
  <2> QED
    BY <2>5, <2>6, <2>10, <2>11
<1> QED
  BY <1>1, <1>8, <1>9 DEF S

-----------------------------------------------------------------------------
(* The marks of a tokenizer that was extended once.                         *)

(* A subword piece has a character beside its marker.                        *)
LEMMA PiecesAreLong ==
  ASSUME NEW pieces \in Seq(Strings), NEW vocab, NEW t \in ToSet(ComputeNewSubwordTokens(pieces, vocab)),
         StartsWord(t)
  PROVE  Len(t) > 1
<1> DEFINE S == SelectHighValueSubwords(pieces)
<1>1. S \in SUBSET Strings /\ IsFiniteSet(S)
  BY ToSetIsFinite, FS_Subset DEF SelectHighValueSubwords
<1>2. t \in S
  <2> HIDE DEF S
  <2>1. ToSet(SelectNewTokens(S, vocab)) = S \ ToSet(vocab)
    BY <1>1, SelectedTokens
  <2> QED
    BY <2>1 DEF ComputeNewSubwordTokens, S
<1>3. t \in Seq(Characters) /\ Len(t) \in Nat
  BY <1>1, <1>2 DEF Strings
<1>4. Len(<< Marker >>) = 1 /\ Len(<< Marker >>) =< Len(t)
  BY DEF StartsWord, IsPrefix
<1>5. WithoutPrefix(t, << Marker >>) = SubSeq(t, 2, Len(t))
  BY <1>4 DEF WithoutPrefix, StartsWord
<1>6. Len(SubSeq(t, 2, Len(t))) = Len(t) - 1
  <2> DEFINE m == 2
             n == Len(t)
  <2>1. m \in 1 .. Len(t) + 1 /\ n \in m - 1 .. Len(t) /\ n - m + 1 = Len(t) - 1
    BY <1>3, <1>4
  <2> HIDE DEF m, n
  <2>2. Len(SubSeq(t, m, n)) = n - m + 1
    BY <1>3, <2>1, SubSeqFacts
  <2> QED
    BY <2>1, <2>2 DEF m, n
<1>7. Len(WithoutPrefix(t, << Marker >>)) >= MinSubwordLength /\ MinSubwordLength \in Nat \ {0}
  BY <1>2, BaseVocabAssumption DEF SelectHighValueSubwords
<1> QED
  BY <1>3, <1>5, <1>6, <1>7

LEMMA MarksFacts ==
  ASSUME NEW tokenizer, NEW sentences, NEW pieces, NEW first, NEW second, NEW extra,
         IsExtended(tokenizer, sentences, pieces, first, second, extra), tokenizer.vocab = BaseVocab
  PROVE  second = [vocab |-> second.vocab, marks |-> MarksOf(first.marks, second.vocab)]
<1> DEFINE one == ComputeNewTokensForTexts(sentences, BaseVocab)
           two == ComputeNewSubwordTokens(pieces, first.vocab)
           carriers == { t \in ToSet(two) : StartsWord(t) }
<1>1. /\ IsVocabulary(BaseVocab) /\ sentences \in SUBSET Strings /\ IsFiniteSet(sentences)
      /\ pieces \in Seq(Strings)
  BY DEF IsExtended
<1>2. first.vocab = BaseVocab \o one /\ first.marks = SelectWholeWordTokens(one)
  BY DEF IsExtended, ExtendTokenizerVocab
<1>3. second = [vocab |-> first.vocab \o two, marks |-> first.marks \cup carriers]
  BY DEF IsExtended, ExtendTokenizerVocabWithSubwords
<1>4. \A t \in ToSet(two) : StartsWord(t) => Len(t) > 1
  BY <1>1, PiecesAreLong
<1>5. /\ one \in Seq(Strings) /\ IsInjective(one) /\ ToSet(one) \cap ToSet(BaseVocab) = {}
      /\ SelectWholeWordTokens(one) = { t \in ToSet(one) : Len(t) > 1 }
  <2>1. one \in Seq(Strings) /\ IsInjective(one) /\ ToSet(one) = Candidates(sentences) \ ToSet(BaseVocab)
    BY <1>1, NewTokens
  <2> QED
    BY <2>1 DEF SelectWholeWordTokens
<1>6. two \in Seq(Strings) /\ ToSet(two) \cap ToSet(first.vocab) = {}
  BY <1>1, NewPieces
<1> HIDE DEF one, two, carriers
<1>7. first.vocab \in Seq(Tokens) /\ ToSet(first.vocab) = ToSet(BaseVocab) \cup ToSet(one)
  <2>1. IsVocabulary(BaseVocab \o one) /\ ToSet(BaseVocab \o one) = ToSet(BaseVocab) \cup ToSet(one)
    BY <1>1, <1>5, VocabularyGrows
  <2> QED
    BY <1>2, <2>1 DEF IsVocabulary
<1>8. ToSet(first.vocab \o two) = ToSet(first.vocab) \cup ToSet(two)
  <2>1. two \in Seq(Tokens)
    BY <1>6, TextsAreTokens
  <2> QED
    BY <1>7, <2>1, ConcatFacts
<1>9. ToSet(first.vocab \o two) \ ToSet(BaseVocab) = ToSet(one) \cup ToSet(two)
  BY <1>5, <1>6, <1>7, <1>8
<1>10. MarksOf(first.marks, first.vocab \o two) = first.marks \cup carriers
  <2>1. MarksOf(first.marks, first.vocab \o two)
            = first.marks \cup { t \in ToSet(one) \cup ToSet(two) : Len(t) > 1 /\ StartsWord(t) }
    BY <1>9 DEF MarksOf
  <2>2. carriers = { t \in ToSet(two) : StartsWord(t) }
    BY DEF carriers
  <2> QED
    BY <1>2, <1>4, <1>5, <2>1, <2>2
<1> QED
  BY <1>3, <1>10

(* Until it is over, a job from the base model has the marks its words and    *)
(* its vocabulary give.                                                      *)
MarksInv ==
    job.stage \in {"extended", "training", "saved"} /\ job.init = 0 =>
        job.tokenizer = [vocab |-> job.tokenizer.vocab,
                         marks |-> MarksOf(job.words, job.tokenizer.vocab)]

(* The steps, by what they may do to the job and to the directories.          *)
LEMMA StepKinds ==
  ASSUME [Next]_vars
  PROVE  \/ UNCHANGED << job, artifacts >>
         \/ job'.stage = "loaded" /\ artifacts' = artifacts
         \/ ExtendVocabularyForExamples
         \/ FineTuneEpoch
         \/ SaveModelAndTokenizer
         \/ \E spelling \in Spellings : GenerateBatch(spelling)
         \/ WriteModelCard
         \/ job'.stage = "idle" /\ artifacts' = artifacts
         \/ \E n \in 1 .. AverageN : AverageCheckpoints(n)
<1>1. Diagnose => UNCHANGED << job, artifacts >>
  BY DiagnoseKeepsFiles
<1>2. UNCHANGED lineageVars \/ UNCHANGED vars => UNCHANGED << job, artifacts >>
  BY DEF lineageVars, vars
<1>3. ASSUME NEW args \in TrainingRuns, NEW init \in 0 .. Len(artifacts), StartTrainingJob(args, init)
      PROVE  job'.stage = "loaded" /\ artifacts' = artifacts
  BY <1>3 DEF StartTrainingJob
<1>4. JobDies => job'.stage = "idle" /\ artifacts' = artifacts
  BY DEF JobDies, Idle
<1>5. ASSUME NEW a \in DOMAIN artifacts, NEW corpus \in Stages, NEW direction \in Directions,
             EvaluateCheckpoint(a, corpus, direction)
      PROVE  UNCHANGED << job, artifacts >>
  BY <1>5 DEF EvaluateCheckpoint, lineageVars
<1>6. ASSUME NEW a \in DOMAIN artifacts, NEW request \in Requests, Serve(a, request)
      PROVE  UNCHANGED << job, artifacts >>
  BY <1>6 DEF Serve, lineageVars
<1> QED
  BY <1>1, <1>2, <1>3, <1>4, <1>5, <1>6 DEF Next, LineageNext

LEMMA ExtendMarks ==
  ASSUME CoreInv, ExtendVocabularyForExamples
  PROVE  MarksInv'
<1>1. CorpusInv /\ ArtifactsInv /\ job.stage = "loaded"
  BY DEF CoreInv, ExtendVocabularyForExamples
<1>2. StartedInv /\ TokenizerInv
  BY <1>1 DEF CoreInv, JobInv, Idle
<1> DEFINE texts == CollectTextsForLanguage(job.train, "cak")
           words == ExtendTokenizerVocab(job.tokenizer, texts \cup DirectionTags)
           after == ExtendTokenizerVocabWithSubwords(words, job.args.pieces)
           added == SubSeq(after.vocab, Len(job.tokenizer.vocab) + 1, Len(after.vocab))
<1>3. job'.init = job.init /\ job'.tokenizer = after /\ job'.words = words.marks
  <2>1. \E composed, coverage : job' = [job EXCEPT
               !.stage = "extended", !.tokenizer = after, !.added = Len(added),
               !.words = words.marks, !.rows = job.rows \o added,
               !.composed = composed, !.coverage = coverage]
    <3>1. texts # {}
      BY <1>1, <1>2, ExtensionTexts
    <3> HIDE DEF texts
    <3> QED
      BY <3>1 DEF ExtendVocabularyForExamples, ResizeEmbeddingsForNewTokens, texts
  <2> HIDE DEF words, after, added
  <2> QED
    BY <1>2, <2>1 DEF StartedInv
<1>4. ASSUME job.init = 0 PROVE after = [vocab |-> after.vocab, marks |-> MarksOf(words.marks, after.vocab)]
  <2>1. job.tokenizer.vocab = BaseVocab /\ job.tokenizer.marks = {}
    BY <1>1, <1>2, <1>4 DEF TokenizerInv, Source, BaseModel
  <2> DEFINE sample == SampleTexts(job.args.corpus, KaqchikelOnly)
  <2>2. texts \cup DirectionTags = sample /\ sample \in SUBSET Strings /\ IsFiniteSet(sample)
    BY <1>1, <1>2, ExtensionTexts
  <2>3. /\ words = ExtendTokenizerVocab(job.tokenizer, sample)
        /\ after = ExtendTokenizerVocabWithSubwords(words, job.args.pieces)
        /\ added = SubSeq(after.vocab, Len(job.tokenizer.vocab) + 1, Len(after.vocab))
    BY <2>2
  <2>4. job.args.pieces \in Seq(Strings)
    BY <1>2, StartedFacts
  <2> HIDE DEF words, after, added, sample
  <2>5. IsExtended(job.tokenizer, sample, job.args.pieces, words, after, added)
    BY <2>1, <2>2, <2>3, <2>4, BaseIsVocabulary DEF IsExtended
  <2> QED
    BY <2>1, <2>5, MarksFacts
<1> HIDE DEF after, words
<1> QED
  BY <1>3, <1>4 DEF MarksInv

LEMMA MarksInductive ==
  ASSUME CoreInv, MarksInv, [Next]_vars
  PROVE  MarksInv'
<1>1. CASE job' = job
  BY <1>1 DEF MarksInv
<1>2. CASE job'.stage \in {"loaded", "idle"}
  BY <1>2 DEF MarksInv
<1>3. CASE ExtendVocabularyForExamples
  BY <1>3, ExtendMarks
<1>4. ASSUME StartedInv, job.stage \in {"extended", "training", "saved"}, KeepsStart, KeepsTokenizer
      PROVE  MarksInv'
  BY <1>4 DEF MarksInv, KeepsStart, KeepsTokenizer
<1>5. CASE FineTuneEpoch
  <2>1. StartedInv /\ job.stage \in {"extended", "training"}
    BY <1>5 DEF FineTuneEpoch, CoreInv, JobInv, Idle
  <2>2. KeepsStart /\ KeepsTokenizer
    BY <1>5, <2>1 DEF FineTuneEpoch, StartedInv, KeepsStart, KeepsTokenizer
  <2> QED
    BY <1>4, <2>1, <2>2
<1>6. CASE SaveModelAndTokenizer
  <2>1. StartedInv
    BY <1>6 DEF SaveModelAndTokenizer, CoreInv, JobInv, Idle
  <2> QED
    BY <1>4, <1>6, <2>1, SaveFacts
<1>7. ASSUME NEW spelling \in Spellings, GenerateBatch(spelling) PROVE MarksInv'
  <2>1. StartedInv /\ job.stage = "saved"
    BY <1>7 DEF GenerateBatch, CoreInv, JobInv, Idle
  <2>2. PICK hypotheses : job' = [job EXCEPT !.pending = Tail(@), !.hypotheses = hypotheses]
    BY <1>7 DEF GenerateBatch
  <2>3. KeepsStart /\ KeepsTokenizer
    BY <2>1, <2>2 DEF StartedInv, KeepsStart, KeepsTokenizer
  <2> QED
    BY <1>4, <2>1, <2>3
<1>8. WriteModelCard => job'.stage = "idle"
  BY DEF WriteModelCard, Idle
<1>9. ASSUME NEW n \in 1 .. AverageN, AverageCheckpoints(n) PROVE job' = job
  BY <1>9 DEF AverageCheckpoints
<1> QED
  BY <1>1, <1>2, <1>3, <1>5, <1>6, <1>7, <1>8, <1>9, StepKinds

-----------------------------------------------------------------------------
(* What a job answers for each sentence.                                    *)

(* Until its card is written, a saved directory is the job's own, and each    *)
(* sentence of the validation set is in a batch to come, or its hypothesis is *)
(* the translation of the job's tokenizer.                                   *)
IsAnswered(tokenizer, spelling, val, pending, hypotheses) ==
    /\ pending \in Seq(Seq(1 .. Len(val)))
    /\ \A i \in 1 .. Len(val) :
           \/ hypotheses[i] = Translation(tokenizer, spelling, val[i])
           \/ \E k \in 1 .. Len(pending) : i \in ToSet(pending[k])

IsOwn(dir, args, init, words) ==
    /\ dir.weights.spelling = args.spelling /\ dir.direction = args.direction
    /\ dir.past.runs = 1 => init = 0
    /\ init = 0 => dir.past.corpora = {args.corpus} /\ dir.past.words = words

AnswersInv ==
    job.stage = "saved" =>
        /\ job.mode = "eval"
        /\ IsOwn(artifacts[Len(artifacts)], job.args, job.init, job.words)
        /\ IsAnswered(job.tokenizer, job.args.spelling, job.val, job.pending, job.hypotheses)

LEMMA PlaceFound ==
  ASSUME NEW s \in Seq(Nat), NEW x
  PROVE  LET k == SelectInSeq(s, LAMBDA place : place = x)
         IN  \/ k = 0 /\ x \notin ToSet(s)
             \/ k # 0 /\ k \in DOMAIN s /\ s[k] = x
<1> DEFINE I == { i \in 1 .. Len(s) : s[i] = x }
           k == SelectInSeq(s, LAMBDA place : place = x)
<1>1. k = IF I # {} THEN Min(I) ELSE 0
  BY DEF SelectInSeq
<1>2. I \in SUBSET Nat /\ DOMAIN s = 1 .. Len(s) /\ 0 \notin I
  OBVIOUS
<1> HIDE DEF k
<1>3. I = {} => k = 0 /\ x \notin ToSet(s)
  BY <1>1, <1>2 DEF ToSet
<1>4. ASSUME I # {} PROVE k # 0 /\ k \in DOMAIN s /\ s[k] = x
  <2>1. Min(I) \in I
    <3> HIDE DEF I
    <3> QED
      BY <1>2, <1>4, MinIsLeast
  <2>2. k \in I
    BY <1>1, <1>4, <2>1
  <2> QED
    BY <1>2, <2>2
<1> QED
  BY <1>3, <1>4 DEF k

LEMMA BatchAnswered ==
  ASSUME NEW tokenizer, NEW spelling, NEW val, Len(val) \in Nat, NEW pending, NEW hypotheses,
         DOMAIN hypotheses = 1 .. Len(val),
         IsAnswered(tokenizer, spelling, val, pending, hypotheses), pending # << >>,
         NEW texts, texts = [k \in DOMAIN Head(pending) |->
                                Translation(tokenizer, spelling, val[Head(pending)[k]])]
  PROVE  IsAnswered(tokenizer, spelling, val, Tail(pending),
                    WrittenBack(hypotheses, Head(pending), texts))
<1> DEFINE n == Len(val)
           S == Seq(1 .. n)
           batch == Head(pending)
           new == WrittenBack(hypotheses, batch, texts)
           Right(i) == Translation(tokenizer, spelling, val[i])
<1>1. pending \in Seq(S) /\ n \in Nat
  BY DEF IsAnswered
<1>2. /\ Tail(pending) \in Seq(S) /\ batch \in S /\ batch = pending[1]
      /\ Len(pending) \in Nat \ {0} /\ Len(Tail(pending)) = Len(pending) - 1
      /\ \A k \in 2 .. Len(pending) : Tail(pending)[k - 1] = pending[k]
  <2> HIDE DEF S
  <2> QED
    BY <1>1
<1>3. batch \in Seq(Nat)
  <2>1. 1 .. n \subseteq Nat /\ batch \in Seq(1 .. n)
    BY <1>2
  <2> HIDE DEF batch
  <2> QED
    BY <2>1, SeqGrows
<1>4. ASSUME NEW i \in 1 .. n
      PROVE  \/ i \in ToSet(batch) /\ new[i] = Right(i)
             \/ i \notin ToSet(batch) /\ new[i] = hypotheses[i]
  <2> DEFINE k == SelectInSeq(batch, LAMBDA place : place = i)
  <2>1. new[i] = IF k = 0 THEN hypotheses[i] ELSE texts[k]
    BY DEF WrittenBack
  <2>2. \/ k = 0 /\ i \notin ToSet(batch)
        \/ k # 0 /\ k \in DOMAIN batch /\ batch[k] = i
    <3> HIDE DEF batch
    <3> QED
      BY <1>3, PlaceFound
  <2>3. k \in DOMAIN batch => texts[k] = Right(batch[k])
    OBVIOUS
  <2>4. k \in DOMAIN batch /\ batch[k] = i => i \in ToSet(batch)
    BY DEF ToSet
  <2> HIDE DEF k, new, batch, Right
  <2> QED
    BY <2>1, <2>2, <2>3, <2>4
<1>5. ASSUME NEW i \in 1 .. n
      PROVE  \/ new[i] = Right(i)
             \/ \E k \in 1 .. Len(Tail(pending)) : i \in ToSet(Tail(pending)[k])
  <2>1. CASE i \in ToSet(batch)
    BY <1>4, <2>1
  <2>2. CASE i \notin ToSet(batch) /\ hypotheses[i] = Right(i)
    BY <1>4, <2>2
  <2>3. CASE i \notin ToSet(batch) /\ \E k \in 1 .. Len(pending) : i \in ToSet(pending[k])
    <3>1. PICK k \in 1 .. Len(pending) : i \in ToSet(pending[k])
      BY <2>3
    <3>2. k \in 2 .. Len(pending)
      BY <1>2, <2>3, <3>1
    <3>3. k - 1 \in 1 .. Len(Tail(pending)) /\ Tail(pending)[k - 1] = pending[k]
      BY <1>2, <3>2
    <3> QED
      BY <3>1, <3>3
  <2> QED
    BY <2>1, <2>2, <2>3 DEF IsAnswered
<1> HIDE DEF new, Right
<1> QED
  BY <1>2, <1>5 DEF IsAnswered, new, Right

LEMMA SaveAnswers ==
  ASSUME CoreInv, [Next]_vars, SaveModelAndTokenizer
  PROVE  AnswersInv'
<1>1. CorpusInv /\ ArtifactsInv /\ job.stage = "training"
  BY DEF CoreInv, SaveModelAndTokenizer
<1>2. StartedInv /\ TokenizerInv
  BY <1>1 DEF CoreInv, JobInv, Idle
<1>3. /\ KeepsStart /\ KeepsTokenizer /\ job'.mode = "eval" /\ job'.pending = Batches(job.val)
  BY <1>2, SaveFacts
<1>4. PICK dir : SavedDirectory(dir) /\ artifacts' = Append(artifacts, dir)
  BY <1>2, SaveFacts
<1>5. artifacts'[Len(artifacts')] = dir
  BY <1>1, <1>2, <1>4, SavedIsDirectory, ArtifactsAdded
<1>6. IsOwn(dir, job.args, job.init, job.words)
  <2>1. dir.past.runs = Past(job.init).runs + 1 /\ job.init \in 0 .. Len(artifacts)
    BY <1>2, <1>4 DEF SavedDirectory, StartedInv
  <2>2. job.init # 0 => Past(job.init).runs \in Nat \ {0}
    <3> SUFFICES ASSUME job.init # 0 PROVE Past(job.init).runs \in Nat \ {0}
      OBVIOUS
    <3>1. job.init \in 1 .. Len(artifacts)
      BY <1>1, <2>1 DEF ArtifactsInv
    <3> QED
      BY <1>1, <3>1, NumbersAssumption DEF ArtifactsInv, IsDirectory, Past
  <2>3. dir.past.runs = 1 => job.init = 0
    BY <2>1, <2>2
  <2>4. job.init = 0 => dir.past.corpora = {job.args.corpus} /\ dir.past.words = job.words
    BY <1>4 DEF SavedDirectory, Past, NoPast
  <2> QED
    BY <1>4, <2>3, <2>4 DEF SavedDirectory, IsOwn
<1>7. IsAnswered(job.tokenizer, job.args.spelling, job.val, job'.pending, job'.hypotheses)
  <2>1. Len(job.val) \in Nat /\ DOMAIN job.val = 1 .. Len(job.val)
    BY <1>1, <1>2, ExamplesAreSequences
  <2>2. /\ Batches(job.val) \in Seq(Seq(1 .. Len(job.val)))
        /\ \A i \in 1 .. Len(job.val) :
               \E k \in 1 .. Len(Batches(job.val)) : i \in ToSet(Batches(job.val)[k])
    BY <2>1, BatchesFacts
  <2> QED
    BY <1>3, <2>2 DEF IsAnswered
<1> QED
  BY <1>3, <1>5, <1>6, <1>7 DEF AnswersInv, KeepsStart, KeepsTokenizer

LEMMA GenerateAnswers ==
  ASSUME CoreInv, HypothesesInv, AnswersInv, NEW spelling \in Spellings, GenerateBatch(spelling)
  PROVE  AnswersInv'
<1>1. /\ job.stage = "saved" /\ job.pending # << >> /\ artifacts' = artifacts
      /\ CorpusInv /\ StartedInv
  BY DEF GenerateBatch, CoreInv, JobInv, Idle
<1>2. /\ job.mode = "eval"
      /\ IsOwn(artifacts[Len(artifacts)], job.args, job.init, job.words)
      /\ IsAnswered(job.tokenizer, job.args.spelling, job.val, job.pending, job.hypotheses)
  BY <1>1 DEF AnswersInv
<1>3. spelling = job.args.spelling
  BY <1>2 DEF GenerateBatch
<1> DEFINE texts == [k \in DOMAIN Head(job.pending) |->
                        Translation(job.tokenizer, job.args.spelling, job.val[Head(job.pending)[k]])]
           new == WrittenBack(job.hypotheses, Head(job.pending), texts)
<1>4. job' = [job EXCEPT !.pending = Tail(@), !.hypotheses = new]
  BY <1>3 DEF GenerateBatch
<1>5. IsAnswered(job.tokenizer, job.args.spelling, job.val, Tail(job.pending), new)
  <2>1. Len(job.val) \in Nat /\ DOMAIN job.hypotheses = 1 .. Len(job.val)
    BY <1>1, ExamplesAreSequences DEF HypothesesInv
  <2> HIDE DEF texts
  <2>2. texts = [k \in DOMAIN Head(job.pending) |->
                    Translation(job.tokenizer, job.args.spelling, job.val[Head(job.pending)[k]])]
    BY DEF texts
  <2> QED
    BY <1>1, <1>2, <2>1, <2>2, BatchAnswered
<1> HIDE DEF new
<1>6. /\ job'.stage = "saved" /\ job'.mode = job.mode /\ job'.args = job.args /\ job'.init = job.init
      /\ job'.words = job.words /\ job'.tokenizer = job.tokenizer /\ job'.val = job.val
      /\ job'.pending = Tail(job.pending) /\ job'.hypotheses = new
  BY <1>1, <1>4 DEF StartedInv
<1> QED
  BY <1>1, <1>2, <1>5, <1>6 DEF AnswersInv

LEMMA AnswersInductive ==
  ASSUME CoreInv, HypothesesInv, AnswersInv, [Next]_vars
  PROVE  AnswersInv'
<1>1. CASE UNCHANGED << job, artifacts >>
  BY <1>1 DEF AnswersInv
<1>2. CASE job'.stage # "saved"
  BY <1>2 DEF AnswersInv
<1>3. ExtendVocabularyForExamples => job'.stage # "saved"
  <2> SUFFICES ASSUME ExtendVocabularyForExamples PROVE job'.stage # "saved"
    OBVIOUS
  <2>1. StartedInv
    BY DEF ExtendVocabularyForExamples, CoreInv, JobInv, Idle
  <2> QED
    BY <2>1 DEF ExtendVocabularyForExamples, StartedInv
<1>4. FineTuneEpoch => job'.stage # "saved"
  <2> SUFFICES ASSUME FineTuneEpoch PROVE job'.stage # "saved"
    OBVIOUS
  <2>1. StartedInv
    BY DEF FineTuneEpoch, CoreInv, JobInv, Idle
  <2> QED
    BY <2>1 DEF FineTuneEpoch, StartedInv
<1>5. WriteModelCard => job'.stage # "saved"
  BY DEF WriteModelCard, Idle
<1>6. ASSUME NEW n \in 1 .. AverageN, AverageCheckpoints(n) PROVE job'.stage # "saved"
  BY <1>6 DEF AverageCheckpoints, Idle
<1> QED
  BY <1>1, <1>2, <1>3, <1>4, <1>5, <1>6, StepKinds, SaveAnswers, GenerateAnswers

-----------------------------------------------------------------------------
(* The score of a job from the base model.                                  *)

(* The validation pairs that can be read.                                    *)
Vals == [corpus \in { c \in Stages : IsReadable(c, "validation") } |-> PairsOf(corpus, "validation")]

Score(hypotheses, examples) ==
    ComputeMetrics(ReadLines(Predictions(hypotheses)), ReadLines(References(examples)))

(* A directory whose one job claims the scoping has on its card the score of  *)
(* what the job answers for the validation set.                              *)
HasScore(dir, pairs) ==
    LET examples == BuildDirectionExamples(pairs, dir.direction)
    IN  ParseModelCardMetrics(dir.card) =
            Score([i \in DOMAIN examples |-> Answer(dir, examples[i])], examples)

IsScored(dir, vals) ==
    dir.past.runs = 1 /\ FirstLine(dir.card, "vocab_extension_scoping") = KaqchikelOnly =>
        /\ dir.direction \in Directions
        /\ \E corpus \in DOMAIN vals : dir.past.corpora = {corpus} /\ HasScore(dir, vals[corpus])

ScoresInv == \A a \in 1 .. Len(artifacts) : IsScored(artifacts[a], Vals)

LEMMA ScoreStays ==
  ASSUME CorpusInv, [Next]_vars, NEW dir, IsScored(dir, Vals)
  PROVE  IsScored(dir, Vals')
<1>1. ASSUME NEW corpus \in DOMAIN Vals
      PROVE  corpus \in DOMAIN Vals' /\ Vals'[corpus] = Vals[corpus]
  <2>1. corpus \in Stages /\ IsReadable(corpus, "validation")
    BY DEF Vals
  <2>2. IsReadable(corpus, "validation")' /\ PairsOf(corpus, "validation")' = PairsOf(corpus, "validation")
    BY <2>1, FilesStay DEF Splits
  <2> QED
    BY <2>1, <2>2 DEF Vals, IsReadable, PairsOf
<1> QED
  BY <1>1 DEF IsScored

LEMMA NoCardNoScore ==
  ASSUME NEW dir, NEW vals, dir.card = NoCard
  PROVE  IsScored(dir, vals)
BY NoCardIsSilent, AbsentAssumption DEF IsScored

LEMMA LegacyScore ==
  ASSUME CorpusInv, IsReadable("raw", "train"), NEW vals
  PROVE  IsScored(LegacyArtifact(PairsOf("raw", "train"), "raw"), vals)
<1> DEFINE pairs == PairsOf("raw", "train")
           n == Len(ComputeNewTokensForTexts(LegacyTexts(pairs), BaseVocab))
           metrics == [matches |-> 0, total |-> 0]
           card == << << "new_tokens_added", n >>, << "BLEU", metrics >> >>
           X == {<< "new_tokens_added", n >>, << "BLEU", metrics >>}
<1>1. LegacyArtifact(pairs, "raw").card = card
  BY DEF LegacyArtifact
<1> HIDE DEF n, metrics
<1>2. card \in Seq(X) /\ ToSet(card) = X
  BY DEF ToSet
<1>3. LineIs(card, "vocab_extension_scoping", Absent)
  BY <1>2 DEF LineIs
<1> HIDE DEF X
<1>4. FirstLine(card, "vocab_extension_scoping") = Absent
  <2> HIDE DEF card
  <2> QED
    BY <1>2, <1>3, FirstLineOf
<1> QED
  BY <1>1, <1>4, AbsentAssumption DEF IsScored

LEMMA InitScores == Init => MarksInv /\ AnswersInv /\ ScoresInv
<1> SUFFICES ASSUME Init PROVE MarksInv /\ AnswersInv /\ ScoresInv
  OBVIOUS
<1>1. CorpusInv /\ job.stage = "idle"
  BY CorpusInitInv DEF Init, LineageInit, Idle
<1> DEFINE legacy == LegacyArtifact(PairsOf("raw", "train"), "raw")
<1>2. artifacts = << >> \/ (IsReadable("raw", "train") /\ artifacts = << legacy >>)
  BY DEF Init, LineageInit
<1>3. CASE artifacts = << >>
  BY <1>1, <1>3 DEF MarksInv, AnswersInv, ScoresInv
<1>4. CASE IsReadable("raw", "train") /\ artifacts = << legacy >>
  <2>1. IsScored(legacy, Vals)
    BY <1>1, <1>4, LegacyScore
  <2> HIDE DEF legacy
  <2>2. \A a \in 1 .. Len(artifacts) : artifacts[a] = legacy
    BY <1>4
  <2> QED
    BY <1>1, <2>1, <2>2 DEF MarksInv, AnswersInv, ScoresInv
<1> QED
  BY <1>2, <1>3, <1>4

LEMMA AddedScores ==
  ASSUME CoreInv, ScoresInv, [Next]_vars, NEW dir, artifacts' = Append(artifacts, dir), dir.card = NoCard
  PROVE  ScoresInv'
<1>1. CorpusInv /\ ArtifactsInv /\ Len(artifacts) \in Nat
  BY DEF CoreInv, ArtifactsInv
<1> DEFINE X == ToSet(artifacts) \cup {dir}
<1>2. artifacts \in Seq(X) /\ dir \in X
  <2>1. artifacts \in Seq(ToSet(artifacts)) /\ ToSet(artifacts) \subseteq X /\ dir \in X
    BY <1>1 DEF ArtifactsInv
  <2> QED
    BY <2>1, SeqGrows
<1>3. /\ Len(artifacts') = Len(artifacts) + 1 /\ artifacts'[Len(artifacts) + 1] = dir
      /\ \A a \in 1 .. Len(artifacts) : artifacts'[a] = artifacts[a]
  <2> HIDE DEF X
  <2> QED
    BY <1>2, AppendFacts
<1>4. \A a \in 1 .. Len(artifacts) : IsScored(artifacts'[a], Vals')
  <2> SUFFICES ASSUME NEW a \in 1 .. Len(artifacts) PROVE IsScored(artifacts'[a], Vals')
    OBVIOUS
  <2>1. IsScored(artifacts[a], Vals)
    BY DEF ScoresInv
  <2>2. IsScored(artifacts[a], Vals')
    BY <1>1, <2>1, ScoreStays
  <2> QED
    BY <1>3, <2>2
<1>5. \A a \in 1 .. Len(artifacts') : a \in 1 .. Len(artifacts) \/ a = Len(artifacts) + 1
  BY <1>1, <1>3
<1> QED
  BY <1>3, <1>4, <1>5, NoCardNoScore DEF ScoresInv

(* The card is written of the hypotheses, all of them answers by then.       *)
LEMMA WrittenScore ==
  ASSUME CoreInv, HypothesesInv, MarksInv, AnswersInv, SavedInv, job.stage = "saved", job.pending = << >>,
         NEW card, card = RunEvaluation(Predictions(job.hypotheses), References(job.val),
                                        DirectionLines(job.val), Hyperparameters(job))
  PROVE  IsScored([artifacts[Len(artifacts)] EXCEPT !.card = card], Vals)
<1> DEFINE old == artifacts[Len(artifacts)]
           new == [old EXCEPT !.card = card]
           n == Len(job.val)
<1>1. CorpusInv /\ ArtifactsInv /\ StartedInv /\ Len(artifacts) \in Nat
  BY DEF CoreInv, JobInv, Idle, ArtifactsInv
<1>2. IsDirectory(old) /\ old.vocab = job.tokenizer.vocab
  BY <1>1 DEF StartedInv, ArtifactsInv, SavedInv
<1> HIDE DEF old
<1>3. /\ new.card = card /\ new.vocab = old.vocab /\ new.past = old.past
      /\ new.weights = old.weights
  BY <1>2 DEF IsDirectory
<1>4. new.direction = old.direction
  BY <1>2 DEF IsDirectory
<1>5. /\ IsOwn(old, job.args, job.init, job.words)
      /\ IsAnswered(job.tokenizer, job.args.spelling, job.val, job.pending, job.hypotheses)
  BY DEF AnswersInv, old
<1>6. ParseModelCardMetrics(card) = Score(job.hypotheses, job.val)
  <2>1. DirectionLines(job.val) \in Seq(ToSet(DirectionLines(job.val)))
    BY <1>1, DirectionsAreLines
  <2>2. PICK Y : Hyperparameters(job) \in Seq(Y) /\ \A line \in Y : line[1] # "BLEU"
    BY HyperparametersFacts
  <2> QED
    BY <2>1, <2>2, CardScores DEF Score
<1> HIDE DEF new
<1>7. ASSUME new.past.runs = 1
      PROVE  /\ new.direction \in Directions
             /\ \E corpus \in DOMAIN Vals : new.past.corpora = {corpus} /\ HasScore(new, Vals[corpus])
  <2> DEFINE corpus == job.args.corpus
  <2>1. /\ job.init = 0 /\ new.past.corpora = {corpus} /\ new.past.words = job.words
        /\ new.direction = job.args.direction /\ new.weights.spelling = job.args.spelling
    BY <1>3, <1>4, <1>5, <1>7 DEF IsOwn
  <2>2. corpus \in DOMAIN Vals /\ Vals[corpus] = PairsOf(corpus, "validation")
    BY <1>1, StartedFacts DEF Vals
  <2>3. job.val = BuildDirectionExamples(Vals[corpus], new.direction)
    BY <1>1, <2>1, <2>2 DEF StartedInv
  <2>4. job.tokenizer = [vocab |-> new.vocab, marks |-> MarksOf(new.past.words, new.vocab)]
    BY <1>2, <1>3, <2>1 DEF MarksInv
  <2>5. DOMAIN job.val = 1 .. n /\ n \in Nat
    BY <1>1, ExamplesAreSequences
  <2>6. \A i \in 1 .. n : job.hypotheses[i] = Answer(new, job.val[i])
    <3> SUFFICES ASSUME NEW i \in 1 .. n PROVE job.hypotheses[i] = Answer(new, job.val[i])
      OBVIOUS
    <3>1. job.hypotheses[i] = Translation(job.tokenizer, job.args.spelling, job.val[i])
      BY <1>5 DEF IsAnswered
    <3> QED
      BY <2>1, <2>4, <3>1 DEF Answer
  <2>7. job.hypotheses = [i \in DOMAIN job.val |-> Answer(new, job.val[i])]
    <3>1. job.hypotheses \in Seq(ToSet(job.hypotheses)) /\ Len(job.hypotheses) = n
      BY DEF HypothesesInv
    <3>2. job.hypotheses = [i \in 1 .. n |-> job.hypotheses[i]]
      BY <3>1
    <3> HIDE DEF n
    <3> QED
      BY <2>5, <2>6, <3>2
  <2>8. HasScore(new, Vals[corpus])
    BY <1>3, <1>6, <2>3, <2>7 DEF HasScore
  <2> QED
    BY <1>1, <2>1, <2>2, <2>8, StartedFacts
<1>8. IsScored(new, Vals)
  BY <1>7 DEF IsScored
<1> QED
  BY <1>8 DEF new, old

LEMMA CardScoresKept ==
  ASSUME CoreInv, CardsInv, HypothesesInv, MarksInv, AnswersInv, ScoresInv, [Next]_vars, WriteModelCard
  PROVE  ScoresInv'
<1>1. CorpusInv /\ ArtifactsInv /\ Len(artifacts) \in Nat /\ DOMAIN artifacts = 1 .. Len(artifacts)
  BY DEF CoreInv, ArtifactsInv
<1> DEFINE last == Len(artifacts)
           card == RunEvaluation(Predictions(job.hypotheses), References(job.val),
                                 DirectionLines(job.val), Hyperparameters(job))
           new == [artifacts[last] EXCEPT !.card = card]
<1>2. job.stage = "saved" /\ job.pending = << >> /\ artifacts' = [artifacts EXCEPT ![last].card = card]
  BY DEF WriteModelCard
<1>3. last \in 1 .. Len(artifacts)
  BY <1>1, <1>2 DEF StartedInv, CoreInv, JobInv, Idle
<1>4. IsScored(new, Vals)
  <2> HIDE DEF card
  <2>1. SavedInv /\ card = RunEvaluation(Predictions(job.hypotheses), References(job.val),
                                         DirectionLines(job.val), Hyperparameters(job))
    BY DEF CardsInv, card
  <2> QED
    BY <1>2, <2>1, WrittenScore
<1> HIDE DEF card
<1>5. Len(artifacts') = Len(artifacts)
  <2> HIDE DEF last
  <2>1. DOMAIN artifacts' = DOMAIN artifacts
    BY <1>2
  <2>2. artifacts' \in Seq(ToSet(artifacts'))
    BY CardCore DEF CoreInv, ArtifactsInv
  <2>3. DOMAIN artifacts' = 1 .. Len(artifacts') /\ Len(artifacts') \in Nat
    BY <2>2
  <2> QED
    BY <1>1, <2>1, <2>3
<1>6. artifacts'[last] = new /\ \A a \in 1 .. Len(artifacts) : a # last => artifacts'[a] = artifacts[a]
  <2> HIDE DEF last
  <2> QED
    BY <1>1, <1>2, <1>3
<1> HIDE DEF new
<1>7. ASSUME NEW a \in 1 .. Len(artifacts) PROVE IsScored(artifacts'[a], Vals)
  <2> HIDE DEF last
  <2> QED
    BY <1>4, <1>6 DEF ScoresInv
<1>8. ASSUME NEW a \in 1 .. Len(artifacts) PROVE IsScored(artifacts'[a], Vals')
  BY <1>1, <1>7, ScoreStays
<1> QED
  BY <1>5, <1>8 DEF ScoresInv

LEMMA ScoresInductive ==
  ASSUME CoreInv, CardsInv, HypothesesInv, MarksInv, AnswersInv, ScoresInv, [Next]_vars
  PROVE  ScoresInv'
<1>1. CorpusInv /\ ArtifactsInv
  BY DEF CoreInv
<1>2. ASSUME artifacts' = artifacts PROVE ScoresInv'
  BY <1>1, <1>2, ScoreStays DEF ScoresInv
<1>3. ExtendVocabularyForExamples \/ FineTuneEpoch => artifacts' = artifacts
  BY DEF ExtendVocabularyForExamples, FineTuneEpoch
<1>4. ASSUME NEW spelling \in Spellings, GenerateBatch(spelling) PROVE artifacts' = artifacts
  BY <1>4 DEF GenerateBatch
<1>5. CASE SaveModelAndTokenizer
  <2>1. StartedInv
    BY <1>5 DEF SaveModelAndTokenizer, CoreInv, JobInv, Idle
  <2>2. PICK dir : SavedDirectory(dir) /\ artifacts' = Append(artifacts, dir)
    BY <1>5, <2>1, SaveFacts
  <2> QED
    BY <2>2, AddedScores DEF SavedDirectory
<1>6. ASSUME NEW n \in 1 .. AverageN, AverageCheckpoints(n) PROVE ScoresInv'
  <2>1. PICK a \in 1 .. Len(artifacts) : \E dir :
            /\ AveragedDirectory(dir, artifacts[a], n, LastEpochs(Min({n, Epochs})))
            /\ artifacts' = Append(artifacts, dir)
    BY <1>6, AverageFacts
  <2>2. PICK dir : /\ AveragedDirectory(dir, artifacts[a], n, LastEpochs(Min({n, Epochs})))
                   /\ artifacts' = Append(artifacts, dir)
    BY <2>1
  <2> QED
    BY <2>2, AddedScores DEF AveragedDirectory
<1> QED
  BY <1>2, <1>3, <1>4, <1>5, <1>6, CardScoresKept, StepKinds

(* The sentences whose hypothesis is the reference, but for white space. *)
RightOnes(hypotheses, examples) ==
    { i \in DOMAIN examples : Strip(hypotheses[i]) = Strip(examples[i].target) }

(* The score of sentences counts those whose hypothesis is the reference, but *)
(* for the white space around either.                                        *)
LEMMA ScoreCounts ==
  ASSUME NEW n \in Nat \ {0}, NEW examples, examples \in Seq(ToSet(examples)), Len(examples) = n,
         NEW hypotheses, hypotheses = [i \in 1 .. n |-> hypotheses[i]]
  PROVE  Score(hypotheses, examples) =
             [matches |-> Cardinality(RightOnes(hypotheses, examples)), total |-> Len(examples)]
<1> DEFINE targets == [i \in DOMAIN examples |-> examples[i].target]
           hyp == ReadLines(Predictions(hypotheses))
           ref == ReadLines(References(examples))
<1>1. DOMAIN examples = 1 .. n
  OBVIOUS
<1>2. DOMAIN hypotheses = 1 .. n /\ DOMAIN targets = 1 .. n /\ 1 \in 1 .. n
  BY <1>1
<1>3. hypotheses # << >> /\ targets # << >>
  <2>1. DOMAIN << >> = {}
    OBVIOUS
  <2> HIDE DEF targets
  <2> QED
    BY <1>2, <2>1
<1>4. hyp = [i \in 1 .. n |-> Strip(hypotheses[i])]
  BY <1>2, <1>3 DEF Predictions, WriteLines, ReadLines
<1>5. ref = [i \in 1 .. n |-> Strip(targets[i])]
  <2>1. References(examples) = targets
    BY <1>3 DEF References, WriteLines
  <2> HIDE DEF targets
  <2> QED
    BY <1>2, <2>1 DEF ReadLines
<1>6. \A i \in 1 .. n : targets[i] = examples[i].target
  BY <1>1
<1>7. DOMAIN ref = 1 .. n /\ Len(ref) = n
  BY <1>5
<1>8. \A i \in 1 .. n : hyp[i] = ref[i] <=> Strip(hypotheses[i]) = Strip(examples[i].target)
  <2> HIDE DEF targets, hyp, ref
  <2> QED
    BY <1>4, <1>5, <1>6
<1> HIDE DEF hyp, ref, targets
<1>9. { i \in DOMAIN ref : hyp[i] = ref[i] }
          = RightOnes(hypotheses, examples)
  BY <1>1, <1>7, <1>8 DEF RightOnes
<1>10. Score(hypotheses, examples) =
           [matches |-> Cardinality({ i \in DOMAIN ref : hyp[i] = ref[i] }), total |-> Len(ref)]
  BY DEF Score, ComputeMetrics, hyp, ref
<1> QED
  BY <1>7, <1>9, <1>10

LEMMA ExamplesOf ==
  ASSUME CorpusInv, NEW corpus \in DOMAIN Vals, NEW direction \in Directions
  PROVE  LET examples == BuildDirectionExamples(Vals[corpus], direction)
         IN  /\ examples \in Seq(ToSet(examples)) /\ Len(examples) \in Nat
             /\ \A i \in 1 .. Len(examples) : examples[i].target \in Strings /\ examples[i].to \in Langs
<1> DEFINE pairs == Vals[corpus]
           Pairs == Strings \X Strings
           examples == BuildDirectionExamples(pairs, direction)
           Made == { Example(pair, "es", "cak") : pair \in ToSet(pairs) }
                       \cup { Example(pair, "cak", "es") : pair \in ToSet(pairs) }
<1>1. pairs \in Seq(Pairs)
  BY PairsFacts DEF Vals, Splits
<1>2. \A pair \in ToSet(pairs) : pair[1] \in Strings /\ pair[2] \in Strings
  <2>1. ToSet(pairs) \subseteq Pairs
    BY <1>1 DEF ToSet
  <2> QED
    BY <2>1
<1> HIDE DEF pairs, Pairs
<1>3. examples \in Seq(Made)
  BY <1>1, ExamplesFacts
<1>4. \A example \in Made : example.target \in Strings /\ example.to \in Langs
  <2>1. ASSUME NEW pair \in ToSet(pairs)
        PROVE  /\ Example(pair, "es", "cak").target = pair[2] /\ Example(pair, "es", "cak").to = "cak"
               /\ Example(pair, "cak", "es").target = pair[1] /\ Example(pair, "cak", "es").to = "es"
    BY DEF Example
  <2> QED
    BY <1>2, <2>1 DEF Langs
<1> HIDE DEF Made, examples
<1>5. examples = [i \in 1 .. Len(examples) |-> examples[i]] /\ Len(examples) \in Nat
  BY <1>3
<1>6. \A i \in 1 .. Len(examples) : examples[i] \in ToSet(examples) /\ examples[i] \in Made
  BY <1>3, <1>5 DEF ToSet
<1>7. examples \in Seq(ToSet(examples))
  BY <1>5, <1>6
<1> QED
  BY <1>4, <1>5, <1>6, <1>7 DEF examples, pairs

LEMMA ScoresAreTold == CorpusInv /\ ArtifactsInv /\ ScoresInv => CardTellsTheWholeScore
<1> SUFFICES ASSUME CorpusInv, ArtifactsInv, ScoresInv, NEW a \in DOMAIN artifacts, FromBase(a),
                    NEW corpus, corpus = (CHOOSE c \in artifacts[a].past.corpora : TRUE),
                    NEW examples, examples = BuildDirectionExamples(PairsOf(corpus, "validation"),
                                                                    artifacts[a].direction),
                    examples # << >>
             PROVE  ParseModelCardMetrics(artifacts[a].card) =
                        [matches |-> Cardinality({ i \in DOMAIN examples :
                             Strip(Answer(artifacts[a], examples[i])) = Strip(examples[i].target) }),
                         total   |-> Len(examples)]
  BY DEF CardTellsTheWholeScore
<1> DEFINE dir == artifacts[a]
           answers == [i \in DOMAIN examples |-> Answer(dir, examples[i])]
<1>1. a \in 1 .. Len(artifacts) /\ IsScored(dir, Vals)
  BY DEF ArtifactsInv, ScoresInv
<1>2. /\ dir.direction \in Directions
      /\ \E c \in DOMAIN Vals : dir.past.corpora = {c} /\ HasScore(dir, Vals[c])
  BY <1>1 DEF IsScored, FromBase, Claims
<1>3. corpus \in DOMAIN Vals /\ HasScore(dir, Vals[corpus])
  <2>1. PICK c \in DOMAIN Vals : dir.past.corpora = {c} /\ HasScore(dir, Vals[c])
    BY <1>2
  <2>2. corpus = c
    BY <2>1
  <2> QED
    BY <2>1, <2>2
<1>4. examples = BuildDirectionExamples(Vals[corpus], dir.direction)
  BY <1>3 DEF Vals
<1>5. /\ examples \in Seq(ToSet(examples)) /\ Len(examples) \in Nat \ {0}
      /\ DOMAIN examples = 1 .. Len(examples)
  <2>1. examples \in Seq(ToSet(examples)) /\ Len(examples) \in Nat
    BY <1>2, <1>3, <1>4, ExamplesOf
  <2> QED
    BY <2>1
<1>6. ParseModelCardMetrics(dir.card) = Score(answers, examples)
  BY <1>3, <1>4 DEF HasScore
<1>7. \A i \in DOMAIN examples : answers[i] = Answer(dir, examples[i])
  OBVIOUS
<1>8. answers = [i \in 1 .. Len(examples) |-> answers[i]]
  BY <1>5
<1> HIDE DEF answers, dir
<1>9. Score(answers, examples) =
          [matches |-> Cardinality(RightOnes(answers, examples)), total |-> Len(examples)]
  <2> DEFINE n == Len(examples)
  <2>1. n \in Nat \ {0} /\ examples \in Seq(ToSet(examples)) /\ Len(examples) = n
    BY <1>5
  <2>2. answers = [i \in 1 .. n |-> answers[i]]
    BY <1>8
  <2> HIDE DEF n
  <2> QED
    BY ONLY <2>1, <2>2, ScoreCounts, Zenon
<1>10. RightOnes(answers, examples)
           = { i \in DOMAIN examples : Strip(Answer(dir, examples[i])) = Strip(examples[i].target) }
  BY <1>7 DEF RightOnes
<1> QED
  BY <1>6, <1>9, <1>10 DEF dir

ScoringInv == CoreInv /\ CardsInv /\ HypothesesInv /\ MarksInv /\ AnswersInv /\ ScoresInv

LEMMA ScoringIsInvariant == Spec => []ScoringInv
<1>1. Init => ScoringInv
  BY InitInv, InitScores DEF ScoringInv
<1>2. ScoringInv /\ [Next]_vars => ScoringInv'
  BY CoreInductive, CardsInductive, HypothesesInductive, MarksInductive, AnswersInductive,
     ScoresInductive DEF ScoringInv
<1> QED
  BY <1>1, <1>2, PTL DEF Spec

(* The combined score on the card of a job from the base model is that of its *)
(* whole validation set, as the job's own tokenizer decodes it.              *)
THEOREM CardsTellTheWholeScore == Spec => []CardTellsTheWholeScore
<1>1. ScoringInv => CardTellsTheWholeScore
  BY ScoresAreTold DEF ScoringInv, CoreInv
<1> QED
  BY <1>1, ScoringIsInvariant, PTL
-----------------------------------------------------------------------------
(* Decoding with other marks.                                               *)

(* One more token, after the runs there are.                                *)
PutToken(marks, runs, token) ==
    IF runs = << >> \/ token \in marks \/ StartsWord(token)
    THEN Append(runs, << token >>)
    ELSE Append(Front(runs), Append(Last(runs), token))

Runs(X) == Seq(Seq(X) \ {<< >>})

LEMMA PutFacts ==
  ASSUME NEW X, NEW marks, NEW runs \in Runs(X), NEW token \in X
  PROVE  PutToken(marks, runs, token) \in Runs(X)
<1> DEFINE R == Seq(X) \ {<< >>}
<1>1. runs \in Seq(R) /\ << token >> \in R
  BY DEF Runs
<1>2. CASE runs = << >> \/ token \in marks \/ StartsWord(token)
  <2> HIDE DEF R
  <2>1. Append(runs, << token >>) \in Seq(R)
    BY <1>1, AppendFacts
  <2> QED
    BY <1>2, <2>1 DEF PutToken, Runs, R
<1>3. CASE ~(runs = << >> \/ token \in marks \/ StartsWord(token))
  <2>1. Front(runs) \in Seq(R) /\ Last(runs) \in R
    <3> HIDE DEF R
    <3> QED
      BY <1>1, <1>3, FrontFacts
  <2>2. Append(Last(runs), token) \in R
    <3>1. Last(runs) \in Seq(X)
      BY <2>1
    <3>2. Append(Last(runs), token) \in Seq(X) /\ Len(Append(Last(runs), token)) = Len(Last(runs)) + 1
      BY <3>1, AppendFacts
    <3>3. Append(Last(runs), token) # << >>
      <4>1. Len(Last(runs)) \in Nat /\ Len(<< >>) = 0
        BY <3>1
      <4> QED
        BY <3>2, <4>1
    <3> QED
      BY <3>2, <3>3
  <2> HIDE DEF R
  <2>3. Append(Front(runs), Append(Last(runs), token)) \in Seq(R)
    BY <2>1, <2>2, AppendFacts
  <2> QED
    BY <1>3, <2>3 DEF PutToken, Runs, R
<1> QED
  BY <1>2, <1>3

IsRunning(run, marks, tokens) ==
    /\ run[0] = << >>
    /\ \A n \in 1 .. Len(tokens) : run[n] = PutToken(marks, run[n - 1], tokens[n])
    /\ WordRuns(marks, tokens) = run[Len(tokens)]

(* The runs of words grow token by token.                                   *)
LEMMA Running ==
  ASSUME NEW X, NEW tokens \in Seq(X), NEW marks
  PROVE  \E run \in [0 .. Len(tokens) -> Runs(X)] : IsRunning(run, marks, tokens)
<1> DEFINE N == Len(tokens)
           P == SUBSET (1 .. N)
           S == Runs(X)
           start == << >>
           step == [n \in 1 .. N |-> [runs \in S |-> PutToken(marks, runs, tokens[n])]]
           Fold(f) == f = [s \in P |-> IF s = {} THEN start
                              ELSE PutToken(marks, f[s \ {Max(s)}], tokens[Max(s)])]
           iter == CHOOSE f : Fold(f)
<1>1. N \in Nat /\ DOMAIN tokens = 1 .. N /\ \A n \in 1 .. N : tokens[n] \in X
  OBVIOUS
<1>2. start \in S
  <2> DEFINE R == Seq(X) \ {<< >>}
  <2> HIDE DEF R
  <2>1. << >> \in Seq(R)
    OBVIOUS
  <2> QED
    BY <2>1 DEF Runs, R
<1>3. \A n \in 1 .. N, runs \in S : PutToken(marks, runs, tokens[n]) \in S
  BY <1>1, PutFacts
<1> HIDE DEF S, start
<1>4. step \in [1 .. N -> [S -> S]]
  BY <1>3
<1>5. \E f \in [P -> S] : Fold(f)
  <2>1. PICK f \in [P -> S] : IsFold(f, N, start, step)
    <3> HIDE DEF step, N
    <3> QED
      BY <1>1, <1>2, <1>4, FoldExists
  <2>2. ASSUME NEW s \in P
        PROVE  f[s] = IF s = {} THEN start
                      ELSE PutToken(marks, f[s \ {Max(s)}], tokens[Max(s)])
    <3>1. f[s] = IF s = {} THEN start ELSE step[Max(s)][f[s \ {Max(s)}]]
      <4> HIDE DEF step
      <4> QED
        BY <2>1 DEF IsFold
    <3>2. CASE s = {}
      BY <3>1, <3>2
    <3>3. CASE s # {}
      <4> DEFINE m == Max(s)
      <4>1. m \in 1 .. N
        BY <1>1, <3>3, LastPlaceFacts
      <4> HIDE DEF m
      <4>2. f[s \ {m}] \in S
        <5>1. s \ {m} \in P
          OBVIOUS
        <5> QED
          BY <2>1, <5>1
      <4>3. step[m][f[s \ {m}]] = PutToken(marks, f[s \ {m}], tokens[m])
        BY <4>1, <4>2
      <4> HIDE DEF step
      <4> QED
        BY <3>1, <3>3, <4>3 DEF m
    <3> QED
      BY <3>2, <3>3
  <2>3. Fold(f)
    <3>1. f = [s \in P |-> f[s]]
      BY <2>1
    <3> QED
      BY <2>2, <3>1
  <2> QED
    BY <2>1, <2>3
<1>6. Fold(iter)
  <2> HIDE DEF Fold
  <2> QED
    BY <1>5
<1>7. WordRuns(marks, tokens) = iter[1 .. N]
  BY <1>1 DEF WordRuns, FoldLeft, MapThenFoldSet, PutToken, start
<1> HIDE DEF iter
<1> DEFINE run == [n \in 0 .. N |-> iter[1 .. n]]
<1>8. iter[1 .. 0] = start
  BY <1>1, <1>6, FirstPlaces
<1>9. \A n \in 1 .. N : iter[1 .. n] = PutToken(marks, iter[1 .. n - 1], tokens[n])
  <2> SUFFICES ASSUME NEW n \in 1 .. N
               PROVE  iter[1 .. n] = PutToken(marks, iter[1 .. n - 1], tokens[n])
    OBVIOUS
  <2>1. 1 .. n \in P /\ 1 .. n # {} /\ Max(1 .. n) = n /\ (1 .. n) \ {n} = 1 .. n - 1
    BY <1>1, FirstPlaces
  <2>2. \A s \in P : iter[s] = IF s = {} THEN start
                              ELSE PutToken(marks, iter[s \ {Max(s)}], tokens[Max(s)])
    BY <1>6
  <2> HIDE DEF P
  <2> QED
    BY <2>1, <2>2
<1>10. run[0] = start /\ \A n \in 1 .. N : run[n] = PutToken(marks, run[n - 1], tokens[n])
  BY <1>1, <1>8, <1>9
<1>11. run[N] = iter[1 .. N]
  BY <1>1
<1>12. \A n \in 0 .. N : run[n] \in S
  <2> DEFINE Typed == { n \in Nat : n =< N => run[n] \in S }
  <2> HIDE DEF run
  <2>1. 0 \in Typed
    BY <1>2, <1>10
  <2>2. ASSUME NEW n \in Nat, n \in Typed PROVE n + 1 \in Typed
    <3>1. ASSUME n + 1 =< N PROVE run[n + 1] \in S
      <4>1. n + 1 \in 1 .. N /\ (n + 1) - 1 = n /\ run[n] \in S
        BY <1>1, <2>2, <3>1
      <4> QED
        BY <1>3, <1>10, <4>1
    <3> QED
      BY <3>1
  <2>3. Nat \subseteq Typed
    <3> HIDE DEF Typed
    <3> QED
      BY <2>1, <2>2, SetInduction
  <2> QED
    BY <1>1, <2>3
<1>13. run \in [0 .. N -> S]
  <2>1. run = [n \in 0 .. N |-> run[n]]
    OBVIOUS
  <2> HIDE DEF run
  <2> QED
    BY <1>12, <2>1
<1> HIDE DEF run
<1>14. IsRunning(run, marks, tokens)
  BY <1>7, <1>10, <1>11 DEF IsRunning, start
<1> QED
  BY <1>13, <1>14 DEF S

(* Only the marks of the tokens themselves matter.                           *)
LEMMA SameRuns ==
  ASSUME NEW X, NEW tokens \in Seq(X), NEW few, NEW many, \A t \in X : t \in few <=> t \in many
  PROVE  WordRuns(few, tokens) = WordRuns(many, tokens) /\ WordRuns(few, tokens) \in Runs(X)
<1> DEFINE N == Len(tokens)
           S == Runs(X)
<1>1. N \in Nat /\ \A n \in 1 .. N : tokens[n] \in X
  OBVIOUS
<1>2. PICK f \in [0 .. N -> S] : IsRunning(f, few, tokens)
  BY Running
<1>3. PICK g \in [0 .. N -> S] : IsRunning(g, many, tokens)
  BY Running
<1>4. \A n \in 1 .. N : \A runs : PutToken(few, runs, tokens[n]) = PutToken(many, runs, tokens[n])
  BY <1>1 DEF PutToken
<1> DEFINE Same == { n \in Nat : n =< N => f[n] = g[n] }
<1>5. 0 \in Same
  BY <1>2, <1>3 DEF IsRunning
<1>6. ASSUME NEW n \in Nat, n \in Same PROVE n + 1 \in Same
  <2>1. ASSUME n + 1 =< N PROVE f[n + 1] = g[n + 1]
    <3>1. n + 1 \in 1 .. N /\ (n + 1) - 1 = n /\ f[n] = g[n]
      BY <1>1, <1>6, <2>1
    <3>2. f[n + 1] = PutToken(few, f[n], tokens[n + 1]) /\ g[n + 1] = PutToken(many, g[n], tokens[n + 1])
      BY <1>2, <1>3, <3>1 DEF IsRunning
    <3> QED
      BY <1>4, <3>1, <3>2
  <2> QED
    BY <2>1
<1>7. Nat \subseteq Same
  <2> HIDE DEF Same
  <2> QED
    BY <1>5, <1>6, SetInduction
<1>8. f[N] = g[N] /\ f[N] \in S
  <2>1. N \in 0 .. N /\ N =< N
    BY <1>1
  <2> HIDE DEF N, S
  <2> QED
    BY <1>1, <1>2, <1>7, <2>1 DEF N
<1> QED
  BY <1>2, <1>3, <1>8 DEF IsRunning

(* What one run is decoded to.                                              *)
RunText(marks, run) ==
    IF Head(run) \in marks
    THEN NativeDecode(<< WithoutPrefix(Head(run), << Marker >>) >> \o Tail(run))
    ELSE NativeDecode(run)

LEMMA DecodedAlike ==
  ASSUME NEW X, NEW tokens \in Seq(X), NEW few, NEW many, \A t \in X : t \in few <=> t \in many,
         few # {}, many # {}
  PROVE  ConvertTokensToString(few, tokens) = ConvertTokensToString(many, tokens)
<1> DEFINE runs == WordRuns(few, tokens)
           Parts(marks) == [i \in DOMAIN runs |-> RunText(marks, runs[i])]
           Join(parts) == Strip(Joined(Kept(parts, { i \in DOMAIN parts : parts[i] # << >> })))
<1>1. WordRuns(many, tokens) = runs /\ runs \in Runs(X)
  BY SameRuns
<1>2. ConvertTokensToString(few, tokens) = Join(Parts(few))
  BY DEF ConvertTokensToString, RunText
<1>3. ConvertTokensToString(many, tokens) = Join(Parts(many))
  BY <1>1 DEF ConvertTokensToString, RunText
<1> HIDE DEF runs
<1>4. \A i \in DOMAIN runs : Head(runs[i]) \in X
  <2> SUFFICES ASSUME NEW i \in DOMAIN runs PROVE Head(runs[i]) \in X
    OBVIOUS
  <2> DEFINE R == Seq(X) \ {<< >>}
  <2>1. runs[i] \in R
    <3> HIDE DEF R
    <3>1. runs \in Seq(R)
      BY <1>1 DEF Runs, R
    <3> QED
      BY <3>1
  <2> QED
    BY <2>1
<1>5. \A i \in DOMAIN runs : RunText(few, runs[i]) = RunText(many, runs[i])
  BY <1>4 DEF RunText
<1>6. Parts(few) = Parts(many)
  BY <1>5
<1> QED
  BY <1>2, <1>3, <1>6

(* What generation emits are pieces, but for the end.                       *)
LEMMA EmissionFacts ==
  ASSUME NEW vocab, NEW spelling, NEW example, example.target \in Strings, example.to \in Langs
  PROVE  Emission(vocab, spelling, example) \in Seq(Marked \cup {Eos})
<1> DEFINE X == Marked \cup {Eos}
           words == Words(example.target)
           Piecewise(word) == DecomposeTokenIntoKnownPieces(<< Marker >> \o word, ToSet(vocab))
           pieces == [i \in DOMAIN words |-> Piecewise(words[i])]
           target == IF spelling = "words" THEN Encode(vocab, example.target, FALSE)
                     ELSE FlattenSeq(pieces)
           tag == << ForcedBosToken(example.to) >>
<1>1. Emission(vocab, spelling, example) = tag \o target \o << Eos >>
  BY DEF Emission
<1>2. tag \in Seq(X)
  <2>1. ForcedBosToken(example.to) \in DirectionTags
    BY DEF ForcedBosToken, DirectionTags
  <2>2. ForcedBosToken(example.to) \in Marked
    BY <2>1, TagsAreTexts, MarkedFacts
  <2> QED
    BY <2>2
<1>3. << Eos >> \in Seq(X)
  OBVIOUS
<1>4. FlattenSeq(pieces) \in Seq(Marked)
  <2> DEFINE S == Seq(Marked)
  <2>1. words \in Seq(Strings)
    BY WordsFacts DEF Strings
  <2>2. \A word \in Strings : Piecewise(word) \in S
    BY MarkedFacts, DecompositionFacts
  <2>3. pieces \in Seq(S)
    <3> HIDE DEF words, Piecewise, S
    <3>1. DOMAIN words = 1 .. Len(words) /\ Len(words) \in Nat /\ \A i \in DOMAIN words : words[i] \in Strings
      BY <2>1
    <3> QED
      BY <2>2, <3>1
  <2> HIDE DEF pieces
  <2> QED
    BY <2>3, FlattenFacts DEF S
<1>5. target \in Seq(X)
  <2>1. target \in Seq(Marked)
    <3> HIDE DEF pieces
    <3> QED
      BY <1>4, EncodeFacts
  <2>2. Marked \subseteq X
    OBVIOUS
  <2> HIDE DEF target, X
  <2> QED
    BY <2>1, <2>2, SeqGrows
<1> HIDE DEF tag, target, X
<1>6. tag \o target \in Seq(X)
  BY <1>2, <1>5, ConcatFacts
<1>7. tag \o target \o << Eos >> \in Seq(X)
  BY <1>3, <1>6, ConcatFacts
<1> QED
  BY <1>1, <1>7 DEF X

(* The marks of added pieces that carry the marker matter to a sentence only  *)
(* if it is spelled with such a piece.                                       *)
LEMMA TranslatedAlike ==
  ASSUME NEW vocab, NEW spelling, NEW example, example.target \in Strings, example.to \in Langs,
         NEW words, words # {},
         \A token \in ToSet(Emission(vocab, spelling, example)) :
             StartsWord(token) => Contains(BaseVocab, token)
  PROVE  Translation([vocab |-> vocab, marks |-> words], spelling, example)
             = Translation([vocab |-> vocab, marks |-> MarksOf(words, vocab)], spelling, example)
<1> DEFINE tokens == Emission(vocab, spelling, example)
           many == MarksOf(words, vocab)
           I == { i \in DOMAIN tokens : tokens[i] \notin SpecialTokens }
           kept == Kept(tokens, I)
<1>1. tokens \in Seq(Marked \cup {Eos})
  BY EmissionFacts
<1>2. \A token \in ToSet(tokens) : token \in words <=> token \in many
  <2>1. \A token : Contains(BaseVocab, token) => token \in ToSet(BaseVocab)
    BY DEF Contains, ToSet
  <2> HIDE DEF tokens
  <2>2. \A token \in ToSet(tokens) : StartsWord(token) => token \in ToSet(BaseVocab)
    BY <2>1 DEF tokens
  <2> QED
    BY <2>2 DEF MarksOf
<1>3. many # {}
  BY DEF MarksOf
<1> HIDE DEF tokens, many
<1> DEFINE T == ToSet(tokens)
<1>4. tokens \in Seq(T)
  <2>1. tokens = [i \in 1 .. Len(tokens) |-> tokens[i]] /\ Len(tokens) \in Nat
    BY <1>1
  <2>2. \A i \in 1 .. Len(tokens) : tokens[i] \in T
    BY <1>1 DEF ToSet
  <2> HIDE DEF T
  <2> QED
    BY <2>1, <2>2
<1>5. \A token \in T : token \in words <=> token \in many
  BY <1>2
<1> HIDE DEF T
<1>6. kept \in Seq(T)
  BY <1>4, KeptFacts
<1> HIDE DEF kept
<1>7. ConvertTokensToString(words, kept) = ConvertTokensToString(many, kept)
  BY <1>3, <1>5, <1>6, DecodedAlike
<1>8. BatchDecode([vocab |-> vocab, marks |-> words], tokens)
          = BatchDecode([vocab |-> vocab, marks |-> many], tokens)
  BY <1>7 DEF BatchDecode, kept
<1> QED
  BY <1>8 DEF Translation, tokens, many

(* The tag of Kaqchikel is a word the base vocabulary lacks, so that some     *)
(* word is marked.                                                          *)
LEMMA TagIsMarked ==
  ASSUME NEW pairs \in Seq(Strings \X Strings)
  PROVE  DirectionTag.cak \in NewWords(TrainSampleTexts(pairs, KaqchikelOnly), BaseVocab)
<1> DEFINE tag == DirectionTag.cak
           texts == TrainSampleTexts(pairs, KaqchikelOnly)
<1>1. tag \in DirectionTags
  BY DEF DirectionTags, Langs
<1>2. tag \in texts
  BY <1>1 DEF TrainSampleTexts
<1>3. tag \in ToSet(Words(tag))
  BY <1>1, TagIsOneWord
<1>4. tag \notin ToSet(BaseVocab)
  BY BaseVocabAssumption
<1>5. Len(tag) > 1
  BY DEF DirectionTag
<1> HIDE DEF tag, texts
<1>6. tag \in Candidates(texts)
  BY <1>2, <1>3 DEF Candidates
<1>7. tag \in NewWords(texts, BaseVocab)
  BY <1>4, <1>5, <1>6 DEF NewWords
<1> QED
  BY <1>7 DEF tag, texts

-----------------------------------------------------------------------------
(* Re-evaluation.                                                           *)

(* What a re-evaluation reported is the score of what the directory's         *)
(* tokenizer, with the words it reconstructed for marks, makes of the         *)
(* validation set.                                                          *)
RescoredInv ==
    outcome.kind = "evaluation" =>
        LET dir == artifacts[outcome.artifact]
            examples == BuildDirectionExamples(PairsOf(outcome.corpus, "validation"), outcome.direction)
        IN  ParseModelCardMetrics(outcome.card) =
                Score([i \in DOMAIN examples |->
                           Translation([vocab |-> dir.vocab, marks |-> outcome.marks],
                                       dir.weights.spelling, examples[i])], examples)

(* The steps that leave an evaluation reported.                              *)
LEMMA OutcomeKinds ==
  ASSUME [Next]_vars, outcome'.kind = "evaluation"
  PROVE  \/ UNCHANGED vars
         \/ \E a \in DOMAIN artifacts, corpus \in Stages, direction \in Directions :
                EvaluateCheckpoint(a, corpus, direction)
<1>1. ~Diagnose
  BY DiagnoseKeepsFiles
<1>2. ~CorpusNext
  <2>1. ASSUME NEW split \in Splits, CleanCorpusFile(split) PROVE FALSE
    BY <2>1 DEF CleanCorpusFile, NothingYet
  <2>2. ASSUME NEW stage \in Stages, ValidateSplitFiles(stage) PROVE FALSE
    BY <2>2 DEF ValidateSplitFiles
  <2> QED
    BY <2>1, <2>2 DEF CorpusNext
<1>3. ASSUME NEW a \in DOMAIN artifacts, NEW request \in Requests, Serve(a, request) PROVE FALSE
  BY <1>3 DEF Serve
<1>4. ASSUME NEW args \in TrainingRuns, NEW init \in 0 .. Len(artifacts), StartTrainingJob(args, init)
      PROVE  FALSE
  BY <1>4 DEF StartTrainingJob, NothingYet
<1>5. ~ExtendVocabularyForExamples
  BY DEF ExtendVocabularyForExamples, NothingYet
<1>6. ~FineTuneEpoch
  BY DEF FineTuneEpoch, NothingYet
<1>7. ~SaveModelAndTokenizer
  BY DEF SaveModelAndTokenizer, NothingYet
<1>8. ASSUME NEW spelling \in Spellings, GenerateBatch(spelling) PROVE FALSE
  BY <1>8 DEF GenerateBatch, NothingYet
<1>9. ~WriteModelCard /\ ~JobDies
  BY DEF WriteModelCard, JobDies, NothingYet
<1>10. ASSUME NEW n \in 1 .. AverageN, AverageCheckpoints(n) PROVE FALSE
  BY <1>10 DEF AverageCheckpoints, NothingYet
<1> QED
  BY <1>1, <1>2, <1>3, <1>4, <1>5, <1>6, <1>7, <1>8, <1>9, <1>10 DEF Next, LineageNext

LEMMA EvaluateScores ==
  ASSUME CorpusInv, NEW a \in DOMAIN artifacts, NEW corpus \in Stages, NEW direction \in Directions,
         EvaluateCheckpoint(a, corpus, direction)
  PROVE  RescoredInv'
<1> DEFINE dir == artifacts[a]
           scoping == FirstLine(dir.card, "vocab_extension_scoping")
           marks == BoundaryTokens(dir.vocab, TrainSampleTexts(PairsOf(corpus, "train"), scoping))
           examples == BuildDirectionExamples(PairsOf(corpus, "validation"), direction)
           hypotheses == [i \in DOMAIN examples |->
                             Translation([vocab |-> dir.vocab, marks |-> marks],
                                         dir.weights.spelling, examples[i])]
           first == << "word_boundary_tokens_reconstructed", Cardinality(marks) >>
           second == << "vocab_extension_scoping", IF scoping = Absent THEN Legacy ELSE scoping >>
           card == RunEvaluation(Predictions(hypotheses), References(examples),
                                 DirectionLines(examples), << first, second >>)
<1>1. /\ outcome'.kind = "evaluation" /\ outcome'.artifact = a /\ outcome'.corpus = corpus
      /\ outcome'.direction = direction /\ outcome'.marks = marks /\ outcome'.card = card
      /\ UNCHANGED << files, artifacts >> /\ IsReadable(corpus, "validation")
  BY DEF EvaluateCheckpoint, lineageVars, Splits
<1>2. DirectionLines(examples) \in Seq(ToSet(DirectionLines(examples)))
  <2>1. corpus \in DOMAIN Vals /\ Vals[corpus] = PairsOf(corpus, "validation")
    BY <1>1 DEF Vals
  <2>2. examples \in Seq(ToSet(examples)) /\ Len(examples) \in Nat
    BY <2>1, ExamplesOf
  <2> HIDE DEF examples
  <2>3. DOMAIN examples = 1 .. Len(examples)
    BY <2>2
  <2> QED
    BY <2>2, <2>3, DirectionsOf
<1>3. << first, second >> \in Seq({first, second}) /\ \A line \in {first, second} : line[1] # "BLEU"
  OBVIOUS
<1>4. ParseModelCardMetrics(card) = Score(hypotheses, examples)
  <2> DEFINE hyperparameters == << first, second >>
             keys == {first, second}
             directions == DirectionLines(examples)
             lines == ToSet(directions)
             predictions == Predictions(hypotheses)
             references == References(examples)
  <2>1. hyperparameters \in Seq(keys) /\ \A line \in keys : line[1] # "BLEU"
    BY <1>3
  <2>2. directions \in Seq(lines)
    BY <1>2
  <2>3. card = RunEvaluation(predictions, references, directions, hyperparameters)
    OBVIOUS
  <2>4. Score(hypotheses, examples) = ComputeMetrics(ReadLines(predictions), ReadLines(references))
    BY DEF Score
  <2> HIDE DEF card, hyperparameters, keys, directions, lines, predictions, references
  <2>5. ParseModelCardMetrics(RunEvaluation(predictions, references, directions, hyperparameters))
            = ComputeMetrics(ReadLines(predictions), ReadLines(references))
    BY ONLY <2>1, <2>2, CardScores
  <2> QED
    BY ONLY <2>3, <2>4, <2>5
<1>5. PairsOf(corpus, "validation")' = PairsOf(corpus, "validation")
  BY <1>1 DEF PairsOf
<1> HIDE DEF card
<1>6. ParseModelCardMetrics(outcome'.card) = Score(hypotheses, examples)
  BY <1>1, <1>4
<1> HIDE DEF marks
<1> QED
  BY <1>1, <1>5, <1>6 DEF RescoredInv

LEMMA RescoredInductive ==
  ASSUME CorpusInv, RescoredInv, [Next]_vars
  PROVE  RescoredInv'
<1>1. CASE outcome'.kind # "evaluation"
  BY <1>1 DEF RescoredInv
<1>2. CASE UNCHANGED vars
  BY <1>2 DEF RescoredInv, vars, PairsOf
<1>3. ASSUME NEW a \in DOMAIN artifacts, NEW corpus \in Stages, NEW direction \in Directions,
             EvaluateCheckpoint(a, corpus, direction)
      PROVE  RescoredInv'
  BY <1>3, EvaluateScores
<1> QED
  BY <1>1, <1>2, <1>3, OutcomeKinds

LEMMA InitRescored == Init => RescoredInv
BY DEF RescoredInv, Init, CorpusInit, LineageInit, NothingYet

(* An evaluation of a directory whose one job claims the scoping, with its    *)
(* corpus and direction, scores what its job scored.                         *)
LEMMA RescoresAlike ==
  CorpusInv /\ ArtifactsInv /\ CardsInv /\ OutcomeInv /\ ScoresInv /\ RescoredInv
      => ReevaluationMatches
<1> DEFINE dir == artifacts[outcome.artifact]
           corpus == outcome.corpus
<1> SUFFICES ASSUME CorpusInv, ArtifactsInv, CardsInv, OutcomeInv, ScoresInv, RescoredInv,
                    SameCorpus, FromBase(outcome.artifact), outcome.direction = dir.direction,
                    ~UsesAddedWordStart(dir, corpus, dir.direction)
             PROVE  ParseModelCardMetrics(outcome.card) = ParseModelCardMetrics(dir.card)
  BY DEF ReevaluationMatches
<1> DEFINE examples == BuildDirectionExamples(PairsOf(corpus, "validation"), dir.direction)
           marked == [vocab |-> dir.vocab, marks |-> outcome.marks]
<1>1. /\ outcome.kind = "evaluation" /\ outcome.artifact \in 1 .. Len(artifacts)
      /\ dir.past.corpora = {corpus} /\ corpus \in Stages /\ IsReadable(corpus, "train")
      /\ dir.past.runs = 1 /\ FirstLine(dir.card, "vocab_extension_scoping") = KaqchikelOnly
      /\ outcome.marks = NewWords(SampleTexts(corpus, KaqchikelOnly), BaseVocab)
  BY DEF SameCorpus, OutcomeInv, FromBase, Claims
<1>2. outcome.marks = dir.past.words
  BY WordsAreFound DEF ReconstructionIsExact
<1>3. /\ dir.direction \in Directions /\ corpus \in DOMAIN Vals /\ HasScore(dir, Vals[corpus])
      /\ Vals[corpus] = PairsOf(corpus, "validation")
  <2>1. IsScored(dir, Vals)
    BY <1>1 DEF ScoresInv
  <2> HIDE DEF dir
  <2>2. PICK c \in DOMAIN Vals : dir.past.corpora = {c} /\ HasScore(dir, Vals[c])
    BY <1>1, <2>1 DEF IsScored
  <2>3. corpus = c
    BY <1>1, <2>2
  <2> QED
    BY <1>1, <2>1, <2>2, <2>3 DEF IsScored, Vals
<1>4. ParseModelCardMetrics(outcome.card) =
          Score([i \in DOMAIN examples |-> Translation(marked, dir.weights.spelling, examples[i])], examples)
  BY <1>1 DEF RescoredInv
<1>5. ParseModelCardMetrics(dir.card) = Score([i \in DOMAIN examples |-> Answer(dir, examples[i])], examples)
  BY <1>3 DEF HasScore
<1>6. outcome.marks # {}
  <2>1. PairsOf(corpus, "train") \in Seq(Strings \X Strings)
    BY <1>1, PairsFacts DEF Splits
  <2> QED
    BY <1>1, <2>1, TagIsMarked DEF SampleTexts
<1>7. \A i \in DOMAIN examples : examples[i].target \in Strings /\ examples[i].to \in Langs
  <2>1. /\ examples \in Seq(ToSet(examples))
        /\ \A i \in 1 .. Len(examples) : examples[i].target \in Strings /\ examples[i].to \in Langs
    BY <1>3, ExamplesOf
  <2> HIDE DEF examples
  <2> QED
    BY <2>1
<1>8. \A i \in DOMAIN examples :
          \A token \in ToSet(Emission(dir.vocab, dir.weights.spelling, examples[i])) :
              StartsWord(token) => Contains(BaseVocab, token)
  BY DEF UsesAddedWordStart
<1> HIDE DEF dir, examples, corpus
<1>9. \A i \in DOMAIN examples :
          Translation(marked, dir.weights.spelling, examples[i]) = Answer(dir, examples[i])
  BY <1>2, <1>6, <1>7, <1>8, TranslatedAlike DEF Answer
<1>10. [i \in DOMAIN examples |-> Translation(marked, dir.weights.spelling, examples[i])]
           = [i \in DOMAIN examples |-> Answer(dir, examples[i])]
  BY <1>9
<1> QED
  BY <1>4, <1>5, <1>10

(* A re-evaluation with the corpus and the direction of a job from the base   *)
(* model gives the score on its card, unless a hypothesis is spelled with an  *)
(* added word-initial piece.                                                *)
THEOREM ReevaluationsMatch == Spec => []ReevaluationMatches
<1>1. Init => OutcomeInv /\ RescoredInv
  BY InitInv, InitRescored
<1>2. ScoringInv /\ OutcomeInv /\ RescoredInv /\ [Next]_vars => OutcomeInv' /\ RescoredInv'
  BY OutcomeInductive, RescoredInductive DEF ScoringInv, CoreInv
<1>3. ScoringInv /\ OutcomeInv /\ RescoredInv => ReevaluationMatches
  BY RescoresAlike DEF ScoringInv, CoreInv
<1> QED
  BY <1>1, <1>2, <1>3, ScoringIsInvariant, PTL DEF Spec
-----------------------------------------------------------------------------
(* What is left of a text without its spacing.                              *)

Blanks == Spaces \cup {Marker}

(* The letters of a sequence of tokens, one after the other.                 *)
LettersOf(tokens) == FlattenSeq(WithoutEach(tokens, Blanks))

LEMMA BlankFacts == HasBlank(Blanks) /\ Spaces \subseteq Blanks /\ Marker \in Blanks
BY DEF HasBlank, Blanks, Spaces

LEMMA MarkerFacts ==
  ASSUME NEW X, NEW token \in Seq(X)
  PROVE  /\ StartsWord(token) =>
               /\ Marker \in X /\ Tail(token) \in Seq(X)
               /\ token = << Marker >> \o Tail(token)
               /\ WithoutPrefix(token, << Marker >>) = Tail(token)
         /\ ~StartsWord(token) => WithoutPrefix(token, << Marker >>) = token
<1> DEFINE p == << Marker >>
<1>1. p \in Seq({Marker}) /\ Len(p) = 1 /\ p[1] = Marker
  OBVIOUS
<1> HIDE DEF p
<1>2. /\ IsPrefix(p, token) <=> Begins(p, token)
      /\ Begins(p, token) => token = p \o SubSeq(token, Len(p) + 1, Len(token))
  BY <1>1, BeginsPrefix
<1>3. SubSeq(token, Len(p) + 1, Len(token)) = Tail(token)
  BY <1>1
<1>4. Begins(p, token) => Marker \in X /\ Tail(token) \in Seq(X)
  <2> SUFFICES ASSUME Begins(p, token) PROVE Marker \in X /\ Tail(token) \in Seq(X)
    OBVIOUS
  <2>1. Len(token) \in Nat /\ 1 =< Len(token) /\ token[1] = Marker
    BY <1>1 DEF Begins
  <2>2. token # << >> /\ 1 \in 1 .. Len(token)
    BY <2>1
  <2> QED
    BY <2>1, <2>2
<1> QED
  BY <1>2, <1>3, <1>4 DEF WithoutPrefix, StartsWord, p

(* Marked or not, with its marker or without, a token has the same letters.  *)
LEMMA TokenLetters ==
  ASSUME NEW X, HasBlank(X), NEW token \in Seq(X)
  PROVE  /\ WithoutPrefix(token, << Marker >>) \in Seq(X)
         /\ Without(WithoutPrefix(token, << Marker >>), Blanks) = Without(token, Blanks)
         /\ StartsWord(token) =>
               /\ << " " >> \o Tail(token) \in Seq(X)
               /\ Without(<< " " >> \o Tail(token), Blanks) = Without(token, Blanks)
<1>1. CASE ~StartsWord(token)
  BY <1>1, MarkerFacts
<1>2. CASE StartsWord(token)
  <2> DEFINE rest == Tail(token)
             kept == Without(rest, Blanks)
  <2>1. /\ Marker \in X /\ rest \in Seq(X) /\ token = << Marker >> \o rest
        /\ WithoutPrefix(token, << Marker >>) = rest
    BY <1>2, MarkerFacts
  <2> HIDE DEF rest
  <2>2. kept \in Seq(X)
    BY <2>1, WithoutFacts
  <2> HIDE DEF kept
  <2>3. ASSUME NEW c \in X, c \in Blanks
        PROVE  << c >> \o rest \in Seq(X) /\ Without(<< c >> \o rest, Blanks) = kept
    <3> DEFINE one == << c >>
    <3>1. one \in Seq(X) /\ \A i \in 1 .. Len(one) : one[i] \in Blanks
      BY <2>3
    <3> HIDE DEF one
    <3>2. Without(one, Blanks) = << >>
      BY <3>1, WithoutAll
    <3>3. one \in Seq(X) /\ rest \in Seq(X)
      BY <2>1, <3>1
    <3>4. Without(one \o rest, Blanks) = Without(one, Blanks) \o Without(rest, Blanks)
      BY ONLY <3>3, WithoutConcat
    <3>5. << >> \o kept = kept
      BY <2>2
    <3>6. one \o rest \in Seq(X)
      BY <3>3, ConcatFacts
    <3> QED
      BY <3>2, <3>4, <3>5, <3>6 DEF kept, one
  <2>4. Without(token, Blanks) = kept
    BY <2>1, <2>3, BlankFacts
  <2>5. << " " >> \o rest \in Seq(X) /\ Without(<< " " >> \o rest, Blanks) = kept
    BY <2>3, BlankFacts, Zenon DEF HasBlank
  <2> QED
    BY <2>1, <2>4, <2>5 DEF rest, kept
<1> QED
  BY <1>1, <1>2

(* What decoding by SentencePiece makes of a token.                          *)
Surface(token) ==
    IF StartsWord(token) /\ Contains(BaseVocab, token) THEN << " " >> \o Tail(token) ELSE token

Surfaces(tokens) == [i \in DOMAIN tokens |-> Surface(tokens[i])]

LEMMA SurfacesFacts ==
  ASSUME NEW X, HasBlank(X), NEW tokens \in Seq(Seq(X))
  PROVE  /\ Surfaces(tokens) \in Seq(Seq(X)) /\ Len(Surfaces(tokens)) = Len(tokens)
         /\ \A i \in 1 .. Len(tokens) : Surfaces(tokens)[i] = Surface(tokens[i])
         /\ WithoutEach(Surfaces(tokens), Blanks) = WithoutEach(tokens, Blanks)
<1> DEFINE S == Seq(X)
<1>1. \A token \in S : Surface(token) \in S /\ Without(Surface(token), Blanks) = Without(token, Blanks)
  BY TokenLetters DEF Surface
<1>2. tokens \in Seq(S)
  OBVIOUS
<1> HIDE DEF S
<1>3. DOMAIN tokens = 1 .. Len(tokens) /\ Len(tokens) \in Nat /\ \A i \in 1 .. Len(tokens) : tokens[i] \in S
  BY <1>2
<1>4. Surfaces(tokens) = [i \in 1 .. Len(tokens) |-> Surface(tokens[i])]
  BY <1>3 DEF Surfaces
<1>5. \A i \in 1 .. Len(tokens) : Surface(tokens[i]) \in S
  BY <1>1, <1>3
<1>6. Surfaces(tokens) \in Seq(S) /\ Len(Surfaces(tokens)) = Len(tokens)
  BY <1>3, <1>4, <1>5
<1>7. DOMAIN Surfaces(tokens) = DOMAIN tokens
      /\ \A i \in DOMAIN tokens : Without(Surfaces(tokens)[i], Blanks) = Without(tokens[i], Blanks)
  BY <1>1, <1>3, <1>4
<1>8. WithoutEach(Surfaces(tokens), Blanks) = WithoutEach(tokens, Blanks)
  BY <1>7 DEF WithoutEach
<1> QED
  BY <1>4, <1>6, <1>8 DEF S

LEMMA NativeLetters ==
  ASSUME NEW X, HasBlank(X), NEW tokens \in Seq(Seq(X))
  PROVE  /\ NativeDecode(tokens) \in Seq(X)
         /\ Without(NativeDecode(tokens), Blanks) = LettersOf(tokens)
<1> DEFINE text == FlattenSeq(Surfaces(tokens))
<1>1. NativeDecode(tokens) = Strip(text)
  BY DEF NativeDecode, Surfaces, Surface
<1>2. text \in Seq(X)
  BY SurfacesFacts, FlattenFacts
<1>3. Without(text, Blanks) = LettersOf(tokens)
  <2> DEFINE texts == Surfaces(tokens)
  <2>1. texts \in Seq(Seq(X)) /\ WithoutEach(texts, Blanks) = WithoutEach(tokens, Blanks)
    BY SurfacesFacts
  <2> HIDE DEF texts
  <2>2. Without(FlattenSeq(texts), Blanks) = FlattenSeq(WithoutEach(texts, Blanks))
    BY <2>1, WithoutFlatten
  <2> QED
    BY <2>1, <2>2 DEF texts, LettersOf
<1> HIDE DEF text
<1>4. Strip(text) \in Seq(X) /\ Without(Strip(text), Blanks) = Without(text, Blanks)
  BY <1>2, BlankFacts, WithoutStrip
<1> QED
  BY <1>1, <1>3, <1>4

LEMMA LettersGrow ==
  ASSUME NEW X, NEW tokens \in Seq(Seq(X)), NEW token \in Seq(X)
  PROVE  /\ LettersOf(tokens) \in Seq(X)
         /\ LettersOf(Append(tokens, token)) = LettersOf(tokens) \o Without(token, Blanks)
<1> DEFINE S == Seq(X)
           more == Append(tokens, token)
           less == WithoutEach(tokens, Blanks)
           word == Without(token, Blanks)
           N == Len(tokens)
<1>1. less \in Seq(S) /\ Len(less) = N /\ \A i \in 1 .. N : less[i] = Without(tokens[i], Blanks)
  BY WithoutEachFacts
<1>2. word \in S
  BY WithoutFacts
<1>3. /\ more \in Seq(S) /\ Len(more) = N + 1 /\ more[N + 1] = token /\ N \in Nat
      /\ \A i \in 1 .. N : more[i] = tokens[i]
  <2>1. tokens \in Seq(S) /\ token \in S
    OBVIOUS
  <2> HIDE DEF S
  <2> QED
    BY <2>1, AppendFacts
<1>4. WithoutEach(more, Blanks) = Append(less, word)
  <2> DEFINE each == WithoutEach(more, Blanks)
             grown == Append(less, word)
  <2>1. each \in Seq(S) /\ Len(each) = N + 1 /\ \A i \in 1 .. N + 1 : each[i] = Without(more[i], Blanks)
    <3> HIDE DEF more
    <3> QED
      BY <1>3, WithoutEachFacts
  <2> HIDE DEF less, word, S
  <2>2. /\ grown \in Seq(S) /\ Len(grown) = N + 1 /\ grown[N + 1] = word
        /\ \A i \in 1 .. N : grown[i] = less[i]
    BY <1>1, <1>2, AppendFacts
  <2>3. ASSUME NEW i \in 1 .. N + 1 PROVE each[i] = grown[i]
    <3> HIDE DEF each, grown, more, N
    <3>1. CASE i = N + 1
      BY <1>3, <2>1, <2>2, <3>1 DEF word
    <3>2. CASE i # N + 1
      <4>1. i \in 1 .. N
        BY <1>3, <3>2
      <4> QED
        BY <1>1, <1>3, <2>1, <2>2, <4>1
    <3> QED
      BY <3>1, <3>2
  <2> HIDE DEF each, grown, N
  <2> QED
    BY <2>1, <2>2, <2>3, SameSequence DEF each, grown
<1>5. less \in Seq(Seq(X)) /\ word \in Seq(X)
  BY <1>1, <1>2
<1> HIDE DEF less, word, more, S
<1>6. FlattenSeq(less) \in Seq(X) /\ FlattenSeq(Append(less, word)) = FlattenSeq(less) \o word
  BY <1>5, FlattenFacts, FlattenGrows
<1> QED
  BY <1>4, <1>6 DEF LettersOf, less, word, more

LEMMA LettersOfNone == LettersOf(<< >>) = << >>
BY FlattenNothing DEF LettersOf, WithoutEach

(* The letters of runs of tokens.                                           *)
EachLetters(runs) == [i \in DOMAIN runs |-> LettersOf(runs[i])]

LEMMA EachLettersFacts ==
  ASSUME NEW X, NEW runs \in Seq(Seq(Seq(X)))
  PROVE  /\ EachLetters(runs) \in Seq(Seq(X)) /\ Len(EachLetters(runs)) = Len(runs)
         /\ \A i \in 1 .. Len(runs) : EachLetters(runs)[i] = LettersOf(runs[i])
<1> DEFINE S == Seq(X)
           R == Seq(S)
<1>1. \A run \in R : LettersOf(run) \in S
  <2>1. << >> \in Seq(X)
    OBVIOUS
  <2> QED
    BY <2>1, LettersGrow
<1>2. runs \in Seq(R)
  OBVIOUS
<1> HIDE DEF R, S
<1>3. DOMAIN runs = 1 .. Len(runs) /\ Len(runs) \in Nat /\ \A i \in 1 .. Len(runs) : runs[i] \in R
  BY <1>2
<1>4. EachLetters(runs) = [i \in 1 .. Len(runs) |-> LettersOf(runs[i])]
  BY <1>3 DEF EachLetters
<1>5. \A i \in 1 .. Len(runs) : LettersOf(runs[i]) \in S
  BY <1>1, <1>3
<1>6. EachLetters(runs) \in Seq(S) /\ Len(EachLetters(runs)) = Len(runs)
  BY <1>3, <1>4, <1>5
<1> QED
  BY <1>4, <1>6 DEF S

LEMMA RunsGrow ==
  ASSUME NEW X, NEW runs \in Seq(Seq(Seq(X))), NEW run \in Seq(Seq(X))
  PROVE  /\ FlattenSeq(EachLetters(runs)) \in Seq(X)
         /\ LettersOf(run) \in Seq(X)
         /\ FlattenSeq(EachLetters(Append(runs, run)))
                = FlattenSeq(EachLetters(runs)) \o LettersOf(run)
<1> DEFINE S == Seq(X)
           R == Seq(S)
           more == Append(runs, run)
           less == EachLetters(runs)
           word == LettersOf(run)
           N == Len(runs)
<1>1. less \in Seq(S) /\ Len(less) = N /\ \A i \in 1 .. N : less[i] = LettersOf(runs[i])
  BY EachLettersFacts
<1>2. word \in S
  <2>1. << >> \in Seq(X)
    OBVIOUS
  <2> QED
    BY <2>1, LettersGrow
<1>3. /\ more \in Seq(R) /\ Len(more) = N + 1 /\ more[N + 1] = run /\ N \in Nat
      /\ \A i \in 1 .. N : more[i] = runs[i]
  <2>1. runs \in Seq(R) /\ run \in R
    OBVIOUS
  <2> HIDE DEF R
  <2> QED
    BY <2>1, AppendFacts
<1>4. EachLetters(more) = Append(less, word)
  <2> DEFINE each == EachLetters(more)
             grown == Append(less, word)
  <2>1. each \in Seq(S) /\ Len(each) = N + 1 /\ \A i \in 1 .. N + 1 : each[i] = LettersOf(more[i])
    <3> HIDE DEF more
    <3> QED
      BY <1>3, EachLettersFacts
  <2> HIDE DEF less, word, S
  <2>2. /\ grown \in Seq(S) /\ Len(grown) = N + 1 /\ grown[N + 1] = word
        /\ \A i \in 1 .. N : grown[i] = less[i]
    BY <1>1, <1>2, AppendFacts
  <2>3. ASSUME NEW i \in 1 .. N + 1 PROVE each[i] = grown[i]
    <3> HIDE DEF each, grown, more, N
    <3>1. CASE i = N + 1
      BY <1>3, <2>1, <2>2, <3>1 DEF word
    <3>2. CASE i # N + 1
      <4>1. i \in 1 .. N
        BY <1>3, <3>2
      <4> QED
        BY <1>1, <1>3, <2>1, <2>2, <4>1
    <3> QED
      BY <3>1, <3>2
  <2> HIDE DEF each, grown, N
  <2> QED
    BY <2>1, <2>2, <2>3, SameSequence DEF each, grown
<1>5. less \in Seq(Seq(X)) /\ word \in Seq(X)
  BY <1>1, <1>2
<1> HIDE DEF less, word, more, S
<1>6. FlattenSeq(less) \in Seq(X) /\ FlattenSeq(Append(less, word)) = FlattenSeq(less) \o word
  BY <1>5, FlattenFacts, FlattenGrows
<1> QED
  BY <1>4, <1>5, <1>6 DEF less, word, more

(* Taking the marker off the first token of a run changes no letter.         *)
LEMMA RunLetters ==
  ASSUME NEW X, HasBlank(X), NEW marks, NEW run \in Seq(Seq(X)), run # << >>
  PROVE  RunText(marks, run) \in Seq(X) /\ Without(RunText(marks, run), Blanks) = LettersOf(run)
<1> DEFINE S == Seq(X)
           head == WithoutPrefix(Head(run), << Marker >>)
           bare == << head >> \o Tail(run)
           N == Len(run)
<1>1. run \in Seq(S)
  OBVIOUS
<1>2. /\ N \in Nat /\ N # 0 /\ Head(run) = run[1] /\ run[1] \in S /\ Tail(run) \in Seq(S)
      /\ Len(Tail(run)) = N - 1 /\ \A i \in 1 .. N - 1 : Tail(run)[i] = run[i + 1]
  <2> HIDE DEF S
  <2> QED
    BY <1>1
<1>3. head \in S /\ Without(head, Blanks) = Without(run[1], Blanks)
  BY <1>2, TokenLetters
<1>4. bare \in Seq(S) /\ Len(bare) = N /\ \A i \in 1 .. N : Without(bare[i], Blanks) = Without(run[i], Blanks)
  <2> DEFINE one == << head >>
             rest == Tail(run)
  <2> HIDE DEF S, head
  <2>1. one \in Seq(S) /\ Len(one) = 1 /\ one[1] = head
    BY <1>3
  <2> HIDE DEF one, rest
  <2>2. rest \in Seq(S) /\ Len(rest) = N - 1 /\ \A i \in 1 .. N - 1 : rest[i] = run[i + 1]
    BY <1>2 DEF rest
  <2>3. /\ one \o rest \in Seq(S) /\ Len(one \o rest) = 1 + (N - 1)
        /\ \A i \in 1 .. 1 : (one \o rest)[i] = one[i]
        /\ \A i \in 1 .. N - 1 : (one \o rest)[1 + i] = rest[i]
    <3>1. one \in Seq(S) /\ rest \in Seq(S)
      BY <2>1, <2>2
    <3>2. /\ one \o rest \in Seq(S) /\ Len(one \o rest) = Len(one) + Len(rest)
          /\ \A i \in 1 .. Len(one) : (one \o rest)[i] = one[i]
          /\ \A i \in 1 .. Len(rest) : (one \o rest)[Len(one) + i] = rest[i]
      BY ONLY <3>1, ConcatFacts
    <3> QED
      BY <2>1, <2>2, <3>2
  <2> HIDE DEF N
  <2>4. bare \in Seq(S) /\ Len(bare) = N /\ bare[1] = head
    BY <1>2, <2>1, <2>3 DEF one, rest
  <2>5. \A i \in 1 .. N : i # 1 => bare[i] = run[i]
    <3> SUFFICES ASSUME NEW i \in 1 .. N, i # 1 PROVE bare[i] = run[i]
      OBVIOUS
    <3> DEFINE j == i - 1
    <3>1. j \in 1 .. N - 1 /\ i = 1 + j /\ i = j + 1
      BY <1>2
    <3> HIDE DEF j
    <3>2. (one \o rest)[1 + j] = run[j + 1]
      BY <2>2, <2>3, <3>1
    <3> QED
      BY <3>1, <3>2 DEF one, rest
  <2> HIDE DEF bare
  <2> QED
    BY <1>3, <2>4, <2>5
<1> HIDE DEF bare, head
<1>5. LettersOf(bare) = LettersOf(run)
  <2>1. DOMAIN bare = 1 .. N /\ DOMAIN run = 1 .. N
    BY <1>1, <1>4
  <2> HIDE DEF N
  <2> QED
    BY <1>4, <2>1 DEF LettersOf, WithoutEach
<1>6. /\ NativeDecode(bare) \in Seq(X) /\ Without(NativeDecode(bare), Blanks) = LettersOf(bare)
      /\ NativeDecode(run) \in Seq(X) /\ Without(NativeDecode(run), Blanks) = LettersOf(run)
  BY <1>4, NativeLetters
<1> QED
  BY <1>5, <1>6 DEF RunText, bare, head

(* The runs of words are the tokens, in their order.                         *)
LEMMA WordRunsLetters ==
  ASSUME NEW X, NEW marks, NEW tokens \in Seq(Seq(X))
  PROVE  /\ WordRuns(marks, tokens) \in Runs(Seq(X))
         /\ FlattenSeq(EachLetters(WordRuns(marks, tokens))) = LettersOf(tokens)
<1> DEFINE N == Len(tokens)
           S == Seq(X)
           first == [n \in 0 .. N |-> SubSeq(tokens, 1, n)]
<1>1. tokens \in Seq(S) /\ N \in Nat
  OBVIOUS
<1>2. PICK run \in [0 .. N -> Runs(S)] : IsRunning(run, marks, tokens)
  <2> HIDE DEF S
  <2> QED
    BY <1>1, Running
<1>3. /\ first[0] = << >> /\ first[N] = tokens
      /\ \A n \in 0 .. N : first[n] \in Seq(S)
      /\ \A n \in 1 .. N : first[n] = Append(first[n - 1], tokens[n]) /\ tokens[n] \in S
  <2>1. \A n \in 0 .. N : first[n] = SubSeq(tokens, 1, n)
    OBVIOUS
  <2> HIDE DEF first, S
  <2>2. /\ 0 \in 0 .. N /\ N \in 0 .. N
        /\ \A n \in 1 .. N : n - 1 \in 0 .. N /\ n \in 0 .. N /\ tokens[n] \in S
    BY <1>1
  <2>3. \A n \in 0 .. N : first[n] \in Seq(S)
    BY <1>1, <2>1, FirstsOf
  <2>4. /\ SubSeq(tokens, 1, 0) = << >> /\ SubSeq(tokens, 1, N) = tokens
        /\ \A n \in 1 .. N : SubSeq(tokens, 1, n) = Append(SubSeq(tokens, 1, n - 1), tokens[n])
    BY ONLY <1>1, OneMore, Zenon
  <2> HIDE DEF N
  <2> QED
    BY ONLY <2>1, <2>2, <2>3, <2>4
<1> HIDE DEF first, N
<1> DEFINE Good == { n \in Nat : n =< N => FlattenSeq(EachLetters(run[n])) = LettersOf(first[n]) }
<1>4. 0 \in Good
  <2>1. EachLetters(<< >>) = << >>
    BY DEF EachLetters
  <2>2. run[0] = << >>
    BY <1>2 DEF IsRunning
  <2> QED
    BY <1>3, <2>1, <2>2, FlattenNothing, LettersOfNone
<1>5. ASSUME NEW n \in Nat, n \in Good PROVE n + 1 \in Good
  <2> DEFINE runs == run[n]
             token == tokens[n + 1]
             u == first[n]
             word == Without(token, Blanks)
             so == FlattenSeq(EachLetters(runs))
  <2> SUFFICES ASSUME n + 1 =< N PROVE FlattenSeq(EachLetters(run[n + 1])) = LettersOf(first[n + 1])
    OBVIOUS
  <2>1. n \in 0 .. N /\ n + 1 \in 1 .. N /\ (n + 1) - 1 = n /\ n =< N
    BY <1>1
  <2>2. /\ runs \in Runs(S) /\ token \in S /\ u \in Seq(S) /\ so = LettersOf(u)
        /\ run[n + 1] = PutToken(marks, runs, token) /\ first[n + 1] = Append(u, token)
    BY <1>2, <1>3, <1>5, <2>1 DEF IsRunning, N
  <2> HIDE DEF runs, token, u
  <2>3. runs \in Seq(Seq(S)) /\ \A i \in 1 .. Len(runs) : runs[i] # << >>
    <3> DEFINE R == Seq(S) \ {<< >>}
               Q == Seq(S)
    <3>1. runs \in Seq(R) /\ R \subseteq Q
      BY <2>2 DEF Runs
    <3>2. \A i \in 1 .. Len(runs) : runs[i] \in R
      <4> HIDE DEF R
      <4> QED
        BY <3>1
    <3>3. runs \in Seq(Q)
      <4> HIDE DEF R, Q
      <4> QED
        BY <3>1, SeqGrows
    <3> QED
      BY <3>2, <3>3
  <2>4. /\ LettersOf(Append(u, token)) = so \o word /\ LettersOf(u) \in Seq(X) /\ word \in Seq(X)
        /\ so \in Seq(X)
    <3>1. u \in Seq(Seq(X)) /\ token \in Seq(X)
      BY <2>2
    <3>2. LettersOf(u) \in Seq(X) /\ LettersOf(Append(u, token)) = LettersOf(u) \o Without(token, Blanks)
      BY ONLY <3>1, LettersGrow
    <3>3. word \in Seq(X)
      BY <3>1, WithoutFacts
    <3> HIDE DEF word, so
    <3> QED
      BY <2>2, <3>2, <3>3 DEF word
  <2> HIDE DEF word, so
  <2>5. CASE runs = << >> \/ token \in marks \/ StartsWord(token)
    <3> DEFINE one == << token >>
    <3>1. one \in Seq(S) /\ one = Append(<< >>, token) /\ << >> \in Seq(S)
      BY <2>2
    <3>2. LettersOf(Append(<< >>, token)) = LettersOf(<< >>) \o word
      BY <2>2, <3>1, LettersGrow DEF word
    <3>3. << >> \o word = word
      BY <2>4
    <3>4. LettersOf(one) = word
      BY <3>1, <3>2, <3>3, LettersOfNone
    <3>5. run[n + 1] = Append(runs, one)
      BY <2>2, <2>5 DEF PutToken
    <3> HIDE DEF one
    <3>6. FlattenSeq(EachLetters(Append(runs, one))) = so \o LettersOf(one)
      BY <2>3, <3>1, RunsGrow DEF so
    <3> QED
      BY <2>2, <2>4, <3>4, <3>5, <3>6
  <2>6. CASE ~(runs = << >> \/ token \in marks \/ StartsWord(token))
    <3> DEFINE front == Front(runs)
               last == Last(runs)
               longer == Append(last, token)
               a == FlattenSeq(EachLetters(front))
               b == LettersOf(last)
    <3>1. front \in Seq(Seq(S)) /\ last \in Seq(S) /\ runs = Append(front, last)
      <4> DEFINE Q == Seq(S)
      <4> HIDE DEF Q
      <4>1. runs \in Seq(Q) /\ runs # << >>
        BY <2>3, <2>6 DEF Q
      <4>2. front \in Seq(Q) /\ last \in Q
        BY <4>1, FrontFacts
      <4>3. runs = Append(front, last)
        <5> DEFINE whole == Append(front, last)
        <5>1. /\ Len(front) = Len(runs) - 1 /\ \A i \in 1 .. Len(runs) - 1 : front[i] = runs[i]
              /\ Len(runs) \in Nat \ {0} /\ last = runs[Len(runs)]
          BY <4>1, FrontFacts
        <5> HIDE DEF front, last
        <5>2. /\ whole \in Seq(Q) /\ Len(whole) = Len(front) + 1 /\ whole[Len(front) + 1] = last
              /\ \A i \in 1 .. Len(front) : whole[i] = front[i]
          BY <4>2, AppendFacts
        <5> HIDE DEF whole
        <5>3. Len(whole) = Len(runs) /\ \A i \in 1 .. Len(runs) : whole[i] = runs[i]
          BY <5>1, <5>2
        <5>4. runs = whole
          BY <4>1, <5>2, <5>3, SameSequence
        <5> QED
          BY <5>4 DEF whole
      <4> QED
        BY <4>2, <4>3 DEF Q
    <3>2. run[n + 1] = Append(front, longer)
      BY <2>2, <2>6 DEF PutToken
    <3> HIDE DEF front, last
    <3>3. longer \in Seq(S) /\ LettersOf(longer) = b \o word
      <4>1. longer \in Seq(S)
        <5> HIDE DEF S
        <5> QED
          BY <2>2, <3>1, AppendFacts
      <4>2. last \in Seq(Seq(X)) /\ token \in Seq(X)
        BY <2>2, <3>1
      <4>3. LettersOf(Append(last, token)) = LettersOf(last) \o Without(token, Blanks)
        BY ONLY <4>2, LettersGrow
      <4> QED
        BY <4>1, <4>3 DEF word
    <3> HIDE DEF longer
    <3>4. a \in Seq(X) /\ b \in Seq(X)
          /\ FlattenSeq(EachLetters(Append(front, last))) = a \o b
          /\ FlattenSeq(EachLetters(Append(front, longer))) = a \o LettersOf(longer)
      BY <3>1, <3>3, RunsGrow
    <3> HIDE DEF a, b
    <3>5. (a \o b) \o word = a \o (b \o word)
      <4>1. a \in Seq(X) /\ b \in Seq(X) /\ word \in Seq(X)
        BY <2>4, <3>4
      <4> QED
        BY ONLY <4>1, ConcatAssociates
    <3>6. so = a \o b
      BY <3>1, <3>4 DEF so
    <3> QED
      BY <2>2, <2>4, <3>2, <3>3, <3>4, <3>5, <3>6
  <2> QED
    BY <2>5, <2>6
<1>6. Nat \subseteq Good
  <2> HIDE DEF Good
  <2> QED
    BY <1>4, <1>5, SetInduction
<1>7. N \in Good /\ N \in 0 .. N /\ N =< N
  BY <1>1, <1>6
<1>8. FlattenSeq(EachLetters(run[N])) = LettersOf(first[N]) /\ run[N] \in Runs(S)
  BY <1>2, <1>7
<1> QED
  BY <1>2, <1>3, <1>8 DEF IsRunning, N

(* The texts of the runs, joined as the wrapper of the decoder joins them.   *)
RunTexts(marks, runs) == [i \in DOMAIN runs |-> RunText(marks, runs[i])]

Filled(parts) == Kept(parts, { i \in DOMAIN parts : parts[i] # << >> })

LEMMA FilledFacts ==
  ASSUME NEW X, NEW parts \in Seq(Seq(X))
  PROVE  /\ Filled(parts) \in Seq(Seq(X))
         /\ FlattenSeq(Filled(parts)) = FlattenSeq(parts)
<1> DEFINE S == Seq(X)
<1>1. parts \in Seq(S)
  OBVIOUS
<1> HIDE DEF S
<1>2. Without(parts, {<< >>}) = Filled(parts)
  BY DEF Without, Filled
<1>3. Without(parts, {<< >>}) \in Seq(S)
  BY <1>1, WithoutFacts
<1>4. FlattenSeq(Without(parts, {<< >>})) = FlattenSeq(parts)
  BY FlattenFilled
<1> QED
  BY <1>2, <1>3, <1>4 DEF S

LEMMA RunTextsFacts ==
  ASSUME NEW X, HasBlank(X), NEW marks, NEW runs \in Runs(Seq(X))
  PROVE  /\ RunTexts(marks, runs) \in Seq(Seq(X)) /\ Len(RunTexts(marks, runs)) = Len(runs)
         /\ WithoutEach(RunTexts(marks, runs), Blanks) = EachLetters(runs)
<1> DEFINE S == Seq(X)
           R == Seq(S) \ {<< >>}
           parts == RunTexts(marks, runs)
<1>1. \A run \in R : RunText(marks, run) \in S /\ Without(RunText(marks, run), Blanks) = LettersOf(run)
  BY RunLetters
<1>2. runs \in Seq(R)
  BY DEF Runs
<1> HIDE DEF R, S
<1>3. DOMAIN runs = 1 .. Len(runs) /\ Len(runs) \in Nat /\ \A i \in 1 .. Len(runs) : runs[i] \in R
  BY <1>2
<1>4. parts = [i \in 1 .. Len(runs) |-> RunText(marks, runs[i])]
  BY <1>3 DEF RunTexts
<1>5. \A i \in 1 .. Len(runs) : RunText(marks, runs[i]) \in S
  BY <1>1, <1>3
<1>6. parts \in Seq(S) /\ Len(parts) = Len(runs) /\ DOMAIN parts = DOMAIN runs
  BY <1>3, <1>4, <1>5
<1>7. \A i \in DOMAIN runs : Without(parts[i], Blanks) = LettersOf(runs[i])
  BY <1>1, <1>3, <1>4
<1>8. WithoutEach(parts, Blanks) = EachLetters(runs)
  <2> HIDE DEF parts
  <2> QED
    BY <1>6, <1>7 DEF WithoutEach, EachLetters
<1> QED
  BY <1>6, <1>8 DEF S

(* Whatever the marks, decoding keeps the letters of the tokens, in order.   *)
LEMMA DecodedLetters ==
  ASSUME NEW X, HasBlank(X), NEW marks, NEW tokens \in Seq(Seq(X))
  PROVE  /\ ConvertTokensToString(marks, tokens) \in Seq(X)
         /\ Without(ConvertTokensToString(marks, tokens), Blanks) = LettersOf(tokens)
<1>1. CASE marks = {}
  <2>1. ConvertTokensToString(marks, tokens) = NativeDecode(tokens)
    BY <1>1 DEF ConvertTokensToString
  <2> QED
    BY <2>1, NativeLetters
<1>2. CASE marks # {}
  <2> DEFINE runs == WordRuns(marks, tokens)
             parts == RunTexts(marks, runs)
             filled == Filled(parts)
             joined == Joined(filled)
  <2>1. ConvertTokensToString(marks, tokens) = Strip(joined)
    BY <1>2 DEF ConvertTokensToString, RunTexts, RunText, Filled
  <2>2. runs \in Runs(Seq(X)) /\ FlattenSeq(EachLetters(runs)) = LettersOf(tokens)
    BY WordRunsLetters
  <2> HIDE DEF runs
  <2>3. parts \in Seq(Seq(X)) /\ WithoutEach(parts, Blanks) = EachLetters(runs)
    BY <2>2, RunTextsFacts
  <2> HIDE DEF parts
  <2>4. filled \in Seq(Seq(X)) /\ FlattenSeq(filled) = FlattenSeq(parts)
    BY <2>3, FilledFacts
  <2> HIDE DEF filled
  <2>5. joined \in Seq(X) /\ Without(joined, Blanks) = FlattenSeq(WithoutEach(filled, Blanks))
    BY <2>4, BlankFacts, WithoutJoined
  <2>6. /\ Without(FlattenSeq(filled), Blanks) = FlattenSeq(WithoutEach(filled, Blanks))
        /\ Without(FlattenSeq(parts), Blanks) = FlattenSeq(WithoutEach(parts, Blanks))
    BY <2>3, <2>4, WithoutFlatten
  <2> HIDE DEF joined
  <2>7. Strip(joined) \in Seq(X) /\ Without(Strip(joined), Blanks) = Without(joined, Blanks)
    BY <2>5, BlankFacts, WithoutStrip
  <2> QED
    BY <2>1, <2>2, <2>3, <2>4, <2>5, <2>6, <2>7
<1> QED
  BY <1>1, <1>2

(* A token of ink alone starts no word.                                      *)
LEMMA InkStartsNoWord ==
  ASSUME NEW X, NEW tag \in Seq(X), \A i \in 1 .. Len(tag) : tag[i] \notin Blanks
  PROVE  ~StartsWord(tag)
<1> SUFFICES ASSUME StartsWord(tag) PROVE FALSE
  OBVIOUS
<1> DEFINE p == << Marker >>
<1>1. p \in Seq({Marker}) /\ Len(p) = 1 /\ p[1] = Marker
  OBVIOUS
<1> HIDE DEF p
<1>2. Begins(p, tag)
  BY <1>1, BeginsPrefix DEF StartsWord, p
<1>3. 1 \in 1 .. Len(tag) /\ tag[1] = Marker
  BY <1>1, <1>2 DEF Begins
<1> QED
  BY <1>3, BlankFacts

(* Tokens that begin with one of ink alone are decoded to a text that does.  *)
LEMMA NativeBegins ==
  ASSUME NEW X, HasBlank(X), NEW tokens \in Seq(Seq(X)), tokens # << >>,
         NEW tag \in Seq(X), tag # << >>, \A i \in 1 .. Len(tag) : tag[i] \notin Blanks,
         tokens[1] = tag
  PROVE  Begins(tag, NativeDecode(tokens))
<1> DEFINE texts == Surfaces(tokens)
           text == FlattenSeq(texts)
<1>1. NativeDecode(tokens) = Strip(text)
  BY DEF NativeDecode, Surfaces, Surface
<1>2. Len(tokens) # 0 /\ 1 \in 1 .. Len(tokens)
  <2> DEFINE S == Seq(X)
  <2>1. tokens \in Seq(S)
    OBVIOUS
  <2> HIDE DEF S
  <2> QED
    BY <2>1
<1>3. ~StartsWord(tag)
  BY InkStartsNoWord
<1>4. texts \in Seq(Seq(X)) /\ Len(texts) # 0 /\ texts[1] = tag
  <2>1. /\ Surfaces(tokens) \in Seq(Seq(X)) /\ Len(Surfaces(tokens)) = Len(tokens)
        /\ \A i \in 1 .. Len(tokens) : Surfaces(tokens)[i] = Surface(tokens[i])
    BY SurfacesFacts
  <2>2. Surface(tag) = tag
    BY <1>3 DEF Surface
  <2> HIDE DEF texts
  <2> QED
    BY <1>2, <2>1, <2>2 DEF texts
<1> HIDE DEF texts
<1>5. text \in Seq(X) /\ Begins(tag, text)
  <2>1. Begins(tag, texts[1])
    BY <1>4, BeginsConcat
  <2> QED
    BY <1>4, <2>1, FlattenBegins, FlattenFacts
<1> HIDE DEF text
<1>6. \A i \in 1 .. Len(tag) : tag[i] \notin Spaces
  BY BlankFacts
<1> QED
  BY <1>1, <1>5, <1>6, StripBegins

(* The first run begins with the first token.                                *)
LEMMA FirstRun ==
  ASSUME NEW X, NEW marks, NEW tokens \in Seq(X), tokens # << >>
  PROVE  /\ WordRuns(marks, tokens) \in Runs(X) /\ WordRuns(marks, tokens) # << >>
         /\ WordRuns(marks, tokens)[1] \in Seq(X) /\ WordRuns(marks, tokens)[1] # << >>
         /\ WordRuns(marks, tokens)[1][1] = tokens[1]
<1> DEFINE N == Len(tokens)
           R == Seq(X) \ {<< >>}
           Led(runs) == runs # << >> /\ runs[1][1] = tokens[1]
<1>1. N \in Nat /\ N # 0 /\ \A n \in 1 .. N : tokens[n] \in X
  OBVIOUS
<1>2. PICK run \in [0 .. N -> Runs(X)] : IsRunning(run, marks, tokens)
  BY Running
<1>3. /\ run[0] = << >> /\ WordRuns(marks, tokens) = run[N]
      /\ \A n \in 1 .. N : run[n] = PutToken(marks, run[n - 1], tokens[n])
  BY <1>2 DEF IsRunning
<1>4. \A n \in 0 .. N : run[n] \in Seq(R)
  BY <1>2 DEF Runs
<1> HIDE DEF N
<1>5. \A runs \in Seq(R) : runs # << >> => Len(runs) \in Nat \ {0} /\ runs[1] \in R
  <2> HIDE DEF R
  <2> QED
    OBVIOUS
<1> DEFINE Good == { n \in Nat : n + 1 =< N => Led(run[n + 1]) }
<1>6. 0 \in Good
  <2> DEFINE one == << tokens[1] >>
  <2>1. 1 \in 1 .. N /\ 1 - 1 = 0
    BY <1>1
  <2>2. run[1] = Append(<< >>, one)
    BY <1>3, <2>1 DEF PutToken
  <2>3. run[1] = << one >>
    BY <2>2
  <2> QED
    BY <2>3
<1>7. ASSUME NEW n \in Nat, n \in Good PROVE n + 1 \in Good
  <2> DEFINE m == (n + 1) + 1
             runs == run[n + 1]
             token == tokens[m]
  <2> SUFFICES ASSUME m =< N PROVE Led(run[m])
    OBVIOUS
  <2>1. n + 1 =< N /\ m - 1 = n + 1 /\ m \in 1 .. N /\ n + 1 \in 0 .. N
    BY <1>1
  <2> HIDE DEF m
  <2>2. /\ runs \in Seq(R) /\ runs # << >> /\ runs[1][1] = tokens[1] /\ token \in X
        /\ run[m] = PutToken(marks, runs, token)
    BY <1>1, <1>3, <1>4, <1>7, <2>1
  <2> HIDE DEF runs, token
  <2>3. Len(runs) \in Nat \ {0} /\ runs[1] \in R
    BY <1>5, <2>2
  <2>4. CASE token \in marks \/ StartsWord(token)
    <3> DEFINE one == << token >>
               more == Append(runs, one)
    <3>1. one \in R
      BY <2>2
    <3> HIDE DEF one, R
    <3>2. Len(more) = Len(runs) + 1 /\ \A i \in 1 .. Len(runs) : more[i] = runs[i]
      BY <2>2, <3>1, AppendFacts
    <3>3. more # << >> /\ more[1] = runs[1]
      <4>1. Len(<< >>) = 0 /\ 1 \in 1 .. Len(runs)
        BY <2>3
      <4> HIDE DEF more
      <4> QED
        BY <2>3, <3>2, <4>1
    <3>4. run[m] = more
      BY <2>2, <2>4 DEF PutToken, one
    <3> HIDE DEF more
    <3> QED
      BY <2>2, <3>3, <3>4
  <2>5. CASE ~(token \in marks \/ StartsWord(token))
    <3> DEFINE front == Front(runs)
               last == Last(runs)
               longer == Append(last, token)
               more == Append(front, longer)
    <3>1. /\ front \in Seq(R) /\ Len(front) = Len(runs) - 1
          /\ \A i \in 1 .. Len(runs) - 1 : front[i] = runs[i]
          /\ last = runs[Len(runs)] /\ last \in R
      <4> HIDE DEF R
      <4> QED
        BY <2>2, FrontFacts
    <3> HIDE DEF front, last
    <3>2. /\ longer \in Seq(X) /\ Len(longer) = Len(last) + 1 /\ Len(last) \in Nat \ {0}
          /\ longer[1] = last[1]
      <4>1. last \in Seq(X) /\ Len(last) \in Nat \ {0}
        BY <3>1
      <4>2. /\ longer \in Seq(X) /\ Len(longer) = Len(last) + 1
            /\ \A i \in 1 .. Len(last) : longer[i] = last[i]
        BY <2>2, <4>1, AppendFacts
      <4>3. 1 \in 1 .. Len(last)
        BY <4>1
      <4> QED
        BY <4>1, <4>2, <4>3
    <3> HIDE DEF longer
    <3>3. longer \in R
      <4>1. Len(longer) # 0 /\ Len(<< >>) = 0
        BY <3>2
      <4> QED
        BY <3>2, <4>1
    <3>4. /\ Len(more) = Len(front) + 1 /\ \A i \in 1 .. Len(front) : more[i] = front[i]
          /\ more[Len(front) + 1] = longer
      <4> HIDE DEF R
      <4> QED
        BY <3>1, <3>3, AppendFacts
    <3>5. run[m] = more
      BY <2>2, <2>5 DEF PutToken, front, last, longer
    <3> HIDE DEF more, R
    <3>6. more # << >>
      <4>1. Len(more) # 0 /\ Len(<< >>) = 0
        BY <2>3, <3>1, <3>4
      <4> QED
        BY <4>1
    <3>7. more[1][1] = tokens[1]
      <4>1. CASE Len(runs) = 1
        <5>1. Len(front) + 1 = 1
          BY <3>1, <4>1
        <5> QED
          BY <2>2, <3>1, <3>2, <3>4, <4>1, <5>1
      <4>2. CASE Len(runs) # 1
        <5>1. 1 \in 1 .. Len(front) /\ 1 \in 1 .. Len(runs) - 1
          BY <2>3, <3>1, <4>2
        <5> QED
          BY <2>2, <3>1, <3>4, <5>1
      <4> QED
        BY <4>1, <4>2
    <3> QED
      BY <3>5, <3>6, <3>7
  <2> QED
    BY <2>4, <2>5
<1>8. Nat \subseteq Good
  <2> HIDE DEF Good
  <2> QED
    BY <1>6, <1>7, SetInduction
<1>9. Led(run[N])
  <2> DEFINE k == N - 1
  <2>1. k \in Nat /\ k + 1 =< N /\ k + 1 = N
    BY <1>1
  <2> HIDE DEF k, Led
  <2>2. k \in Good
    <3> HIDE DEF Good
    <3> QED
      BY <1>8, <2>1
  <2>3. Led(run[k + 1])
    BY <2>1, <2>2
  <2> QED
    BY <2>1, <2>3
<1>10. run[N] \in Runs(X) /\ run[N] \in Seq(R)
  BY <1>1, <1>2, <1>4
<1>11. run[N][1] \in R
  BY <1>5, <1>9, <1>10
<1> QED
  BY <1>3, <1>9, <1>10, <1>11

LEMMA DecodedBegins ==
  ASSUME NEW X, HasBlank(X), NEW marks, NEW tokens \in Seq(Seq(X)), tokens # << >>,
         NEW tag \in Seq(X), tag # << >>, \A i \in 1 .. Len(tag) : tag[i] \notin Blanks,
         tokens[1] = tag
  PROVE  Begins(tag, ConvertTokensToString(marks, tokens))
<1>1. CASE marks = {}
  BY <1>1, NativeBegins DEF ConvertTokensToString
<1>2. CASE marks # {}
  <2> DEFINE runs == WordRuns(marks, tokens)
             run == runs[1]
             parts == RunTexts(marks, runs)
             I == { i \in DOMAIN parts : parts[i] # << >> }
             joined == Joined(Kept(parts, I))
  <2>1. ConvertTokensToString(marks, tokens) = Strip(joined)
    BY <1>2 DEF ConvertTokensToString, RunTexts, RunText
  <2>2. /\ runs \in Runs(Seq(X)) /\ runs # << >> /\ run \in Seq(Seq(X)) /\ run # << >>
        /\ run[1] = tag
    <3> DEFINE S == Seq(X)
    <3>1. tokens \in Seq(S)
      OBVIOUS
    <3> HIDE DEF S
    <3>2. /\ runs \in Runs(S) /\ runs # << >> /\ run \in Seq(S) /\ run # << >>
          /\ run[1] = tokens[1]
      BY <3>1, FirstRun
    <3> QED
      BY <3>2 DEF S
  <2>3. Len(runs) \in Nat /\ Len(runs) # 0 /\ DOMAIN runs = 1 .. Len(runs)
    <3> DEFINE R == Seq(Seq(X)) \ {<< >>}
    <3>1. runs \in Seq(R)
      BY <2>2 DEF Runs
    <3> HIDE DEF runs, R
    <3> QED
      BY <2>2, <3>1
  <2>4. parts[1] = RunText(marks, run)
    BY <2>3 DEF RunTexts
  <2> HIDE DEF runs, run
  <2>5. parts \in Seq(Seq(X)) /\ Len(parts) = Len(runs)
    BY <2>2, RunTextsFacts
  <2>6. Begins(tag, RunText(marks, run))
    <3> DEFINE head == WithoutPrefix(Head(run), << Marker >>)
               bare == << head >> \o Tail(run)
    <3>1. Begins(tag, NativeDecode(run))
      BY <2>2, NativeBegins
    <3>2. head = tag
      <4>1. ~StartsWord(tag)
        BY InkStartsNoWord
      <4>2. Head(run) = tag
        BY <2>2
      <4> QED
        BY <4>1, <4>2, MarkerFacts
    <3>3. bare = run
      BY <2>2, <3>2
    <3> HIDE DEF bare, head
    <3> QED
      BY <3>1, <3>3 DEF RunText, bare, head
  <2> HIDE DEF parts
  <2>7. 1 \in I /\ I \in SUBSET DOMAIN parts
    <3>1. parts[1] # << >>
      <4>1. Len(tag) \in Nat /\ Len(tag) # 0 /\ Len(<< >>) = 0
        OBVIOUS
      <4> QED
        BY <2>4, <2>6, <4>1 DEF Begins
    <3>2. 1 \in DOMAIN parts
      <4> DEFINE S == Seq(X)
      <4>1. parts \in Seq(S)
        BY <2>5
      <4> HIDE DEF S
      <4> QED
        BY <2>3, <2>5, <4>1
    <3> QED
      BY <3>1, <3>2
  <2> HIDE DEF I
  <2>8. Kept(parts, I) \in Seq(Seq(X)) /\ Len(Kept(parts, I)) # 0 /\ Kept(parts, I)[1] = parts[1]
    <3> DEFINE S == Seq(X)
    <3>1. parts \in Seq(S)
      BY <2>5
    <3> HIDE DEF S
    <3>2. Kept(parts, I) \in Seq(S) /\ Len(Kept(parts, I)) # 0 /\ Kept(parts, I)[1] = parts[1]
      BY <2>7, <3>1, KeptHead
    <3> QED
      BY <3>2 DEF S
  <2>9. joined \in Seq(X) /\ Begins(tag, joined)
    <3> DEFINE words == Kept(parts, I)
    <3>1. words \in Seq(Seq(X)) /\ Len(words) # 0 /\ Begins(tag, words[1])
      BY <2>4, <2>6, <2>8
    <3> HIDE DEF words
    <3>2. Joined(words) \in Seq(X)
      BY <3>1, BlankFacts, WithoutJoined
    <3>3. Begins(tag, Joined(words))
      BY <3>1, JoinedBegins
    <3> QED
      BY <3>2, <3>3 DEF words
  <2> HIDE DEF joined
  <2>10. \A i \in 1 .. Len(tag) : tag[i] \notin Spaces
    BY BlankFacts
  <2> QED
    BY <2>1, <2>9, <2>10, StripBegins
<1> QED
  BY <1>1, <1>2

-----------------------------------------------------------------------------
(* Serving.                                                                 *)

Underscore == "_"

(* A tag is ink alone, and begins with an underscore.                        *)
LEMMA TagFacts ==
  ASSUME NEW lang \in Langs
  PROVE  /\ DirectionTag[lang] \in Seq(Characters) /\ DirectionTag[lang] # << >>
         /\ DirectionTag[lang][1] = Underscore
         /\ \A i \in 1 .. Len(DirectionTag[lang]) : DirectionTag[lang][i] \notin Blanks
<1>1. DirectionTag[lang] \in Seq(Characters)
  BY TagAssumption DEF DirectionTags
<1>2. ASSUME NEW letters, letters \cap Blanks = {}, NEW t \in Seq(letters)
      PROVE  \A i \in 1 .. Len(t) : t[i] \notin Blanks
  BY <1>2
<1>3. CASE lang = "es"
  <2> DEFINE letters == {"_", "e", "s"}
  <2>1. DirectionTag[lang] = << "_", "_", "e", "s", "_", "_" >>
    BY <1>3 DEF DirectionTag
  <2>2. letters \cap Blanks = {}
    BY DEF Blanks, Spaces, Marker
  <2>3. "_" \in letters /\ "e" \in letters /\ "s" \in letters
    OBVIOUS
  <2> HIDE DEF letters
  <2>4. /\ << "_", "_", "e", "s", "_", "_" >> \in Seq(letters) /\ << "_", "_", "e", "s", "_", "_" >> # << >>
        /\ << "_", "_", "e", "s", "_", "_" >>[1] = "_"
    BY <2>3, SixLetters
  <2>5. DirectionTag[lang][1] = Underscore
    BY <2>1, <2>4 DEF Underscore
  <2> QED
    BY <1>1, <1>2, <2>1, <2>2, <2>4, <2>5
<1>4. CASE lang = "cak"
  <2> DEFINE letters == {"_", "c", "a", "k"}
  <2>1. DirectionTag[lang] = << "_", "_", "c", "a", "k", "_", "_" >>
    BY <1>4 DEF DirectionTag
  <2>2. letters \cap Blanks = {}
    BY DEF Blanks, Spaces, Marker
  <2>3. "_" \in letters /\ "c" \in letters /\ "a" \in letters /\ "k" \in letters
    OBVIOUS
  <2> HIDE DEF letters
  <2>4. /\ << "_", "_", "c", "a", "k", "_", "_" >> \in Seq(letters) /\ << "_", "_", "c", "a", "k", "_", "_" >> # << >>
        /\ << "_", "_", "c", "a", "k", "_", "_" >>[1] = "_"
    BY <2>3, SevenLetters
  <2>5. DirectionTag[lang][1] = Underscore
    BY <2>1, <2>4 DEF Underscore
  <2> QED
    BY <1>1, <1>2, <2>1, <2>2, <2>4, <2>5
<1> QED
  BY <1>3, <1>4 DEF Langs

(* A text that begins with its tag loses the letters of the tag; one without  *)
(* an underscore loses nothing.                                             *)
LEMMA TagTakenOff ==
  ASSUME NEW X, NEW text \in Seq(X), NEW lang \in Langs
  PROVE  /\ Begins(DirectionTag[lang], text) =>
               /\ StripLeadingDirectionTag(text, lang) \in Seq(X)
               /\ Without(text, Blanks) = Without(DirectionTag[lang], Blanks)
                                              \o Without(StripLeadingDirectionTag(text, lang), Blanks)
         /\ Underscore \notin X => StripLeadingDirectionTag(text, lang) = text
<1> DEFINE tag == DirectionTag[lang]
           cut == SubSeq(text, Len(tag) + 1, Len(text))
           rest == WithoutPrefix(text, tag)
<1>1. tag \in Seq(Characters) /\ tag # << >> /\ tag[1] = Underscore
  BY TagFacts
<1>2. StripLeadingDirectionTag(text, lang) = IF rest = text THEN text ELSE Strip(rest)
  BY DEF StripLeadingDirectionTag
<1> HIDE DEF tag
<1>3. rest = IF IsPrefix(tag, text) THEN cut ELSE text
  BY DEF WithoutPrefix
<1>4. /\ IsPrefix(tag, text) <=> Begins(tag, text)
      /\ Begins(tag, text) => cut \in Seq(X) /\ text = tag \o cut
  BY <1>1, BeginsPrefix
<1> HIDE DEF cut, rest
<1>5. ASSUME Begins(tag, text)
      PROVE  /\ StripLeadingDirectionTag(text, lang) \in Seq(X)
             /\ Without(text, Blanks) = Without(tag, Blanks)
                                            \o Without(StripLeadingDirectionTag(text, lang), Blanks)
  <2>1. rest \in Seq(X) /\ text = tag \o rest
    BY <1>3, <1>4, <1>5
  <2>2. Strip(rest) \in Seq(X) /\ Without(Strip(rest), Blanks) = Without(rest, Blanks)
    BY <2>1, BlankFacts, WithoutStrip
  <2>3. /\ StripLeadingDirectionTag(text, lang) \in Seq(X)
        /\ Without(StripLeadingDirectionTag(text, lang), Blanks) = Without(rest, Blanks)
    BY <1>2, <2>1, <2>2
  <2>4. Without(tag \o rest, Blanks) = Without(tag, Blanks) \o Without(rest, Blanks)
    <3> DEFINE Y == Characters \cup X
    <3>1. Characters \subseteq Y /\ X \subseteq Y
      OBVIOUS
    <3> HIDE DEF Y
    <3>2. tag \in Seq(Y) /\ rest \in Seq(Y)
      BY <1>1, <2>1, <3>1, SeqGrows
    <3> QED
      BY ONLY <3>2, WithoutConcat
  <2> QED
    BY <2>1, <2>3, <2>4
<1>6. ASSUME Underscore \notin X PROVE StripLeadingDirectionTag(text, lang) = text
  <2>1. ~Begins(tag, text)
    <3> SUFFICES ASSUME Begins(tag, text) PROVE FALSE
      OBVIOUS
    <3>1. 1 \in 1 .. Len(tag) /\ Len(tag) =< Len(text) /\ Len(text) \in Nat /\ Len(tag) \in Nat
      BY <1>1 DEF Begins
    <3>2. 1 \in 1 .. Len(text) /\ text[1] = Underscore
      BY <1>1, <3>1 DEF Begins
    <3> QED
      BY <1>6, <3>2
  <2> QED
    BY <1>2, <1>3, <1>4, <2>1
<1> QED
  BY <1>5, <1>6 DEF tag

(* What generation emits after the tag: pieces of the reference, and the end. *)
AfterTag(vocab, spelling, example) ==
    LET words == Words(example.target)
        Piecewise(word) == DecomposeTokenIntoKnownPieces(<< Marker >> \o word, ToSet(vocab))
    IN  (IF spelling = "words" THEN Encode(vocab, example.target, FALSE)
         ELSE FlattenSeq([i \in DOMAIN words |-> Piecewise(words[i])]))
        \o << Eos >>

LEMMA EmissionPieces ==
  ASSUME NEW X, Marker \in X, Eos \in Seq(X), NEW C \in SUBSET X,
         NEW vocab, NEW spelling, NEW example, NEW text \in Seq(C), example.target = text
  PROVE  /\ AfterTag(vocab, spelling, example) \in Seq(Seq(X))
         /\ Emission(vocab, spelling, example)
                = << DirectionTag[example.to] >> \o AfterTag(vocab, spelling, example)
<1> DEFINE Z == C \cup {Marker}
           S == Seq(X)
           P == Seq(Z)
           R == Seq(P)
           words == Words(example.target)
           Piecewise(word) == DecomposeTokenIntoKnownPieces(<< Marker >> \o word, ToSet(vocab))
           pieces == [i \in DOMAIN words |-> Piecewise(words[i])]
           target == IF spelling = "words" THEN Encode(vocab, example.target, FALSE)
                     ELSE FlattenSeq(pieces)
           tag == << DirectionTag[example.to] >>
           end == << Eos >>
           rest == target \o end
<1>1. Emission(vocab, spelling, example) = tag \o target \o end
  BY DEF Emission, ForcedBosToken
<1>2. words \in Seq(Seq(C))
  BY WordsFacts
<1>3. \A word \in Seq(C) : Piecewise(word) \in R
  <2> SUFFICES ASSUME NEW word \in Seq(C) PROVE Piecewise(word) \in R
    OBVIOUS
  <2> DEFINE marked == << Marker >> \o word
  <2>1. marked \in Seq(Z)
    BY PieceFacts
  <2> HIDE DEF marked, Z
  <2>2. DecomposeTokenIntoKnownPieces(marked, ToSet(vocab)) \in Seq(Seq(Z))
    BY <2>1, PiecesFacts
  <2> QED
    BY <2>2 DEF marked
<1>4. pieces \in Seq(R)
  <2> DEFINE T == Seq(C)
  <2>1. words \in Seq(T) /\ \A word \in T : Piecewise(word) \in R
    BY <1>2, <1>3
  <2> HIDE DEF T, words, Piecewise, R
  <2>2. DOMAIN words = 1 .. Len(words) /\ Len(words) \in Nat /\ \A i \in DOMAIN words : words[i] \in T
    BY <2>1
  <2> QED
    BY <2>1, <2>2
<1>5. target \in Seq(P)
  <2>1. FlattenSeq(pieces) \in Seq(P)
    <3> HIDE DEF pieces, P
    <3> QED
      BY <1>4, FlattenFacts
  <2>2. Encode(vocab, example.target, FALSE) \in Seq(P)
    BY EncodedPieces
  <2> HIDE DEF pieces, P
  <2> QED
    BY <2>1, <2>2
<1>6. P \subseteq S
  <2>1. Z \subseteq X
    OBVIOUS
  <2> HIDE DEF Z
  <2> QED
    BY <2>1, SeqGrows
<1>7. Eos \in S
  OBVIOUS
<1> HIDE DEF target, P, S
<1>8. target \in Seq(S)
  BY <1>5, <1>6, SeqGrows
<1>9. end \in Seq(S)
  BY <1>7
<1> HIDE DEF end
<1>10. rest \in Seq(S)
  BY <1>8, <1>9, ConcatFacts
<1>11. tag \o target \o end = tag \o rest
  <2> DEFINE T == S \cup {DirectionTag[example.to]}
  <2>1. S \subseteq T /\ DirectionTag[example.to] \in T
    OBVIOUS
  <2> HIDE DEF T
  <2>2. target \in Seq(T) /\ end \in Seq(T)
    BY <1>8, <1>9, <2>1, SeqGrows
  <2>3. tag \in Seq(T)
    BY <2>1
  <2> HIDE DEF tag
  <2> QED
    BY <2>2, <2>3, ConcatAssociates
<1>12. AfterTag(vocab, spelling, example) = rest
  BY DEF AfterTag, target, end
<1> HIDE DEF rest
<1> QED
  BY <1>1, <1>10, <1>11, <1>12 DEF S

(* Whatever the marks, what is left of a translation without its spacing is   *)
(* the same, if its reference has no underscore.                             *)
LEMMA ServedAlike ==
  ASSUME NEW vocab, NEW spelling, NEW example, example.target \in Strings, example.to \in Langs,
         Underscore \notin ToSet(example.target), NEW few, NEW many
  PROVE  Without(Translation([vocab |-> vocab, marks |-> few], spelling, example), Blanks)
             = Without(Translation([vocab |-> vocab, marks |-> many], spelling, example), Blanks)
<1> DEFINE C == ToSet(example.target)
           X == C \cup Blanks \cup ToSet(Eos)
           Y == X \cup Characters
           tag == DirectionTag[example.to]
           tokens == Emission(vocab, spelling, example)
           I == { i \in DOMAIN tokens : tokens[i] \notin SpecialTokens }
           kept == Kept(tokens, I)
           Text(marks) == ConvertTokensToString(marks, kept)
           Told(marks) == StripLeadingDirectionTag(Text(marks), example.to)
<1>1. \A marks : Translation([vocab |-> vocab, marks |-> marks], spelling, example) = Told(marks)
  BY DEF Translation, BatchDecode
<1>2. C \cup {Marker} \subseteq X /\ HasBlank(X) /\ HasBlank(Y) /\ X \subseteq Y /\ Characters \subseteq Y
  BY BlankFacts DEF HasBlank
<1>3. Underscore \notin X
  <2>1. Underscore \notin Blanks
    BY DEF Underscore, Blanks, Spaces, Marker
  <2>2. \A c : ToSet(<< c >>) = {c}
    BY DEF ToSet
  <2>3. ToSet(Eos) = {"</s>"}
    BY <2>2, Zenon DEF Eos
  <2>4. "_" # "</s>"
    OBVIOUS
  <2>5. Underscore \notin ToSet(Eos)
    BY <2>3, <2>4, Zenon DEF Underscore
  <2> QED
    BY <2>1, <2>5
<1>4. Eos \in Seq(X)
  <2>1. Eos \in Seq(ToSet(Eos))
    BY DEF Eos, ToSet
  <2>2. ToSet(Eos) \subseteq X
    OBVIOUS
  <2> HIDE DEF X
  <2> QED
    BY <2>1, <2>2, SeqGrows
<1>5. example.target \in Seq(C)
  <2>1. example.target = [i \in 1 .. Len(example.target) |-> example.target[i]]
        /\ Len(example.target) \in Nat /\ DOMAIN example.target = 1 .. Len(example.target)
    BY DEF Strings
  <2>2. \A i \in 1 .. Len(example.target) : example.target[i] \in C
    BY <2>1 DEF ToSet
  <2> HIDE DEF C
  <2> QED
    BY <2>1, <2>2
<1> HIDE DEF X, C
<1> DEFINE rest == AfterTag(vocab, spelling, example)
<1>6. rest \in Seq(Seq(X)) /\ tokens = << tag >> \o rest
  <2> DEFINE text == example.target
  <2>1. C \in SUBSET X /\ Marker \in X /\ text \in Seq(C) /\ example.target = text
    BY <1>2, <1>5
  <2> HIDE DEF text
  <2> QED
    BY ONLY <1>4, <2>1, EmissionPieces
<1> HIDE DEF rest
<1>7. tag \in Seq(Characters) /\ tag # << >> /\ \A i \in 1 .. Len(tag) : tag[i] \notin Blanks
  BY TagFacts
<1> HIDE DEF tokens, tag, Y
<1>8. /\ Seq(X) \subseteq Seq(Y) /\ tag \in Seq(Y)
  BY <1>2, <1>7, SeqGrows
<1>9. /\ tokens \in Seq(Seq(Y)) /\ 1 \in DOMAIN tokens /\ tokens[1] = tag
      /\ \A i \in DOMAIN tokens : i # 1 => tokens[i] \in Seq(X)
  <2> DEFINE S == Seq(Y)
             T == Seq(X)
             one == << tag >>
  <2>1. rest \in Seq(T) /\ T \subseteq S /\ tag \in S
    BY <1>6, <1>8
  <2> HIDE DEF S, T
  <2>2. rest \in Seq(S)
    BY <2>1, SeqGrows
  <2>3. one \in Seq(S) /\ Len(one) = 1 /\ one[1] = tag
    BY <2>1
  <2>4. tokens = one \o rest
    BY <1>6
  <2> HIDE DEF one
  <2>5. /\ tokens \in Seq(S) /\ Len(tokens) = 1 + Len(rest) /\ tokens[1] = tag
        /\ \A i \in 1 .. Len(rest) : tokens[1 + i] = rest[i]
    <3>1. /\ one \o rest \in Seq(S) /\ Len(one \o rest) = Len(one) + Len(rest)
          /\ \A i \in 1 .. Len(one) : (one \o rest)[i] = one[i]
          /\ \A i \in 1 .. Len(rest) : (one \o rest)[Len(one) + i] = rest[i]
      <4>1. one \in Seq(S) /\ rest \in Seq(S)
        BY <2>2, <2>3
      <4> QED
        BY ONLY <4>1, ConcatFacts
    <3> QED
      BY <2>3, <2>4, <3>1
  <2>6. Len(rest) \in Nat /\ DOMAIN tokens = 1 .. 1 + Len(rest)
    BY <2>1, <2>5
  <2>7. ASSUME NEW i \in DOMAIN tokens, i # 1 PROVE tokens[i] \in T
    <3> DEFINE j == i - 1
    <3>1. j \in 1 .. Len(rest) /\ i = 1 + j
      BY <2>6, <2>7
    <3> HIDE DEF j
    <3>2. rest[j] \in T
      BY <2>1, <3>1
    <3> QED
      BY <2>5, <3>1, <3>2
  <2> QED
    BY <2>5, <2>6, <2>7 DEF S, T
<1>10. I \in SUBSET DOMAIN tokens
  OBVIOUS
<1> HIDE DEF tokens, I
<1>11. ASSUME tag \in SpecialTokens PROVE Without(Told(few), Blanks) = Without(Told(many), Blanks)
  <2>1. kept \in Seq(Seq(X))
    <3> DEFINE S == Seq(Y)
               T == Seq(X)
               Es == { tokens[i] : i \in I }
    <3>1. tokens \in Seq(S)
      BY <1>9
    <3>2. \A i \in I : tokens[i] \in T
      <4>1. \A i \in I : i \in DOMAIN tokens /\ tokens[i] \notin SpecialTokens
        BY DEF I
      <4> QED
        BY <1>9, <1>11, <4>1
    <3> HIDE DEF S, T, kept
    <3>3. kept \in Seq(S) /\ ToSet(kept) = Es
      BY <1>10, <3>1, KeptFacts, KeptElements DEF kept
    <3>4. Es \subseteq T
      BY <3>2
    <3> HIDE DEF Es
    <3>5. kept = [i \in 1 .. Len(kept) |-> kept[i]] /\ Len(kept) \in Nat
          /\ \A i \in 1 .. Len(kept) : kept[i] \in ToSet(kept)
      BY <3>3 DEF ToSet
    <3> QED
      BY <3>3, <3>4, <3>5 DEF T
  <2> HIDE DEF kept
  <2>2. ASSUME NEW marks
        PROVE  Told(marks) = Text(marks) /\ Without(Text(marks), Blanks) = LettersOf(kept)
    <3>1. Text(marks) \in Seq(X) /\ Without(Text(marks), Blanks) = LettersOf(kept)
      BY <1>2, <2>1, DecodedLetters
    <3> HIDE DEF Text
    <3>2. Told(marks) = Text(marks)
      BY <1>3, <3>1, TagTakenOff
    <3> QED
      BY <3>1, <3>2
  <2> QED
    BY <2>2
<1>12. ASSUME tag \notin SpecialTokens PROVE Without(Told(few), Blanks) = Without(Told(many), Blanks)
  <2>1. kept \in Seq(Seq(Y)) /\ kept # << >> /\ kept[1] = tag
    <3> DEFINE S == Seq(Y)
    <3>1. 1 \in I /\ tokens \in Seq(S)
      BY <1>9, <1>12 DEF I
    <3> HIDE DEF S, kept
    <3>2. kept \in Seq(S) /\ Len(kept) # 0 /\ kept[1] = tokens[1]
      BY <1>10, <3>1, KeptHead DEF kept
    <3>3. Len(<< >>) = 0
      OBVIOUS
    <3> QED
      BY <1>9, <3>2, <3>3 DEF S
  <2> HIDE DEF kept
  <2>2. ASSUME NEW marks
        PROVE  /\ Without(Told(marks), Blanks) \in Seq(Y)
               /\ LettersOf(kept) = Without(tag, Blanks) \o Without(Told(marks), Blanks)
    <3>1. Text(marks) \in Seq(Y) /\ Without(Text(marks), Blanks) = LettersOf(kept)
      BY <1>2, <2>1, DecodedLetters
    <3>2. Begins(tag, Text(marks))
      BY <1>2, <1>7, <1>8, <2>1, DecodedBegins
    <3> HIDE DEF Text
    <3>3. Told(marks) \in Seq(Y)
          /\ Without(Text(marks), Blanks) = Without(tag, Blanks) \o Without(Told(marks), Blanks)
      BY <3>1, <3>2, TagTakenOff DEF tag
    <3> HIDE DEF Told
    <3> QED
      BY <3>1, <3>3, WithoutFacts
  <2> DEFINE u == Without(tag, Blanks)
             v == Without(Told(few), Blanks)
             w == Without(Told(many), Blanks)
  <2>3. u \in Seq(Y) /\ v \in Seq(Y) /\ w \in Seq(Y) /\ u \o v = u \o w
    BY <1>8, <2>2, WithoutFacts
  <2> HIDE DEF u, v, w
  <2>4. v = w
    <3>1. SubSeq(u \o v, Len(u) + 1, Len(u \o v)) = v /\ SubSeq(u \o w, Len(u) + 1, Len(u \o w)) = w
      BY <2>3, ConcatFacts
    <3> QED
      BY <2>3, <3>1
  <2> QED
    BY <2>4 DEF v, w
<1> QED
  BY <1>1, <1>11, <1>12

(* An answer is what the directory made of the request, or none.             *)
ServedInv ==
    outcome.kind = "answer" =>
        /\ outcome.request.target \in Strings /\ outcome.request.to \in Langs
        /\ outcome.text # Absent =>
               outcome.text = Predict(artifacts[outcome.artifact], outcome.request)

LEMMA RequestsFacts ==
  ASSUME CorpusInv, IsReadable("clean", "validation"), NEW request \in Requests
  PROVE  request.target \in Strings /\ request.to \in Langs
<1> DEFINE pairs == PairsOf("clean", "validation")
           Pairs == Strings \X Strings
           examples == BuildDirectionExamples(pairs, "both")
           Made == { Example(pair, "es", "cak") : pair \in ToSet(pairs) }
                       \cup { Example(pair, "cak", "es") : pair \in ToSet(pairs) }
           IsRequest(e) == e.target \in Strings /\ e.to \in Langs
<1>1. pairs \in Seq(Pairs)
  BY PairsFacts DEF Splits, Stages
<1>2. \A pair \in ToSet(pairs) : pair[1] \in Strings /\ pair[2] \in Strings
  <2>1. ToSet(pairs) \subseteq Pairs
    BY <1>1 DEF ToSet
  <2> QED
    BY <2>1
<1> HIDE DEF pairs, Pairs
<1>3. ToSet(examples) \subseteq Made
  <2>1. examples \in Seq(Made)
    BY <1>1, ExamplesFacts DEF Directions
  <2> HIDE DEF examples, Made
  <2> QED
    BY <2>1 DEF ToSet
<1>4. \A e \in Made : IsRequest(e) /\ IsRequest([e EXCEPT !.to = e.from])
  <2>1. ASSUME NEW pair \in ToSet(pairs), NEW from \in Langs, NEW to \in Langs
        PROVE  /\ IsRequest(Example(pair, from, to))
               /\ IsRequest([Example(pair, from, to) EXCEPT !.to = Example(pair, from, to).from])
    <3> DEFINE e == Example(pair, from, to)
               same == [e EXCEPT !.to = e.from]
    <3>1. e.target \in Strings /\ e.to = to /\ e.from = from
      BY <1>2 DEF Example
    <3>2. same.target = e.target /\ same.to = e.from
      BY DEF Example
    <3> QED
      BY <3>1, <3>2
  <2>2. "es" \in Langs /\ "cak" \in Langs
    BY DEF Langs
  <2> HIDE DEF IsRequest
  <2> QED
    BY <2>1, <2>2
<1> HIDE DEF Made, examples
<1>5. PICK e \in ToSet(examples) : request = e \/ request = [e EXCEPT !.to = e.from]
  BY DEF Requests, examples, pairs
<1>6. IsRequest(request)
  <2> HIDE DEF IsRequest
  <2> QED
    BY <1>3, <1>4, <1>5
<1> QED
  BY <1>6

(* The steps that leave an answer.                                           *)
LEMMA AnswerKinds ==
  ASSUME [Next]_vars, outcome'.kind = "answer"
  PROVE  \/ UNCHANGED vars
         \/ /\ IsReadable("clean", "validation")
            /\ \E a \in DOMAIN artifacts, request \in Requests : Serve(a, request)
<1>1. ~Diagnose
  BY DiagnoseKeepsFiles
<1>2. ~CorpusNext
  <2>1. ASSUME NEW split \in Splits, CleanCorpusFile(split) PROVE FALSE
    BY <2>1 DEF CleanCorpusFile, NothingYet
  <2>2. ASSUME NEW stage \in Stages, ValidateSplitFiles(stage) PROVE FALSE
    BY <2>2 DEF ValidateSplitFiles
  <2> QED
    BY <2>1, <2>2 DEF CorpusNext
<1>3. ASSUME NEW a \in DOMAIN artifacts, NEW corpus \in Stages, NEW direction \in Directions,
             EvaluateCheckpoint(a, corpus, direction)
      PROVE  FALSE
  BY <1>3 DEF EvaluateCheckpoint
<1>4. ASSUME NEW args \in TrainingRuns, NEW init \in 0 .. Len(artifacts), StartTrainingJob(args, init)
      PROVE  FALSE
  BY <1>4 DEF StartTrainingJob, NothingYet
<1>5. ~ExtendVocabularyForExamples
  BY DEF ExtendVocabularyForExamples, NothingYet
<1>6. ~FineTuneEpoch
  BY DEF FineTuneEpoch, NothingYet
<1>7. ~SaveModelAndTokenizer
  BY DEF SaveModelAndTokenizer, NothingYet
<1>8. ASSUME NEW spelling \in Spellings, GenerateBatch(spelling) PROVE FALSE
  BY <1>8 DEF GenerateBatch, NothingYet
<1>9. ~WriteModelCard /\ ~JobDies
  BY DEF WriteModelCard, JobDies, NothingYet
<1>10. ASSUME NEW n \in 1 .. AverageN, AverageCheckpoints(n) PROVE FALSE
  BY <1>10 DEF AverageCheckpoints, NothingYet
<1> QED
  BY <1>1, <1>2, <1>3, <1>4, <1>5, <1>6, <1>7, <1>8, <1>9, <1>10 DEF Next, LineageNext

LEMMA ServedInductive ==
  ASSUME CorpusInv, ServedInv, [Next]_vars
  PROVE  ServedInv'
<1>1. CASE outcome'.kind # "answer"
  BY <1>1 DEF ServedInv
<1>2. CASE UNCHANGED vars
  BY <1>2 DEF ServedInv, vars
<1>3. ASSUME IsReadable("clean", "validation"), NEW a \in DOMAIN artifacts,
             NEW request \in Requests, Serve(a, request)
      PROVE  ServedInv'
  <2>1. request.target \in Strings /\ request.to \in Langs
    BY <1>3, RequestsFacts
  <2>2. /\ outcome'.artifact = a /\ outcome'.request = request /\ artifacts' = artifacts
        /\ outcome'.text = IF IsValidRequest(request) THEN Predict(artifacts[a], request) ELSE Absent
    BY <1>3 DEF Serve, lineageVars
  <2> QED
    BY <2>1, <2>2 DEF ServedInv
<1> QED
  BY <1>1, <1>2, <1>3, AnswerKinds

LEMMA InitServed == Init => ServedInv
BY DEF ServedInv, Init, CorpusInit, LineageInit, NothingYet

LEMMA AnswersKeepTheLetters == ServedInv => ServingDiffersOnlyInSpacing
<1> DEFINE dir == artifacts[outcome.artifact]
           request == outcome.request
           spelling == dir.weights.spelling
           words == dir.past.words
           none == [vocab |-> dir.vocab, marks |-> {}]
           marked == [vocab |-> dir.vocab, marks |-> words]
<1> SUFFICES ASSUME ServedInv, outcome.kind = "answer", outcome.text # Absent,
                    "_" \notin ToSet(request.target)
             PROVE  Letters(outcome.text) = Letters(Translation(marked, spelling, request))
  BY DEF ServingDiffersOnlyInSpacing
<1>1. /\ request.target \in Strings /\ request.to \in Langs
      /\ outcome.text = Translation(none, spelling, request)
  BY DEF ServedInv, Predict
<1>2. Underscore \notin ToSet(request.target)
  BY Zenon DEF Underscore
<1>3. \A text : Letters(text) = Without(text, Blanks)
  BY DEF Letters, Without, Blanks
<1> DEFINE vocab == dir.vocab
<1> HIDE DEF request, spelling, words, vocab
<1>4. Without(Translation([vocab |-> vocab, marks |-> {}], spelling, request), Blanks)
          = Without(Translation([vocab |-> vocab, marks |-> words], spelling, request), Blanks)
  BY ONLY <1>1, <1>2, ServedAlike
<1> QED
  BY <1>1, <1>3, <1>4 DEF vocab

(* What the container answers is, but for its spacing, what the tokenizer of   *)
(* training would make of the same tokens; the direction tag is in neither.  *)
THEOREM ServingKeepsTheLetters == Spec => []ServingDiffersOnlyInSpacing
<1>1. ServedInv /\ ScoringInv /\ [Next]_vars => ServedInv'
  BY ServedInductive DEF ScoringInv, CoreInv
<1>2. ServedInv => ServingDiffersOnlyInSpacing
  BY AnswersKeepTheLetters
<1> QED
  BY <1>1, <1>2, InitServed, ScoringIsInvariant, PTL DEF Spec
=============================================================================
