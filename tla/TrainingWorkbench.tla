-------------------------- MODULE TrainingWorkbench --------------------------
(***************************************************************************)
(* The maintainer's workbench: the corpus pipeline, the training jobs and   *)
(* what is done with their models, and the numeric diagnostics, composed.   *)
(* The cleaned files the pipeline writes are the files a job and an         *)
(* evaluation read.                                                        *)
(*                                                                         *)
(* The diagnostics share no state with the rest, so they run from the       *)
(* initial state only, with their inputs drawn from small sets.             *)
(***************************************************************************)
EXTENDS TrainingLineage, CorpusSignals

CONSTANTS
    Similarities,       \* the similarity scores of the alignment diagnostic
    PointSets,          \* the rows of the dialect diagnostic
    MaxIterations,      \* of kmeans_two_clusters
    Distributions,      \* next-token probabilities, in a common unit
    Deltas              \* what length-bias rectification subtracts

\* Similarities and rows are numbers, and there is a round (kmeans_two_clusters
\* asserts that it has labels); a distribution gives each of its tokens a share,
\* some token one that is not nothing; nothing or more is subtracted.
ASSUME DiagnosticsAssumption ==
    /\ \A similarity \in Similarities : similarity \in [(1 .. 3) \X (1 .. 3) -> Int]
    /\ PointSets \subseteq Seq(Int)
    /\ MaxIterations \in Nat \ {0}
    /\ \A probs \in Distributions : /\ IsFiniteSet(DOMAIN probs)
                                    /\ probs \in [DOMAIN probs -> Nat]
                                    /\ \E i \in DOMAIN probs : probs[i] > 0
    /\ Deltas \subseteq Nat

vars == << files, outcome, job, artifacts, checkpoints >>

Init == CorpusInit /\ LineageInit

\* analyze_alignment_signal: the real pairs against the pairs of a shuffle.
AnalyzeAlignmentSignal(similarity, n) ==
    \E shuffle \in ShuffledControlIndices(n) :
        LET real == [i \in 1 .. n |-> similarity[<< i, i >>]]
            control == [i \in 1 .. n |-> similarity[<< i, shuffle[i] >>]]
        IN  outcome' = [kind |-> "alignment", real |-> real, control |-> control,
                      auc |-> AucSeparation(real, control)]

AnalyzeDialectSignal(points) ==
    outcome' = [kind |-> "dialect", points |-> points,
              labels |-> KmeansTwoClusters(points, MaxIterations)]

Rectify(probs, delta) ==
    outcome' = [kind |-> "rectify", probs |-> probs, delta |-> delta,
              result |-> RectifyProbabilities(probs, delta)]

Diagnose ==
    /\ job = Idle /\ artifacts = << >> /\ outcome = NothingYet
    /\ \A split \in Splits : ~Written(split)
    /\ \/ \E similarity \in Similarities : AnalyzeAlignmentSignal(similarity, 3)
       \/ \E points \in PointSets : AnalyzeDialectSignal(points)
       \/ \E probs \in Distributions, delta \in Deltas : Rectify(probs, delta)
    /\ UNCHANGED << files, lineageVars >>

Next ==
    \/ Diagnose
    \/ job = Idle /\ CorpusNext /\ UNCHANGED lineageVars
    \/ LineageNext

Spec == Init /\ [][Next]_vars

-----------------------------------------------------------------------------
(* Types                                                                     *)

IsText(t) == t \in Seq(Characters)

ArtifactOK(a) ==
    /\ \A i \in DOMAIN a.vocab : a.vocab[i] \in ToSet(BaseVocab) \/ IsText(a.vocab[i])
    /\ Len(a.rows) >= Len(a.vocab)
    /\ a.weights.spelling \in Spellings
    /\ a.weights.epochs \in Seq(1 .. Epochs)
    /\ a.past.runs \in 1 .. MaxJobs

\* The shape of every variable, the ids of a vocabulary among them: no token is
\* in it twice, and the embedding matrix has a row for each.
TypeOK ==
    /\ \A split \in Splits : Written(split) => IsWellFormed(files["clean"][split])
    /\ job.stage \in {"idle", "loaded", "extended", "training", "saved"}
    /\ \A a \in DOMAIN artifacts :
           ArtifactOK(artifacts[a]) /\ IsInjective(artifacts[a].vocab)
    /\ Len(checkpoints) =< SaveTotalLimit
    /\ outcome.kind \in {"nothing", "leaks", "evaluation", "answer",
                         "alignment", "dialect", "rectify"}
    /\ outcome.kind \in {"evaluation", "answer"} => outcome.artifact \in DOMAIN artifacts

-----------------------------------------------------------------------------
(* The model card                                                            *)

Claims(a) == FirstLine(artifacts[a].card, "vocab_extension_scoping")

\* A card that says the vocabulary was scoped to Kaqchikel tells the truth of
\* the whole chain of jobs behind it: each whole word among the added tokens is
\* a word of a Kaqchikel column some job of the chain read, or a direction tag.
ScopingIsTrue ==
    \A a \in DOMAIN artifacts : Claims(a) = KaqchikelOnly =>
        artifacts[a].past.words \subseteq
            DirectionTags \cup
            UNION { UNION { ToSet(Words(pair[2])) : pair \in ToSet(PairsOf(corpus, "train")) } :
                    corpus \in artifacts[a].past.corpora }

\* A directory with a card whose job continued none.
FromBase(a) == artifacts[a].past.runs = 1 /\ Claims(a) = KaqchikelOnly

\* The marks of a tokenizer that was extended once, with these whole words and
\* the pieces of a vocabulary.
MarksOf(words, vocab) ==
    words \cup { t \in ToSet(vocab) \ ToSet(BaseVocab) : Len(t) > 1 /\ StartsWord(t) }

\* What the process that saved a directory, with its tokenizer's marks, makes of
\* a sentence.
Answer(dir, example) ==
    Translation([vocab |-> dir.vocab, marks |-> MarksOf(dir.past.words, dir.vocab)],
                dir.weights.spelling, example)

\* The model card's combined score is that of the whole validation set, however
\* many directions it lists: it is what registration parses out of the card and
\* the promotion compares.  For a job from the base model it counts exactly the
\* sentences the job's tokenizer, marks and all, decodes to their reference,
\* white space around either aside.
CardTellsTheWholeScore ==
    \A a \in DOMAIN artifacts :
        LET dir == artifacts[a]
            score == ParseModelCardMetrics(dir.card)
            corpus == CHOOSE c \in dir.past.corpora : TRUE
            examples == BuildDirectionExamples(PairsOf(corpus, "validation"), dir.direction)
            Right(i) == Strip(Answer(dir, examples[i])) = Strip(examples[i].target)
        IN  (FromBase(a) /\ examples # << >>) =>
                score = [matches |-> Cardinality({ i \in DOMAIN examples : Right(i) }),
                         total   |-> Len(examples)]

\* Whatever the model generated, a blank hypothesis included, the files written
\* for scoring line up again when they are read back, so that a job that
\* generated its translations can write its card.
LinesStayAligned ==
    (job.stage = "saved" /\ job.pending = << >>) =>
        ScoresFiles(Predictions(job.hypotheses), References(job.val), DirectionLines(job.val))

\* The coverage the card reports is the number of rows that were composed.  Two
\* functions compute them apart, each with its own growing set of known pieces.
CoverageIsWhatWasComposed ==
    \A a \in DOMAIN artifacts :
        LET coverage == FirstLine(artifacts[a].card, "embedding_init_compositional_coverage")
        IN  coverage # Absent => coverage = artifacts[a].composed

-----------------------------------------------------------------------------
(* Training                                                                  *)

\* The decoder is trained on what generation will start it from: the first
\* label of every example is the token generation is forced to begin with, the
\* decoder is fed that token second, and the label sequence keeps its end
\* within the length limit.
TrainedAsGenerated ==
    job.stage = "training" =>
        \A i \in DOMAIN job.features :
            LET f == job.features[i]
            IN  /\ Head(f.labels) = ForcedBosToken(job.train[i].to)
                /\ f.decoder[2] = ForcedBosToken(job.train[i].to)
                /\ Last(f.labels) = Eos
                /\ Len(f.labels) =< MaxTokens

\* The weights of a model directory are those of the last epochs of its run, as
\* many of them as the operator asked to average: retention has kept them, and
\* they are taken by number.
AverageIsOfTheLastEpochs ==
    \A a \in DOMAIN artifacts :
        LET n == Min({artifacts[a].past.asked, Epochs})
        IN  artifacts[a].weights.epochs = [k \in 1 .. n |-> Epochs - n + k]

-----------------------------------------------------------------------------
(* Re-evaluation and serving                                                 *)

\* Every job behind the evaluated directory read the corpus it is evaluated
\* with, and left its card to the next.
SameCorpus ==
    /\ outcome.kind = "evaluation"
    /\ LET dir == artifacts[outcome.artifact]
       IN dir.past.corpora = {outcome.corpus} /\ dir.past.carded /\ dir.card # NoCard

\* The words a re-evaluation reconstructs from the corpus and the base
\* vocabulary are those the jobs of the chain marked and no file kept: none is
\* missed, whatever the subword pieces added beside them, and none is invented.
ReconstructionIsExact ==
    SameCorpus =>
        /\ outcome.marks = artifacts[outcome.artifact].past.words
        /\ outcome.warns.over = {}

\* Some validation sentence is spelled with an added piece that carries the
\* marker.
UsesAddedWordStart(dir, corpus, direction) ==
    LET examples == BuildDirectionExamples(PairsOf(corpus, "validation"), direction)
    IN  \E i \in DOMAIN examples :
            \E token \in ToSet(Emission(dir.vocab, dir.weights.spelling, examples[i])) :
                StartsWord(token) /\ ~Contains(BaseVocab, token)

\* Re-evaluating a checkpoint trained from the base model, on its own corpus
\* and direction, gives the score its job wrote on its card, unless a hypothesis
\* uses an added word-initial piece, which the re-evaluated tokenizer decodes
\* with its marker left in.
ReevaluationMatches ==
    (SameCorpus /\ FromBase(outcome.artifact)) =>
        LET dir == artifacts[outcome.artifact]
        IN  \/ ParseModelCardMetrics(outcome.card) = ParseModelCardMetrics(dir.card)
            \/ outcome.direction # dir.direction
            \/ UsesAddedWordStart(dir, outcome.corpus, outcome.direction)

\* The under-reconstruction warning is only given for a chain of jobs: a
\* directory whose one job wrote its card has no more added tokens than the
\* card counts, however badly the corpus given to the evaluation fits.
UnderWarningNeedsAChain ==
    (outcome.kind = "evaluation" /\ outcome.warns.under) => artifacts[outcome.artifact].past.runs > 1

\* What is left of a text without its white space and the markers left in it.
Letters(text) == Kept(text, { i \in DOMAIN text : text[i] \notin Spaces \cup {Marker} })

\* The container's tokenizer has no marks, so it may glue words together and
\* leave a marker in; but letter for letter, and with no direction tag, it
\* answers what the tokenizer of training would.  (A reference with underscores
\* could spell a tag in two words, which gluing makes one.)
ServingDiffersOnlyInSpacing ==
    (outcome.kind = "answer" /\ outcome.text # Absent /\ "_" \notin ToSet(outcome.request.target)) =>
        LET dir == artifacts[outcome.artifact]
            marked == [vocab |-> dir.vocab, marks |-> dir.past.words]
        IN  Letters(outcome.text) = Letters(Translation(marked, dir.weights.spelling, outcome.request))

\* Each token of a saved vocabulary points at the embedding row that was
\* initialised for it (tokenizer_extension.py:392-407 and README.md:687-696 of
\* ml/ say no new id is left pointing at an untrained padding row).
NewTokensAreWarm ==
    \A a \in DOMAIN artifacts :
        \A id \in DOMAIN artifacts[a].vocab : artifacts[a].rows[id] = artifacts[a].vocab[id]

-----------------------------------------------------------------------------
(* Diagnostics                                                               *)

\* The reported AUC is the share of (real, control) pairs in which the real one
\* is the more similar, a tie counting half.
AucIsPairwise ==
    outcome.kind = "alignment" =>
        LET Pairs == (DOMAIN outcome.real) \X (DOMAIN outcome.control)
            Wins == { p \in Pairs : outcome.real[p[1]] > outcome.control[p[2]] }
            Ties == { p \in Pairs : outcome.real[p[1]] = outcome.control[p[2]] }
        IN  outcome.auc[1] * 2 * Len(outcome.real) * Len(outcome.control)
                = outcome.auc[2] * (2 * Cardinality(Wins) + Cardinality(Ties))

\* The dialect split is settled, and is a split: each sentence is in the cluster
\* of the nearer centroid of the result, and neither cluster is empty unless all
\* the rows are the same. Each round before the last moves a sentence, and always
\* to the same side (the rows are numbers), so a round less than there are
\* sentences is enough; the loop stops after MaxIterations, settled or not.
KmeansSettles ==
    (outcome.kind = "dialect" /\ Len(outcome.points) > 1) =>
        LET points == outcome.points
            Differ == \E i \in DOMAIN points : points[i] # points[1]
            centroids == Centroids(points, outcome.labels, SeedCentroids(points))
        IN  /\ Len(points) =< MaxIterations + 1 => outcome.labels = Labels(points, centroids)
            /\ Differ => ToSet(outcome.labels) = {0, 1}

\* Rectified probabilities are a distribution over tokens the model allowed, and
\* never turn the order of two tokens round, whatever delta is.
RectifiedKeepsRanking ==
    outcome.kind = "rectify" =>
        /\ SumFunction(outcome.result) > 0
        /\ \A i, k \in DOMAIN outcome.probs :
               outcome.probs[i] =< outcome.probs[k] => outcome.result[i] =< outcome.result[k]
        /\ \A i \in DOMAIN outcome.probs : outcome.probs[i] = 0 => outcome.result[i] = 0
=============================================================================
