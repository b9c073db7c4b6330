-------------------------- MODULE TrainingLineage --------------------------
(***************************************************************************)
(* From a corpus to a served model: training jobs (train.py), checkpoint    *)
(* averaging, re-evaluation of a saved checkpoint (evaluate_checkpoint.py)  *)
(* and inference (inference.py).                                            *)
(*                                                                         *)
(* What ties them together is what a saved model directory keeps and what   *)
(* it forgets.  It keeps the vocabulary, the embedding rows, the weights    *)
(* and, when the job lived to write it, the model card; it forgets which    *)
(* added tokens start a word (the marks of module Vocabulary).  A job that  *)
(* continues from it, a re-evaluation and the inference container each      *)
(* start from those files alone.                                            *)
(*                                                                         *)
(* A job reads its corpus once, then goes through its stages; it may die    *)
(* after any of them and leave on disk what it had written.  The operator   *)
(* averages, evaluates and serves between jobs.                             *)
(*                                                                         *)
(* The Transformers library, SentencePiece training and the optimizer are   *)
(* external: which pieces a subword model has, and in which of the ways a   *)
(* word can be spelled the trained weights spell it, are choices.           *)
(***************************************************************************)
EXTENDS CorpusPipeline, Vocabulary, Evaluation

CONSTANTS
    TrainingCorpora,    \* the corpora of RawCorpora models are trained on (a bound)
    LegacyCorpora,      \* those a legacy model was trained on, before
    TrainingRuns,       \* the runs tried: the command line (corpus, direction,
                        \* strategy, subword sampling), the pieces SentencePiece
                        \* training gives and how the weights spell: see Emission
    EffectiveBatch,     \* --batch-size times --gradient-accumulation-steps
    Epochs, MaxTokens,  \* --epochs, --max-length
    AverageN,           \* DEFAULT_AVERAGE_N
    GenerationBatch,    \* the batch size of generate_translations
    MaxJobs, MaxArtifacts     \* bounds

Directions == {"es->cak", "cak->es", "both"}
Spellings == {"words", "pieces"}
KaqchikelOnly == "kaqchikel_only"
Legacy == "legacy_unscoped_pre_125"
Eos == << "</s>" >>

\* The command line of a run, as its parser leaves it, and what comes from
\* outside: the pieces are texts.
ASSUME TrainingRunsAssumption ==
    \A args \in TrainingRuns :
        /\ args.corpus \in Stages /\ args.direction \in Directions
        /\ args.spelling \in Spellings
        /\ args.pieces \in Seq(Seq(Characters))

\* Three tokens are a tag, one of the text and the end: with fewer, the labels
\* could not be cut to the limit.
ASSUME NumbersAssumption ==
    /\ {EffectiveBatch, Epochs, AverageN, GenerationBatch, MaxJobs} \subseteq Nat \ {0}
    /\ MaxTokens \in Nat /\ MaxTokens >= 3

\* None, which is neither a number nor a text.
ASSUME AbsentAssumption == Absent \notin Nat /\ Absent # KaqchikelOnly

VARIABLES
    job,            \* the training process, or Idle
    artifacts,      \* the model directories, in the order they were written
    checkpoints     \* the epoch checkpoints under the last job's own prefix

lineageVars == << job, artifacts, checkpoints >>

-----------------------------------------------------------------------------
(* Examples and tokens                                                       *)

Example(pair, source, target) ==
    [source |-> pair[IF source = "es" THEN 1 ELSE 2],
     target |-> pair[IF target = "es" THEN 1 ELSE 2], from |-> source, to |-> target]

BuildDirectionExamples(pairs, direction) ==
    (IF direction \in {"es->cak", "both"}
     THEN [i \in DOMAIN pairs |-> Example(pairs[i], "es", "cak")] ELSE << >>)
    \o
    (IF direction \in {"cak->es", "both"}
     THEN [i \in DOMAIN pairs |-> Example(pairs[i], "cak", "es")] ELSE << >>)

CollectTextsForLanguage(examples, lang) ==
    { examples[i].source : i \in { k \in DOMAIN examples : examples[k].from = lang } }
    \cup { examples[i].target : i \in { k \in DOMAIN examples : examples[k].to = lang } }

\* The tokenizer's encoder.  A word that is an added token is matched whole;
\* SentencePiece cuts any other into base pieces, the longest first, or, when
\* sampling, in another way: here, one character at a time.  A word it has no
\* piece for is left out.
Encode(vocab, text, sampling) ==
    LET base == IF sampling THEN { t \in ToSet(BaseVocab) : Len(WithoutPrefix(t, << Marker >>)) = 1 }
                ELSE ToSet(BaseVocab)
        Tokens(word) ==
            IF Contains(vocab, word) THEN << word >>
            ELSE DecomposeTokenIntoKnownPieces(<< Marker >> \o word, base)
        words == Words(text)
    IN  FlattenSeq([i \in DOMAIN words |-> Tokens(words[i])])

\* Mutant: the target is encoded with the tokenizer's own special tokens, so
\* the labels do not start with the tag generation is forced to start with.
OwnPrefix_Features(vocab, example, sampling) ==
    LET input == Encode(vocab, TagSourceText(example.source, example.to), sampling)
        target == Encode(vocab, example.target, sampling)
        labels == SubSeq(target, 1, Min({Len(target), MaxTokens - 1})) \o << Eos >>
    IN  [input   |-> SubSeq(input, 1, Min({Len(input), MaxTokens - 1})) \o << Eos >>,
         labels  |-> labels,
         decoder |-> << Eos >> \o Front(labels)]

\* TranslationDataset.__getitem__ and the collator: the labels are the tag of
\* the target language, the target cut to what is left, and the end; the
\* decoder is fed the labels one place later.
Features(vocab, example, sampling) ==
    LET input == Encode(vocab, TagSourceText(example.source, example.to), sampling)
        target == Encode(vocab, example.target, sampling)
        budget == Max({1, MaxTokens - 2})
        labels == << DirectionTag[example.to] >>
                      \o SubSeq(target, 1, Min({Len(target), budget})) \o << Eos >>
    IN  [input   |-> SubSeq(input, 1, Min({Len(input), MaxTokens - 1})) \o << Eos >>,
         labels  |-> labels,
         decoder |-> << Eos >> \o Front(labels)]

\* model.generate: the forced first token, then the reference translation in
\* the weights' spelling.  "words" spells as the labels did; "pieces" spells
\* every word with the subword pieces of the vocabulary, added ones too, which
\* the encoder never selects but generation can emit.
ForcedBosToken(lang) == DirectionTag[lang]

Emission(vocab, spelling, example) ==
    LET words == Words(example.target)
        Piecewise(word) == DecomposeTokenIntoKnownPieces(<< Marker >> \o word, ToSet(vocab))
    IN  << ForcedBosToken(example.to) >>
        \o (IF spelling = "words" THEN Encode(vocab, example.target, FALSE)
            ELSE FlattenSeq([i \in DOMAIN words |-> Piecewise(words[i])]))
        \o << Eos >>

\* One sentence through generation, decoding and the tag's removal.
Translation(tokenizer, spelling, example) ==
    StripLeadingDirectionTag(
        BatchDecode(tokenizer, Emission(tokenizer.vocab, spelling, example)), example.to)

-----------------------------------------------------------------------------
(* Model directories                                                         *)

NoCard == << >>
Idle == [stage |-> "idle"]

BaseModel == [vocab |-> BaseVocab, rows |-> BaseRows]

\* What a directory's past was; no program reads it.
NoPast == [runs |-> 0, corpora |-> {}, words |-> {}, carded |-> TRUE, asked |-> 1]

\* A model trained before the vocabulary was scoped to Kaqchikel: its words come
\* from both columns, and its card does not say so.
LegacyTexts(pairs) ==
    (UNION { ToSet(pairs[i]) : i \in DOMAIN pairs }) \cup DirectionTags

LegacyArtifact(pairs, corpus) ==
    LET new == ComputeNewTokensForTexts(LegacyTexts(pairs), BaseVocab)
    IN  [vocab |-> BaseVocab \o new, rows |-> BaseRows \o new,
         weights |-> [spelling |-> "words", epochs |-> << Epochs >>],
         card |-> << << "new_tokens_added", Len(new) >>, << "BLEU", [matches |-> 0, total |-> 0] >> >>,
         direction |-> "both", composed |-> 0,
         past |-> [runs |-> 1, corpora |-> {corpus},
                   words |-> SelectWholeWordTokens(new), carded |-> TRUE, asked |-> 1]]

LineageInit ==
    /\ job = Idle
    /\ artifacts \in
        {<< >>} \cup
        (IF files.raw \in LegacyCorpora /\ IsReadable("raw", "train")
         THEN {<< LegacyArtifact(PairsOf("raw", "train"), "raw") >>} ELSE {})
    /\ checkpoints = << >>

-----------------------------------------------------------------------------
(* A training job                                                            *)

Card(init) == IF init = 0 THEN NoCard ELSE artifacts[init].card

\* Mutant: a continuation claims the scoping its own run used.
Unconditional_VocabExtensionScoping(init) == KaqchikelOnly

\* What the new card may claim: the scoping of a chain whose every link had it.
VocabExtensionScoping(init) ==
    IF init = 0 \/ FirstLine(Card(init), "vocab_extension_scoping") = KaqchikelOnly
    THEN KaqchikelOnly ELSE Absent

Past(init) == IF init = 0 THEN NoPast ELSE artifacts[init].past

\* The corpus is read, the model loaded (with the files of its directory: no
\* mark survives), and what the card may claim decided.
StartTrainingJob(args, init) ==
    /\ job = Idle /\ files.raw \in TrainingCorpora
    /\ Len(artifacts) < MaxArtifacts /\ Past(init).runs < MaxJobs
    /\ init = 0 => artifacts = << >>    \* bound: one lineage, others see nothing of it
    /\ \A split \in Splits : IsReadable(args.corpus, split)
    /\ PairsOf(args.corpus, "train") # << >>
    /\ LET source == IF init = 0 THEN BaseModel ELSE artifacts[init]
           Examples(split) == BuildDirectionExamples(PairsOf(args.corpus, split), args.direction)
       IN  job' = [stage |-> "loaded", args |-> args, init |-> init,
                   scoping |-> VocabExtensionScoping(init),
                   train |-> Examples("train"), val |-> Examples("validation"),
                   tokenizer |-> [vocab |-> source.vocab, marks |-> {}],
                   rows |-> source.rows, mode |-> "eval", words |-> {},
                   added |-> 0, composed |-> 0, coverage |-> Absent, epoch |-> 0, features |-> << >>,
                   pending |-> << >>, hypotheses |-> << >>]
    /\ checkpoints' = << >>
    /\ outcome' = NothingYet
    /\ UNCHANGED << files, artifacts >>

\* extend_vocabulary_for_examples: the words and characters of the Kaqchikel
\* side and the tags, then the subword pieces, then one embedding row for each.
ExtendVocabularyForExamples ==
    /\ job.stage = "loaded"
    /\ LET before == job.tokenizer.vocab
           texts == CollectTextsForLanguage(job.train, "cak")
           words == ExtendTokenizerVocab(job.tokenizer, texts \cup DirectionTags)
           after == IF texts = {} THEN words ELSE ExtendTokenizerVocabWithSubwords(words, job.args.pieces)
           added == SubSeq(after.vocab, Len(before) + 1, Len(after.vocab))
           composed == ComposedRows(added, before)
           compositional == job.args.strategy = "compositional"
       IN  job' = [job EXCEPT
               !.stage = "extended", !.tokenizer = after, !.added = Len(added),
               !.words = words.marks,
               !.rows = ResizeEmbeddingsForNewTokens(job.rows, added),
               !.composed = IF compositional
                            THEN Cardinality({ i \in DOMAIN added : composed[i] # NoPieces })
                            ELSE 0,
               !.coverage = IF compositional
                            THEN CountDecomposableTokens(added, before) ELSE Absent]
    /\ outcome' = NothingYet
    /\ UNCHANGED << files, artifacts, checkpoints >>

SaveTotalLimit == AverageN + 2

\* dirs[-n:]
LastN(dirs, n) == SubSeq(dirs, Max({1, Len(dirs) - n + 1}), Len(dirs))

StepsPerEpoch(examples) == (Len(examples) + EffectiveBatch - 1) \div EffectiveBatch

\* Mutant: one checkpoint less is kept than averaging needs.
KeepsTooFew_Retained(saved) == LastN(saved, AverageN - 1)

\* The trainer removes the oldest checkpoints beyond save_total_limit.
Retained(saved) == LastN(saved, SaveTotalLimit)

\* One epoch of fine_tune, and its checkpoint.  The trainer leaves the model in
\* training mode, dropout active.
FineTuneEpoch ==
    /\ job.stage \in {"extended", "training"}
    /\ job.epoch < Epochs
    /\ job' = [job EXCEPT
           !.stage = "training", !.epoch = @ + 1, !.mode = "train",
           !.features = [i \in DOMAIN job.train |->
               Features(job.tokenizer.vocab, job.train[i], job.args.sampling)]]
    /\ checkpoints' = Retained(Append(checkpoints,
           [step |-> (job.epoch + 1) * StepsPerEpoch(job.train), rows |-> job.rows,
            epoch |-> job.epoch + 1, dir |-> Len(artifacts) + 1]))
    /\ outcome' = NothingYet
    /\ UNCHANGED << files, artifacts >>

\* generate_translations works on one target language at a time, a batch of
\* sentences at a time; a batch is the indices of its sentences.
Batches(examples) ==
    LET Of(lang) == SortedBy({ i \in DOMAIN examples : examples[i].to = lang }, <)
        Cut(at) == [k \in 1 .. (Len(at) + GenerationBatch - 1) \div GenerationBatch |->
                       SubSeq(at, (k - 1) * GenerationBatch + 1,
                              Min({k * GenerationBatch, Len(at)}))]
        order == Firsts([i \in DOMAIN examples |-> examples[i].to])
    IN  FlattenSeq([k \in DOMAIN order |-> Cut(Of(order[k]))])

\* Mutant: the model is saved and used as the trainer left it.
StaysInTraining_ModelEval(mode) == mode

\* model.eval()
ModelEval(mode) == "eval"

\* The model goes to its directory: vocabulary, rows, weights; no card yet, and
\* nothing of the marks.
SaveModelAndTokenizer ==
    /\ job.stage = "training" /\ job.epoch = Epochs
    /\ artifacts' = Append(artifacts,
           [vocab |-> job.tokenizer.vocab, rows |-> job.rows,
            weights |-> [spelling |-> job.args.spelling, epochs |-> << Epochs >>],
            card |-> NoCard, direction |-> job.args.direction, composed |-> job.composed,
            past |-> [runs |-> Past(job.init).runs + 1,
                      corpora |-> Past(job.init).corpora \cup {job.args.corpus},
                      words |-> Past(job.init).words \cup job.words,
                      carded |-> Past(job.init).carded /\ (job.init = 0 \/ Card(job.init) # NoCard),
                      asked |-> 1]])
    /\ job' = [job EXCEPT !.stage = "saved", !.mode = ModelEval(@), !.features = << >>,
                          !.pending = Batches(job.val),
                          !.hypotheses = [i \in DOMAIN job.val |-> Absent]]
    /\ outcome' = NothingYet
    /\ UNCHANGED << files, checkpoints >>

\* Each text goes to the place its sentence came from.
WrittenBack(hypotheses, batch, texts) ==
    [i \in DOMAIN hypotheses |->
        LET k == SelectInSeq(batch, LAMBDA place : place = i)
        IN  IF k = 0 THEN hypotheses[i] ELSE texts[k]]

\* One batch.  With dropout active the weights may spell otherwise.
GenerateBatch(spelling) ==
    /\ job.stage = "saved" /\ job.pending # << >>
    /\ job.mode = "eval" => spelling = job.args.spelling
    /\ LET batch == Head(job.pending)
           texts == [k \in DOMAIN batch |->
                        Translation(job.tokenizer, spelling, job.val[batch[k]])]
       IN  job' = [job EXCEPT !.pending = Tail(@),
                              !.hypotheses = WrittenBack(@, batch, texts)]
    /\ outcome' = NothingYet
    /\ UNCHANGED << files, artifacts, checkpoints >>

DirectionName(example) == << example.from, "->", example.to >>

Predictions(hypotheses) == WriteLines(hypotheses)
References(examples) == WriteLines([i \in DOMAIN examples |-> examples[i].target])
DirectionLines(examples) ==
    WriteLines([i \in DOMAIN examples |-> DirectionName(examples[i])])

\* A line the card has only when there is something to say.
Reported(key, value) == IF value = Absent THEN << >> ELSE << << key, value >> >>

\* Mutant: only the second extension's tokens are counted.
PiecesOnly_Hyperparameters(j) ==
    Reported("new_tokens_added",
             Cardinality(SelectHighValueSubwords(j.args.pieces) \ ToSet(BaseVocab)))
        \o Reported("embedding_init_compositional_coverage", j.coverage)
        \o Reported("vocab_extension_scoping", j.scoping)

Hyperparameters(j) ==
    Reported("new_tokens_added", j.added)
        \o Reported("embedding_init_compositional_coverage", j.coverage)
        \o Reported("vocab_extension_scoping", j.scoping)

\* The three files, the scores and the card, which joins the model directory.
\* When the files do not line up the job dies of ValueError instead.
WriteModelCard ==
    /\ job.stage = "saved" /\ job.pending = << >>
    /\ ScoresFiles(Predictions(job.hypotheses), References(job.val), DirectionLines(job.val))
    /\ artifacts' = [artifacts EXCEPT ![Len(artifacts)].card =
           RunEvaluation(Predictions(job.hypotheses), References(job.val),
                         DirectionLines(job.val), Hyperparameters(job))]
    /\ job' = Idle
    /\ outcome' = NothingYet
    /\ UNCHANGED << files, checkpoints >>

\* The process dies; what it wrote stays.  (Epoch checkpoints with no model
\* directory of their run are not kept track of: no command here reads them.)
JobDies ==
    /\ job # Idle
    /\ job' = Idle
    /\ checkpoints' = IF job.stage = "saved" THEN checkpoints ELSE << >>
    /\ outcome' = NothingYet
    /\ UNCHANGED << files, artifacts >>

-----------------------------------------------------------------------------
(* The operator, between jobs                                                *)

\* Mutant: the directories are in the order their names sort in.
ByName_FindCheckpointDirs(saved) ==
    LET FirstDigit(n) == IF n >= 10 THEN n \div 10 ELSE n
        order == SortedBy(DOMAIN saved, LAMBDA i, k :
            \/ FirstDigit(saved[i].step) < FirstDigit(saved[k].step)
            \/ /\ FirstDigit(saved[i].step) = FirstDigit(saved[k].step)
               /\ saved[i].step < saved[k].step)
    IN  [k \in DOMAIN saved |-> saved[order[k]]]

\* checkpoint-<step> directories, by number.
FindCheckpointDirs(saved) ==
    LET order == SortedBy(DOMAIN saved, LAMBDA i, k : saved[i].step < saved[k].step)
    IN  [k \in DOMAIN saved |-> saved[order[k]]]

\* average_checkpoints on the last n, the operator copying the tokenizer files
\* of the run's own model directory next to it; no card is among them.  Keys
\* and shapes must agree, which those of one run do.
AverageCheckpoints(n) ==
    /\ job = Idle /\ Len(artifacts) < MaxArtifacts
    /\ n > 0 /\ checkpoints # << >>
    /\ checkpoints[1].dir \in DOMAIN artifacts
    /\ LET chosen == LastN(FindCheckpointDirs(checkpoints), n)
           run == artifacts[chosen[1].dir]
       IN  /\ \A i \in DOMAIN chosen : Len(chosen[i].rows) = Len(chosen[1].rows)
           /\ artifacts' = Append(artifacts,
                  [run EXCEPT !.rows = chosen[1].rows, !.card = NoCard, !.past.asked = n,
                      !.weights.epochs = [i \in DOMAIN chosen |-> chosen[i].epoch]])
    /\ outcome' = NothingYet
    /\ UNCHANGED << files, job, checkpoints >>

\* The texts the words are reconstructed from: the Kaqchikel column when the
\* card says the vocabulary was scoped to it, both columns otherwise.
TrainSampleTexts(pairs, scoping) ==
    (IF scoping = KaqchikelOnly THEN { pairs[i][2] : i \in DOMAIN pairs }
     ELSE UNION { ToSet(pairs[i]) : i \in DOMAIN pairs })
    \cup DirectionTags

\* The checkpoint's added tokens that could be words or continuation pieces.
AmbiguousTokens(vocab) ==
    { token \in ToSet(vocab) \ ToSet(BaseVocab) : Len(token) > 1 /\ ~StartsWord(token) }

\* The two warnings: a reconstructed word the checkpoint does not have, and more
\* ambiguous tokens that are no words than its card counts new tokens at all.
Diagnosis(vocab, marks, recorded) ==
    [over  |-> marks \ ToSet(vocab),
     under |-> recorded # Absent /\ Cardinality(AmbiguousTokens(vocab) \ marks) > recorded]

\* Mutant: the checkpoint's own vocabulary is taken for the base one.
OwnVocab_BoundaryTokens(vocab, texts) ==
    SelectWholeWordTokens(ComputeNewTokensForTexts(texts, vocab))

BoundaryTokens(vocab, texts) == ReconstructWholeWordBoundaryTokens(texts)

\* run_checkpoint_evaluation, with --train and --validation of one corpus.
EvaluateCheckpoint(a, corpus, direction) ==
    /\ job = Idle /\ outcome = NothingYet
    /\ \A split \in Splits : IsReadable(corpus, split)
    /\ LET dir == artifacts[a]
           scoping == FirstLine(dir.card, "vocab_extension_scoping")
           marks == BoundaryTokens(dir.vocab, TrainSampleTexts(PairsOf(corpus, "train"), scoping))
           tokenizer == [vocab |-> dir.vocab, marks |-> marks]
           examples == BuildDirectionExamples(PairsOf(corpus, "validation"), direction)
           hypotheses == [i \in DOMAIN examples |->
                             Translation(tokenizer, dir.weights.spelling, examples[i])]
           recorded == FirstLine(dir.card, "new_tokens_added")
           predictions == Predictions(hypotheses)
           references == References(examples)
           directions == DirectionLines(examples)
           card == RunEvaluation(predictions, references, directions,
                      << << "word_boundary_tokens_reconstructed", Cardinality(marks) >>,
                         << "vocab_extension_scoping",
                            IF scoping = Absent THEN Legacy ELSE scoping >> >>)
       IN  /\ ScoresFiles(predictions, references, directions)
           /\ outcome' = [kind |-> "evaluation", artifact |-> a, corpus |-> corpus,
                            direction |-> direction, marks |-> marks, card |-> card,
                            warns |-> Diagnosis(dir.vocab, marks, recorded)]
    /\ UNCHANGED << files, lineageVars >>

\* parse_request: the languages differ, the text is not blank; it is stripped.
IsValidRequest(request) ==
    /\ {request.from, request.to} \subseteq Langs
    /\ request.from # request.to
    /\ Strip(request.source) # << >>

\* Mutant: the tag is not taken off.
WithTag_Predict(dir, request) ==
    BatchDecode([vocab |-> dir.vocab, marks |-> {}],
                Emission(dir.vocab, dir.weights.spelling, request))

\* model_fn and translate: the tokenizer as the directory has it, with no mark.
Predict(dir, request) ==
    Translation([vocab |-> dir.vocab, marks |-> {}], dir.weights.spelling, request)

\* The container answers one request for a sentence of the validation file.
Serve(a, request) ==
    /\ job = Idle /\ outcome = NothingYet
    /\ outcome' = [kind |-> "answer", artifact |-> a, request |-> request,
                   text |-> IF IsValidRequest(request)
                            THEN Predict(artifacts[a], request) ELSE Absent]
    /\ UNCHANGED << files, lineageVars >>

Requests ==
    LET examples == BuildDirectionExamples(PairsOf("clean", "validation"), "both")
    IN  ToSet(examples) \cup { [e EXCEPT !.to = e.from] : e \in ToSet(examples) }

LineageNext ==
    \/ \E args \in TrainingRuns, init \in 0 .. Len(artifacts) : StartTrainingJob(args, init)
    \/ ExtendVocabularyForExamples
    \/ FineTuneEpoch
    \/ SaveModelAndTokenizer
    \/ \E spelling \in Spellings : GenerateBatch(spelling)
    \/ WriteModelCard
    \/ JobDies
    \/ \E n \in 1 .. AverageN : AverageCheckpoints(n)
    \/ \E a \in DOMAIN artifacts, corpus \in Stages, direction \in Directions :
          EvaluateCheckpoint(a, corpus, direction)
    \/ /\ IsReadable("clean", "validation")
       /\ \E a \in DOMAIN artifacts, request \in Requests : Serve(a, request)
=============================================================================
