# Traductor Kaqchikel: the specification beside the code

This directory holds TLA+ specifications of the Spanish–Kaqchikel translator of
this repository, the TLC configurations that model-check them, and TLAPS proofs
of what matters most about them. Paths below are relative to the repository's
root; `PROJECT.json` maps every definition to the lines it was written from.

    tlc -workers 2 -config MCJobService.cfg MCJobService     # one run
    tlapm JobServiceProofs.tla                               # the proofs

## The system

| Part | State it keeps | Operations | Talks to |
| --- | --- | --- | --- |
| Request Lambda, `apps/api/app/main.py` | none (FastAPI) | `POST /v1/translate-jobs`, `GET /v1/translate-jobs/{job_id}` | table (put, get), Worker (asynchronous invoke) |
| Jobs table, `apps/api/app/jobs.py`, `infra/cdk/lib/api-stack.ts` | one item per job: status, text, direction, result, ttl | put, get, conditional update, TTL sweep | – |
| Worker Lambda, `worker_handler.py`, `translation.py` | locals of one invocation | read, translate, mark, log | table, SageMaker endpoint |
| onFailure Lambda, `failure_handler.py` | none | mark failed, read back, log | table |
| Client, `apps/web/src/api.ts` | `currentSession`: settled flag, timers, abort signal, failure count | `translate()`, `cancelTranslate()` | the two routes, over a network |
| Page, `apps/web/src/App.tsx` | `translateState`, `direction`, `input`, `copyState`, `requestIdRef`, timers | typing, Traducir, Reintentar, swap, Borrar, copy, view | client, clipboard |
| Training and registry, `ml/training/submit_job.py`, `model_registry.py` | SageMaker jobs, model packages | submit, wait, register | S3, SageMaker |
| Packaging, deployment, promotion, `ml/deployment` | artifacts and packages of each account | repackage, deploy, promote | S3, SageMaker |
| Hosting, `infra/cdk/lib/ml-hosting-stack.ts`, `app-stage.ts` | the version each environment runs | deploy the stack, cold start | SageMaker, S3 |
| Corpus pipeline, `ml/data/pipeline.py` and what it calls | the raw and the cleaned TSV files | `clean`, `validate-split` | files |
| Corpus signals, `ml/data/alignment_signal.py`, `dialect_signal.py`, `glued_word_signal.py` | none | reports on a corpus | files, a sentence encoder |
| Training job, `ml/training/train.py` with `tokenizer_extension.py`, `vocab_extension.py`, `subword_vocab.py`, `direction.py` | model, tokenizer, word-boundary marks, epoch checkpoints, output files | load, extend, fine-tune, save, generate, write the card | cleaned files, an earlier model directory |
| Averaging, `ml/training/checkpoint_averaging.py` | none | average the last N checkpoints | a job's checkpoints |
| Evaluation, `ml/evaluation` | none | score files, render and parse cards, re-evaluate a checkpoint | model directories, cleaned files |
| Inference container, `ml/deployment/inference.py` | the loaded model | answer one request | a model directory |
| Infrastructure, `infra/cdk` | CloudFormation stacks | staged deployment | AWS |

What makes the service hard: three Lambdas and a background sweep touch one item per job
with no lock but a conditional write, and read it without asking for a consistent
read; Lambda delivers at least once, kills a
handler at its timeout and retries another; the browser has timers, aborts and
callbacks that outlive the state they were made for; and what the client
believes (cancelled, timed out, lost) is not what the service did.

What makes the machine-learning side hard is of another kind. Its programs run one
at a time, hours or weeks apart, and talk only through files: what one knew and
did not write is lost to the next (which added tokens start a word, what the
corpus of the ancestor was), what it wrote has to mean the same to the one that
reads it (line numbers, token ids, the first line of a card that matches), and a
job may die between any two of its files.

### What makes each part correct

* **Jobs.** The first terminal write is the last. A stored translation is of the
  text posted under that id. A job that was accepted is decided, whatever dies.
  It is logged when it is decided and not before. GET shows a job one result, and
  before it, or after it has expired, nothing else.
* **Client.** Every call settles, once, with its own translation or an error; a
  settled call leaves no timer and no request running; it gives up for the
  network only after consecutive failures.
* **Page.** One call in flight, the one `cancelTranslate()` would stop; no answer
  of an abandoned call is shown; the spinner stops; a shown translation belongs
  to the source text and the direction beside it; "Copiado" does not stay.
* **Report link.** It is always built, and never longer than GitHub accepts.
* **Corpus.** A cleaned file is settled and lost nothing; a split found free of
  leaks hides none behind white space, accents or glottal marks.
* **Training and evaluation.** Labels begin as generation does; a hypothesis
  stays beside its reference; the score on a card is of the weights beside it and
  of all their sentences; what a card claims is true of the whole chain of jobs;
  what a re-evaluation reconstructs is what training had; averaged weights are of
  the last epochs; each token has the embedding row that was made for it.
* **Registry.** A registered version points at the weights its metadata
  describes; a promoted one says truly where it came from, and that was approved;
  what an endpoint runs is of the run its version names; nothing replaces the
  only copy of trained weights.

## Modules

The specifications form a chain, each level resting on the promise of the one
below it:

    TranslatorApp ──uses──> TranslatePromise <──implements── PollClient
                                                                │ uses
                                              TranslateJobs <───┘
                                                    ^
                                                    └──implements (proved)── JobService

    ModelRegistry stands beside them: it says which weights the endpoint that
    JobService calls has loaded.  Where those weights come from, and what the
    container that loads them answers, is TrainingWorkbench:

    TrainingWorkbench ──extends──> TrainingLineage ──> CorpusPipeline, Vocabulary,
                      └─extends──> CorpusSignals       Evaluation ──> Texts

* `TranslateJobs` – the answers of GET over the life of a job: unknown, pending,
  one result, gone. Its `Revive` step is the behaviour of the code nobody would
  ask for (see Findings). `Readable` are the answers a client may be given when
  its GET reads a copy that is behind. No table, no Lambda, no clock.
* `JobService` – the three Lambdas, the table, the clock. A handler is a sequence
  of steps, one per call that reads or writes shared state (`WorkerRead`,
  `WorkerTranslate`, `WorkerWrite`, `WorkerLog`, `WorkerReturn`; `FailureMark`,
  `FailureLog`), and can be killed between any two (`WorkerDies`, `FailureRetry`).
  `Redeliver` is Lambda's at-least-once delivery, `Sweep` DynamoDB's TTL deletion
  at any time after expiry, `Tick` the clock that handlers, expiry and timeouts
  share. `replica` is a copy of the table that `Replicate` brings up to date:
  `get_item` may return either item of `Reads`, a write is always made on the
  table itself. Copies converge before the clock ticks, within a second of an hour.
  A translation is represented by the request it translates.
  `submitted` and `log` are history: they are written and never read by a guard.
* `JobServiceProofs` – the TLAPS proofs about `JobService`.
* `TranslatePromise` – the contract of `api.ts`: a call settles once, and
  `cancelTranslate()` settles the latest.
* `PollClient` – `api.ts` with every `await` a step of its own: posting, reading
  the job id, polling, parsing, waiting for the poll timer. The service behind it
  is `TranslateJobs`, answering each GET with any of what is `Readable`; the network loses a request or a response, a gateway
  refuses, a body is cut, an aborted POST may still reach the service.
* `TranslatorApp` – `App.tsx`. A step is one browser task, with the promise
  continuations it resumes. Handlers read the state of the last render (`shown`),
  so the gap between `setTranslateState` and the render is in the model.
  `requestIdRef` only grows and is only compared for equality, so the model keeps
  the call it belongs to, or `None` when swap or clear took the number away.
* `PollClientProofs`, `TranslatorAppProofs` – the TLAPS proofs about the two.
* `ReportUrl`, `ReportUrlProofs` – the link that reports a translation
  (`buildTranslationReportUrl`), whose two texts are cut to a common number of
  characters found by bisection. Only lengths are in the model: a text is how long
  each of its prefixes is once encoded.

* `ModelRegistry` – `submit_job.py`, `deploy.py`, `promote_model.py`, the buckets
  and model package groups of the accounts, and the endpoints. A script is a shell
  command (`script[s].at` is the call it makes next); several run at once, each
  makes its S3 and registry calls in separate steps, and `Die` may end it before
  any of them. An artifact is the job whose weights it has and the revision of
  `inference.py` packed with them (`Raw` for the output of training); a package
  is what `CreateModelPackage` is given, `card` standing for the BLEU and chrF of
  the model card. `wasApproved` is history. `Host` and `ColdStart` are what
  CloudFormation and SageMaker do with a version number; that a version with the
  training image does not come up is the incident `app-stage.ts` tells of
  version 13. Left out: `--approval-status` (the default, then `Review`), the
  creation of the group, `--dry-run`.
* `ModelRegistryProofs` – the TLAPS proofs about `ModelRegistry`.

* `Texts` – Python's own string operations on a text, which is a sequence of
  characters; "nbsp", "mark", "lookalike", "diaeresis" and "ae" are characters.
  `Alphabet` lists the characters in code-point order, which is what `sorted`
  compares strings by.
* `CorpusPipeline` – `pipeline.py` with `normalize.py`, `dedup.py`,
  `length_filter.py`, `split_integrity.py` and `corpus_io.py`. `files` are the raw
  and the cleaned files of each split, `outcome` what the last command that only
  looks reported.
* `CorpusPipelineProofs` – the TLAPS proofs about it.
* `Vocabulary` – the tokenizer and its extension, as operators: which tokens are
  added and in which order, which of them are marked as starting a word, decoding
  with and without the marks (`_mark_word_boundary_tokens` replaces a method of
  the tokenizer object, and no file keeps that), their reconstruction from a
  corpus, greedy decomposition into known pieces. An embedding row is named by the
  token it was initialised for, which is all that row alignment needs.
* `Evaluation` – the files of hypotheses, references and directions, scores, the
  model card as the sequence of its lines and the searches that read it back. A
  score counts the hypotheses that equal their reference: it tells apart what a
  misplaced, missing or differently decoded sentence does to BLEU and chrF.
* `TrainingLineage` – `run_training_job` stage by stage (`StartTrainingJob`,
  `ExtendVocabularyForExamples`, `FineTuneEpoch`, `SaveModelAndTokenizer`,
  `GenerateBatch`, `WriteModelCard`), each of which may be the last (`JobDies`);
  `AverageCheckpoints`; `EvaluateCheckpoint`; `Serve`. `artifacts` are the model
  directories in the order they were written: what `save_pretrained` keeps
  (vocabulary, rows, weights) and the card. Weights are represented by how they
  spell a translation (`Emission`: as the labels did, or piece by piece with
  whatever pieces the vocabulary has, which generation may do and encoding never
  does) and by the epochs they are the mean of. `past` is history, written and
  never read by a program: the jobs, the corpora and the marked words behind a
  directory.
* `CorpusSignals` – ranks, AUC and k-means over integers.
* `OperatorProofs` – lemmas about the operators of `Texts` and `CorpusSignals`, in
  which no state is involved: induction over a set of numbers, recursive functions
  and folds that exist, sorting by rank, sums in any order, `Kept`, `Words`,
  `Firsts`, texts without some of their characters through joining, splitting and
  stripping (`Without`), that the order of code points is a strict total order of
  texts; ranks as counts, and the rounds of k-means.
* `TrainingWorkbench` – all of it composed, over shared files, and the properties.
* `TrainingWorkbenchProofs` – the TLAPS proofs about it, one lemma per action and
  invariant.

`MC*` modules give constants their values for TLC. Operators named
`<Bug>_<Definition>` are mutants: plausible mistakes in the definition they are
named after, each of which breaks the property its comment or `PROJECT.json`
names. No specification uses them.

## Runs

| Run | Instance | What it shows |
| --- | --- | --- |
| `job_service` | 2 jobs, 2 requests, 1 delivery, 1 attempt of onFailure, ttl 1, Worker timeout 1, clock to 2 | `ResultIsForSubmission`, `LoggedOnlyAfterDecided`, `PendingHasOwner`, `TerminalIsFinal`, that a consistent GET behaves as `TranslateJobs`, and that any other gives one of its `Readable` answers (`ReadsAreAnswers`) |
| `job_liveness` | 1 job, 2 deliveries, 2 attempts, clock to 2 | `AcceptedIsAnswered`, `ResolutionIsLogged` |
| `poll_client` | 2 overlapping calls, 2 failures allowed | `QuietOnceSettled`, `NetworkErrorMeansOutage`, and that the client keeps `TranslatePromise`, its liveness included |
| `translator_app` | 2 calls, 3 texts, 2 clipboard writes | `OneInFlight`, `PageMatchesRequest`, `ShownTranslationIsGenuine`, `CopyFeedbackReverts`, `SpinnerStops` |
| `report_url` | every pair of texts of 0 to 6 characters that encode to 1 or 3 each, a note of 4, a limit of 14 | `ReportIsBuilt` |
| `model_registry` | 2 accounts, 2 jobs, 2 shells, 2 revisions of `inference.py`, 4 commands | `MetadataDescribesArtifact`, `ProvenanceIsTrue`, `EndpointRunsItsVersion`, `TrainingArtifactsAreKept` |
| `training_workbench` | 4 raw corpora, 3 command lines, chains of 2 jobs, 3 model directories, 5 epochs of which 2 are averaged; 24 similarity tables, 781 rows of points in at most 3 rounds, 15 distributions | the seventeen properties of `TrainingWorkbench` and `CorpusPipeline` |

and five runs that end in a counterexample, one per finding below.

Bounds. With ttl 1 and the clock to 2 an item expires in the last tick, is swept,
and is written again by a Worker or an onFailure event that waited; a Worker can
read just before expiry and write after the sweep. Two jobs are enough for one to
take the other's translation, two deliveries for a Worker to race its copy. One
copy behind the table is enough: a reader sees an item or the one before it.
Error codes are handled alike but for 504, the code of the onFailure handler: one
is enough where two jobs interleave, and `job_liveness` takes another beside it.
The second attempt of that handler is in `job_liveness`, and in the proofs.
Two calls of `translate()` are what is needed for a second to overlap or follow a
first; two poll failures show the difference between consecutive and total.
Nothing in the client depends on time but the order in which its timers fire,
and the model lets them fire in any order. Four commands are a submission, a
deployment, its promotion, and one more of any kind beside them or after them;
two revisions of `inference.py` make two deployments of a run differ. In
`report_url` the note is longer than one character of either kind, so the link
gets shorter, and not longer, where a budget reaches the length of a text; and
the limit leaves some pairs whole, cuts one text of others, or both. The proofs
hold for any number of each.

The instance of `training_workbench` has one of each thing that can go wrong with
a corpus: a pair that repeats only after normalisation, one whose lengths fit only
before it or only after it, one with a blank side, a leak under another spelling
and on another line, a file that does not parse; and one of each thing that can
go wrong with a vocabulary: characters the base model lacks, a piece it already
has, pieces that start a word and pieces that do not, a sentence none of whose
words can be spelled. Five epochs are one more than retention keeps and their step
numbers pass from one digit to two. Three directories are a job, a job continued
from it and the average of either, a job continued from an average (which has no
card), or the chain of a model older than the scoping of vocabularies. Two jobs
from the base model side by side would see nothing of each other, so a chain is
started only once.

Fairness. `JobService`: Lambda runs what it queued, so a Worker event is run or
dies, and an onFailure event is run until it succeeds or its retries are used up.
Nothing is assumed of the clock, the sweep, the convergence of copies or a second
delivery. `PollClient`: a
browser timer fires; requests may hang for ever. `TranslatorApp`: promises settle
(what `PollClient` shows), React renders, timers fire. `ReportUrl`: a synchronous
function runs to its end, if it has one.

CHECK_DEADLOCK is off where the system really stops: every job decided and the
clock at its bound, the page unmounted, or all commands used up.

## Proofs

`JobServiceProofs` proves, for every set of jobs and requests, every number of
deliveries and retries and every value of the time constants, under
`AbsentAssumption` (absence is no value), `CodesAssumption` and
`BoundsAssumption`:

* `TypeCorrect`: `Spec => [](TypeOK /\ HoldsResult)`. Types alone are not
  inductive: the write needs to know that a Worker past its translation holds a
  result, and the translation that its input is a request.
* `InvCorrect`: the inductive invariant `IInv`, five parts that need each other:
  `ItemInv` (what an item can look like), `PostInv` (no event exists before its
  POST invoked, an accepted one has its first event), `LocalsInv` (a Worker holds
  the request of its own job), `EventInv` (an onFailure event exists exactly when
  its Worker died) and `DecidedInv` (a handler past its write, and every log
  line, leave the job decided). `DecidedInv` is not preserved by `CreateJob`
  without `PostInv`, nor `PostInv` by `FailureMark` without `EventInv`.
  `InvCorrect` also has `ReplicaInv`: a copy behind the table has no item, an
  expired one, or the item as it was while it was pending (`PendingBefore`), and
  never a request other than the one submitted. Without it `LocalsInv` does not
  survive `WorkerRead`. A terminal write keeps it because it is made only on an
  item that is pending or gone (`WriteKeepsReplicas`);
* from it `ReadsAreAnswersHolds`, `ResultIsForSubmissionHolds`, `LoggedOnlyAfterDecidedHolds`,
  `PendingHasOwnerHolds`, and the action property `TerminalIsFinalHolds`;
* `RefinesTranslateJobsHolds`: every step maps to a step of `TranslateJobs` or to
  a stutter. A terminal write resolves a pending job, revives one that is gone
  (`Revive`), or changes no answer, because the item is decided or expired; a
  tick expires the jobs whose answer it takes away; a sweep changes no answer.

`ModelRegistryProofs` proves, for any environments, jobs, run ids, shells and
bounds, under `TrainingEnvAssumption`, `NoneAssumption` and `BoundsAssumption`:
`TypeCorrect`, `MetadataDescribesArtifactHolds`, `ProvenanceIsTrueHolds`,
`EndpointRunsItsVersionHolds` and `TrainingArtifactsAreKeptHolds`. Their
invariant `Inv` has six parts:

* `TypeOK`;
* `ObjectsOfTheirRun`: an object under a key of a run has the weights of a job of
  that run, so that replacing one by another changes nothing the metadata says;
* `CompletedJobsHaveArtifacts`: a training artifact exists exactly when its job is
  completed, which is why `TrainingEnds` replaces none;
* `PackagesInv`: the object a version points at exists, and its origin is true;
* `ScriptsInv`: the same of what each running script is about to upload or
  register. It is what a crash or another shell between two calls could break,
  and the part that makes the rest inductive;
* `EndpointsInv`.

`Review` and the append of `CreateModelPackage` are the only changes of
`packages`, so every part about versions is carried over by one lemma on how the
registry grows (`GrowsStep`, `CarriesKept`). That the metrics are of the very
weights needs run ids used once (`RunIdsDistinct`): `--run-id` may repeat one,
and the property says so as a premise, not the specification as an assumption.

`PollClientProofs` proves, for any number of overlapping calls and any limit on
failures, under `NoneAssumption`, `PollFailuresAssumption` and
`OutcomesAssumption` (no outcome of a promise is the absence of one): `InvCorrect`,
`QuietOnceSettledHolds`, `NetworkErrorMeansOutageHolds`, and
`KeepsTranslatePromise`, the safety half of `RefinesTranslatePromise`: every step
settles one pending call with an outcome of its own text, or is invisible. `Inv`
is `ClientTypeOK` and, of each call:

* `CalledInv`: a call not made has left no trace, and the current session has not
  settled. It makes `cancelTranslate()` a step of the abstract one;
* `AnswersInv`: what the service answers and the network carries is of the call's
  own text, and only a 200 is parsed. It makes the promise's translation its own;
* `QuietInv`: no timer, and no request that was not aborted, after settling;
* `CountInv`: until it settles, a call's failures are the GETs lost in a row.

Most steps touch one call; `UntouchedKeeps` carries the rest.

`TranslatorAppProofs` proves, for any number of calls, texts and clipboard writes,
under `InputsAssumption` and `OutcomesAssumption`: `TypeCorrect`, `PageCorrect`,
`OneInFlightHolds`, `PageMatchesRequestHolds`, `ShownTranslationIsGenuineHolds`
and `CopyFeedbackRevertsHolds`. Beside the properties, the inductive `PageInv`
has `CallsInv` (a warming timer and a request belong to calls that were made),
`SpinnerShown` (what was last rendered is never behind the start of a call, so
that a click cannot start another) and `DirectionInv` (a call in flight is in the
direction shown, because the swap control is off while the page is busy).

`ReportUrlProofs` proves, for texts of any length and any encoding, under
`TextsAssumption` and `LimitAssumption` (the frame and the two notes fit, as 615
and twice 64 do in 8,096), that the link is within the limit (`ReportFitsHolds`)
and that every round narrows the search (`SearchNarrowsHolds`). The length is not
monotone in the budget, so the argument is only that the lower end always fits.

`TrainingWorkbenchProofs` (with `OperatorProofs` and `CorpusPipelineProofs`, whose
lemmas it cites) proves, for any alphabet, raw corpora, length limits, command
lines, base vocabulary, number of jobs, epochs and tokens, the properties of the
workbench in the table below. Their assumptions are named in the modules that
declare the constants, and TLC evaluates them in `training_workbench`:

* `AlphabetAssumption`: no code point is listed twice;
* `RawCorporaAssumption`, `GlottalMarkAssumption`: a raw file is missing or lines
  of fields of characters, the blank and the apostrophe are characters;
* `CompositionAssumption`: NFC composes neither white space nor apostrophes, and a
  composed letter is no combining mark;
* `TagAssumption`, `BaseVocabAssumption`, `TrainingRunsAssumption`: tags and
  subword pieces are texts, a token has one id, the base model has no tag for
  Kaqchikel (which M2M-100 does not speak), and a subword has at least one
  character beside its marker (`DEFAULT_MIN_SUBWORD_LENGTH` asks for two);
* `NumbersAssumption`: counts are positive, and the length limit leaves room for
  a tag, a token and the end (the default of `--max-length` is 128);
* `AbsentAssumption`: `None` is neither a number nor a scoping;
* `DiagnosticsAssumption`: similarities and rows are integers, k-means makes a
  round (it asserts that it has labels), a distribution is over finitely many
  classes, one of which is possible.

| Theorem | Property |
| --- | --- |
| `CleanedFilesAreSettled` | `CleanedIsSettled` |
| `NothingIsLostInCleaning` | `CleaningLosesNothing` |
| `ValidatedSplitsAreLeakFree` | `ValidatedSplitIsLeakFree` |
| `WorkbenchTypes` | `TypeOK` |
| `ScopingClaimsAreTrue` | `ScopingIsTrue` |
| `LinesAreAligned` | `LinesStayAligned` |
| `AveragesAreOfTheLastEpochs` | `AverageIsOfTheLastEpochs` |
| `ReconstructionsAreExact` | `ReconstructionIsExact` |
| `UnderWarningsNeedAChain` | `UnderWarningNeedsAChain` |
| `TrainingMatchesGeneration` | `TrainedAsGenerated` |
| `CoverageIsExact` | `CoverageIsWhatWasComposed` |
| `RectificationKeepsRanking` | `RectifiedKeepsRanking` |
| `AucCountsPairs` | `AucIsPairwise` |
| `CardsTellTheWholeScore` | `CardTellsTheWholeScore` |
| `ReevaluationsMatch` | `ReevaluationMatches` |
| `ServingKeepsTheLetters` | `ServingDiffersOnlyInSpacing` |
| `DialectSplitIsSettled` | `KmeansSettles` |

The argument has two layers. What the operators compute is settled without any
state: folds and recursive functions exist and have their usual equations
(`FoldExists`, `RecursionExists`), by an induction over a finite set that the
provers can be led through because the set is data and not an operator
(`SetInduction`: a set that has 0, and `n + 1` with every `n`, has all the natural
numbers). From there come, for `CleanedIsSettled`, that
every stage of `NormalizeText` establishes a condition the later ones keep
(`NormalizeIsNormal`) and leaves alone a text that has all of them
(`NormalIsKept`); for `CoverageIsWhatWasComposed`, that counting with a growing
set of pieces and composing with a growing matrix agree token by token in the one
order both take, shortest first (`Counting`, `Composing`, `CountedAreComposed`);
for `AverageIsOfTheLastEpochs`, that sorting by number finds what retention kept
(`ByNumber`); for `AucIsPairwise`, that twice the tie-averaged rank of a value is
one more than the number of values below it and at most it (`RanksFacts`), so that
a sum of ranks counts pairs, row by row (`RankSumCountsPairs`), of which those
within the real group are as many as its square (`SquareOfPairs`). `AucCounts`
has it for groups of any size.

The rest is induction over steps. `CorpusInv` says that a cleaned file is
`CleanPairs` of a file that was readable. `CoreInv` is `CorpusInv` with
`ArtifactsInv` (vocabularies begin with the base one and repeat nothing, rows
cover them, weights are of the last epochs), `JobInv` (the same of the running
job, stage by stage, its corpora still what it read, its added words those of its
own texts) and `CheckpointsInv` (what is on disk is the last epochs by number).
`ArtifactsInv` is not preserved by saving without `JobInv`, nor `JobInv` by a
start without `ArtifactsInv`, nor either by averaging without `CheckpointsInv`.
On top of it stand `CardsInv` (what each card promises of its chain of jobs; its
hard step is a job that continues a directory and claims a scoping only if the
card it read did), `HypothesesInv` (the hypotheses written so far and the batches
still pending cover the validation set once), `FeaturesInv`, `CoverageInv` and
`OutcomeInv` (what a re-evaluation reconstructed is of the words its directory's
chain added).

The score on a card is about everything a job did since its tokenizer was
extended, and its invariant `ScoringInv` follows the marks through it. `MarksInv`:
a job from the base model has the marks its words and its vocabulary give
(`MarksOf`), whatever it has trained or generated. `AnswersInv`: once the model is
saved, each sentence of the validation set is in a batch still to come or its
hypothesis is the translation of the job's tokenizer; its hard step is a batch
written back by place, after a sort by length, and its start that the batches
cover the set (`BatchesFacts`). `ScoresInv`: a card that claims the scoping, of a
chain of one job, has the score of what the directory answers (`Answer`); it is
`WriteModelCard` that turns the second into the third, because nothing is then
pending and the first combined score on a card is the one read back
(`CardScores`). `ScoreCounts` makes the score a count of right sentences, and
`CardTellsTheWholeScore` follows. `ReevaluationMatches` needs of an evaluation the
same that `ScoresInv` says of a card (`RescoredInv`), that its marks are the words
of the job (`ReconstructionIsExact`), and that the marks it lacks change nothing:
runs of words start at the same tokens under two sets of marks that agree on the
tokens of the sentence (`SameRuns`), provided either set has a member at all,
without which nothing is joined by blanks (`DecodedAlike`); the tag of Kaqchikel
is always one (`TagIsMarked`).

`ServingDiffersOnlyInSpacing` compares two decodings that share only their tokens:
the container has lost the marks of the words that were added. Whatever the marks,
decoding joins the tokens' letters in order and adds blanks (`NativeLetters`,
`WordRunsLetters`, `DecodedLetters`; `Without(text, Out)` is a text without the
characters `Out`). The forced tag is the first token. If it is not a special token
it is decoded, both decodings begin with it and both lose it (`DecodedBegins`,
`TagTakenOff`); if it is, it is skipped, and nothing else that is generated has
the underscores of a tag (`ServedAlike`). That step needs the property's premise,
a reference without an underscore, the character of tags: for the reference
`__ es__` a vocabulary that has both words and a special tag `__es__` generates
two words which one of the decodings glues to the tag, and takes off.

`KmeansSettles` is of rows that are numbers, where a cluster is what lies on one
side of a point half way between two centroids (`NearerIsBeyond`; g is 1 or -1, the
side the second centroid is on). The seeds split rows that differ, the means of a
split split the rows again the same way (`MeansAhead`, `SplitsAgain`), since a
mean is on no side of all its rows (`MeanIsBetween`): no cluster is ever emptied.
A step that moves rows to the first cluster pulls neither mean the other way
(`LeavingTheLess`, `HalfWayMoves`), so the next takes none back
(`StepIsMonotone`), and as splits the same way are nested, rows move in one
direction only, one at least in every round that does not settle (`IsMoving`): a
round less than there are rows is enough. Where all rows are the same, all are in
the first cluster and stay there (`SameRowsSettle`).

`DiagnosedInv` says of the diagnostics that what was reported is what their
operators compute, `ServedInv` of the container that an answer is what the
directory made of the request. TLC checked each of these invariants on the
instance of `training_workbench` before it was proved.

Only model-checked: liveness (`AcceptedIsAnswered`, `ResolutionIsLogged`,
`SpinnerStops`, `ReportIsBuilt`, the settling of promises), which needs fairness
and is out of the prover's reach. Every invariant and every action property of a
passing run is proved. Two say less than their names for a reason worth keeping in
mind: `CardTellsTheWholeScore` is of jobs from the base model (see below), and
`KmeansSettles` promises a settled split only where `max_iterations` is no smaller
than the number of rows but one, because the code stops there in any case, and of
rows in one dimension; the n-gram vectors of the code have many, where the
argument that rows move one way only does not hold.

## Findings

1. `job_self_expire`: the conditional update accepts an item that does not exist,
   so a terminal write after the sweep creates one with no `ttl`. It never
   expires, GET answers 500, and a translation stays for good. The onFailure
   handler, having done just that, reads the record back and raises `KeyError`,
   which its comment says never happens.
2. `stale_read`: `get_item` is called without `ConsistentRead` right after the
   item was put. A Worker that reads a copy the put has not reached takes the job
   for expired and returns normally, which is no failure to Lambda: nobody decides
   the job, and it stays pending until its ttl.
3. `client_keeps_polling`: a GET whose body is lost stops the poll loop, and the
   call hangs until its overall timeout.
4. `model_registry_rollback`: a second promotion of the same run replaces the
   artifact of the first, so the rollback of the runbook brings back a version
   number and not the model that had it.
5. `training_warm_rows`: the base model's embedding matrix is longer than its
   vocabulary, and rows for new tokens are appended behind the padding, while
   their ids begin before it. Every new id points at a padding row or at the row
   initialised for another token.

Behaviour the model has and the properties state as it is, worth knowing:

* The first GET of a client follows its POST at once, and may read a copy without
  the item: it is answered 404, which the client reports as an expired job.
* A Worker killed after its log line is followed by a 504 line for the same job,
  also for one that succeeded.
* Reintentar sends whatever text stands in the box, also one Traducir refuses; the
  service answers 422.
* The search for the longest report that fits takes the length of the link to
  grow with the budget. A text that is no longer cut loses its note, so a larger
  budget may fit where a smaller one does not: 1,058 accented letters that would
  go whole are cut to 1,050.
* An added piece that starts a word is decoded with its marker left in by a
  tokenizer that was loaded again, because `_mark_word_boundary_tokens` takes the
  marker off marked tokens only, and reconstruction marks whole words only
  (`ReevaluationMatches` excepts it; encoding never selects such a piece,
  generation may).
* The under-reconstruction warning of a re-evaluation cannot be given for a
  checkpoint trained from the base model, however badly the corpus fits, and can
  be given falsely for a chain of jobs: the card counts the tokens of the last
  job, the check those of all of them (`UnderWarningNeedsAChain`).
* A continued job, and the inference container, have no marks for the words an
  earlier job added, and decode them glued to the word before. That is why
  `CardTellsTheWholeScore` computes the score of jobs from the base model only,
  and why `ServingDiffersOnlyInSpacing` is all that can be said of serving.
* An averaged checkpoint has no card beside it: a re-evaluation takes it for a
  model of before the scoping, and a job continued from it makes no claim.

## Not modelled, and why

The message texts, labels, layout, focus and caret (wording and layout); the
WAF rule, alarms, IAM and the CloudFormation stacks (declarative); BLEU and chrF
(sacrebleu's), the optimizer, SentencePiece training, the sentence encoder and the
arithmetic of embedding rows and averaged tensors (numeric, and external but for
the mean); the parsing of command lines; the glued-word scan and the n-gram
counts (functions of one text without state). Generation is not cut at its length
limit. SentencePiece's own encoder is taken to prefer the longest piece, and an
added token to match a whole word only. DynamoDB, Lambda, the network, the
Transformers library and Python's strings are modelled from how the code uses
them and marked external.

## Plan

1. `TranslateSystem`: the clock of `JobService` with the poll interval and the
   timeout of `PollClient`, for ADR 0008's margin of 120 s over 90 s: a job the
   Worker decides in time is seen by its client if posting, the wait in Lambda's
   queue, one poll interval and the polls that fail in a row fit in the 30 s
   between. Nothing in the code bounds the wait in the queue, so the property has
   it as a premise.
