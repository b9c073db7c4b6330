----------------------------- MODULE Evaluation -----------------------------
(***************************************************************************)
(* Scoring (ml/evaluation: run.py, metrics.py, model_card.py,               *)
(* length_bias.py), as operators on values.                                 *)
(*                                                                         *)
(* A text file is the sequence of its lines.  A score keeps of BLEU and     *)
(* chrF what the properties tell apart: how many hypotheses equal their     *)
(* reference, of how many sentences.  A model card is the sequence of its   *)
(* "- **key**: value" lines, in the order they are rendered, because it is  *)
(* read back with a search for the first line that matches.                 *)
(***************************************************************************)
EXTENDS Texts

CONSTANT Absent     \* what a search that finds nothing returns

\* path.write_text("\n".join(texts) + "\n"): no texts at all still make a line.
WriteLines(texts) == IF texts = << >> THEN << << >> >> ELSE texts

\* Mutant: blank lines are skipped, as read_tsv_pairs does.
SkipsBlank_ReadLines(file) ==
    SelectSeq([i \in DOMAIN file |-> Strip(file[i])], LAMBDA line : line # << >>)

\* _read_lines: a blank line is an empty hypothesis and keeps its place.
ReadLines(file) == [i \in DOMAIN file |-> Strip(file[i])]

\* compute_metrics raises ValueError when the lengths differ.
ComputeMetrics(hypotheses, references) ==
    [matches |-> Cardinality({ i \in DOMAIN references : hypotheses[i] = references[i] }),
     total   |-> Len(references)]

\* compute_metrics_by_direction: one score per direction, in order of first
\* appearance, over the sentences of that direction.
ComputeMetricsByDirection(hypotheses, references, directions) ==
    LET order == Firsts(directions)
        Bucket(texts, direction) ==
            LET at == SortedBy({ i \in DOMAIN texts : directions[i] = direction }, <)
            IN  [k \in DOMAIN at |-> texts[at[k]]]
    IN  [k \in DOMAIN order |->
            << order[k], ComputeMetrics(Bucket(hypotheses, order[k]),
                                        Bucket(references, order[k])) >>]

-----------------------------------------------------------------------------
(* The model card                                                            *)

\* Mutant: the scores of each direction come before the combined one.
DirectionsFirst_RenderModelCard(hyperparameters, metrics, byDirection) ==
    hyperparameters
        \o [k \in DOMAIN byDirection |-> << "BLEU", byDirection[k][2] >>]
        \o << << "BLEU", metrics >> >>

RenderModelCard(hyperparameters, metrics, byDirection) ==
    hyperparameters
        \o << << "BLEU", metrics >> >>
        \o [k \in DOMAIN byDirection |-> << "BLEU", byDirection[k][2] >>]

\* re.search for the line of a key: the first one, or none.
FirstLine(card, key) ==
    LET at == SelectInSeq(card, LAMBDA line : line[1] = key)
    IN  IF at = 0 THEN Absent ELSE card[at][2]

ParseModelCardMetrics(card) == FirstLine(card, "BLEU")

\* run_evaluation: the three files are read back, scored and rendered.
ScoresFiles(predictions, references, directions) ==
    /\ Len(ReadLines(predictions)) = Len(ReadLines(references))
    /\ Len(ReadLines(directions)) = Len(ReadLines(references))

RunEvaluation(predictions, references, directions, hyperparameters) ==
    LET hyp == ReadLines(predictions)
        ref == ReadLines(references)
    IN  RenderModelCard(hyperparameters, ComputeMetrics(hyp, ref),
                        ComputeMetricsByDirection(hyp, ref, ReadLines(directions)))

-----------------------------------------------------------------------------
(* Length-bias rectification (Eq. 4), on probabilities that are multiples of *)
(* a common unit; the result is given as weights over their sum.             *)

\* Mutant: without the fallback for a delta that leaves nothing.
NoFallback_RectifyProbabilities(probs, delta) ==
    [i \in DOMAIN probs |-> Max({probs[i] - delta, 0})]

RectifyProbabilities(probs, delta) ==
    LET rectified == [i \in DOMAIN probs |-> Max({probs[i] - delta, 0})]
    IN  IF SumFunction(rectified) = 0 THEN probs ELSE rectified
=============================================================================
