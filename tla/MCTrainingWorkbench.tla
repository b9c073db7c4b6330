------------------------- MODULE MCTrainingWorkbench -------------------------
(***************************************************************************)
(* A small instance of the workbench for TLC: an alphabet of fifteen        *)
(* characters, corpora of two or three sentence pairs and one of each thing *)
(* that can be wrong with a raw file.                                       *)
(***************************************************************************)
EXTENDS TrainingWorkbench

MCAlphabet == << " ", "'", "_", "a", "c", "e", "k", "o", "s", "x",
                 "nbsp", "ae", "lookalike", "diaeresis", "mark" >>

\* "'" and the composed "ae" are missing from the base vocabulary, as the
\* glottal mark and the extra vowels of Kaqchikel are.
MCBaseVocab ==
    << << "</s>" >>, << "_", "_", "e", "s", "_", "_" >>,
       << "_" >>, << "a" >>, << "c" >>, << "e" >>, << "k" >>, << "o" >>, << "s" >>,
       << "mark", "a" >>, << "mark", "c" >>, << "mark", "e" >>, << "mark", "k" >>,
       << "mark", "o" >>, << "mark", "s" >>, << "mark", "c", "a" >>, << "s", "a" >> >>

MCSpecialTokens == { << "</s>" >>, << "_", "_", "e", "s", "_", "_" >> }

MCComposition == << "a", "diaeresis" >> :> "ae"

casa == << "c", "a", "s", "a" >>
sea == << "s", "e", "a" >>
kak == << "k", "'", "a", "k" >>
kao == << "k", "a", "o" >>
kae == << "k", "'", "ae" >>

\* Two pairs, one of them a second time behind white space, the look-alike of
\* the glottal mark and a decomposed vowel.
TrainRows ==
    << << casa, kak >>,
       << sea, kao \o << "nbsp", "k", "lookalike", "a", "diaeresis" >> >>,
       << << " " >> >>,
       << << "c", "a", "s", "a", " " >>, << "k", "lookalike", "a", "k" >> >> >>

ValidationRows ==
    << << << "s", "a" >>, kao \o << " " >> \o kak >>,
       << << "x" >>, kae >>,
       << sea \o << " ", " " >> \o casa, kak \o << " " >> \o kao >> >>

\* The second training pair, spelled otherwise and in another place.
LeakedRows == << << casa \o << " " >> \o casa, kak \o << " " >> \o kae >>,
                 << casa, kao >>, << casa, << "k" >> \o Tail(kak) >>,
                 << << "nbsp" >> \o sea, kao \o << " " >> \o kae >> >>

\* A pair too long for its other side, one with a blank side, one whose lengths
\* only fit once its white space is collapsed, one whose lengths fit no longer
\* once its vowel is composed, and a repeat.
OddRows == << << casa \o casa \o casa, << "k", "a", "diaeresis" >> >>,
              << casa \o casa, << "k" >> >>, << << " " >>, << "nbsp", "k" >> >>,
              << << "k", " ", " ", " ", " ", " ", "k" >>, << "o" >> >>,
              << casa, kao >>, << casa, kao >> >>

BadRows == << << casa, kao, kak >> >>

Plain == [train |-> TrainRows, validation |-> ValidationRows]

MCRawCorpora ==
    { Plain, [train |-> TrainRows, validation |-> LeakedRows],
      [train |-> OddRows, validation |-> << >>],
      [train |-> BadRows, validation |-> ValidationRows] }

MCTrainingCorpora == { Plain }

\* Both kinds of weights, of corpora, of strategies and of pieces.
MCTrainingRuns ==
    { [corpus |-> "clean", direction |-> "both", strategy |-> "compositional",
       sampling |-> FALSE, spelling |-> "words",
       pieces |-> << << "a", "k" >>, << "k" >>, << "s", "a" >>,
                   << "mark", "k", "a" >> >>],
      [corpus |-> "clean", direction |-> "both", strategy |-> "compositional",
       sampling |-> FALSE, spelling |-> "pieces",
       pieces |-> << << "'", "ae" >>, << "a", "o" >>, << "k", "a" >> >>],
      [corpus |-> "raw", direction |-> "es->cak", strategy |-> "mean",
       sampling |-> TRUE, spelling |-> "pieces",
       pieces |-> << << "'", "ae" >>, << "a", "o" >>, << "mark", "o" >> >>] }

MCSimilarities == { [p \in (1 .. 3) \X (1 .. 3) |->
                        ((p[1] * p[2] + a * p[1] + b * p[2]) % 4)] : a \in 0 .. 2, b \in 0 .. 3 }
MCPointSets == UNION { [1 .. n -> 0 .. 4] : n \in 0 .. 4 }
MCDistributions == { p \in [1 .. 3 -> 0 .. 4] : p[1] + p[2] + p[3] = 4 }
=============================================================================
