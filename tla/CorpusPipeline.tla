--------------------------- MODULE CorpusPipeline ---------------------------
(***************************************************************************)
(* The corpus pipeline (ml/data): `pipeline clean` turns a raw TSV corpus   *)
(* into a normalised, deduplicated, length-filtered one, and `pipeline      *)
(* validate-split` looks for sentence pairs that leaked from training into  *)
(* validation.  Both are commands an operator runs, in any order, on the    *)
(* raw or on the cleaned files.                                             *)
(*                                                                         *)
(* A file is a sequence of lines, a line the sequence of its tab-separated  *)
(* fields, a field a text.  A text is spelled character by character,       *)
(* because what the pipeline promises is about characters: a letter and its *)
(* combining accent, an apostrophe and its look-alike, white space.         *)
(***************************************************************************)
EXTENDS Texts

CONSTANTS
    RawCorpora,     \* the raw files an operator may start from: [Splits -> file]
    MinLength, MaxLength, MaxRatio,     \* LengthFilterConfig
    Composition,    \* NFC: << letter, combining mark >> |-> composed letter
    NotWritten      \* a file that does not exist

Splits == {"train", "validation"}

\* A raw file is missing or a sequence of lines of fields of characters; nothing
\* is assumed of what is in them.
ASSUME RawCorporaAssumption ==
    RawCorpora \subseteq [Splits -> Seq(Seq(Seq(Characters))) \cup {NotWritten}]

\* The characters normalisation puts in a text.
ASSUME GlottalMarkAssumption == {" ", "'"} \subseteq Characters

\* NFC composes two characters into one, none of them white space or an
\* apostrophe, and a composed letter is not itself a combining mark.
ASSUME CompositionAssumption ==
    \A p \in DOMAIN Composition :
        /\ {p[1], p[2]} \cap (Spaces \cup {"'"}) = {}
        /\ Composition[p] \in Characters
        /\ \A q \in DOMAIN Composition : Composition[p] # q[2]

Stages == {"raw", "clean"}

VARIABLES
    files,      \* [stage -> [split -> file]]
    outcome     \* what the last command that only looks at files reported

-----------------------------------------------------------------------------
(* Normalisation, dedup.py and length_filter.py                              *)

\* unicodedata.normalize("NFC", text): a mark joins the letter before it.
WithMark(text, c) ==
    IF text # << >> /\ << Last(text), c >> \in DOMAIN Composition
    THEN Append(Front(text), Composition[<< Last(text), c >>])
    ELSE Append(text, c)

Composed(text) ==
    LET done[n \in 0 .. Len(text)] ==
            IF n = 0 THEN << >> ELSE WithMark(done[n - 1], text[n])
    IN  done[Len(text)]

\* One look-alike of the glottal mark is unified; every other one is kept.
NormalizeGlottalMarks(text) ==
    [i \in DOMAIN text |-> IF text[i] = "lookalike" THEN "'" ELSE text[i]]

\* Each run of white space becomes one blank.
CollapseWhitespace(text) ==
    LET one == Kept(text, { i \in DOMAIN text :
                              i > 1 /\ text[i] \in Spaces => text[i - 1] \notin Spaces })
    IN  [k \in DOMAIN one |-> IF one[k] \in Spaces THEN " " ELSE one[k]]

NormalizeText(text) ==
    Strip(CollapseWhitespace(NormalizeGlottalMarks(Composed(text))))

NormalizePair(pair) == << NormalizeText(pair[1]), NormalizeText(pair[2]) >>

DeduplicatePairs(pairs) == Firsts(pairs)

\* Lengths are those of the stripped sides; the ratio is of the longer one to
\* the shorter one, in either direction.
IsValidLength(pair) ==
    LET es == Len(Strip(pair[1]))
        cak == Len(Strip(pair[2]))
    IN  /\ es # 0 /\ cak # 0
        /\ es >= MinLength /\ cak >= MinLength
        /\ es =< MaxLength /\ cak =< MaxLength
        /\ Max({es, cak}) =< MaxRatio * Min({es, cak})

FilterPairsByLength(pairs) ==
    Kept(pairs, { i \in DOMAIN pairs : IsValidLength(pairs[i]) })

\* Mutant: deduplicated before it is normalised.
EarlyDedup_CleanPairs(pairs) ==
    LET once == DeduplicatePairs(pairs)
    IN  FilterPairsByLength([i \in DOMAIN once |-> NormalizePair(once[i])])

\* Mutant: filtered by the lengths of the raw text.
RawLengths_CleanPairs(pairs) ==
    LET kept == FilterPairsByLength(pairs)
    IN  DeduplicatePairs([i \in DOMAIN kept |-> NormalizePair(kept[i])])

CleanPairs(pairs) ==
    FilterPairsByLength(DeduplicatePairs([i \in DOMAIN pairs |-> NormalizePair(pairs[i])]))

-----------------------------------------------------------------------------
(* corpus_io.py: files and pairs                                             *)

IsBlankLine(line) == \A i \in DOMAIN line : Strip(line[i]) = << >>

ContentLines(file) == Kept(file, { i \in DOMAIN file : ~IsBlankLine(file[i]) })

\* read_tsv_pairs raises ValueError for a line that is neither blank nor of two
\* fields; otherwise it returns the lines that are not blank.
IsWellFormed(file) == \A i \in DOMAIN file : IsBlankLine(file[i]) \/ Len(file[i]) = 2

ReadTsvPairs(file) == ContentLines(file)

WriteTsvPairs(pairs) == pairs

IsReadable(stage, split) ==
    files[stage][split] # NotWritten /\ IsWellFormed(files[stage][split])

PairsOf(stage, split) == ReadTsvPairs(files[stage][split])

-----------------------------------------------------------------------------
(* split_integrity.py                                                        *)

\* Mutant: the two files are compared line by line.
SameLine_ExactPairOverlap(train, validation) ==
    Firsts(Kept(validation, { i \in DOMAIN train \cap DOMAIN validation :
                                train[i] = validation[i] }))

ExactPairOverlap(train, validation) ==
    Firsts(Kept(validation, { i \in DOMAIN validation : validation[i] \in ToSet(train) }))

\* The texts of one side of validation that training also has on that side.
SideOverlap(train, validation, side) ==
    LET texts == { train[i][side] : i \in DOMAIN train }
        shared == { i \in DOMAIN validation : validation[i][side] \in texts }
    IN  Firsts(Kept([i \in DOMAIN validation |-> validation[i][side]], shared))

ValidateSplitIntegrity(train, validation) ==
    [exact  |-> ExactPairOverlap(train, validation),
     source |-> SideOverlap(train, validation, 1),
     target |-> SideOverlap(train, validation, 2)]

\* Nothing has been reported since the last change of any file.  A command that
\* only looks at files starts from there: it would see the same after another.
NothingYet == [kind |-> "nothing"]

-----------------------------------------------------------------------------
(* The two commands                                                          *)

CorpusInit ==
    /\ \E raw \in RawCorpora :
           files = [raw |-> raw, clean |-> [split \in Splits |-> NotWritten]]
    /\ outcome = NothingYet

\* `pipeline clean`: nothing is written when the raw file does not parse.
CleanCorpusFile(split) ==
    /\ IsReadable("raw", split)
    /\ files' = [files EXCEPT !["clean"][split] =
                    WriteTsvPairs(CleanPairs(PairsOf("raw", split)))]
    /\ outcome' = NothingYet

\* `pipeline validate-split`, on two files of the same stage.
ValidateSplitFiles(stage) ==
    /\ outcome = NothingYet
    /\ \A split \in Splits : IsReadable(stage, split)
    /\ outcome' = [kind |-> "leaks", stage |-> stage,
                   overlap |-> ValidateSplitIntegrity(PairsOf(stage, "train"),
                                                      PairsOf(stage, "validation"))]
    /\ UNCHANGED files

CorpusNext ==
    \/ \E split \in Splits : CleanCorpusFile(split)
    \/ \E stage \in Stages : ValidateSplitFiles(stage)

-----------------------------------------------------------------------------
(* What the pipeline promises                                                *)

Written(split) == files["clean"][split] # NotWritten

\* A cleaned file is settled: reading it back and cleaning it again, as the
\* next release of the corpus does, gives the same pairs in the same order.
\* It needs normalisation to be idempotent, the duplicates to be looked for
\* and the lengths measured on the normalised text, and no cleaned pair to be
\* lost or split by the file format.
CleanedIsSettled ==
    \A split \in Splits : Written(split) =>
        /\ IsReadable("clean", split)
        /\ CleanPairs(PairsOf("clean", split)) = PairsOf("clean", split)

\* Cleaning loses no sentence pair and invents none: the cleaned file holds,
\* once, the normal form of every raw pair whose normal form has valid lengths.
CleaningLosesNothing ==
    \A split \in Splits : Written(split) =>
        LET raw == ToSet(PairsOf("raw", split))
            clean == PairsOf("clean", split)
        IN  /\ ToSet(clean) = { pair \in { NormalizePair(p) : p \in raw } :
                                    IsValidLength(pair) }
            /\ Cardinality(ToSet(clean)) = Len(clean)

\* A split whose cleaned files were found free of leaks has none that white
\* space, a decomposed accent or the look-alike could hide: no raw training
\* pair that survives cleaning reads the same as a raw validation pair.  (The
\* same verdict on the raw files promises nothing of the kind.)
ValidatedSplitIsLeakFree ==
    (outcome.kind = "leaks" /\ outcome.stage = "clean" /\ outcome.overlap.exact = << >>) =>
        \A p \in ToSet(PairsOf("raw", "train")),
           q \in ToSet(PairsOf("raw", "validation")) :
            NormalizePair(p) = NormalizePair(q) => ~IsValidLength(NormalizePair(p))
=============================================================================
