----------------------------- MODULE Vocabulary -----------------------------
(***************************************************************************)
(* The tokenizer and its extension (ml/training: vocab_gap.py,              *)
(* vocab_extension.py, subword_vocab.py, tokenizer_extension.py and the     *)
(* direction tags of direction.py), as operators on values.                 *)
(*                                                                         *)
(* A token is a sequence of characters; one that starts a word in the way   *)
(* of SentencePiece starts with the character "mark".  A tokenizer is       *)
(*   [vocab |-> the sequence of its tokens, by id,                          *)
(*    marks |-> the tokens its decoder was told start a word].              *)
(* vocab is what save_pretrained writes; marks live in the process that     *)
(* made them.  A model's embedding matrix is the sequence of its rows, and  *)
(* a row is named by the token it was initialised for: << >> is a padding   *)
(* row, initialised for none.                                               *)
(***************************************************************************)
EXTENDS Texts

CONSTANTS
    BaseVocab,          \* the base model's tokens, by id
    Padding,            \* rows of its embedding matrix beyond its vocabulary
    SpecialTokens,      \* the tokens skip_special_tokens leaves out
    MinSubwordLength

Langs == {"es", "cak"}
Marker == "mark"

\* direction.py: the tag of each target language, and the two together.
DirectionTag ==
    [es  |-> << "_", "_", "e", "s", "_", "_" >>,
     cak |-> << "_", "_", "c", "a", "k", "_", "_" >>]
DirectionTags == { DirectionTag[lang] : lang \in Langs }

ASSUME TagAssumption == DirectionTags \subseteq Seq(Characters)

\* The ids of the base vocabulary are those of its tokens; Kaqchikel is not a
\* language of the base model, so its tag is not among them.  A subword has at
\* least one character beside its marker (the default asks for two).
ASSUME BaseVocabAssumption ==
    /\ BaseVocab \in Seq(ToSet(BaseVocab)) /\ IsInjective(BaseVocab)
    /\ DirectionTag.cak \notin ToSet(BaseVocab)
    /\ Padding \in Nat /\ MinSubwordLength \in Nat \ {0}

TagSourceText(text, lang) == DirectionTag[lang] \o << " " >> \o text

\* The forced first token is an ordinary added one for Kaqchikel, so it stays
\* in the decoded text and is taken off here.
StripLeadingDirectionTag(text, lang) ==
    LET rest == WithoutPrefix(text, DirectionTag[lang])
    IN  IF rest = text THEN text ELSE Strip(rest)

-----------------------------------------------------------------------------
(* vocab_gap.py and select_new_tokens                                        *)

FindMissingCharacters(texts, known) ==
    { << c >> : c \in { d \in UNION { ToSet(text) : text \in texts } : d \notin Spaces } }
        \ known

FindMissingWords(texts, known) ==
    (UNION { ToSet(Words(text)) : text \in texts }) \ known

\* Mutant: what the tokenizer already has is added again.
AnyCandidate_SelectNewTokens(candidates, vocab) == SortedBy(candidates, Precedes)

SelectNewTokens(candidates, vocab) == SortedBy(candidates \ ToSet(vocab), Precedes)

ComputeNewTokensForTexts(texts, vocab) ==
    SelectNewTokens(FindMissingCharacters(texts, ToSet(vocab))
                        \cup FindMissingWords(texts, ToSet(vocab)), vocab)

SelectWholeWordTokens(tokens) == { token \in ToSet(tokens) : Len(token) > 1 }

-----------------------------------------------------------------------------
(* subword_vocab.py and tokenizer_extension.py: growing the tokenizer        *)

\* SentencePiece's own special pieces are not candidates, nor is a piece of
\* one character beside its marker.
SelectHighValueSubwords(pieces) ==
    { piece \in ToSet(pieces) :
        Len(WithoutPrefix(piece, << Marker >>)) >= MinSubwordLength }

ComputeNewSubwordTokens(pieces, vocab) ==
    SelectNewTokens(SelectHighValueSubwords(pieces), vocab)

StartsWord(token) == IsPrefix(<< Marker >>, token)

\* Mutant: every new token, a missing character too, is told to start a word.
MarksAll_ExtendTokenizerVocab(tokenizer, texts) ==
    LET new == ComputeNewTokensForTexts(texts, tokenizer.vocab)
    IN  [vocab |-> tokenizer.vocab \o new, marks |-> tokenizer.marks \cup ToSet(new)]

\* Whole words and missing characters; only the words start a word.
ExtendTokenizerVocab(tokenizer, texts) ==
    LET new == ComputeNewTokensForTexts(texts, tokenizer.vocab)
    IN  [vocab |-> tokenizer.vocab \o new,
         marks |-> tokenizer.marks \cup SelectWholeWordTokens(new)]

\* Subword pieces; only those that carry the marker start a word.
ExtendTokenizerVocabWithSubwords(tokenizer, pieces) ==
    LET new == ComputeNewSubwordTokens(pieces, tokenizer.vocab)
    IN  [vocab |-> tokenizer.vocab \o new,
         marks |-> tokenizer.marks \cup { token \in ToSet(new) : StartsWord(token) }]

\* What a checkpoint's whole words must have been, from the base vocabulary and
\* the training texts alone.
ReconstructWholeWordBoundaryTokens(texts) ==
    SelectWholeWordTokens(ComputeNewTokensForTexts(texts, BaseVocab))

-----------------------------------------------------------------------------
(* Decoding (_mark_word_boundary_tokens)                                     *)

\* SentencePiece's decoder: the marker of a piece of its own is a blank, a
\* token it never registered is copied as it is, nothing separates tokens.
NativeDecode(tokens) ==
    LET Surface(token) ==
            IF StartsWord(token) /\ Contains(BaseVocab, token)
            THEN << " " >> \o Tail(token) ELSE token
    IN  Strip(FlattenSeq([i \in DOMAIN tokens |-> Surface(tokens[i])]))

\* The tokens cut into runs: a run starts at a marked token, or at one that
\* carries the marker itself.
WordRuns(marks, tokens) ==
    LET Put(runs, token) ==
            IF runs = << >> \/ token \in marks \/ StartsWord(token)
            THEN Append(runs, << token >>)
            ELSE Append(Front(runs), Append(Last(runs), token))
    IN  FoldLeft(Put, << >>, tokens)

\* The wrapper is there only once something was marked.  It takes the marker
\* off a run's first token when that token is a marked one, and no other.
ConvertTokensToString(marks, tokens) ==
    LET Text(run) ==
            IF Head(run) \in marks
            THEN NativeDecode(<< WithoutPrefix(Head(run), << Marker >>) >> \o Tail(run))
            ELSE NativeDecode(run)
        runs == WordRuns(marks, tokens)
        parts == [i \in DOMAIN runs |-> Text(runs[i])]
    IN  IF marks = {} THEN NativeDecode(tokens)
        ELSE Strip(Joined(Kept(parts, { i \in DOMAIN parts : parts[i] # << >> })))

BatchDecode(tokenizer, tokens) ==
    ConvertTokensToString(tokenizer.marks,
                          Kept(tokens, { i \in DOMAIN tokens : tokens[i] \notin SpecialTokens }))

-----------------------------------------------------------------------------
(* Embedding rows (vocab_extension.py, resize_embeddings_for_new_tokens)     *)

BaseRows == BaseVocab \o [i \in 1 .. Padding |-> << >>]

\* The rows are appended to the matrix, whatever the size of the vocabulary.
ResizeEmbeddingsForNewTokens(rows, added) == rows \o added

NoPieces == << >>

\* Greedy, longest match first; NoPieces when some character is in no token.
DecomposeTokenIntoKnownPieces(token, known) ==
    LET Ends(pos) == { end \in pos .. Len(token) : SubSeq(token, pos, end) \in known }
        Take(state) ==
            IF state.pos > Len(token) \/ state.stuck THEN state
            ELSE IF Ends(state.pos) = {} THEN [state EXCEPT !.stuck = TRUE]
            ELSE LET end == Max(Ends(state.pos))
                 IN  [state EXCEPT !.pos = end + 1,
                                   !.pieces = Append(@, SubSeq(token, state.pos, end))]
        steps[n \in 0 .. Len(token)] ==
            IF n = 0 THEN [pos |-> 1, pieces |-> << >>, stuck |-> FALSE]
            ELSE Take(steps[n - 1])
        done == steps[Len(token)]
    IN  IF done.stuck THEN NoPieces ELSE done.pieces

\* The order in which rows are composed: shorter tokens first.
ShortestFirst(tokens) ==
    SortedBy(DOMAIN tokens, LAMBDA i, j :
        Len(tokens[i]) < Len(tokens[j]) \/ (Len(tokens[i]) = Len(tokens[j]) /\ i < j))

\* Mutant: the tokens are counted in the order they were added.
AsAdded_CountDecomposableTokens(tokens, vocab) ==
    LET Count(state, token) ==
            [count |-> state.count +
                (IF DecomposeTokenIntoKnownPieces(token, state.known) # NoPieces
                 THEN 1 ELSE 0),
             known |-> state.known \cup {token}]
    IN  FoldLeft(Count, [count |-> 0, known |-> ToSet(vocab)], tokens).count

\* The model card's count: a token whose row was composed is itself a piece
\* for a longer one, and so is a token whose row was not.
CountDecomposableTokens(tokens, vocab) ==
    LET Count(state, i) ==
            [count |-> state.count +
                (IF DecomposeTokenIntoKnownPieces(tokens[i], state.known) # NoPieces
                 THEN 1 ELSE 0),
             known |-> state.known \cup {tokens[i]}]
    IN  FoldLeft(Count, [count |-> 0, known |-> ToSet(vocab)], ShortestFirst(tokens)).count

\* resize_embedding_matrix_compositional: for each added token the pieces its
\* row is the mean of; NoPieces stands for the mean of the whole matrix.
ComposedRows(tokens, vocab) ==
    LET Compose(state, i) ==
            [rows  |-> [state.rows EXCEPT ![i] =
                            DecomposeTokenIntoKnownPieces(tokens[i], state.known)],
             known |-> state.known \cup {tokens[i]}]
        start == [rows |-> [i \in DOMAIN tokens |-> NoPieces], known |-> ToSet(vocab)]
    IN  FoldLeft(Compose, start, ShortestFirst(tokens)).rows
=============================================================================
