-------------------------------- MODULE Texts --------------------------------
(***************************************************************************)
(* Text as the corpus, training and evaluation code of ml/ sees it: a       *)
(* sequence of characters, of which some are white space.  Only Python's    *)
(* own operations are here (str.split, str.join, str.strip, sorted, list    *)
(* comprehensions); everything the repository itself does to a text is in   *)
(* the modules that extend this one.                                        *)
(***************************************************************************)
EXTENDS Integers, Sequences, SequencesExt, FiniteSetsExt

CONSTANT Alphabet       \* the characters in code-point order

Characters == ToSet(Alphabet)

ASSUME AlphabetAssumption == Alphabet \in Seq(Characters) /\ IsInjective(Alphabet)

\* ord(c)
CodePoint == [c \in Characters |-> CHOOSE i \in DOMAIN Alphabet : Alphabet[i] = c]

\* a < b, of two strings: the order of code points.
Precedes(a, b) ==
    LET differ == { i \in 1 .. Min({Len(a), Len(b)}) : a[i] # b[i] }
    IN  IF differ = {} THEN Len(a) < Len(b)
        ELSE CodePoint[a[Min(differ)]] < CodePoint[b[Min(differ)]]

\* The characters str.isspace() accepts: an ASCII blank and another one.
Spaces == {" ", "nbsp"}

\* text.strip()
Strip(text) ==
    LET ink == { i \in DOMAIN text : text[i] \notin Spaces }
    IN  IF ink = {} THEN << >> ELSE SubSeq(text, Min(ink), Max(ink))

\* sorted(S): each element after those that come before it.
SortedBy(S, Before(_, _)) ==
    LET ranked == { << x, Cardinality({ y \in S : Before(y, x) }) >> : x \in S }
    IN  [k \in 1 .. Cardinality(S) |-> (CHOOSE r \in ranked : r[2] = k - 1)[1]]

\* [s[i] for i in places]: what is at some places of a sequence, in its order.
Kept(s, places) ==
    LET order == SortedBy(places, <)
    IN  [k \in 1 .. Cardinality(places) |-> s[order[k]]]

\* text.split(): the maximal runs of characters that are not white space.
Words(text) ==
    LET starts == { i \in DOMAIN text :
                      text[i] \notin Spaces /\ (i > 1 => text[i - 1] \in Spaces) }
        End(i) == Min({ j \in i .. Len(text) : j = Len(text) \/ text[j + 1] \in Spaces })
    IN  Kept([i \in DOMAIN text |-> SubSeq(text, i, End(i))], starts)

\* " ".join(words)
Joined(words) ==
    LET AddWord(text, i) == text \o (IF i = 1 THEN << >> ELSE << " " >>) \o words[i]
    IN  FoldLeftDomain(AddWord, << >>, words)

\* text.removeprefix(prefix)
WithoutPrefix(text, prefix) ==
    IF IsPrefix(prefix, text) THEN SubSeq(text, Len(prefix) + 1, Len(text)) ELSE text

\* The elements of a sequence in order of first appearance, each once.
Firsts(s) == Kept(s, { i \in DOMAIN s : \A k \in 1 .. i - 1 : s[k] # s[i] })
=============================================================================
