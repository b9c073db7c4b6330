------------------------------ MODULE ReportUrl ------------------------------
(***************************************************************************)
(* The link that reports a translation, buildTranslationReportUrl of       *)
(* apps/web/src/App.tsx: the two texts go into the URL whole when they     *)
(* fit, and otherwise cut to a common number of characters found by        *)
(* bisection.                                                              *)
(*                                                                         *)
(* Only lengths matter.  A text is the number of its characters and, for   *)
(* each number of them, the length of that many once percent-encoded: one  *)
(* for an ASCII letter, six for an accented one.                           *)
(***************************************************************************)
EXTENDS Integers

CONSTANTS
  Texts,   \* source texts and translations
  Frame,   \* length of the URL around the two of them
  Note,    \* encoded length of "[texto truncado ...]"
  Limit    \* GITHUB_NEW_ISSUE_URL_LENGTH_LIMIT

ASSUME TextsAssumption ==
  \A t \in Texts : /\ t.length \in Nat
                   /\ t.size \in [0..t.length -> Nat] /\ t.size[0] = 0

(* 615 and twice 64 against 8096, in the code.                             *)
ASSUME LimitAssumption == Frame \in Nat /\ Note \in Nat /\ Limit \in Nat /\ Frame + 2 * Note <= Limit

VARIABLES source, translation,  \* the arguments
          pc, low, high,        \* the bisection
          url                   \* length of the link, once it is built

vars == <<source, translation, pc, low, high, url>>

----------------------------------------------------------------------------
(* truncatedWithNote, encoded.                                             *)
TruncatedWithNote(text, keepLength) ==
  IF text.length <= keepLength THEN text.size[text.length] ELSE text.size[keepLength] + Note

(* buildReportUrl for the two texts cut to keepLength characters.          *)
BuildReportUrl(keepLength) ==
  Frame + TruncatedWithNote(source, keepLength) + TruncatedWithNote(translation, keepLength)

Longest == IF source.length >= translation.length THEN source.length ELSE translation.length

(* Mutant: the fields are measured, and not the URL.                       *)
FieldsOnly_Fits(keepLength) ==
  TruncatedWithNote(source, keepLength) + TruncatedWithNote(translation, keepLength) <= Limit

Fits(keepLength) == BuildReportUrl(keepLength) <= Limit

(* Mutant: Math.floor for Math.ceil.                                       *)
Floor_Middle == (low + high) \div 2

Middle == (low + high + 1) \div 2

Build(keepLength) == pc' = "built" /\ url' = BuildReportUrl(keepLength)

(* The whole texts, if they fit.                                           *)
TryWhole ==
  /\ pc = "called"
  /\ IF Fits(Longest)
       THEN Build(Longest) /\ UNCHANGED <<low, high>>
       ELSE pc' = "searching" /\ low' = 0 /\ high' = Longest /\ UNCHANGED url
  /\ UNCHANGED <<source, translation>>

Bisect ==
  /\ pc = "searching" /\ low < high
  /\ IF Fits(Middle)
       THEN low' = Middle /\ UNCHANGED high
       ELSE high' = Middle - 1 /\ UNCHANGED low
  /\ UNCHANGED <<source, translation, pc, url>>

BuildFound ==
  /\ pc = "searching" /\ ~(low < high)
  /\ Build(low)
  /\ UNCHANGED <<source, translation, low, high>>

Init ==
  /\ source \in {t \in Texts : t.length > 0}
  /\ translation \in Texts
  /\ pc = "called"
  /\ low = 0 /\ high = 0 /\ url = 0

Next == TryWhole \/ Bisect \/ BuildFound

Spec == Init /\ [][Next]_vars

(* The function runs to its end.                                           *)
FairSpec == Spec /\ WF_vars(Next)

----------------------------------------------------------------------------
(* However long the texts are and however badly they encode, the link is   *)
(* built, within GitHub's limit (App.test.tsx:581): the page is not left   *)
(* computing it.                                                           *)
ReportIsBuilt == <>(pc = "built" /\ url <= Limit)

(* The link that is built is within the limit.                             *)
ReportFits == pc = "built" => url <= Limit

(* Every round of the bisection narrows it.                                *)
SearchNarrows ==
  [][pc = "searching" /\ pc' = "searching" => low <= low' /\ high' <= high /\ high' - low' < high - low]_vars

=============================================================================
