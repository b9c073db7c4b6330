--------------------------- MODULE ReportUrlProofs ---------------------------
(***************************************************************************)
(* Proofs about ReportUrl, for texts of any length and any encoding.       *)
(***************************************************************************)
EXTENDS ReportUrl, TLAPS

(* The bisection keeps a budget that fits at its lower end, although the   *)
(* length of the link does not grow with the budget everywhere: a text     *)
(* that is not cut carries no note.                                        *)
Inv ==
  /\ source \in Texts /\ translation \in Texts
  /\ low \in Nat /\ high \in Nat /\ low <= high
  /\ pc \in {"called", "searching", "built"}
  /\ pc = "searching" => Fits(low)
  /\ ReportFits

(* Nothing but the two notes always fits.                                  *)
LEMMA NothingFits ==
  ASSUME source \in Texts, translation \in Texts
  PROVE  Fits(0)
<1>1. ASSUME NEW t \in Texts
      PROVE  TruncatedWithNote(t, 0) \in Nat /\ TruncatedWithNote(t, 0) <= Note
  BY TextsAssumption, LimitAssumption DEF TruncatedWithNote
<1>2. /\ TruncatedWithNote(source, 0) \in Nat /\ TruncatedWithNote(source, 0) <= Note
      /\ TruncatedWithNote(translation, 0) \in Nat /\ TruncatedWithNote(translation, 0) <= Note
  BY <1>1
<1> QED
  BY <1>2, LimitAssumption DEF Fits, BuildReportUrl

(* The middle is above the lower end, which is why the bisection ends.     *)
LEMMA MiddleFacts ==
  ASSUME low \in Nat, high \in Nat, low < high
  PROVE  Middle \in Nat /\ low < Middle /\ Middle <= high
BY DEF Middle

(* Before the search nothing is built and both ends are 0.                  *)
LEMMA InvInit == Init => Inv
BY DEF Init, Inv, ReportFits

(* A round moves the lower end only to a budget it has seen fit.            *)
LEMMA InvStep == Inv /\ [Next]_vars => Inv'
<1> SUFFICES ASSUME Inv, [Next]_vars
             PROVE  Inv'
  OBVIOUS
<1>1. CASE TryWhole
  <2>1. Longest \in Nat
    BY TextsAssumption DEF Longest, Inv
  <2>2. CASE Fits(Longest)
    BY <1>1, <2>2 DEF TryWhole, Build, Fits, Inv, ReportFits
  <2>3. CASE ~Fits(Longest)
    <3>1. /\ low' = 0 /\ high' = Longest /\ pc' = "searching"
          /\ UNCHANGED <<source, translation>>
      BY <1>1, <2>3 DEF TryWhole
    <3>2. Fits(low)'
      BY <3>1, NothingFits DEF Inv, Fits, BuildReportUrl
    <3> QED
      BY <2>1, <3>1, <3>2 DEF Inv, ReportFits
  <2> QED
    BY <2>2, <2>3
<1>2. CASE Bisect
  <2>1. Middle \in Nat /\ low < Middle /\ Middle <= high
    BY <1>2, MiddleFacts DEF Bisect, Inv
  <2>2. CASE Fits(Middle)
    <3>1. /\ low' = Middle /\ UNCHANGED <<source, translation, pc, url, high>>
          /\ pc = "searching"
      BY <1>2, <2>2 DEF Bisect
    <3>2. Fits(low)'
      BY <2>2, <3>1 DEF Fits, BuildReportUrl
    <3> QED
      BY <2>1, <3>1, <3>2 DEF Inv, ReportFits
  <2>3. CASE ~Fits(Middle)
    <3>1. /\ high' = Middle - 1 /\ UNCHANGED <<source, translation, pc, url, low>>
          /\ pc = "searching"
      BY <1>2, <2>3 DEF Bisect
    <3>2. Fits(low)'
      BY <3>1 DEF Inv, Fits, BuildReportUrl
    <3> QED
      BY <2>1, <3>1, <3>2 DEF Inv, ReportFits
  <2> QED
    BY <2>2, <2>3
<1>3. CASE BuildFound
  BY <1>3 DEF BuildFound, Build, Fits, Inv, ReportFits
<1>4. CASE UNCHANGED vars
  BY <1>4 DEF vars, Inv, Fits, BuildReportUrl, ReportFits
<1> QED
  BY <1>1, <1>2, <1>3, <1>4 DEF Next

(* The invariant holds whatever the texts are.                             *)
THEOREM InvCorrect == Spec => []Inv
<1> QED
  BY InvInit, InvStep, PTL DEF Spec

(* No texts, however long and however badly they encode, make a link       *)
(* GitHub would refuse.                                                    *)
THEOREM ReportFitsHolds == Spec => []ReportFits
<1>1. Inv => ReportFits
  BY DEF Inv
<1> QED
  BY <1>1, InvCorrect, PTL

(* Every round of the bisection narrows it, so it ends.                    *)
THEOREM SearchNarrowsHolds == Spec => SearchNarrows
<1>1. Inv /\ [Next]_vars =>
        [pc = "searching" /\ pc' = "searching" =>
           low <= low' /\ high' <= high /\ high' - low' < high - low]_vars
  <2> SUFFICES ASSUME Inv, Next, pc = "searching", pc' = "searching"
               PROVE  low <= low' /\ high' <= high /\ high' - low' < high - low
    OBVIOUS
  <2>1. Bisect /\ low \in Nat /\ high \in Nat
    BY DEF Next, TryWhole, BuildFound, Build, Inv
  <2>2. Middle \in Nat /\ low < Middle /\ Middle <= high
    BY <2>1, MiddleFacts DEF Bisect
  <2> QED
    BY <2>1, <2>2 DEF Bisect
<1> QED
  BY <1>1, InvCorrect, PTL DEF Spec, SearchNarrows
=============================================================================
