------------------------ MODULE TranslatorAppProofs ------------------------
(***************************************************************************)
(* Proofs about TranslatorApp, for any number of calls and clipboard       *)
(* writes, any texts and any model.                                        *)
(***************************************************************************)
EXTENDS TranslatorApp, TLAPS

(* What a call that settles leaves on the page is a result or an error,    *)
(* and a result is the model's output for the call's own text.             *)
LEMMA OutcomeFacts ==
  ASSUME NEW c \in Calls, text[c] \in Texts
  PROVE  /\ Outcome(c) \in States
         /\ Outcome(c).status \in {"success", "error"}
         /\ Outcome(c).status = "success" =>
              Outcome(c).translation = TranslationOf(Outcome(c).source, text[c][2])
<1>1. text[c][1] \in Inputs /\ TranslationOf(text[c][1], text[c][2]) \in Inputs
  BY InputsAssumption DEF Texts
<1>2. CASE promise'[c].kind = "translation"
  <2>1. Outcome(c) = Success(text[c][1], TranslationOf(text[c][1], text[c][2]))
    BY <1>2 DEF Outcome
  <2> QED
    BY <1>1, <2>1 DEF States, Success
<1>3. CASE promise'[c].kind # "translation"
  <2>1. ClassifyError(promise'[c]) \in Kinds
    BY DEF ClassifyError, Kinds
  <2>2. Outcome(c) = Failure(ClassifyError(promise'[c]))
    BY <1>3 DEF Outcome
  <2> QED
    BY <2>1, <2>2 DEF States, Failure
<1> QED
  BY <1>2, <1>3

(* The page state that carries a translation carries one of the inputs,    *)
(* and the others are known by their status.                               *)
LEMMA StateFacts ==
  /\ Idle \in States /\ Loading \in States /\ Warming \in States
  /\ Idle.status = "idle" /\ Loading.status = "loading" /\ Warming.status = "warming"
  /\ \A state \in States : state.status = "success" => state.translation \in Inputs
BY DEF States, Idle, Loading, Warming, Plain, Success, Failure, Kinds

----------------------------------------------------------------------------
(* What the steps of api.ts do to a typed state.                           *)

ClientTypeOK ==
  /\ text \in [Calls -> Texts \cup {None}]
  /\ promise \in [Calls -> Client!Outcomes \cup {None}]
  /\ latest \in Calls \cup {None}

(* translate() makes a call that was not made before, and makes it latest.  *)
LEMMA CallEffect ==
  ASSUME ClientTypeOK, NEW c \in Calls, NEW t \in Texts, Client!Call(c, t)
  PROVE  /\ ClientTypeOK'
         /\ text[c] = None /\ text'[c] = t
         /\ \A d \in Calls : d # c => text'[d] = text[d]
         /\ promise' = promise /\ latest' = c
BY DEF ClientTypeOK, Client!Call

(* An outcome settles one pending call and leaves the others as they are.   *)
LEMMA SettleWithEffect ==
  ASSUME ClientTypeOK, NEW c \in Calls, NEW o \in Client!Outcomes, Client!SettleWith(c, o)
  PROVE  /\ ClientTypeOK'
         /\ text' = text
         /\ Client!Pending(c) /\ ~Client!Pending(c)'
         /\ \A d \in Calls : d # c => promise'[d] = promise[d]
         /\ latest' = IF latest = c THEN None ELSE latest
BY OutcomesAssumption DEF ClientTypeOK, Client!SettleWith, Client!Pending

(* The same of an outcome of the call's own.                                *)
LEMMA SettleEffect ==
  ASSUME ClientTypeOK, NEW c \in Calls, Client!Settle(c)
  PROVE  /\ ClientTypeOK'
         /\ text' = text
         /\ Client!Pending(c) /\ ~Client!Pending(c)'
         /\ \A d \in Calls : d # c => promise'[d] = promise[d]
         /\ latest' = IF latest = c THEN None ELSE latest
<1>1. PICK o \in {Client!Resolved(text[c])} \cup Client!Errors : Client!SettleWith(c, o)
  BY DEF Client!Settle
<1>2. text[c] \in Texts
  BY <1>1 DEF Client!SettleWith, Client!Pending, ClientTypeOK
<1>3. o \in Client!Outcomes
  BY <1>1, <1>2 DEF Client!Outcomes
<1> QED
  BY <1>1, <1>3, SettleWithEffect

(* cancelTranslate() leaves the latest call settled and no call latest.     *)
LEMMA CancelEffect ==
  ASSUME ClientTypeOK, Client!Cancel
  PROVE  /\ ClientTypeOK'
         /\ text' = text
         /\ latest' = None
         /\ \A d \in Calls : d # latest => promise'[d] = promise[d]
         /\ \A d \in Calls : d = latest => ~Client!Pending(d)'
<1>1. CASE latest = None
  BY <1>1, InputsAssumption DEF Client!Cancel, Client!promiseVars, ClientTypeOK
<1>2. CASE latest # None
  <2>1. latest \in Calls /\ Client!SettleWith(latest, Client!Rejected("cancelled"))
    BY <1>2 DEF Client!Cancel, ClientTypeOK
  <2>2. Client!Rejected("cancelled") \in Client!Outcomes
    BY DEF Client!Outcomes
  <2> QED
    BY <2>1, <2>2, SettleWithEffect
<1> QED
  BY <1>1, <1>2
----------------------------------------------------------------------------
(* The inductive invariant.                                                *)

(* A warming timer belongs to a call in flight, a request is a call that   *)
(* was made, and only a call that was made settles.                        *)
CallsInv ==
  /\ \A c \in warming : Client!Pending(c)
  /\ request # None => text[request] # None
  /\ \A c \in Calls : promise[c] # None => text[c] # None

(* The page cannot look ready for another call while it is not: what was   *)
(* last rendered is never behind the start of a call.                      *)
SpinnerShown == mounted /\ IsTranslating(translateState) => IsTranslating(shown)

(* The direction is that of the call in flight, and of the result that is  *)
(* about to be rendered.                                                   *)
DirectionInv ==
  /\ \A c \in Calls : Client!Pending(c) => text[c][2] = direction
  /\ translateState.status = "success" =>
       translateState.translation = TranslationOf(translateState.source, direction)

PageInv ==
  /\ OneInFlight
  /\ PageMatchesRequest
  /\ CallsInv
  /\ SpinnerShown
  /\ DirectionInv
  /\ ShownTranslationIsGenuine

(* The page starts typed.                                                   *)
LEMMA TypeInit == Init => TypeOK
BY InputsAssumption, StateFacts DEF Init, Client!Init, TypeOK, Directions

(* The page starts with no call, so nothing is in flight or shown.          *)
LEMMA PageInit == Init => PageInv
BY InputsAssumption, StateFacts
   DEF Init, Client!Init, Client!Pending, PageInv, OneInFlight, PageMatchesRequest, CallsInv,
       SpinnerShown, DirectionInv, ShownTranslationIsGenuine, IsTranslating

(* Every step keeps the types.                                             *)
LEMMA TypeStep == TypeOK /\ [Next]_vars => TypeOK'
<1> SUFFICES ASSUME TypeOK, [Next]_vars
             PROVE  TypeOK'
  OBVIOUS
<1>0. ClientTypeOK /\ (ClientTypeOK' => /\ text' \in [Calls -> Texts \cup {None}]
                                       /\ promise' \in [Calls -> Client!Outcomes \cup {None}]
                                       /\ latest' \in Calls \cup {None})
  BY DEF TypeOK, ClientTypeOK
<1>1. ASSUME NEW c \in Calls, PromiseSettles(c) PROVE TypeOK'
  <2>1. text[c] \in Texts
    BY <1>1 DEF PromiseSettles, Client!Settle, Client!SettleWith, Client!Pending, TypeOK
  <2>2. ClientTypeOK'
    BY <1>0, <1>1, SettleEffect DEF PromiseSettles
  <2> QED
    BY <1>0, <1>1, <2>1, <2>2, OutcomeFacts DEF PromiseSettles, TypeOK, copyVars
<1>2. ASSUME NEW c \in Calls, WarmingTimer(c) PROVE TypeOK'
  BY <1>2, StateFacts DEF WarmingTimer, TypeOK, clientVars, copyVars
<1>3. ASSUME NEW c \in Calls, RunTranslate(c) PROVE TypeOK'
  <2>1. <<input, direction>> \in Texts
    BY DEF TypeOK, Texts
  <2>2. ClientTypeOK'
    BY <1>0, <1>3, <2>1, CallEffect DEF RunTranslate
  <2> QED
    BY <1>0, <1>3, <2>2, StateFacts DEF RunTranslate, TypeOK
<1>4. CASE Render
  BY <1>4 DEF Render, TypeOK, clientVars, copyVars
<1>5. CASE Type
  BY <1>5 DEF Type, TypeOK, clientVars, copyVars
<1>6. CASE HandleSwap
  <2>1. ClientTypeOK'
    BY <1>0, <1>6, CancelEffect DEF HandleSwap, Abandon
  <2> QED
    BY <1>0, <1>6, <2>1, StateFacts DEF HandleSwap, Abandon, TypeOK
<1>7. CASE HandleClear
  <2>1. ClientTypeOK'
    BY <1>0, <1>7, CancelEffect DEF HandleClear, Abandon
  <2> QED
    BY <1>0, <1>7, <2>1, StateFacts, InputsAssumption DEF HandleClear, Abandon, TypeOK
<1>8. CASE ToggleView
  BY <1>8 DEF ToggleView, TypeOK, clientVars, copyVars
<1>9. CASE Unmount
  <2>1. ClientTypeOK'
    BY <1>0, <1>9, CancelEffect DEF Unmount
  <2> QED
    BY <1>0, <1>9, <2>1 DEF Unmount, TypeOK, copyVars
<1>10. ASSUME NEW k \in 1..MaxCopies, HandleCopy(k) PROVE TypeOK'
  BY <1>10, StateFacts DEF HandleCopy, TypeOK, clientVars
<1>11. ASSUME NEW k \in 1..MaxCopies, CopyDone(k) PROVE TypeOK'
  BY <1>11 DEF CopyDone, TypeOK, clientVars
<1>12. ASSUME NEW timer \in {"current", "leaked"}, RevertCopy(timer) PROVE TypeOK'
  BY <1>12 DEF RevertCopy, TypeOK, clientVars
<1>13. CASE UNCHANGED vars
  BY <1>13 DEF TypeOK, vars, clientVars, copyVars
<1> QED
  BY <1>1, <1>2, <1>3, <1>4, <1>5, <1>6, <1>7, <1>8, <1>9, <1>10, <1>11, <1>12, <1>13
     DEF Next, Traducir, Reintentar

(* For every set of calls and texts, every variable has its type.          *)
THEOREM TypeCorrect == Spec => []TypeOK
<1> QED
  BY TypeInit, TypeStep, PTL DEF Spec

----------------------------------------------------------------------------
(* The page and its calls.                                                 *)

(* Swapping, clearing and unmounting leave no call in flight.              *)
LEMMA CancelEndsAll ==
  ASSUME TypeOK, OneInFlight, Client!Cancel
  PROVE  \A d \in Calls : ~Client!Pending(d)'
<1>1. ClientTypeOK
  BY DEF TypeOK, ClientTypeOK
<1>2. ASSUME NEW d \in Calls, Client!Pending(d)' PROVE FALSE
  <2>1. d # latest /\ promise'[d] = promise[d] /\ text' = text
    BY <1>1, <1>2, CancelEffect
  <2>2. Client!Pending(d)
    BY <1>2, <2>1 DEF Client!Pending
  <2> QED
    BY <2>1, <2>2 DEF OneInFlight
<1> QED
  BY <1>2

(* A step that leaves calls, page and request alone keeps the invariant.   *)
LEMMA PageUntouched ==
  ASSUME PageInv,
         UNCHANGED <<clientVars, mounted, direction, translateState, shown, request, warming>>
  PROVE  PageInv'
BY DEF PageInv, OneInFlight, PageMatchesRequest, CallsInv, SpinnerShown, DirectionInv,
       ShownTranslationIsGenuine, clientVars, Client!Pending, IsTranslating

(* Every step keeps it.                                                    *)
LEMMA PageStep == TypeOK /\ PageInv /\ [Next]_vars => PageInv'
<1> SUFFICES ASSUME TypeOK, PageInv, [Next]_vars
             PROVE  PageInv'
  OBVIOUS
<1>0. ClientTypeOK
  BY DEF TypeOK, ClientTypeOK
<1>1. ASSUME NEW c \in Calls, PromiseSettles(c) PROVE PageInv'
  <2>1. /\ text' = text /\ Client!Pending(c) /\ ~Client!Pending(c)'
        /\ \A d \in Calls : d # c => promise'[d] = promise[d]
        /\ UNCHANGED <<mounted, direction, shown, request>>
        /\ warming' = warming \ {c}
    BY <1>0, <1>1, SettleEffect DEF PromiseSettles
  <2>2. mounted /\ c = request /\ request # None
    BY <2>1, InputsAssumption DEF PageInv, OneInFlight
  <2>3. \A d \in Calls : ~Client!Pending(d)'
    BY <2>1, <2>2 DEF PageInv, OneInFlight, Client!Pending
  <2>4. text[c] \in Texts /\ text[c][2] = direction
    BY <2>1 DEF TypeOK, PageInv, DirectionInv, Client!Pending
  <2>5. translateState' = Outcome(c)
    BY <1>1, <2>2 DEF PromiseSettles
  <2>6. /\ translateState'.status \in {"success", "error"}
        /\ translateState'.status = "success" =>
             translateState'.translation = TranslationOf(translateState'.source, direction')
    BY <2>1, <2>4, <2>5, OutcomeFacts
  <2>7. OneInFlight'
    BY <2>3 DEF OneInFlight
  <2>8. PageMatchesRequest'
    BY <2>1, <2>2, <2>3, <2>6 DEF PageMatchesRequest, IsTranslating
  <2>9. CallsInv'
    <3>1. \A d \in warming' : Client!Pending(d)'
      BY <2>1 DEF PageInv, CallsInv, Client!Pending, TypeOK
    <3>2. text[c] # None
      BY <2>1 DEF Client!Pending
    <3> QED
      BY <2>1, <3>1, <3>2 DEF PageInv, CallsInv
  <2>10. SpinnerShown'
    BY <2>6 DEF SpinnerShown, IsTranslating
  <2>11. DirectionInv'
    BY <2>3, <2>6 DEF DirectionInv
  <2>12. ShownTranslationIsGenuine'
    BY <2>1 DEF PageInv, ShownTranslationIsGenuine
  <2> QED
    BY <2>7, <2>8, <2>9, <2>10, <2>11, <2>12 DEF PageInv
<1>2. ASSUME NEW c \in Calls, WarmingTimer(c) PROVE PageInv'
  <2>1. Client!Pending(c) /\ mounted /\ c = request /\ request # None
    BY <1>2, InputsAssumption DEF WarmingTimer, PageInv, CallsInv, OneInFlight
  <2>2. /\ translateState' = Warming /\ warming' = warming \ {c}
        /\ UNCHANGED <<clientVars, mounted, direction, shown, request>>
    BY <1>2, <2>1 DEF WarmingTimer
  <2>3. IsTranslating(translateState) /\ IsTranslating(shown)
    BY <2>1 DEF PageInv, PageMatchesRequest, SpinnerShown
  <2>4. \A d \in Calls : Client!Pending(d)' <=> Client!Pending(d)
    BY <2>2 DEF clientVars, Client!Pending
  <2>5. translateState'.status = "warming" /\ IsTranslating(translateState')
    BY <2>2, StateFacts DEF IsTranslating
  <2>6. OneInFlight' /\ ShownTranslationIsGenuine'
    BY <2>2, <2>4 DEF PageInv, OneInFlight, ShownTranslationIsGenuine, clientVars
  <2>7. PageMatchesRequest'
    BY <2>1, <2>2, <2>4, <2>5 DEF PageMatchesRequest, IsTranslating
  <2>8. CallsInv'
    BY <2>2, <2>4 DEF PageInv, CallsInv, clientVars, TypeOK
  <2>9. SpinnerShown' /\ DirectionInv'
    BY <2>2, <2>3, <2>4, <2>5
       DEF PageInv, SpinnerShown, DirectionInv, clientVars, IsTranslating
  <2> QED
    BY <2>6, <2>7, <2>8, <2>9 DEF PageInv
<1>3. ASSUME NEW c \in Calls, OnPage, ~IsTranslating(shown), RunTranslate(c) PROVE PageInv'
  <2>1. \A d \in Calls : ~Client!Pending(d)
    BY <1>3, InputsAssumption
       DEF OnPage, PageInv, OneInFlight, PageMatchesRequest, SpinnerShown
  <2>2. <<input, direction>> \in Texts /\ <<input, direction>>[2] = direction
    BY DEF TypeOK, Texts
  <2>3. /\ text[c] = None /\ text'[c] = <<input, direction>>
        /\ \A d \in Calls : d # c => text'[d] = text[d]
        /\ promise' = promise /\ latest' = c
    BY <1>0, <1>3, <2>2, CallEffect DEF RunTranslate
  <2>4. /\ request' = c /\ translateState' = Loading /\ shown' = Loading
        /\ warming' = warming \cup {c}
        /\ UNCHANGED <<mounted, direction>> /\ mounted
    BY <1>3 DEF RunTranslate, OnPage
  <2>5. warming = {}
    BY <2>1 DEF PageInv, CallsInv, TypeOK
  <2>6. \A d \in Calls : Client!Pending(d)' => d = c
    BY <2>1, <2>3 DEF Client!Pending
  <2>7. Loading.status = "loading" /\ IsTranslating(Loading)
    BY StateFacts DEF IsTranslating
  <2>8. OneInFlight'
    BY <2>3, <2>4, <2>6 DEF OneInFlight
  <2>9. Client!Pending(c)'
    BY <2>2, <2>3, InputsAssumption DEF PageInv, CallsInv, Client!Pending
  <2>10. PageMatchesRequest'
    BY <2>4, <2>7, <2>9, InputsAssumption DEF PageMatchesRequest, IsTranslating
  <2>11. CallsInv'
    <3>1. \A d \in warming' : d = c
      BY <2>4, <2>5
    <3>2. text'[c] # None
      BY <2>9 DEF Client!Pending
    <3> QED
      BY <2>3, <2>4, <2>9, <3>1, <3>2 DEF PageInv, CallsInv
  <2>12. SpinnerShown' /\ ShownTranslationIsGenuine'
    BY <2>4, <2>7 DEF SpinnerShown, ShownTranslationIsGenuine
  <2>13. DirectionInv'
    BY <2>2, <2>3, <2>4, <2>6, <2>7 DEF DirectionInv
  <2> QED
    BY <2>8, <2>10, <2>11, <2>12, <2>13 DEF PageInv
<1>4. CASE Render
  <2>1. /\ shown' = translateState
        /\ UNCHANGED <<clientVars, mounted, direction, translateState, request, warming>>
    BY <1>4 DEF Render
  <2>2. OneInFlight' /\ PageMatchesRequest' /\ CallsInv' /\ DirectionInv'
    BY <2>1 DEF PageInv, OneInFlight, PageMatchesRequest, CallsInv, DirectionInv, clientVars,
                Client!Pending, IsTranslating
  <2>3. SpinnerShown' /\ ShownTranslationIsGenuine'
    BY <2>1 DEF PageInv, SpinnerShown, DirectionInv, ShownTranslationIsGenuine, IsTranslating
  <2> QED
    BY <2>2, <2>3 DEF PageInv
<1>5. ASSUME OnPage, Abandon, UNCHANGED mounted PROVE PageInv'
  <2>1. \A d \in Calls : ~Client!Pending(d)'
    BY <1>5, CancelEndsAll DEF PageInv, Abandon
  <2>2. /\ request' = None /\ translateState' = Idle /\ shown' = Idle
        /\ warming' = IF latest = None THEN warming ELSE warming \ {latest}
    BY <1>5 DEF Abandon
  <2>3. Idle.status = "idle" /\ ~IsTranslating(Idle)
    BY StateFacts DEF IsTranslating
  <2>4. warming' = {}
    BY <2>2, InputsAssumption DEF TypeOK, PageInv, CallsInv, OneInFlight
  <2>5. CallsInv'
    <3>1. /\ text' = text
          /\ \A d \in Calls : d # latest => promise'[d] = promise[d]
      BY <1>0, <1>5, CancelEffect DEF Abandon
    <3>2. ASSUME NEW d \in Calls, d = latest PROVE text[d] # None
      BY <1>5, <3>2, InputsAssumption
         DEF Abandon, Client!Cancel, Client!SettleWith, Client!Pending
    <3> QED
      BY <2>2, <2>4, <3>1, <3>2 DEF PageInv, CallsInv
  <2> QED
    BY <2>1, <2>2, <2>3, <2>5
       DEF PageInv, OneInFlight, PageMatchesRequest, SpinnerShown, DirectionInv,
           ShownTranslationIsGenuine
<1>6. CASE Unmount
  <2>1. \A d \in Calls : ~Client!Pending(d)'
    BY <1>6, CancelEndsAll DEF PageInv, Unmount
  <2>2. /\ ~mounted' /\ UNCHANGED <<direction, translateState, shown, request>>
        /\ warming' = IF latest = None THEN warming ELSE warming \ {latest}
    BY <1>6 DEF Unmount
  <2>3. warming' = {}
    BY <2>2, InputsAssumption DEF TypeOK, PageInv, CallsInv, OneInFlight
  <2>4. CallsInv'
    <3>1. /\ text' = text
          /\ \A d \in Calls : d # latest => promise'[d] = promise[d]
      BY <1>0, <1>6, CancelEffect DEF Unmount
    <3>2. ASSUME NEW d \in Calls, d = latest PROVE text[d] # None
      BY <1>6, <3>2, InputsAssumption
         DEF Unmount, Client!Cancel, Client!SettleWith, Client!Pending
    <3> QED
      BY <2>2, <2>3, <3>1, <3>2 DEF PageInv, CallsInv
  <2> QED
    BY <2>1, <2>2, <2>4
       DEF PageInv, OneInFlight, PageMatchesRequest, SpinnerShown, DirectionInv,
           ShownTranslationIsGenuine
<1>7. CASE Type \/ ToggleView \/ UNCHANGED vars
  <2>1. UNCHANGED <<clientVars, mounted, direction, translateState, shown, request, warming>>
    BY <1>7 DEF Type, ToggleView, vars
  <2> QED
    BY <2>1, PageUntouched
<1>8. ASSUME NEW k \in 1..MaxCopies, HandleCopy(k) \/ CopyDone(k) PROVE PageInv'
  BY <1>8, PageUntouched DEF HandleCopy, CopyDone
<1>9. ASSUME NEW timer \in {"current", "leaked"}, RevertCopy(timer) PROVE PageInv'
  BY <1>9, PageUntouched DEF RevertCopy
<1>10. ASSUME NEW c \in Calls, Traducir(c) \/ Reintentar(c) PROVE PageInv'
  BY <1>3, <1>10 DEF Traducir, Reintentar, IsTranslating
<1>11. CASE HandleSwap \/ HandleClear
  BY <1>5, <1>11 DEF HandleSwap, HandleClear
<1> QED
  BY <1>1, <1>2, <1>4, <1>6, <1>7, <1>8, <1>9, <1>10, <1>11 DEF Next

(* The inductive invariant of the page holds, for any number of calls.     *)
THEOREM PageCorrect == Spec => [](TypeOK /\ PageInv)
<1> QED
  BY TypeInit, PageInit, TypeStep, PageStep, PTL DEF Spec

(* For any number of calls, at most one is in flight, and it is the one    *)
(* the mounted page waits for and cancelTranslate() would stop.            *)
THEOREM OneInFlightHolds == Spec => []OneInFlight
<1>1. PageInv => OneInFlight
  BY DEF PageInv
<1> QED
  BY <1>1, PageCorrect, PTL

(* No answer of an abandoned call and no late warming timer reaches the    *)
(* page.                                                                   *)
THEOREM PageMatchesRequestHolds == Spec => []PageMatchesRequest
<1>1. PageInv => PageMatchesRequest
  BY DEF PageInv
<1> QED
  BY <1>1, PageCorrect, PTL

(* Whatever is typed and swapped, the translation shown is that of the     *)
(* source text and the direction shown.                                    *)
THEOREM ShownTranslationIsGenuineHolds == Spec => []ShownTranslationIsGenuine
<1>1. PageInv => ShownTranslationIsGenuine
  BY DEF PageInv
<1> QED
  BY <1>1, PageCorrect, PTL

----------------------------------------------------------------------------
(* The copy button.                                                        *)

(* Only a clipboard write that ends sets copyState, and it arms a timer;   *)
(* only swapping, clearing and copying take one away, and the first two    *)
(* reset copyState, the third awaits a write.                              *)
LEMMA CopyStep == TypeOK /\ CopyFeedbackReverts /\ [Next]_vars => CopyFeedbackReverts'
<1> SUFFICES ASSUME TypeOK, CopyFeedbackReverts, [Next]_vars
             PROVE  CopyFeedbackReverts'
  OBVIOUS
<1>1. ASSUME NEW k \in 1..MaxCopies, HandleCopy(k) PROVE CopyFeedbackReverts'
  <2>1. shown.translation \in Inputs
    BY <1>1, StateFacts DEF HandleCopy, TypeOK
  <2>2. copying'[k] # None
    BY <1>1, <2>1, InputsAssumption DEF HandleCopy, TypeOK
  <2> QED
    BY <2>2 DEF CopyFeedbackReverts
<1>2. ASSUME NEW k \in 1..MaxCopies, CopyDone(k) PROVE CopyFeedbackReverts'
  <2>1. "current" \in reverts'
    BY <1>2 DEF CopyDone
  <2> QED
    BY <2>1 DEF CopyFeedbackReverts
<1>3. ASSUME copyState' = "idle" PROVE CopyFeedbackReverts'
  BY <1>3 DEF CopyFeedbackReverts
<1>4. ASSUME UNCHANGED copyVars PROVE CopyFeedbackReverts'
  BY <1>4 DEF CopyFeedbackReverts, copyVars
<1> QED
  BY <1>1, <1>2, <1>3, <1>4
     DEF Next, PromiseSettles, WarmingTimer, Traducir, Reintentar, RunTranslate, Render, Type,
         HandleSwap, HandleClear, Abandon, ToggleView, Unmount, RevertCopy, vars

(* However many writes overlap and timers leak, "Copiado" has a timer that *)
(* will revert it, or a write that will arm one.                           *)
THEOREM CopyFeedbackRevertsHolds == Spec => []CopyFeedbackReverts
<1>1. Init => CopyFeedbackReverts
  BY DEF Init, CopyFeedbackReverts
<1> QED
  BY <1>1, CopyStep, TypeCorrect, PTL DEF Spec
=============================================================================
