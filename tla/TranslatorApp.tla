--------------------------- MODULE TranslatorApp ---------------------------
(***************************************************************************)
(* The translator page, apps/web/src/App.tsx, on top of the contract of    *)
(* api.ts (TranslatePromise, which PollClient implements).                 *)
(*                                                                         *)
(* A step is one browser task: an event handler, a timer, or a settled     *)
(* promise with the continuations it resumes.  An event handler sees the   *)
(* state of the last render, and what a task outside a handler sets is     *)
(* rendered later: `shown` is the translateState of the last render.       *)
(*                                                                         *)
(* requestIdRef only grows and is only compared for equality: request is   *)
(* the call of runTranslate it belongs to, or None when handleSwap or      *)
(* handleClear took its number away.                                       *)
(***************************************************************************)
EXTENDS Naturals, FiniteSets

CONSTANTS
  Calls,         \* bound: calls of translate()
  Inputs,        \* texts of the input field
  Empty,         \* the empty one
  Submittable,   \* those that are neither blank nor over MAX_INPUT_LENGTH
  TranslationOf(_, _),  \* the model's output for a text and a direction
  HttpCodes,     \* statuses an HTTP error can carry
  MaxCopies,     \* bound: clipboard writes pending at the same time
  None

Directions == {"es-to-cak", "cak-to-es"}

Texts == Inputs \X Directions

ASSUME InputsAssumption ==
  /\ Empty \in Inputs /\ Submittable \subseteq Inputs \ {Empty}
  /\ \A t \in Texts : TranslationOf(t[1], t[2]) \in Inputs
  /\ None \notin Inputs \cup Texts \cup Calls

VARIABLES
  text, promise, latest,  \* api.ts: TranslatePromise
  mounted,         \* whether the component still is
  view,            \* view
  direction,       \* direction
  input,           \* input
  translateState,  \* translateState
  shown,           \* translateState as last rendered
  request,         \* requestIdRef
  warming,         \* the calls whose warmingTimer is armed
  copyState,       \* copyState
  copying,         \* the clipboard writes handleCopy awaits
  reverts          \* armed timers that revert copyState: the one in
                   \* copyRevertTimerRef, and one that fell out of it

clientVars == <<text, promise, latest>>
copyVars   == <<copyState, copying, reverts>>
vars == <<clientVars, mounted, view, direction, input, translateState, shown, request, warming,
          copyVars>>

Client == INSTANCE TranslatePromise

ASSUME OutcomesAssumption == None \notin Client!Outcomes

----------------------------------------------------------------------------
(* translateState.                                                         *)
Plain(status) == [status |-> status, source |-> None, translation |-> None, kind |-> None]
Idle    == Plain("idle")
Loading == Plain("loading")
Warming == Plain("warming")
Success(source, translation) ==
  [status |-> "success", source |-> source, translation |-> translation, kind |-> None]
Failure(kind) == [status |-> "error", source |-> None, translation |-> None, kind |-> kind]

(* Mutant: the warming message does not count.                             *)
Spinner_IsTranslating(state) == state.status = "loading"

IsTranslating(state) == state.status \in {"loading", "warming"}

(* Mutant: the error is shown as it came.                                  *)
Raw_ClassifyError(error) == error.kind

(* classifyError: everything it does not know is a network error.          *)
ClassifyError(error) ==
  CASE error.kind = "timeout"     -> "timeout"
    [] error.kind = "jobNotFound" -> "jobNotFound"
    [] error.kind = "http"        -> IF error.value >= 500 THEN "server"
                                     ELSE IF error.value = 429 THEN "rateLimited" ELSE "client"
    [] OTHER                      -> "network"

(* Mutant: the source text is the input at the time of the answer.         *)
Late_Outcome(c) ==
  IF promise'[c].kind = "translation"
    THEN Success(input, TranslationOf(text[c][1], text[c][2]))
    ELSE Failure(ClassifyError(promise'[c]))

(* What runTranslate shows for the outcome of its call.                    *)
Outcome(c) ==
  IF promise'[c].kind = "translation"
    THEN Success(text[c][1], TranslationOf(text[c][1], text[c][2]))
    ELSE Failure(ClassifyError(promise'[c]))

----------------------------------------------------------------------------
(* Mutant: no `finally`.                                                   *)
Armed_PromiseSettles(c) ==
  /\ Client!Settle(c)
  /\ translateState' = IF request = c THEN Outcome(c) ELSE translateState
  /\ UNCHANGED <<mounted, view, direction, input, shown, request, warming, copyVars>>

(* A promise settles and runTranslate resumes: a call that is not the      *)
(* current one is ignored; the warming timer goes either way.              *)
PromiseSettles(c) ==
  /\ Client!Settle(c)
  /\ translateState' = IF request = c THEN Outcome(c) ELSE translateState
  /\ warming' = warming \ {c}
  /\ UNCHANGED <<mounted, view, direction, input, shown, request, copyVars>>

WarmingTimer(c) ==
  /\ c \in warming
  /\ warming' = warming \ {c}
  /\ translateState' = IF request = c THEN Warming ELSE translateState
  /\ UNCHANGED <<clientVars, mounted, view, direction, input, shown, request, copyVars>>

Render ==
  /\ mounted
  /\ shown # translateState
  /\ shown' = translateState
  /\ UNCHANGED <<clientVars, mounted, view, direction, input, translateState, request, warming,
                 copyVars>>

OnPage == mounted /\ view = "translate"

Type ==
  /\ OnPage
  /\ input' \in Inputs \ {input}
  /\ UNCHANGED <<clientVars, mounted, view, direction, translateState, shown, request, warming,
                 copyVars>>

RunTranslate(c) ==
  /\ Client!Call(c, <<input, direction>>)
  /\ request' = c
  /\ copyState' = "idle"
  /\ translateState' = Loading
  /\ shown' = Loading
  /\ warming' = warming \cup {c}
  /\ UNCHANGED <<mounted, view, direction, input, copying, reverts>>

(* The Traducir button, disabled while translating or without valid input. *)
Traducir(c) ==
  /\ OnPage
  /\ ~IsTranslating(shown)
  /\ input \in Submittable
  /\ RunTranslate(c)

(* The Reintentar button is only disabled while translating.               *)
Reintentar(c) ==
  /\ OnPage
  /\ shown.status = "error"
  /\ RunTranslate(c)

(* Two mutants: the page, or the copy button, keeps its state.             *)
Spinning_Abandon ==
  /\ request' = None
  /\ Client!Cancel
  /\ warming' = IF latest = None THEN warming ELSE warming \ {latest}
  /\ reverts' = reverts \ {"current"}
  /\ copyState' = "idle"
  /\ UNCHANGED <<translateState, shown>>

Copied_Abandon ==
  /\ request' = None
  /\ Client!Cancel
  /\ warming' = IF latest = None THEN warming ELSE warming \ {latest}
  /\ reverts' = reverts \ {"current"}
  /\ translateState' = Idle
  /\ shown' = Idle
  /\ UNCHANGED copyState

(* What handleSwap and handleClear share: the request loses its number     *)
(* first, so the cancelled call's rejection is ignored.                    *)
Abandon ==
  /\ request' = None
  /\ Client!Cancel
  /\ warming' = IF latest = None THEN warming ELSE warming \ {latest}
  /\ reverts' = reverts \ {"current"}
  /\ copyState' = "idle"
  /\ translateState' = Idle
  /\ shown' = Idle

HandleSwap ==
  /\ OnPage
  /\ Abandon
  /\ direction' \in Directions \ {direction}
  /\ input' = IF shown.status = "success" THEN shown.translation ELSE input
  /\ UNCHANGED <<mounted, view, copying>>

HandleClear ==
  /\ OnPage
  /\ input # Empty
  /\ Abandon
  /\ input' = Empty
  /\ UNCHANGED <<mounted, view, direction, copying>>

HandleCopy(k) ==
  /\ OnPage
  /\ shown.status = "success"
  /\ copying[k] = None
  /\ copying' = [copying EXCEPT ![k] = shown.translation]
  /\ reverts' = reverts \ {"current"}
  /\ UNCHANGED <<clientVars, mounted, view, direction, input, translateState, shown, request,
                 warming, copyState>>

(* The clipboard write ends; a timer still in copyRevertTimerRef is        *)
(* overwritten there, not cleared.                                         *)
CopyDone(k) ==
  /\ copying[k] # None
  /\ copying' = [copying EXCEPT ![k] = None]
  /\ copyState' \in {"success", "error"}
  /\ reverts' = IF "current" \in reverts THEN {"current", "leaked"} ELSE reverts \cup {"current"}
  /\ UNCHANGED <<clientVars, mounted, view, direction, input, translateState, shown, request,
                 warming>>

RevertCopy(timer) ==
  /\ timer \in reverts
  /\ reverts' = reverts \ {timer}
  /\ copyState' = "idle"
  /\ UNCHANGED <<clientVars, mounted, view, direction, input, translateState, shown, request,
                 warming, copying>>

ToggleView ==
  /\ mounted
  /\ view' \in {"translate", "about"} \ {view}
  /\ UNCHANGED <<clientVars, mounted, direction, input, translateState, shown, request, warming,
                 copyVars>>

(* The effect's cleanup cancels; requestIdRef keeps its number, and state  *)
(* set afterwards goes nowhere.                                            *)
Unmount ==
  /\ mounted
  /\ mounted' = FALSE
  /\ Client!Cancel
  /\ warming' = IF latest = None THEN warming ELSE warming \ {latest}
  /\ UNCHANGED <<view, direction, input, translateState, shown, request, copyVars>>

----------------------------------------------------------------------------
Init ==
  /\ Client!Init
  /\ mounted = TRUE
  /\ view = "translate"
  /\ direction = "es-to-cak"
  /\ input = Empty
  /\ translateState = Idle
  /\ shown = Idle
  /\ request = None
  /\ warming = {}
  /\ copyState = "idle"
  /\ copying = [k \in 1..MaxCopies |-> None]
  /\ reverts = {}

Next ==
  \/ \E c \in Calls : PromiseSettles(c) \/ WarmingTimer(c) \/ Traducir(c) \/ Reintentar(c)
  \/ Render \/ Type \/ HandleSwap \/ HandleClear \/ ToggleView \/ Unmount
  \/ \E k \in 1..MaxCopies : HandleCopy(k) \/ CopyDone(k)
  \/ \E timer \in {"current", "leaked"} : RevertCopy(timer)

Spec == Init /\ [][Next]_vars

(* Promises settle (TranslatePromise), React renders, timers fire.         *)
Fairness ==
  /\ \A c \in Calls : WF_vars(PromiseSettles(c))
  /\ WF_vars(Render)
  /\ \A timer \in {"current", "leaked"} : WF_vars(RevertCopy(timer))

FairSpec == Spec /\ Fairness

----------------------------------------------------------------------------
Kinds == {"network", "client", "rateLimited", "server", "timeout", "jobNotFound"}
States == {Idle, Loading, Warming} \cup {Failure(k) : k \in Kinds}
            \cup {Success(s, t) : s \in Inputs, t \in Inputs}

(* Every variable has its type.                                            *)
TypeOK ==
  /\ text \in [Calls -> Texts \cup {None}]
  /\ promise \in [Calls -> Client!Outcomes \cup {None}]
  /\ latest \in Calls \cup {None}
  /\ mounted \in BOOLEAN
  /\ view \in {"translate", "about"}
  /\ direction \in Directions
  /\ input \in Inputs
  /\ translateState \in States
  /\ shown \in States
  /\ request \in Calls \cup {None}
  /\ warming \subseteq Calls
  /\ copyState \in {"idle", "success", "error"}
  /\ copying \in [1..MaxCopies -> Inputs \cup {None}]
  /\ reverts \subseteq {"current", "leaked"}

(* "Only one translation is ever in flight at a time" (api.ts:118), it is  *)
(* the current request of a mounted page, and it is the session            *)
(* cancelTranslate() would stop: no poll loop is ever left running.        *)
OneInFlight ==
  \A c \in Calls : Client!Pending(c) => mounted /\ c = latest /\ c = request

(* The spinner turns exactly while the current request is in flight, and a *)
(* result or an error on the page is the current request's: no response of *)
(* an abandoned call, and no late warming timer, reaches the page.         *)
PageMatchesRequest ==
  mounted =>
    /\ IsTranslating(translateState) <=> request # None /\ Client!Pending(request)
    /\ translateState.status = "idle" <=> request = None

(* A translation is never shown next to a direction or a source text that  *)
(* did not produce it, whatever was typed or swapped meanwhile: the report *)
(* link is built from the three of them.                                   *)
ShownTranslationIsGenuine ==
  shown.status = "success" => shown.translation = TranslationOf(shown.source, direction)

(* "Copiado" is not left standing: a timer will revert it, or a clipboard  *)
(* write will end and arm one.                                             *)
CopyFeedbackReverts ==
  copyState # "idle" => reverts # {} \/ \E k \in 1..MaxCopies : copying[k] # None

(* The spinner stops.                                                      *)
SpinnerStops == IsTranslating(shown) /\ mounted ~> ~IsTranslating(shown) \/ ~mounted

=============================================================================
