-------------------------- MODULE TranslatePromise --------------------------
(***************************************************************************)
(* The contract of apps/web/src/api.ts that ADR 0008 keeps: every call of  *)
(* translate() returns a promise that settles, exactly once, with the      *)
(* translation of the text of that very call or with an error, and         *)
(* cancelTranslate() settles the latest one.  How jobs are created and     *)
(* polled is PollClient's business; TranslatorApp is built on this.        *)
(***************************************************************************)
CONSTANTS
  Calls,       \* calls of translate()
  Texts,       \* what is submitted
  HttpCodes,   \* statuses an HTTP error can carry
  None         \* no text yet, no call, or a promise not settled yet

VARIABLES
  text,     \* the argument of each call
  promise,  \* what its promise settled to
  latest    \* the latest call, while its promise is not settled

promiseVars == <<text, promise, latest>>

Resolved(t) == [kind |-> "translation", value |-> t]
Rejected(kind) == [kind |-> kind, value |-> None]
HttpRejection(code) == [kind |-> "http", value |-> code]

Errors == {Rejected(k) : k \in {"network", "timeout", "jobNotFound"}}
            \cup {HttpRejection(c) : c \in HttpCodes}

Outcomes == {Resolved(t) : t \in Texts} \cup Errors \cup {Rejected("cancelled")}

Pending(c) == text[c] # None /\ promise[c] = None

----------------------------------------------------------------------------
Init == /\ text = [c \in Calls |-> None]
        /\ promise = [c \in Calls |-> None]
        /\ latest = None

Call(c, t) == /\ text[c] = None
              /\ text' = [text EXCEPT ![c] = t]
              /\ latest' = c
              /\ UNCHANGED promise

SettleWith(c, outcome) ==
  /\ Pending(c)
  /\ promise' = [promise EXCEPT ![c] = outcome]
  /\ latest' = IF latest = c THEN None ELSE latest
  /\ UNCHANGED text

Settle(c) == \E o \in {Resolved(text[c])} \cup Errors : SettleWith(c, o)

Cancel == IF latest = None
            THEN UNCHANGED promiseVars
            ELSE SettleWith(latest, Rejected("cancelled"))

Next == (\E c \in Calls : (\E t \in Texts : Call(c, t)) \/ Settle(c)) \/ Cancel

Spec == Init /\ [][Next]_promiseVars /\ \A c \in Calls : WF_promiseVars(Settle(c))
=============================================================================
