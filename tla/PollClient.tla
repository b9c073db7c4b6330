----------------------------- MODULE PollClient -----------------------------
(***************************************************************************)
(* The browser's translate-job client, apps/web/src/api.ts: translate()    *)
(* posts a job and polls it, cancelTranslate() abandons the latest call.   *)
(*                                                                         *)
(* A step is what JavaScript runs without awaiting.  The service behind    *)
(* the two routes is TranslateJobs, which JobService is proved to          *)
(* implement; the network between them loses requests and responses.       *)
(***************************************************************************)
EXTENDS Naturals, FiniteSets

CONSTANTS
  Sessions,         \* calls of translate(), and the id of the job each creates
  Texts,            \* what is submitted: a (text, direction) pair
  JobCodes,         \* status codes of failed jobs
  HttpErrors,       \* statuses of refused requests: validation, throttling, 5xx
  None,             \* null
  MaxPollFailures   \* MAX_CONSECUTIVE_POLL_FAILURES

ASSUME NoneAssumption == None \notin Texts \cup Sessions \cup JobCodes \cup HttpErrors

ASSUME PollFailuresAssumption == MaxPollFailures \in Nat \ {0}

(* 500 is what GET answers for a record without a ttl.                     *)
ASSUME StatusAssumption == JobCodes \subseteq Nat /\ HttpErrors \subseteq Nat /\ 500 \in HttpErrors

VARIABLES
  request, answer,  \* the service: TranslateJobs
  sent,             \* calls whose POST may still reach the service
  text,             \* the arguments of each call
  phase,            \* what its chain of callbacks is waiting for
  reply,            \* the response to its GET, while it is on its way
  timers,           \* session.timers: the overall timeout and the next poll
  aborted,          \* session.controller.signal.aborted
  failures,         \* consecutivePollFailures
  promise,          \* what it settled to; None while session.settled is false
  currentSession,
  lost              \* history: GETs of the call lost since one was answered

serverVars  == <<request, answer>>
sessionVars == <<text, phase, reply, timers, aborted, failures, promise, currentSession>>
clientVars  == <<serverVars, sent, sessionVars, lost>>

Server == INSTANCE TranslateJobs
  WITH Jobs <- Sessions, Requests <- Texts, Codes <- JobCodes, Absent <- None

HttpError(code) == Server!Answer("httpError", code)

Promise == INSTANCE TranslatePromise
  WITH Calls <- Sessions, HttpCodes <- JobCodes \cup HttpErrors, latest <- currentSession

ASSUME OutcomesAssumption == None \notin Promise!Outcomes

Settled(s) == promise[s] # None

----------------------------------------------------------------------------
(* settle(): the first outcome wins, and takes the timers with it.         *)
Settle(s, outcome) ==
  IF Settled(s)
    THEN UNCHANGED <<promise, timers, currentSession>>
    ELSE /\ promise' = [promise EXCEPT ![s] = outcome]
         /\ timers' = [timers EXCEPT ![s] = {}]
         /\ currentSession' = IF currentSession = s THEN None ELSE currentSession

End(s) == phase' = [phase EXCEPT ![s] = "ended"]

(* Mutant: a poll is scheduled whether or not the session was settled.     *)
Careless_SchedulePoll(s) ==
  /\ phase' = [phase EXCEPT ![s] = "waiting"]
  /\ timers' = [timers EXCEPT ![s] = @ \cup {"poll"}]

SchedulePoll(s) ==
  IF Settled(s)
    THEN End(s) /\ UNCHANGED timers
    ELSE /\ phase' = [phase EXCEPT ![s] = "waiting"]
         /\ timers' = [timers EXCEPT ![s] = @ \cup {"poll"}]

StartPoll(s) == phase' = [phase EXCEPT ![s] = IF Settled(s) THEN "ended" ELSE "polling"]

----------------------------------------------------------------------------
(* translate() up to its POST.                                             *)
Translate(s, t) ==
  /\ text[s] = None
  /\ text' = [text EXCEPT ![s] = t]
  /\ currentSession' = s
  /\ timers' = [timers EXCEPT ![s] = {"overall"}]
  /\ phase' = [phase EXCEPT ![s] = "posting"]
  /\ sent' = sent \cup {s}
  /\ UNCHANGED <<serverVars, reply, aborted, failures, promise, lost>>

(* The service gets the POST, perhaps after the caller gave it up.         *)
PostDelivered(s) ==
  /\ s \in sent
  /\ Server!Submit(s, text[s])
  /\ sent' = sent \ {s}
  /\ UNCHANGED <<sessionVars, lost>>

PostAnswered(s) ==
  /\ phase[s] = "posting"
  /\ request[s] # None
  /\ ~aborted[s]
  /\ phase' = [phase EXCEPT ![s] = "reading"]
  /\ UNCHANGED <<serverVars, sent, text, reply, timers, aborted, failures, promise,
                 currentSession, lost>>

(* Refused before the service saw it, or failed there after it was stored. *)
PostRefused(s) ==
  /\ phase[s] = "posting"
  /\ ~aborted[s]
  /\ \E code \in HttpErrors : Settle(s, Promise!HttpRejection(code))
  /\ End(s)
  /\ sent' = sent \ {s}
  /\ UNCHANGED <<serverVars, text, reply, aborted, failures, lost>>

(* A lost POST, or a lost answer to it: the call gives up at once.         *)
PostLost(s) ==
  /\ phase[s] = "posting"
  /\ ~aborted[s]
  /\ Settle(s, Promise!Rejected("network"))
  /\ End(s)
  /\ UNCHANGED <<serverVars, sent, text, reply, aborted, failures, lost>>

(* A body that had arrived before the abort is read all the same.          *)
JobIdRead(s) ==
  /\ phase[s] = "reading"
  /\ StartPoll(s)
  /\ UNCHANGED <<serverVars, sent, text, reply, timers, aborted, failures, promise,
                 currentSession, lost>>

----------------------------------------------------------------------------
(* poll().                                                                 *)

PollTimer(s) ==
  /\ "poll" \in timers[s]
  /\ timers' = [timers EXCEPT ![s] = @ \ {"poll"}]
  /\ StartPoll(s)
  /\ UNCHANGED <<serverVars, sent, text, reply, aborted, failures, promise,
                 currentSession, lost>>

(* The service answers, or the gateway does in its stead.                  *)
GetReplied(s) ==
  /\ phase[s] = "polling"
  /\ reply[s] = None
  /\ reply' \in {[reply EXCEPT ![s] = r] :
                   r \in Server!Readable(s) \cup {HttpError(c) : c \in HttpErrors}}
  /\ UNCHANGED <<serverVars, sent, text, phase, timers, aborted, failures, promise,
                 currentSession, lost>>

Refusal(r) ==
  CASE r.status = "notFound"    -> Promise!Rejected("jobNotFound")
    [] r.status = "serverError" -> Promise!HttpRejection(500)
    [] r.status = "httpError"   -> Promise!HttpRejection(r.value)

(* Mutant: consecutivePollFailures is never reset.                         *)
Cumulative_GetAnswered(s) ==
  /\ phase[s] = "polling"
  /\ reply[s] # None
  /\ ~aborted[s]
  /\ lost' = [lost EXCEPT ![s] = 0]
  /\ IF reply[s].status \in {"notFound", "serverError", "httpError"}
       THEN /\ Settle(s, Refusal(reply[s]))
            /\ End(s)
            /\ reply' = [reply EXCEPT ![s] = None]
       ELSE /\ phase' = [phase EXCEPT ![s] = "parsing"]
            /\ UNCHANGED <<reply, timers, promise, currentSession>>
  /\ UNCHANGED <<serverVars, sent, text, aborted, failures>>

(* A 404 or another refusal settles at once; a 200 is read.                *)
GetAnswered(s) ==
  /\ phase[s] = "polling"
  /\ reply[s] # None
  /\ ~aborted[s]
  /\ lost' = [lost EXCEPT ![s] = 0]
  /\ IF reply[s].status \in {"notFound", "serverError", "httpError"}
       THEN /\ Settle(s, Refusal(reply[s]))
            /\ End(s)
            /\ reply' = [reply EXCEPT ![s] = None]
            /\ UNCHANGED failures
       ELSE /\ phase' = [phase EXCEPT ![s] = "parsing"]
            /\ failures' = [failures EXCEPT ![s] = 0]
            /\ UNCHANGED <<reply, timers, promise, currentSession>>
  /\ UNCHANGED <<serverVars, sent, text, aborted>>

GetLost(s) ==
  /\ phase[s] = "polling"
  /\ ~aborted[s]
  /\ failures' = [failures EXCEPT ![s] = @ + 1]
  /\ lost' = [lost EXCEPT ![s] = @ + 1]
  /\ reply' = [reply EXCEPT ![s] = None]
  /\ IF failures'[s] >= MaxPollFailures
       THEN Settle(s, Promise!Rejected("network")) /\ End(s)
       ELSE SchedulePoll(s) /\ UNCHANGED <<promise, currentSession>>
  /\ UNCHANGED <<serverVars, sent, text, aborted>>

StatusRead(s) ==
  /\ phase[s] = "parsing"
  /\ reply' = [reply EXCEPT ![s] = None]
  /\ CASE reply[s].status = "succeeded" ->
            Settle(s, Promise!Resolved(reply[s].value)) /\ End(s)
       [] reply[s].status = "failed" ->
            Settle(s, Promise!HttpRejection(reply[s].value)) /\ End(s)
       [] reply[s].status = "pending" ->
            SchedulePoll(s) /\ UNCHANGED <<promise, currentSession>>
  /\ UNCHANGED <<serverVars, sent, text, aborted, failures, lost>>

(* response.json() rejects, in the POST's continuation or in poll(): there *)
(* is no handler, so the chain of callbacks stops where it is.             *)
BodyLost(s) ==
  /\ phase[s] \in {"reading", "parsing"}
  /\ ~aborted[s]
  /\ End(s)
  /\ reply' = [reply EXCEPT ![s] = None]
  /\ UNCHANGED <<serverVars, sent, text, timers, aborted, failures, promise,
                 currentSession, lost>>

(* An aborted fetch or body read rejects, and nothing follows.             *)
FetchAborted(s) ==
  /\ aborted[s]
  /\ phase[s] \in {"posting", "reading", "polling", "parsing"}
  /\ End(s)
  /\ reply' = [reply EXCEPT ![s] = None]
  /\ UNCHANGED <<serverVars, sent, text, timers, aborted, failures, promise,
                 currentSession, lost>>

----------------------------------------------------------------------------
(* The overall timeout and cancelTranslate().                              *)

(* Mutant: the timeout leaves settling to the aborted request.             *)
AbortOnly_OverallTimeout(s) ==
  /\ "overall" \in timers[s]
  /\ aborted' = [aborted EXCEPT ![s] = TRUE]
  /\ timers' = [timers EXCEPT ![s] = @ \ {"overall"}]
  /\ UNCHANGED <<serverVars, sent, text, phase, reply, failures, promise, currentSession, lost>>

OverallTimeout(s) ==
  /\ "overall" \in timers[s]
  /\ aborted' = [aborted EXCEPT ![s] = TRUE]
  /\ Settle(s, Promise!Rejected("timeout"))
  /\ UNCHANGED <<serverVars, sent, text, phase, reply, failures, lost>>

CancelTranslate ==
  IF currentSession = None
    THEN UNCHANGED <<promise, timers, currentSession, aborted>>
    ELSE /\ Settle(currentSession, Promise!Rejected("cancelled"))
         /\ aborted' = [aborted EXCEPT ![currentSession] = TRUE]

Cancel ==
  /\ CancelTranslate
  /\ UNCHANGED <<serverVars, sent, text, phase, reply, failures, lost>>

----------------------------------------------------------------------------
(* Meanwhile in the service.                                               *)
ServerStep ==
  /\ \/ \E s \in Sessions : Server!Resolve(s) \/ Server!Revive(s)
     \/ \E S \in SUBSET Sessions : S # {} /\ Server!Expire(S)
  /\ UNCHANGED <<sent, sessionVars, lost>>

ClientInit ==
  /\ Server!Init
  /\ sent = {}
  /\ text = [s \in Sessions |-> None]
  /\ phase = [s \in Sessions |-> "idle"]
  /\ reply = [s \in Sessions |-> None]
  /\ timers = [s \in Sessions |-> {}]
  /\ aborted = [s \in Sessions |-> FALSE]
  /\ failures = [s \in Sessions |-> 0]
  /\ promise = [s \in Sessions |-> None]
  /\ currentSession = None
  /\ lost = [s \in Sessions |-> 0]

(* What the browser runs on its own, once translate() was called.          *)
Callback(s) ==
  \/ PostAnswered(s) \/ PostRefused(s) \/ PostLost(s) \/ JobIdRead(s)
  \/ PollTimer(s) \/ GetAnswered(s) \/ GetLost(s) \/ StatusRead(s)
  \/ BodyLost(s) \/ FetchAborted(s) \/ OverallTimeout(s)

Environment ==
  \/ \E s \in Sessions : PostDelivered(s) \/ GetReplied(s)
  \/ ServerStep

ClientNext ==
  \/ \E s \in Sessions : (\E t \in Texts : Translate(s, t)) \/ Callback(s)
  \/ Cancel
  \/ Environment

ClientSpec == ClientInit /\ [][ClientNext]_clientVars

(* A browser's timer fires.  Nothing else is assumed: requests may hang.   *)
TimerFairness == \A s \in Sessions : WF_clientVars(OverallTimeout(s))

ClientFairSpec == ClientSpec /\ TimerFairness

----------------------------------------------------------------------------
Phases == {"idle", "posting", "reading", "waiting", "polling", "parsing", "ended"}

Replies == [status : {"notFound", "pending", "succeeded", "failed", "serverError", "httpError"},
            value : Texts \cup JobCodes \cup HttpErrors \cup {None}]

(* Every variable has its type.                                            *)
ClientTypeOK ==
  /\ request \in [Sessions -> Texts \cup {None}]
  /\ answer \in [Sessions -> Replies]
  /\ sent \subseteq Sessions
  /\ text \in [Sessions -> Texts \cup {None}]
  /\ phase \in [Sessions -> Phases]
  /\ reply \in [Sessions -> Replies \cup {None}]
  /\ timers \in [Sessions -> SUBSET {"overall", "poll"}]
  /\ aborted \in [Sessions -> BOOLEAN]
  /\ failures \in [Sessions -> 0..MaxPollFailures]
  /\ promise \in [Sessions -> Promise!Outcomes \cup {None}]
  /\ currentSession \in Sessions \cup {None}
  /\ lost \in [Sessions -> 0..MaxPollFailures]

(* Nothing a settled call leaves behind can make another request: no timer *)
(* is armed, and whatever it still awaits was aborted (ADR 0008: the poll  *)
(* loop is "actually cancelled", not its result discarded).                *)
QuietOnceSettled ==
  \A s \in Sessions : Settled(s) =>
    /\ timers[s] = {}
    /\ phase[s] = "ended" \/ aborted[s]

(* A call that got a job id gives up for the network only when its last    *)
(* MaxPollFailures GETs were all lost (ADR 0008: "several consecutive poll *)
(* failures"); with no GET lost it is the POST that failed.                *)
NetworkErrorMeansOutage ==
  \A s \in Sessions : promise[s] = Promise!Rejected("network") => lost[s] \in {0, MaxPollFailures}

(* api.ts keeps its contract: a call settles once, with the translation of *)
(* its own text or an error, and it does settle, whatever hangs; and       *)
(* cancelTranslate() settles the latest call.                              *)
RefinesTranslatePromise == Promise!Spec

(* "The client should retry the poll silently and only surface a           *)
(* TranslateNetworkError after several consecutive poll failures, or once  *)
(* its own overall timeout elapses" (ADR 0008, section 4): a GET that goes *)
(* wrong is followed by another one, or by the call's rejection.           *)
PollsUntilSettled ==
  [][\A s \in Sessions : phase[s] \in {"polling", "parsing"} /\ phase'[s] = "ended"
                           => Settled(s)']_clientVars
=============================================================================
