-------------------------- MODULE PollClientProofs --------------------------
(***************************************************************************)
(* Proofs about PollClient, for any number of calls of translate() and any *)
(* number of consecutive failures.                                         *)
(***************************************************************************)
EXTENDS PollClient, TLAPS

(* What GET can answer about the job of a call.                            *)
Answers(s) ==
  {Server!NotFound, Server!Pending, Server!ServerError, Server!Answer("succeeded", text[s])}
    \cup {Server!Answer("failed", c) : c \in JobCodes} \cup {HttpError(c) : c \in HttpErrors}

Refused == {"notFound", "serverError", "httpError"}

(* A call that was not made has left no trace, and the current session is  *)
(* a call that was made and has not settled.                               *)
CalledInv(s) ==
  /\ text[s] = None =>
       /\ phase[s] = "idle" /\ reply[s] = None /\ timers[s] = {} /\ promise[s] = None
       /\ s \notin sent /\ request[s] = None /\ failures[s] = 0 /\ lost[s] = 0
  /\ currentSession = s => text[s] # None /\ ~Settled(s)

(* The service and the network speak of the call's own text, and what is   *)
(* being parsed is a 200.                                                  *)
AnswersInv(s) ==
  /\ request[s] \in {None, text[s]}
  /\ request[s] = None => answer[s] = Server!NotFound
  /\ answer[s] \in Answers(s)
  /\ reply[s] # None => reply[s] \in Answers(s)
  /\ phase[s] = "parsing" => reply[s] \in Answers(s) /\ reply[s].status \notin Refused

QuietInv(s) ==
  Settled(s) => timers[s] = {} /\ (phase[s] = "ended" \/ aborted[s])

(* While a call has not settled, the failures it counts are the GETs lost  *)
(* in a row.                                                               *)
CountInv(s) ==
  /\ ~Settled(s) => failures[s] = lost[s] /\ failures[s] < MaxPollFailures
  /\ phase[s] \in {"idle", "posting"} => lost[s] = 0
  /\ promise[s] = Promise!Rejected("network") => lost[s] \in {0, MaxPollFailures}

SessionInv(s) == CalledInv(s) /\ AnswersInv(s) /\ QuietInv(s) /\ CountInv(s)

Inv == ClientTypeOK /\ \A s \in Sessions : SessionInv(s)

----------------------------------------------------------------------------
(* A session none of whose state changes keeps its invariant, unless it    *)
(* becomes the current one.                                                *)
Untouched(s) ==
  /\ request'[s] = request[s] /\ answer'[s] = answer[s] /\ (s \in sent' <=> s \in sent)
  /\ text'[s] = text[s] /\ phase'[s] = phase[s] /\ reply'[s] = reply[s]
  /\ timers'[s] = timers[s] /\ aborted'[s] = aborted[s] /\ failures'[s] = failures[s]
  /\ promise'[s] = promise[s] /\ lost'[s] = lost[s]
  /\ currentSession' = s => currentSession = s

(* The part of the invariant about an untouched session is kept.            *)
LEMMA UntouchedKeeps ==
  ASSUME NEW s \in Sessions, SessionInv(s), Untouched(s)
  PROVE  SessionInv(s)'
BY DEF SessionInv, CalledInv, AnswersInv, QuietInv, CountInv, Untouched, Settled, Answers

(* settle() leaves the session settled, and touches no other.              *)
LEMMA SettleEffect ==
  ASSUME ClientTypeOK, NEW s \in Sessions, NEW o \in Promise!Outcomes, Settle(s, o)
  PROVE  /\ promise' \in [Sessions -> Promise!Outcomes \cup {None}]
         /\ timers' \in [Sessions -> SUBSET {"overall", "poll"}]
         /\ currentSession' \in {currentSession, None}
         /\ promise'[s] # None
         /\ promise'[s] = (IF Settled(s) THEN promise[s] ELSE o)
         /\ timers'[s] = (IF Settled(s) THEN timers[s] ELSE {})
         /\ ~Settled(s) => currentSession' # s
         /\ \A r \in Sessions : r # s => promise'[r] = promise[r] /\ timers'[r] = timers[r]
<1>1. CASE Settled(s)
  BY <1>1 DEF Settle, Settled, ClientTypeOK
<1>2. CASE ~Settled(s)
  BY <1>2, OutcomesAssumption, NoneAssumption DEF Settle, Settled, ClientTypeOK
<1> QED
  BY <1>1, <1>2

(* The outcomes the code settles with are outcomes of the contract.        *)
LEMMA OutcomeFacts ==
  /\ \A k \in {"network", "timeout", "jobNotFound"} :
       Promise!Rejected(k) \in Promise!Errors /\ Promise!Rejected(k) \in Promise!Outcomes
  /\ Promise!Rejected("cancelled") \in Promise!Outcomes
  /\ \A c \in JobCodes \cup HttpErrors :
       /\ Promise!HttpRejection(c) \in Promise!Errors
       /\ Promise!HttpRejection(c) \in Promise!Outcomes
       /\ Promise!HttpRejection(c) # Promise!Rejected("network")
  /\ \A t \in Texts :
       /\ Promise!Resolved(t) \in Promise!Outcomes
       /\ Promise!Resolved(t) # Promise!Rejected("network")
  /\ \A k \in {"timeout", "jobNotFound", "cancelled"} :
       Promise!Rejected(k) # Promise!Rejected("network")
BY DEF Promise!Rejected, Promise!HttpRejection, Promise!Resolved, Promise!Errors,
       Promise!Outcomes

(* What a reply may be, and what it settles the call with when it is       *)
(* refused.                                                                *)
LEMMA AnswerFacts ==
  ASSUME NEW s \in Sessions, text[s] \in Texts \cup {None}, NEW r \in Answers(s)
  PROVE  /\ text[s] \in Texts => r \in Replies
         /\ r.status = "succeeded" => r.value = text[s]
         /\ r.status = "failed" => r.value \in JobCodes
         /\ r.status \in Refused => Refusal(r) \in Promise!Errors
         /\ r.status \in Refused => Refusal(r) # Promise!Rejected("network")
         /\ r.status \in Refused \/ r.status \in {"succeeded", "failed", "pending"}
<1>1. \/ r = Server!NotFound \/ r = Server!Pending \/ r = Server!ServerError
      \/ r = Server!Answer("succeeded", text[s])
      \/ \E c \in JobCodes : r = Server!Answer("failed", c)
      \/ \E c \in HttpErrors : r = HttpError(c)
  BY DEF Answers
<1>2. /\ text[s] \in Texts => r \in Replies
      /\ r.status = "succeeded" => r.value = text[s]
      /\ r.status = "failed" => r.value \in JobCodes
      /\ r.status = "httpError" => r.value \in HttpErrors
      /\ r.status \in Refused \/ r.status \in {"succeeded", "failed", "pending"}
  BY <1>1 DEF Replies, Refused, HttpError, Server!NotFound, Server!Pending,
              Server!ServerError, Server!Answer
<1>3. ASSUME r.status \in Refused
      PROVE  Refusal(r) \in Promise!Errors /\ Refusal(r) # Promise!Rejected("network")
  <2>1. CASE r.status = "notFound"
    BY <2>1, OutcomeFacts DEF Refusal
  <2>2. CASE r.status = "serverError"
    BY <2>2, OutcomeFacts, StatusAssumption DEF Refusal
  <2>3. CASE r.status = "httpError"
    BY <1>2, <2>3, OutcomeFacts DEF Refusal
  <2> QED
    BY <1>3, <2>1, <2>2, <2>3 DEF Refused
<1> QED
  BY <1>2, <1>3

----------------------------------------------------------------------------
(* A step of one session.                                                  *)
LEMMA LocalStep ==
  ASSUME Inv, NEW s \in Sessions, ClientTypeOK', SessionInv(s)',
         \A r \in Sessions : r # s => Untouched(r)
  PROVE  Inv'
<1>1. ASSUME NEW r \in Sessions, r # s PROVE SessionInv(r)'
  BY <1>1, UntouchedKeeps DEF Inv
<1> QED
  BY <1>1 DEF Inv

(* A module just loaded has made no call: the invariant starts true.        *)
LEMMA InvInit == ClientInit => Inv
<1> SUFFICES ASSUME ClientInit PROVE Inv
  OBVIOUS
<1>1. Server!NotFound \in Replies
  BY DEF Replies, Server!NotFound, Server!Answer
<1>2. ClientTypeOK
  BY <1>1, PollFailuresAssumption DEF ClientInit, Server!Init, ClientTypeOK, Phases
<1>3. ASSUME NEW s \in Sessions PROVE SessionInv(s)
  BY NoneAssumption, PollFailuresAssumption
     DEF ClientInit, Server!Init, SessionInv, CalledInv, AnswersInv, QuietInv, CountInv,
         Settled, Answers
<1> QED
  BY <1>2, <1>3 DEF Inv

(* The service answers GET with what concerns the text of the call.        *)
LEMMA ServerKeeps ==
  ASSUME Inv, ServerStep
  PROVE  Inv'
<1>1. UNCHANGED <<sent, text, phase, reply, timers, aborted, failures, promise,
                  currentSession, lost>>
  BY DEF ServerStep, sessionVars
<1>2. request' = request
  BY DEF ServerStep, Server!Resolve, Server!Revive, Server!Expire
<1>3. answer' = [s \in Sessions |-> answer'[s]]
  <2>1. answer = [s \in Sessions |-> answer[s]]
    BY DEF Inv, ClientTypeOK
  <2> QED
    BY <2>1 DEF ServerStep, Server!Resolve, Server!Revive, Server!Expire
<1>4. ASSUME NEW s \in Sessions
      PROVE  \/ answer'[s] = answer[s]
             \/ answer'[s] = Server!NotFound
             \/ request[s] # None /\ answer'[s] = Server!ServerError
             \/ answer[s] = Server!Pending /\ answer'[s] \in Server!Results(request[s])
  <2>1. answer \in [Sessions -> Replies]
    BY DEF Inv, ClientTypeOK
  <2> QED
    BY <2>1 DEF ServerStep, Server!Resolve, Server!Revive, Server!Expire
<1>5. ASSUME NEW s \in Sessions
      PROVE  /\ answer'[s] \in Answers(s) /\ answer'[s] \in Replies
             /\ request[s] = None => answer'[s] = Server!NotFound
  <2>1. /\ answer[s] \in Answers(s) /\ answer[s] \in Replies
        /\ request[s] = None => answer[s] = Server!NotFound
        /\ request[s] # None => request[s] = text[s] /\ text[s] \in Texts
    BY DEF Inv, SessionInv, AnswersInv, ClientTypeOK
  <2>2. Server!Pending # Server!NotFound
    BY DEF Server!Pending, Server!NotFound, Server!Answer
  <2>3. Server!NotFound \in Replies /\ Server!ServerError \in Replies
    BY DEF Replies, Server!NotFound, Server!ServerError, Server!Answer
  <2>4. ASSUME answer[s] = Server!Pending, answer'[s] \in Server!Results(request[s])
        PROVE  request[s] # None /\ answer'[s] \in Answers(s) /\ answer'[s] \in Replies
    <3>1. request[s] # None /\ request[s] = text[s] /\ text[s] \in Texts
      BY <2>1, <2>2, <2>4
    <3>2. answer'[s] \in Answers(s)
      BY <2>4, <3>1 DEF Server!Results, Answers
    <3> QED
      BY <3>1, <3>2, AnswerFacts
  <2> QED
    BY <1>4, <2>1, <2>3, <2>4 DEF Answers
<1>6. ClientTypeOK'
  BY <1>1, <1>2, <1>3, <1>5 DEF Inv, ClientTypeOK
<1>7. ASSUME NEW s \in Sessions PROVE SessionInv(s)'
  BY <1>1, <1>2, <1>5
     DEF Inv, SessionInv, CalledInv, AnswersInv, QuietInv, CountInv, Settled, Answers
<1> QED
  BY <1>6, <1>7 DEF Inv

(* A step that settles a call, and either ends its chain of callbacks or   *)
(* aborts it, keeps the invariant.                                         *)
LEMMA SettlingKeeps ==
  ASSUME Inv, NEW s \in Sessions, NEW o \in Promise!Outcomes, Settle(s, o),
         text[s] # None, text' = text, UNCHANGED serverVars,
         sent' \subseteq sent, \A r \in Sessions : r # s => (r \in sent' <=> r \in sent),
         reply' \in {reply, [reply EXCEPT ![s] = None]},
         failures' \in [Sessions -> 0..MaxPollFailures],
         lost' \in [Sessions -> 0..MaxPollFailures],
         \A r \in Sessions : r # s => failures'[r] = failures[r] /\ lost'[r] = lost[r],
         \/ phase' = [phase EXCEPT ![s] = "ended"] /\ aborted' = aborted
         \/ UNCHANGED <<phase, reply, lost>> /\ aborted' = [aborted EXCEPT ![s] = TRUE],
         Settled(s) => lost' = lost,
         ~Settled(s) /\ o = Promise!Rejected("network") => lost'[s] \in {0, MaxPollFailures}
  PROVE  Inv'
<1>1. /\ promise' \in [Sessions -> Promise!Outcomes \cup {None}]
      /\ timers' \in [Sessions -> SUBSET {"overall", "poll"}]
      /\ currentSession' \in {currentSession, None}
      /\ promise'[s] # None
      /\ promise'[s] = (IF Settled(s) THEN promise[s] ELSE o)
      /\ timers'[s] = (IF Settled(s) THEN timers[s] ELSE {})
      /\ ~Settled(s) => currentSession' # s
      /\ \A r \in Sessions : r # s => promise'[r] = promise[r] /\ timers'[r] = timers[r]
  BY SettleEffect DEF Inv
<1>2. currentSession' # s
  BY <1>1, NoneAssumption DEF Inv, SessionInv, CalledInv
<1>3. ClientTypeOK'
  BY <1>1 DEF Inv, ClientTypeOK, serverVars, Phases
<1>4. CalledInv(s)' /\ QuietInv(s)'
  BY <1>1, <1>2 DEF Inv, ClientTypeOK, SessionInv, CalledInv, QuietInv, Settled
<1>5. AnswersInv(s)'
  BY DEF Inv, ClientTypeOK, SessionInv, AnswersInv, Answers, serverVars
<1>6. CountInv(s)'
  BY <1>1 DEF Inv, ClientTypeOK, SessionInv, CountInv, Settled
<1>7. \A r \in Sessions : r # s => Untouched(r)
  BY <1>1, NoneAssumption DEF Inv, ClientTypeOK, Untouched, serverVars
<1> QED
  BY <1>3, <1>4, <1>5, <1>6, <1>7, LocalStep DEF SessionInv

(* cancelTranslate() settles and aborts the current session.               *)
LEMMA CancelKeeps ==
  ASSUME Inv, Cancel
  PROVE  Inv'
<1>1. CASE currentSession = None
  <2>1. UNCHANGED clientVars
    BY <1>1 DEF Cancel, CancelTranslate, clientVars, sessionVars, serverVars
  <2> QED
    BY <2>1 DEF clientVars, sessionVars, serverVars, Inv, ClientTypeOK, SessionInv, CalledInv,
                AnswersInv, QuietInv, CountInv, Settled, Answers
<1>2. CASE currentSession # None
  <2>1. PICK s \in Sessions : s = currentSession
    BY <1>2 DEF Inv, ClientTypeOK
  <2>2. /\ Settle(s, Promise!Rejected("cancelled"))
        /\ aborted' = [aborted EXCEPT ![s] = TRUE]
        /\ UNCHANGED <<serverVars, sent, text, phase, reply, failures, lost>>
        /\ text[s] # None
    BY <1>2, <2>1 DEF Cancel, CancelTranslate, Inv, SessionInv, CalledInv
  <2> QED
    BY <2>2, SettlingKeeps, OutcomeFacts DEF Inv, ClientTypeOK
<1> QED
  BY <1>1, <1>2

(* A chain of callbacks that waits for the network belongs to a call that  *)
(* was made, and unless it was aborted that call has not settled.          *)
LEMMA InFlight ==
  ASSUME Inv, NEW s \in Sessions
  PROVE  /\ phase[s] # "idle" => text[s] \in Texts
         /\ phase[s] \notin {"idle", "ended"} /\ ~aborted[s] => ~Settled(s)
         /\ timers[s] # {} => text[s] \in Texts /\ ~Settled(s)
BY DEF Inv, ClientTypeOK, SessionInv, CalledInv, QuietInv, Settled

(* The POST.                                                               *)
LEMMA PostKeeps ==
  ASSUME Inv, NEW s \in Sessions,
         \/ \E t \in Texts : Translate(s, t)
         \/ PostDelivered(s) \/ PostAnswered(s) \/ PostRefused(s) \/ PostLost(s) \/ JobIdRead(s)
  PROVE  Inv'
<1>1. ASSUME NEW t \in Texts, Translate(s, t) PROVE Inv'
  <2>1. ClientTypeOK'
    BY <1>1 DEF Translate, Inv, ClientTypeOK, serverVars, Phases
  <2>2. t # None
    BY NoneAssumption
  <2>3. SessionInv(s)'
    BY <1>1, <2>2, PollFailuresAssumption
       DEF Translate, Inv, ClientTypeOK, serverVars, SessionInv, CalledInv, AnswersInv,
           QuietInv, CountInv, Settled, Answers
  <2>4. \A r \in Sessions : r # s => Untouched(r)
    BY <1>1 DEF Translate, Inv, ClientTypeOK, serverVars, Untouched
  <2> QED
    BY <2>1, <2>3, <2>4, LocalStep
<1>2. CASE PostDelivered(s)
  <2>1. Server!Pending \in Replies
    BY DEF Server!Pending, Server!Answer, Replies
  <2>2. /\ s \in sent /\ sent' = sent \ {s} /\ UNCHANGED <<sessionVars, lost>>
        /\ request' = [request EXCEPT ![s] = text[s]]
        /\ answer' = [answer EXCEPT ![s] = Server!Pending]
    BY <1>2 DEF PostDelivered, Server!Submit
  <2>3. text[s] # None
    BY <2>2 DEF Inv, SessionInv, CalledInv
  <2>4. ClientTypeOK'
    BY <2>1, <2>2 DEF Inv, ClientTypeOK, sessionVars
  <2>5. SessionInv(s)'
    BY <2>2, <2>3
       DEF Inv, ClientTypeOK, sessionVars, SessionInv, CalledInv, AnswersInv, QuietInv,
           CountInv, Settled, Answers
  <2>6. \A r \in Sessions : r # s => Untouched(r)
    BY <2>2 DEF Inv, ClientTypeOK, sessionVars, Untouched
  <2> QED
    BY <2>4, <2>5, <2>6, LocalStep
<1>3. CASE PostAnswered(s)
  <2>1. ~Settled(s) /\ text[s] \in Texts
    BY <1>3, InFlight DEF PostAnswered
  <2>2. ClientTypeOK' /\ \A r \in Sessions : r # s => Untouched(r)
    BY <1>3 DEF PostAnswered, Inv, ClientTypeOK, serverVars, Untouched, Phases
  <2>3. SessionInv(s)'
    BY <1>3, <2>1, NoneAssumption
       DEF PostAnswered, Inv, ClientTypeOK, serverVars, SessionInv, CalledInv, AnswersInv,
           QuietInv, CountInv, Settled, Answers
  <2> QED
    BY <2>2, <2>3, LocalStep
<1>4. CASE PostRefused(s)
  <2>1. PICK code \in HttpErrors : Settle(s, Promise!HttpRejection(code))
    BY <1>4 DEF PostRefused
  <2>2. text[s] # None
    BY <1>4, InFlight, NoneAssumption DEF PostRefused
  <2> QED
    BY <1>4, <2>1, <2>2, SettlingKeeps, OutcomeFacts DEF PostRefused, End, Inv, ClientTypeOK
<1>5. CASE PostLost(s)
  <2>1. text[s] # None
    BY <1>5, InFlight, NoneAssumption DEF PostLost
  <2>2. lost[s] = 0
    BY <1>5 DEF PostLost, Inv, SessionInv, CountInv
  <2> QED
    BY <1>5, <2>1, <2>2, SettlingKeeps, OutcomeFacts DEF PostLost, End, Inv, ClientTypeOK
<1>6. CASE JobIdRead(s)
  <2>1. text[s] \in Texts
    BY <1>6, InFlight DEF JobIdRead
  <2>2. ClientTypeOK' /\ \A r \in Sessions : r # s => Untouched(r)
    BY <1>6 DEF JobIdRead, StartPoll, Inv, ClientTypeOK, serverVars, Untouched, Phases
  <2>3. SessionInv(s)'
    BY <1>6, <2>1, NoneAssumption
       DEF JobIdRead, StartPoll, Inv, ClientTypeOK, serverVars, SessionInv, CalledInv,
           AnswersInv, QuietInv, CountInv, Settled, Answers
  <2> QED
    BY <2>2, <2>3, LocalStep
<1> QED
  BY <1>1, <1>2, <1>3, <1>4, <1>5, <1>6

(* The poll loop.                                                          *)
LEMMA PollKeeps ==
  ASSUME Inv, NEW s \in Sessions,
         \/ PollTimer(s) \/ GetReplied(s) \/ GetAnswered(s) \/ GetLost(s) \/ StatusRead(s)
         \/ BodyLost(s) \/ FetchAborted(s) \/ OverallTimeout(s)
  PROVE  Inv'
<1>1. CASE PollTimer(s)
  <2>1. text[s] \in Texts /\ ~Settled(s)
    BY <1>1, InFlight DEF PollTimer
  <2>2. ClientTypeOK' /\ \A r \in Sessions : r # s => Untouched(r)
    BY <1>1 DEF PollTimer, StartPoll, Inv, ClientTypeOK, serverVars, Untouched, Phases
  <2>3. SessionInv(s)'
    BY <1>1, <2>1, NoneAssumption
       DEF PollTimer, StartPoll, Inv, ClientTypeOK, serverVars, SessionInv, CalledInv,
           AnswersInv, QuietInv, CountInv, Settled, Answers
  <2> QED
    BY <2>2, <2>3, LocalStep
<1>2. CASE GetReplied(s)
  <2>1. PICK r \in Server!Readable(s) \cup {HttpError(c) : c \in HttpErrors} :
          reply' = [reply EXCEPT ![s] = r]
    BY <1>2 DEF GetReplied
  <2>2. text[s] \in Texts
    BY <1>2, InFlight DEF GetReplied
  <2>3. r \in Answers(s) /\ r \in Replies
    <3>1. Server!Readable(s) \subseteq {answer[s], Server!NotFound, Server!Pending}
      BY DEF Server!Readable
    <3>2. r \in Answers(s)
      BY <2>1, <3>1 DEF Inv, SessionInv, AnswersInv, Answers
    <3> QED
      BY <2>2, <3>2, AnswerFacts
  <2>4. ClientTypeOK' /\ \A q \in Sessions : q # s => Untouched(q)
    BY <1>2, <2>1, <2>3 DEF GetReplied, Inv, ClientTypeOK, serverVars, Untouched
  <2>5. SessionInv(s)'
    BY <1>2, <2>1, <2>2, <2>3, NoneAssumption
       DEF GetReplied, Inv, ClientTypeOK, serverVars, SessionInv, CalledInv, AnswersInv,
           QuietInv, CountInv, Settled, Answers
  <2> QED
    BY <2>4, <2>5, LocalStep
<1>3. CASE GetAnswered(s)
  <2>1. ~Settled(s) /\ text[s] \in Texts /\ reply[s] \in Answers(s)
    BY <1>3, InFlight DEF GetAnswered, Inv, SessionInv, AnswersInv
  <2>2. CASE reply[s].status \in Refused
    <3>1. /\ Refusal(reply[s]) \in Promise!Outcomes
          /\ Refusal(reply[s]) # Promise!Rejected("network")
      BY <2>1, <2>2, AnswerFacts DEF Promise!Outcomes
    <3>2. Settle(s, Refusal(reply[s])) /\ lost' = [lost EXCEPT ![s] = 0]
          /\ phase' = [phase EXCEPT ![s] = "ended"] /\ reply' = [reply EXCEPT ![s] = None]
          /\ UNCHANGED <<serverVars, sent, text, aborted, failures>>
      BY <1>3, <2>2 DEF GetAnswered, Refused, End
    <3>3. lost' \in [Sessions -> 0..MaxPollFailures]
      BY <3>2, PollFailuresAssumption DEF Inv, ClientTypeOK
    <3> QED
      BY <2>1, <3>1, <3>2, <3>3, SettlingKeeps, NoneAssumption DEF Inv, ClientTypeOK
  <2>3. CASE reply[s].status \notin Refused
    <3>1. /\ phase' = [phase EXCEPT ![s] = "parsing"] /\ lost' = [lost EXCEPT ![s] = 0]
          /\ failures' = [failures EXCEPT ![s] = 0]
          /\ UNCHANGED <<serverVars, sent, text, aborted, reply, timers, promise,
                         currentSession>>
      BY <1>3, <2>3 DEF GetAnswered, Refused
    <3>2. ClientTypeOK' /\ \A r \in Sessions : r # s => Untouched(r)
      BY <3>1, PollFailuresAssumption DEF Inv, ClientTypeOK, serverVars, Untouched, Phases
    <3>3. SessionInv(s)'
      BY <2>1, <2>3, <3>1, NoneAssumption, PollFailuresAssumption
         DEF Inv, ClientTypeOK, serverVars, SessionInv, CalledInv, AnswersInv, QuietInv,
             CountInv, Settled, Answers
    <3> QED
      BY <3>2, <3>3, LocalStep
  <2> QED
    BY <2>2, <2>3
<1>4. CASE GetLost(s)
  <2>1. /\ ~Settled(s) /\ text[s] \in Texts /\ failures[s] = lost[s]
        /\ failures[s] < MaxPollFailures /\ failures[s] \in Nat
    BY <1>4, InFlight DEF GetLost, Inv, SessionInv, CountInv, ClientTypeOK
  <2>2. /\ failures' = [failures EXCEPT ![s] = failures[s] + 1]
        /\ lost' = [lost EXCEPT ![s] = failures[s] + 1]
        /\ reply' = [reply EXCEPT ![s] = None]
        /\ UNCHANGED <<serverVars, sent, text, aborted>>
    BY <1>4, <2>1 DEF GetLost
  <2>3. /\ failures[s] + 1 \in 0..MaxPollFailures
        /\ failures' \in [Sessions -> 0..MaxPollFailures]
        /\ lost' \in [Sessions -> 0..MaxPollFailures]
        /\ failures'[s] = failures[s] + 1 /\ lost'[s] = failures[s] + 1
    BY <2>1, <2>2, PollFailuresAssumption DEF Inv, ClientTypeOK
  <2>4. CASE failures'[s] >= MaxPollFailures
    <3>1. /\ Settle(s, Promise!Rejected("network")) /\ phase' = [phase EXCEPT ![s] = "ended"]
          /\ lost'[s] = MaxPollFailures
      BY <1>4, <2>1, <2>3, <2>4, PollFailuresAssumption DEF GetLost, End
    <3> QED
      BY <2>1, <2>2, <2>3, <3>1, SettlingKeeps, OutcomeFacts, NoneAssumption
         DEF Inv, ClientTypeOK
  <2>5. CASE ~(failures'[s] >= MaxPollFailures)
    <3>1. /\ phase' = [phase EXCEPT ![s] = "waiting"]
          /\ timers' = [timers EXCEPT ![s] = @ \cup {"poll"}]
          /\ UNCHANGED <<promise, currentSession>>
      BY <1>4, <2>1, <2>5 DEF GetLost, SchedulePoll
    <3>2. ClientTypeOK' /\ \A r \in Sessions : r # s => Untouched(r)
      BY <2>2, <2>3, <3>1 DEF Inv, ClientTypeOK, serverVars, Untouched, Phases
    <3>3. CountInv(s)'
      <4>1. phase'[s] = "waiting" /\ ~Settled(s)'
        BY <2>1, <3>1 DEF Settled, Inv, ClientTypeOK
      <4>2. failures'[s] < MaxPollFailures
        BY <2>3, <2>5, PollFailuresAssumption
      <4> QED
        BY <2>3, <4>1, <4>2, OutcomesAssumption, OutcomeFacts DEF CountInv, Settled
    <3>4. CalledInv(s)' /\ QuietInv(s)'
      BY <2>1, <2>2, <3>1, NoneAssumption
         DEF Inv, SessionInv, CalledInv, QuietInv, Settled
    <3>5. AnswersInv(s)'
      BY <2>2, <3>1
         DEF Inv, ClientTypeOK, serverVars, SessionInv, AnswersInv, Answers
    <3> QED
      BY <3>2, <3>3, <3>4, <3>5, LocalStep DEF SessionInv
  <2> QED
    BY <2>4, <2>5
<1>5. CASE StatusRead(s)
  <2>1. text[s] \in Texts /\ reply[s] \in Answers(s) /\ reply[s].status \notin Refused
    BY <1>5, InFlight DEF StatusRead, Inv, SessionInv, AnswersInv
  <2>2. /\ phase[s] = "parsing" /\ reply' = [reply EXCEPT ![s] = None]
        /\ UNCHANGED <<serverVars, sent, text, aborted, failures, lost>>
    BY <1>5 DEF StatusRead
  <2>3. \/ reply[s].status = "succeeded" /\ reply[s].value \in Texts
        \/ reply[s].status = "failed" /\ reply[s].value \in JobCodes
        \/ reply[s].status = "pending"
    BY <2>1, AnswerFacts
  <2>4. CASE reply[s].status = "succeeded"
    <3>1. Settle(s, Promise!Resolved(reply[s].value)) /\ phase' = [phase EXCEPT ![s] = "ended"]
      BY <1>5, <2>4 DEF StatusRead, End
    <3> QED
      BY <2>1, <2>2, <2>3, <2>4, <3>1, SettlingKeeps, OutcomeFacts, NoneAssumption
         DEF Inv, ClientTypeOK
  <2>5. CASE reply[s].status = "failed"
    <3>1. /\ Settle(s, Promise!HttpRejection(reply[s].value))
          /\ phase' = [phase EXCEPT ![s] = "ended"]
      BY <1>5, <2>5 DEF StatusRead, End
    <3> QED
      BY <2>1, <2>2, <2>3, <2>5, <3>1, SettlingKeeps, OutcomeFacts, NoneAssumption
         DEF Inv, ClientTypeOK
  <2>6. CASE reply[s].status = "pending"
    <3>1. /\ SchedulePoll(s)
          /\ UNCHANGED <<promise, currentSession>>
      BY <1>5, <2>6 DEF StatusRead
    <3>2. ClientTypeOK' /\ \A r \in Sessions : r # s => Untouched(r)
      BY <2>2, <3>1 DEF SchedulePoll, End, Inv, ClientTypeOK, serverVars, Untouched, Phases
    <3>3. /\ phase'[s] = (IF Settled(s) THEN "ended" ELSE "waiting")
          /\ Settled(s) => timers' = timers
          /\ reply'[s] = None
      BY <2>2, <3>1 DEF SchedulePoll, End, Inv, ClientTypeOK
    <3>4. CalledInv(s)' /\ QuietInv(s)'
      BY <2>1, <2>2, <3>1, <3>3, NoneAssumption
         DEF Inv, serverVars, SessionInv, CalledInv, QuietInv, Settled
    <3>5. AnswersInv(s)' /\ CountInv(s)'
      BY <2>2, <3>1, <3>3
         DEF Inv, serverVars, SessionInv, AnswersInv, CountInv, Settled, Answers
    <3> QED
      BY <3>2, <3>4, <3>5, LocalStep DEF SessionInv
  <2> QED
    BY <2>3, <2>4, <2>5, <2>6
<1>6. CASE BodyLost(s) \/ FetchAborted(s)
  <2>1. /\ phase[s] # "idle" /\ phase' = [phase EXCEPT ![s] = "ended"]
        /\ reply' = [reply EXCEPT ![s] = None]
        /\ UNCHANGED <<serverVars, sent, text, timers, aborted, failures, promise,
                       currentSession, lost>>
    BY <1>6 DEF BodyLost, FetchAborted, End
  <2>2. text[s] # None
    BY <2>1, InFlight, NoneAssumption
  <2>3. ClientTypeOK' /\ \A r \in Sessions : r # s => Untouched(r)
    BY <2>1 DEF Inv, ClientTypeOK, serverVars, Untouched, Phases
  <2>4. SessionInv(s)'
    BY <2>1, <2>2
       DEF Inv, ClientTypeOK, serverVars, SessionInv, CalledInv, AnswersInv, QuietInv,
           CountInv, Settled, Answers
  <2> QED
    BY <2>3, <2>4, LocalStep
<1>7. CASE OverallTimeout(s)
  <2>1. text[s] # None
    BY <1>7, InFlight, NoneAssumption DEF OverallTimeout
  <2> QED
    BY <1>7, <2>1, SettlingKeeps, OutcomeFacts DEF OverallTimeout, Inv, ClientTypeOK
<1> QED
  BY <1>1, <1>2, <1>3, <1>4, <1>5, <1>6, <1>7

(* Every step keeps the invariant.                                         *)
LEMMA InvStep == Inv /\ [ClientNext]_clientVars => Inv'
<1> SUFFICES ASSUME Inv, [ClientNext]_clientVars
             PROVE  Inv'
  OBVIOUS
<1>1. CASE UNCHANGED clientVars
  BY <1>1 DEF clientVars, sessionVars, serverVars, Inv, ClientTypeOK, SessionInv, CalledInv,
              AnswersInv, QuietInv, CountInv, Settled, Answers
<1>2. CASE \E s \in Sessions : (\E t \in Texts : Translate(s, t)) \/ Callback(s)
  BY <1>2, PostKeeps, PollKeeps DEF Callback
<1>3. CASE Cancel
  BY <1>3, CancelKeeps
<1>4. CASE Environment
  BY <1>4, PostKeeps, PollKeeps, ServerKeeps DEF Environment
<1> QED
  BY <1>1, <1>2, <1>3, <1>4 DEF ClientNext

(* The inductive invariant of the client, types included, holds for any    *)
(* number of calls.                                                        *)
THEOREM InvCorrect == ClientSpec => []Inv
<1> QED
  BY InvInit, InvStep, PTL DEF ClientSpec

(* A settled call makes no other request: no timer is armed, and what it   *)
(* still awaits was aborted.                                               *)
THEOREM QuietOnceSettledHolds == ClientSpec => []QuietOnceSettled
<1>1. Inv => QuietOnceSettled
  BY DEF Inv, SessionInv, QuietInv, QuietOnceSettled
<1> QED
  BY <1>1, InvCorrect, PTL

(* A network error after the POST means that the last MaxPollFailures GETs *)
(* were lost, one after another.                                           *)
THEOREM NetworkErrorMeansOutageHolds == ClientSpec => []NetworkErrorMeansOutage
<1>1. Inv => NetworkErrorMeansOutage
  BY DEF Inv, SessionInv, CountInv, NetworkErrorMeansOutage
<1> QED
  BY <1>1, InvCorrect, PTL

(* Every variable has its type.                                            *)
THEOREM TypeCorrect == ClientSpec => []ClientTypeOK
<1>1. Inv => ClientTypeOK
  BY DEF Inv
<1> QED
  BY <1>1, InvCorrect, PTL

----------------------------------------------------------------------------
(* The contract of api.ts.                                                 *)

(* settle() settles the promise of the call, or changes nothing the caller *)
(* can see.                                                                *)
LEMMA SettleRefines ==
  ASSUME Inv, NEW s \in Sessions, NEW o \in {Promise!Resolved(text[s])} \cup Promise!Errors,
         Settle(s, o), text[s] # None, text' = text
  PROVE  [Promise!Next]_Promise!promiseVars
<1>1. CASE Settled(s)
  BY <1>1 DEF Settle, Promise!promiseVars
<1>2. CASE ~Settled(s)
  <2>1. Promise!SettleWith(s, o)
    BY <1>2 DEF Settle, Settled, Promise!SettleWith, Promise!Pending
  <2> QED
    BY <2>1 DEF Promise!Settle, Promise!Next
<1> QED
  BY <1>1, <1>2

(* Every step of the client, the network and the service is a step of the  *)
(* contract, or one its caller does not see.                               *)
LEMMA StepRefines ==
  Inv /\ [ClientNext]_clientVars => [Promise!Next]_Promise!promiseVars
<1> SUFFICES ASSUME Inv, [ClientNext]_clientVars
             PROVE  [Promise!Next]_Promise!promiseVars
  OBVIOUS
<1>1. ASSUME UNCHANGED <<text, promise, currentSession>>
      PROVE  [Promise!Next]_Promise!promiseVars
  BY <1>1 DEF Promise!promiseVars
<1>2. ASSUME NEW s \in Sessions, NEW t \in Texts, Translate(s, t)
      PROVE  [Promise!Next]_Promise!promiseVars
  <2>1. Promise!Call(s, t)
    BY <1>2 DEF Translate, Promise!Call
  <2> QED
    BY <2>1 DEF Promise!Next
<1>3. ASSUME NEW s \in Sessions, PostRefused(s) \/ PostLost(s) \/ OverallTimeout(s)
      PROVE  [Promise!Next]_Promise!promiseVars
  <2>1. text[s] # None /\ text' = text
    BY <1>3, InFlight, NoneAssumption DEF PostRefused, PostLost, OverallTimeout
  <2>2. PICK o \in Promise!Errors : Settle(s, o)
    BY <1>3, OutcomeFacts DEF PostRefused, PostLost, OverallTimeout
  <2> QED
    BY <2>1, <2>2, SettleRefines
<1>4. ASSUME NEW s \in Sessions, GetAnswered(s)
      PROVE  [Promise!Next]_Promise!promiseVars
  <2>1. text[s] \in Texts /\ text' = text /\ reply[s] \in Answers(s)
    BY <1>4, InFlight DEF GetAnswered, Inv, SessionInv, AnswersInv
  <2>2. CASE reply[s].status \in Refused
    <3>1. Refusal(reply[s]) \in Promise!Errors
      BY <2>1, <2>2, AnswerFacts
    <3>2. Settle(s, Refusal(reply[s]))
      BY <1>4, <2>2 DEF GetAnswered, Refused
    <3> QED
      BY <2>1, <3>1, <3>2, SettleRefines, NoneAssumption
  <2>3. CASE reply[s].status \notin Refused
    BY <1>1, <1>4, <2>3 DEF GetAnswered, Refused
  <2> QED
    BY <2>2, <2>3
<1>5. ASSUME NEW s \in Sessions, GetLost(s)
      PROVE  [Promise!Next]_Promise!promiseVars
  <2>1. text[s] # None /\ text' = text
    BY <1>5, InFlight, NoneAssumption DEF GetLost
  <2>2. CASE failures'[s] >= MaxPollFailures
    BY <1>5, <2>1, <2>2, SettleRefines, OutcomeFacts DEF GetLost
  <2>3. CASE ~(failures'[s] >= MaxPollFailures)
    BY <1>1, <1>5, <2>3 DEF GetLost
  <2> QED
    BY <2>2, <2>3
<1>6. ASSUME NEW s \in Sessions, StatusRead(s)
      PROVE  [Promise!Next]_Promise!promiseVars
  <2>1. /\ text[s] \in Texts /\ text' = text
        /\ reply[s] \in Answers(s) /\ reply[s].status \notin Refused
    BY <1>6, InFlight DEF StatusRead, Inv, SessionInv, AnswersInv
  <2>2. text[s] # None
    BY <2>1, NoneAssumption
  <2>3. CASE reply[s].status = "succeeded"
    <3>1. Settle(s, Promise!Resolved(text[s]))
      BY <1>6, <2>1, <2>3, AnswerFacts DEF StatusRead
    <3> QED
      BY <2>1, <2>2, <3>1, SettleRefines
  <2>4. CASE reply[s].status = "failed"
    <3>1. reply[s].value \in JobCodes
      BY <2>1, <2>4, AnswerFacts
    <3>2. Settle(s, Promise!HttpRejection(reply[s].value))
      BY <1>6, <2>4 DEF StatusRead
    <3>3. Promise!HttpRejection(reply[s].value) \in Promise!Errors
      BY <3>1, OutcomeFacts
    <3> QED
      BY <2>1, <2>2, <3>2, <3>3, SettleRefines
  <2>5. CASE reply[s].status = "pending"
    BY <1>1, <1>6, <2>5 DEF StatusRead
  <2> QED
    BY <2>1, <2>3, <2>4, <2>5, AnswerFacts
<1>7. ASSUME Cancel
      PROVE  [Promise!Next]_Promise!promiseVars
  <2>1. CASE currentSession = None
    BY <1>1, <1>7, <2>1 DEF Cancel, CancelTranslate
  <2>2. CASE currentSession # None
    <3>1. PICK s \in Sessions : s = currentSession
      BY <2>2 DEF Inv, ClientTypeOK
    <3>2. text[s] # None /\ ~Settled(s) /\ text' = text
      BY <1>7, <3>1 DEF Inv, SessionInv, CalledInv, Cancel
    <3>3. Settle(s, Promise!Rejected("cancelled"))
      BY <1>7, <2>2, <3>1 DEF Cancel, CancelTranslate
    <3>4. Promise!Cancel
      BY <2>2, <3>1, <3>2, <3>3
         DEF Settle, Settled, Promise!Cancel, Promise!SettleWith, Promise!Pending
    <3> QED
      BY <3>4 DEF Promise!Next
  <2> QED
    BY <2>1, <2>2
<1>8. ASSUME NEW s \in Sessions,
             \/ PostDelivered(s) \/ PostAnswered(s) \/ JobIdRead(s) \/ PollTimer(s)
             \/ GetReplied(s) \/ BodyLost(s) \/ FetchAborted(s)
      PROVE  [Promise!Next]_Promise!promiseVars
  BY <1>1, <1>8
     DEF PostDelivered, PostAnswered, JobIdRead, PollTimer, GetReplied, BodyLost, FetchAborted,
         sessionVars
<1>9. CASE ServerStep \/ UNCHANGED clientVars
  BY <1>1, <1>9 DEF ServerStep, clientVars, sessionVars
<1> QED
  BY <1>2, <1>3, <1>4, <1>5, <1>6, <1>7, <1>8, <1>9 DEF ClientNext, Callback, Environment

(* For any number of calls, losses and aborts, a promise of api.ts settles *)
(* at most once, with the translation of its own text or with an error,    *)
(* and cancelTranslate() settles the latest call: the safety half of       *)
(* RefinesTranslatePromise.                                                *)
THEOREM KeepsTranslatePromise ==
  ClientSpec => Promise!Init /\ [][Promise!Next]_Promise!promiseVars
<1>1. ClientInit => Promise!Init
  BY DEF ClientInit, Promise!Init
<1> QED
  BY <1>1, StepRefines, InvCorrect, PTL DEF ClientSpec
=============================================================================
