----------------------------- MODULE JobService -----------------------------
(***************************************************************************)
(* The asynchronous translate-job service of apps/api (ADR 0008): the      *)
(* Request Lambda (app.main), the TranslateJobsTable (app.jobs), the       *)
(* Worker Lambda (app.worker_handler, app.translation), the Worker's       *)
(* onFailure destination (app.failure_handler) and the parts of Lambda's   *)
(* asynchronous invocation that connect them (infra/cdk/lib/api-stack.ts). *)
(*                                                                         *)
(* A handler is a sequence of steps, one per call that reads or changes    *)
(* shared state, and it can be killed between any two of them.             *)
(***************************************************************************)
EXTENDS Naturals

CONSTANTS
  Jobs,                \* job ids; uuid4 makes each POST use a fresh one
  Requests,            \* submitted (text, direction) pairs that pass validation
  Absent,              \* a DynamoDB attribute, or a value, that is not there
  ErrorCodes,          \* the status codes of translate_via_sagemaker's errors
  TTL,                 \* _JOB_TTL_SECONDS, in ticks of the clock
  WorkerTimeout,       \* the Worker Lambda's 90 s, in the same ticks
  MaxDeliveries,       \* bound: Worker events Lambda delivers for one POST
  MaxFailureAttempts,  \* runs of the onFailure handler for one event
  MaxTime              \* bound: where the clock of the model stops

JobStatus == {"pending", "succeeded", "failed"}

ASSUME AbsentAssumption ==
  Absent \notin Requests \cup Nat \cup JobStatus

(* 400 and 502 are handled alike: a small instance needs only one of them. *)
ASSUME CodesAssumption ==
  504 \in ErrorCodes /\ ErrorCodes \subseteq {400, 502, 504}

ASSUME BoundsAssumption ==
  /\ TTL \in Nat \ {0}
  /\ WorkerTimeout \in Nat \ {0}
  /\ MaxDeliveries \in Nat \ {0}
  /\ MaxFailureAttempts \in Nat \ {0}
  /\ MaxTime \in Nat

Invocations == Jobs \X (1..MaxDeliveries)   \* one Worker event each

VARIABLES
  now,        \* the wall clock every Lambda and DynamoDB read
  table,      \* TranslateJobsTable: the item of each job id
  replica,    \* a copy of it the last write has not reached yet
  post,       \* how far the POST that created a job id has come
  submitted,  \* history: the request that POST carried
  worker,     \* where each Worker invocation is
  input,      \* its local `request`
  outcome,    \* its local `result` or `error`
  deadline,   \* when Lambda kills it
  onFailure,  \* where the onFailure invocation of a Worker event is
  attempts,   \* how many times it was started
  log         \* history: the resolution lines written so far

jobVars     == <<now, table, replica, post, submitted>>
workerVars  == <<worker, input, outcome, deadline>>
failureVars == <<onFailure, attempts>>
vars == <<jobVars, workerVars, failureVars, log>>

----------------------------------------------------------------------------
(* The table.  An item is a record of its attributes; one that was never   *)
(* written or was swept has none.                                          *)

Result(status, value) == [status |-> status, value |-> value]
Succeeded(r) == Result("succeeded", r)     \* value: whose translation it is
Failed(code) == Result("failed", code)

NoItem == [status |-> Absent, value |-> Absent, request |-> Absent, ttl |-> Absent]

PendingItem(r) == [status |-> "pending", value |-> Absent, request |-> r, ttl |-> now + TTL]

Items == [status : JobStatus \cup {Absent},
          value : Requests \cup ErrorCodes \cup {Absent},
          request : Requests \cup {Absent},
          ttl : Nat \cup {Absent}]

(* Two mutants: no ConditionExpression, and half of it.                    *)
Unconditional_ConditionalUpdate(j, result) ==
  table' = [table EXCEPT ![j].status = result.status, ![j].value = result.value]

OnlyNew_ConditionalUpdate(j, result) ==
  IF table[j].status = Absent
    THEN table' = [table EXCEPT ![j].status = result.status, ![j].value = result.value]
    ELSE UNCHANGED table

(* UpdateItem creates the item it does not find, and then with no other    *)
(* attribute than the ones it sets.                                        *)
ConditionalUpdate(j, result) ==
  IF table[j].status \in {Absent, "pending"}
    THEN table' = [table EXCEPT ![j].status = result.status, ![j].value = result.value]
    ELSE UNCHANGED table

Expired(item) == item.ttl # Absent /\ item.ttl < now

(* get_item does not ask for a consistent read: what it returns may be the *)
(* item as it was before the last write.  A write is always made on the    *)
(* item itself.                                                            *)
Reads(j) == {table[j], replica[j]}

(* Mutant: get_job tolerates an item without ttl.                          *)
AnyTtl_Response(item) ==
  IF item.status = Absent \/ Expired(item)
    THEN Result("notFound", Absent)
    ELSE Result(item.status, item.value)

(* GET /v1/translate-jobs/{job_id}: get_job re-checks the ttl of the item  *)
(* itself, and raises KeyError (a 500) on one that has none.               *)
Response(item) ==
  CASE item.status = Absent \/ Expired(item) -> Result("notFound", Absent)
    [] item.status # Absent /\ item.ttl = Absent -> Result("serverError", Absent)
    [] OTHER -> Result(item.status, item.value)

GetResponse(j) == Response(table[j])

----------------------------------------------------------------------------
(* POST /v1/translate-jobs, on the Request Lambda.                         *)

CreateJob(j, r) ==
  /\ post[j] = "idle"
  /\ table' = [table EXCEPT ![j] = PendingItem(r)]
  /\ post' = [post EXCEPT ![j] = "created"]
  /\ submitted' = [submitted EXCEPT ![j] = r]
  /\ UNCHANGED <<now, replica, workerVars, failureVars, log>>

Enqueue(i) == worker' = [worker EXCEPT ![i] = "queued"]

InvokeWorker(j) ==
  /\ post[j] = "created"
  /\ post' = [post EXCEPT ![j] = "accepted"]
  /\ Enqueue(<<j, 1>>)
  /\ UNCHANGED <<now, table, replica, submitted, input, outcome, deadline, failureVars, log>>

(* put_item or invoke raised, or the Lambda was killed, after the item was *)
(* stored: the caller has a 5xx and no job id.  An invoke whose answer was *)
(* lost has queued the event all the same.                                 *)
PostFails(j) ==
  /\ post[j] = "created"
  /\ post' = [post EXCEPT ![j] = "failed"]
  /\ Enqueue(<<j, 1>>) \/ UNCHANGED worker
  /\ UNCHANGED <<now, table, replica, submitted, input, outcome, deadline, failureVars, log>>

----------------------------------------------------------------------------
(* The Worker Lambda.                                                      *)

Running == {"translating", "writing", "logging", "returning"}

NoOutcome == Result(Absent, Absent)

(* The handler's locals end with it.                                       *)
ForgetLocals(i) ==
  /\ input' = [input EXCEPT ![i] = Absent]
  /\ outcome' = [outcome EXCEPT ![i] = NoOutcome]
  /\ deadline' = [deadline EXCEPT ![i] = 0]

(* get_job_input: an item that is swept, or not to be seen yet, ends the   *)
(* handler; one without text raises KeyError, which is for the onFailure   *)
(* destination.                                                            *)
WorkerRead(i) ==
  /\ worker[i] = "queued"
  /\ \E item \in Reads(i[1]) :
       \/ /\ item.status = Absent
          /\ worker' = [worker EXCEPT ![i] = "nothing"]
          /\ UNCHANGED <<input, deadline, onFailure>>
       \/ /\ item.status # Absent
          /\ item.request = Absent
          /\ worker' = [worker EXCEPT ![i] = "dead"]
          /\ onFailure' = [onFailure EXCEPT ![i] = "queued"]
          /\ UNCHANGED <<input, deadline>>
       \/ /\ item.request # Absent
          /\ worker' = [worker EXCEPT ![i] = "translating"]
          /\ input' = [input EXCEPT ![i] = item.request]
          /\ deadline' = [deadline EXCEPT ![i] = now + WorkerTimeout]
          /\ UNCHANGED onFailure
  /\ UNCHANGED <<jobVars, outcome, attempts, log>>

(* Mutant: the request is kept in a global of the warm container.          *)
SharedRequest_WorkerTranslate(i) ==
  /\ worker[i] = "translating"
  /\ worker' = [worker EXCEPT ![i] = "writing"]
  /\ \E k \in Invocations : worker[k] = "translating"
        /\ outcome' = [outcome EXCEPT ![i] = Succeeded(input[k])]
  /\ UNCHANGED <<jobVars, input, deadline, failureVars, log>>

(* translate_via_sagemaker: a translation, or a TranslationServiceError    *)
(* with the code of ModelError (400), of any other endpoint error or a     *)
(* malformed body (502), or of a network error (504).                      *)
WorkerTranslate(i) ==
  /\ worker[i] = "translating"
  /\ worker' = [worker EXCEPT ![i] = "writing"]
  /\ \E result \in {Succeeded(input[i])} \cup {Failed(c) : c \in ErrorCodes} :
        outcome' = [outcome EXCEPT ![i] = result]
  /\ UNCHANGED <<jobVars, input, deadline, failureVars, log>>

(* Mutant: _conditional_update swallows every ClientError.                 *)
Swallow_WorkerWrite(i) ==
  /\ worker[i] = "writing"
  /\ worker' = [worker EXCEPT ![i] = "logging"]
  /\ ConditionalUpdate(i[1], outcome[i]) \/ UNCHANGED table
  /\ UNCHANGED <<now, replica, post, submitted, input, outcome, deadline, failureVars, log>>

(* mark_succeeded or mark_failed.                                          *)
WorkerWrite(i) ==
  /\ worker[i] = "writing"
  /\ worker' = [worker EXCEPT ![i] = "logging"]
  /\ ConditionalUpdate(i[1], outcome[i])
  /\ UNCHANGED <<now, replica, post, submitted, input, outcome, deadline, failureVars, log>>

(* log_job_resolution reports the Worker's own outcome, whether or not its *)
(* conditional write won.                                                  *)
WorkerLine(i) ==
  [job |-> i[1], by |-> "worker", invocation |-> i,
   code |-> IF outcome[i].status = "succeeded" THEN 200 ELSE outcome[i].value]

WorkerLog(i) ==
  /\ worker[i] = "logging"
  /\ worker' = [worker EXCEPT ![i] = "returning"]
  /\ log' = log \cup {WorkerLine(i)}
  /\ UNCHANGED <<jobVars, input, outcome, deadline, failureVars>>

WorkerReturn(i) ==
  /\ worker[i] = "returning"
  /\ worker' = [worker EXCEPT ![i] = "done"]
  /\ ForgetLocals(i)
  /\ UNCHANGED <<jobVars, failureVars, log>>

(* Mutant: no onFailure destination is configured.                         *)
NoDestination_WorkerDies(i) ==
  /\ worker[i] \in Running \cup {"queued"}
  /\ worker' = [worker EXCEPT ![i] = "dead"]
  /\ ForgetLocals(i)
  /\ UNCHANGED <<jobVars, failureVars, log>>

(* The handler raises, is out of memory or reaches its timeout, or the     *)
(* event grew too old in Lambda's queue: with retryAttempts 0 the event    *)
(* goes straight to the onFailure destination.                             *)
WorkerDies(i) ==
  /\ worker[i] \in Running \cup {"queued"}
  /\ worker' = [worker EXCEPT ![i] = "dead"]
  /\ onFailure' = [onFailure EXCEPT ![i] = "queued"]
  /\ ForgetLocals(i)
  /\ UNCHANGED <<jobVars, attempts, log>>

(* Lambda's asynchronous queue delivers an event at least once.            *)
Redeliver(j, n) ==
  /\ n + 1 \in 1..MaxDeliveries
  /\ worker[<<j, n>>] # "unsent"
  /\ worker[<<j, n + 1>>] = "unsent"
  /\ Enqueue(<<j, n + 1>>)
  /\ UNCHANGED <<jobVars, input, outcome, deadline, failureVars, log>>

----------------------------------------------------------------------------
(* The onFailure destination: marks the job failed first, then reads it    *)
(* back for its log line.                                                  *)

FailureMark(i) ==
  /\ onFailure[i] = "queued"
  /\ onFailure' = [onFailure EXCEPT ![i] = "marked"]
  /\ ConditionalUpdate(i[1], Failed(504))
  /\ UNCHANGED <<now, replica, post, submitted, workerVars, attempts, log>>

FailureLine(i) == [job |-> i[1], by |-> "onFailure", invocation |-> i, code |-> 504]

(* Mutant: the destination marks the job and logs nothing.                 *)
Silent_FailureLog(i) ==
  /\ onFailure[i] = "marked"
  /\ onFailure' = [onFailure EXCEPT ![i] = "done"]
  /\ UNCHANGED <<jobVars, workerVars, attempts, log>>

FailureLog(i) ==
  /\ onFailure[i] = "marked"
  /\ \E item \in Reads(i[1]) :
       IF Response(item).status = "serverError"      \* get_job raises KeyError
         THEN onFailure' = [onFailure EXCEPT ![i] = "raised"] /\ UNCHANGED log
         ELSE onFailure' = [onFailure EXCEPT ![i] = "done"] /\ log' = log \cup {FailureLine(i)}
  /\ UNCHANGED <<jobVars, workerVars, attempts>>

(* A run of the handler that raised, or that Lambda could not finish, is   *)
(* repeated: this function keeps Lambda's default asynchronous retries.    *)
FailureRetry(i) ==
  /\ onFailure[i] \in {"queued", "marked", "raised"}
  /\ IF attempts[i] < MaxFailureAttempts
       THEN /\ attempts' = [attempts EXCEPT ![i] = @ + 1]
            /\ onFailure' = [onFailure EXCEPT ![i] = "queued"]
       ELSE /\ onFailure' = [onFailure EXCEPT ![i] = "dropped"]
            /\ UNCHANGED attempts
  /\ UNCHANGED <<jobVars, workerVars, log>>

----------------------------------------------------------------------------
(* DynamoDB's background sweep, some time after the item expired.          *)
Sweep(j) ==
  /\ Expired(table[j])
  /\ table' = [table EXCEPT ![j] = NoItem]
  /\ UNCHANGED <<now, replica, post, submitted, workerVars, failureVars, log>>

(* The copies converge, within a second or so.                             *)
Replicate(j) ==
  /\ replica[j] # table[j]
  /\ replica' = [replica EXCEPT ![j] = table[j]]
  /\ UNCHANGED <<now, table, post, submitted, workerVars, failureVars, log>>

(* No Worker outlives its timeout; a POST and the convergence of copies    *)
(* take no time on this scale.                                             *)
Tick ==
  /\ now < MaxTime
  /\ replica = table
  /\ \A j \in Jobs : post[j] # "created"
  /\ \A i \in Invocations : worker[i] \in Running => now < deadline[i]
  /\ now' = now + 1
  /\ UNCHANGED <<table, replica, post, submitted, workerVars, failureVars, log>>

----------------------------------------------------------------------------
Init ==
  /\ now = 0
  /\ table = [j \in Jobs |-> NoItem]
  /\ replica = table
  /\ post = [j \in Jobs |-> "idle"]
  /\ submitted = [j \in Jobs |-> Absent]
  /\ worker = [i \in Invocations |-> "unsent"]
  /\ input = [i \in Invocations |-> Absent]
  /\ outcome = [i \in Invocations |-> NoOutcome]
  /\ deadline = [i \in Invocations |-> 0]
  /\ onFailure = [i \in Invocations |-> "unsent"]
  /\ attempts = [i \in Invocations |-> 1]
  /\ log = {}

WorkerHandler(i) == WorkerRead(i) \/ WorkerTranslate(i) \/ WorkerWrite(i)
                      \/ WorkerLog(i) \/ WorkerReturn(i)

FailureHandler(i) == FailureMark(i) \/ FailureLog(i)

RequestLambda(j) == (\E r \in Requests : CreateJob(j, r)) \/ InvokeWorker(j) \/ PostFails(j)

Next ==
  \/ \E j \in Jobs : RequestLambda(j) \/ Sweep(j) \/ Replicate(j)
  \/ \E i \in Invocations : WorkerHandler(i) \/ WorkerDies(i)
  \/ \E i \in Invocations : FailureHandler(i) \/ FailureRetry(i)
  \/ \E j \in Jobs, n \in 1..MaxDeliveries : Redeliver(j, n)
  \/ Tick

Spec == Init /\ [][Next]_vars

(* Lambda runs what it queued: a Worker event is delivered or expires, a   *)
(* Worker returns or is killed by its timeout, and an onFailure event is   *)
(* run until it is done or given up.  Nothing makes the clock, the sweep,  *)
(* the convergence of copies or a second delivery happen.                  *)
Fairness ==
  /\ \A i \in Invocations : WF_vars(WorkerHandler(i) \/ WorkerDies(i))
  /\ \A i \in Invocations : WF_vars(FailureHandler(i) \/ FailureRetry(i))

FairSpec == Spec /\ Fairness

----------------------------------------------------------------------------
PostStates    == {"idle", "created", "accepted", "failed"}
WorkerStates  == Running \cup {"unsent", "queued", "nothing", "done", "dead"}
FailureStates == {"unsent", "queued", "marked", "raised", "done", "dropped"}
Outcomes == [status : {"succeeded", "failed", Absent},
             value : Requests \cup ErrorCodes \cup {Absent}]
Lines == [job : Jobs, by : {"worker", "onFailure"}, invocation : Invocations,
          code : {200} \cup ErrorCodes]

(* Every variable has its type.                                            *)
TypeOK ==
  /\ now \in Nat
  /\ table \in [Jobs -> Items]
  /\ replica \in [Jobs -> Items]
  /\ post \in [Jobs -> PostStates]
  /\ submitted \in [Jobs -> Requests \cup {Absent}]
  /\ worker \in [Invocations -> WorkerStates]
  /\ input \in [Invocations -> Requests \cup {Absent}]
  /\ outcome \in [Invocations -> Outcomes]
  /\ deadline \in [Invocations -> Nat]
  /\ onFailure \in [Invocations -> FailureStates]
  /\ attempts \in [Invocations -> 1..MaxFailureAttempts]
  /\ log \subseteq Lines

----------------------------------------------------------------------------
(* Safety.                                                                 *)

Terminal == {"succeeded", "failed"}

(* Whichever terminal write lands first wins: the Worker, a redelivered    *)
(* Worker and the onFailure destination race for it, and afterwards an     *)
(* item only changes by being swept (jobs._conditional_update).            *)
TerminalIsFinal ==
  [][\A j \in Jobs : table[j].status \in Terminal => table'[j] \in {table[j], NoItem}]_vars

(* A stored translation is the translation of what was posted under that   *)
(* job id, even when the write came after a sweep: the Worker gets only    *)
(* the id and reads the request back (worker_handler.handler).             *)
ResultIsForSubmission ==
  \A j \in Jobs : table[j].status = "succeeded" => table[j].value = submitted[j]

(* A resolution line is written only once the job is decided, never while  *)
(* GET still says pending (observability.py, "never before").              *)
LoggedOnlyAfterDecided ==
  \A line \in log : table[line.job].status # "pending"

(* While an accepted job is pending, some Worker event is queued, running  *)
(* before its write, or waiting for the onFailure handler to mark it, or   *)
(* every retry of that handler failed: nothing loses the job silently, but *)
(* the Worker that does not see the item yet.                              *)
Owned(i) == worker[i] \in {"queued", "nothing", "translating", "writing"}
              \/ onFailure[i] \in {"queued", "dropped"}

PendingHasOwner ==
  \A j \in Jobs : post[j] = "accepted" /\ table[j].status = "pending" =>
    \E n \in 1..MaxDeliveries : Owned(<<j, n>>)

(* The service implements the answers GET promises (TranslateJobs): a job  *)
(* gets one result, of its own request, and loses it only by expiring.     *)
Promise == INSTANCE TranslateJobs
  WITH request <- submitted,
       answer <- [j \in Jobs |-> GetResponse(j)],
       Codes <- ErrorCodes

RefinesTranslateJobs == Promise!Spec

(* A GET that reads a copy the last write has not reached gives an answer  *)
(* the job had before, and never an expired or another result.             *)
ReadsAreAnswers ==
  \A j \in Jobs : \A item \in Reads(j) : Response(item) \in Promise!Readable(j)

----------------------------------------------------------------------------
(* Liveness.                                                               *)

GivenUp(j) == \E n \in 1..MaxDeliveries : onFailure[<<j, n>>] = "dropped"

FoundNothing(j) == \E n \in 1..MaxDeliveries : worker[<<j, n>>] = "nothing"

(* Without any help from the clock, an accepted job is decided, unless     *)
(* every run of the onFailure handler failed or a Worker found no item.    *)
AcceptedIsAnswered ==
  \A j \in Jobs : post[j] = "accepted" ~>
    table[j].status # "pending" \/ GivenUp(j) \/ FoundNothing(j)

(* A decided job leaves a resolution line, also when the Worker died       *)
(* between its write and its own line (issue #47).                         *)
ResolutionIsLogged ==
  \A j \in Jobs : table[j].status \in Terminal ~>
    (\E line \in log : line.job = j) \/ GivenUp(j)

----------------------------------------------------------------------------
(* What the documentation says and the code does not do.                   *)

(* "a `ttl` attribute (~1 hour) so jobs self-expire" (jobs.py:4-5): every  *)
(* item has one.  A terminal write that finds its item swept creates an    *)
(* item with none.                                                         *)
JobsSelfExpire == \A j \in Jobs : table[j].status # Absent => table[j].ttl # Absent

(* The onFailure destination fires "on a timeout too, not just an          *)
(* unhandled exception, so a client can never be left polling a `pending`  *)
(* job forever" (failure_handler.py:9-11).  A Worker that starts before    *)
(* the item has reached the copy it reads takes the job for expired and    *)
(* returns, which is no failure.                                           *)
AcceptedIsDecided ==
  \A j \in Jobs : post[j] = "accepted" ~> table[j].status # "pending" \/ GivenUp(j)
=============================================================================
