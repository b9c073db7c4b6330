-------------------------- MODULE JobServiceProofs --------------------------
(***************************************************************************)
(* Proofs about JobService, for any number of jobs, deliveries and retries *)
(* and for every value of the time constants.                              *)
(***************************************************************************)
EXTENDS JobService, TLAPS

(* What UpdateItem did to the item of a job: set the two attributes of the *)
(* result, or nothing.                                                     *)
Updated(item, result) ==
  [status |-> result.status, value |-> result.value,
   request |-> item.request, ttl |-> item.ttl]

LEMMA ConditionalUpdateEffect ==
  ASSUME table \in [Jobs -> Items], NEW j \in Jobs,
         NEW result \in Outcomes, result.status # Absent,
         ConditionalUpdate(j, result)
  PROVE  /\ table' \in [Jobs -> Items]
         /\ \A k \in Jobs : k # j => table'[k] = table[k]
         /\ table[j].status \in {Absent, "pending"} => table'[j] = Updated(table[j], result)
         /\ table[j].status \notin {Absent, "pending"} => table'[j] = table[j]
<1>1. CASE table[j].status \in {Absent, "pending"}
  <2>1. table' = [table EXCEPT ![j].status = result.status, ![j].value = result.value]
    BY <1>1 DEF ConditionalUpdate
  <2>2. table'[j] = Updated(table[j], result)
    BY <2>1 DEF Items, Updated
  <2>3. Updated(table[j], result) \in Items
    BY DEF Items, Updated, Outcomes, JobStatus
  <2> QED
    BY <1>1, <2>1, <2>2, <2>3
<1>2. CASE table[j].status \notin {Absent, "pending"}
  BY <1>2 DEF ConditionalUpdate
<1> QED
  BY <1>1, <1>2

----------------------------------------------------------------------------
(* Type correctness.                                                       *)

(* The initial state has the types.                                        *)
LEMMA TypeInit == Init => TypeOK
BY AbsentAssumption, BoundsAssumption
   DEF Init, TypeOK, Items, NoItem, PostStates, WorkerStates, FailureStates,
       Outcomes, NoOutcome, Result, Running, JobStatus

(* A Worker event is a pair of its job and the number of its delivery.     *)
LEMMA InvocationsFacts ==
  /\ \A i \in Invocations : i[1] \in Jobs /\ i = <<i[1], i[2]>> /\ i[2] \in 1..MaxDeliveries
  /\ \A j \in Jobs, n \in 1..MaxDeliveries : <<j, n>> \in Invocations /\ <<j, n>>[1] = j
  /\ \A j \in Jobs : <<j, 1>> \in Invocations /\ <<j, 1>>[1] = j
BY BoundsAssumption DEF Invocations

(* What the onFailure handler writes is an outcome.                        *)
LEMMA FailedIsOutcome ==
  /\ Failed(504) \in Outcomes
  /\ Failed(504).status # Absent
  /\ NoOutcome \in Outcomes
BY AbsentAssumption, CodesAssumption DEF Failed, Result, Outcomes, NoOutcome, JobStatus

(* A Worker that has finished translating holds a result, not NoOutcome: a *)
(* translation of its input, or an error code.                             *)
IsResult(result) ==
  \/ result.status = "succeeded" /\ result.value \in Requests
  \/ result.status = "failed" /\ result.value \in ErrorCodes

HoldsResult == \A i \in Invocations :
  /\ worker[i] = "translating" => input[i] \in Requests
  /\ worker[i] \in {"writing", "logging", "returning"} => IsResult(outcome[i])

TypeInv == TypeOK /\ HoldsResult

(* Every step keeps the types.                                             *)
LEMMA TypeStep == TypeInv /\ [Next]_vars => TypeInv'
<1> SUFFICES ASSUME TypeOK, HoldsResult, [Next]_vars
             PROVE  TypeOK' /\ HoldsResult'
  BY DEF TypeInv
<1> USE DEF TypeOK, HoldsResult, WorkerStates, Running, PostStates, FailureStates
<1>1. ASSUME NEW j \in Jobs, NEW r \in Requests, CreateJob(j, r)
      PROVE  TypeOK' /\ HoldsResult'
  <2>1. PendingItem(r) \in Items
    BY BoundsAssumption DEF PendingItem, Items, JobStatus
  <2> QED
    BY <1>1, <2>1 DEF CreateJob, workerVars, failureVars
<1>2. ASSUME NEW j \in Jobs, InvokeWorker(j)
      PROVE  TypeOK' /\ HoldsResult'
  BY <1>2 DEF InvokeWorker, Enqueue, failureVars
<1>3. ASSUME NEW j \in Jobs, PostFails(j)
      PROVE  TypeOK' /\ HoldsResult'
  BY <1>3 DEF PostFails, Enqueue, failureVars
<1>4. ASSUME NEW i \in Invocations, WorkerRead(i)
      PROVE  TypeOK' /\ HoldsResult'
  <2>1. \A item \in Reads(i[1]) : item.request \in Requests \cup {Absent}
    BY InvocationsFacts DEF Items, Reads
  <2>2. now + WorkerTimeout \in Nat
    BY BoundsAssumption
  <2> QED
    BY <1>4, <2>1, <2>2 DEF WorkerRead, jobVars
<1>5. ASSUME NEW i \in Invocations, WorkerTranslate(i)
      PROVE  TypeOK' /\ HoldsResult'
  <2>1. PICK result \in {Succeeded(input[i])} \cup {Failed(c) : c \in ErrorCodes} :
          outcome' = [outcome EXCEPT ![i] = result]
    BY <1>5 DEF WorkerTranslate
  <2>2. result \in Outcomes /\ IsResult(result)
    BY <1>5, <2>1 DEF WorkerTranslate, Succeeded, Failed, Result, Outcomes, IsResult
  <2> QED
    BY <1>5, <2>1, <2>2 DEF WorkerTranslate, jobVars, failureVars
<1>6. ASSUME NEW i \in Invocations, WorkerWrite(i)
      PROVE  TypeOK' /\ HoldsResult'
  <2>1. outcome[i] \in Outcomes /\ outcome[i].status # Absent
    BY <1>6, AbsentAssumption DEF WorkerWrite, IsResult, JobStatus
  <2>2. table' \in [Jobs -> Items]
    BY <1>6, <2>1, ConditionalUpdateEffect, InvocationsFacts DEF WorkerWrite
  <2> QED
    BY <1>6, <2>2 DEF WorkerWrite, failureVars
<1>7. ASSUME NEW i \in Invocations, WorkerLog(i)
      PROVE  TypeOK' /\ HoldsResult'
  <2>1. IsResult(outcome[i])
    BY <1>7 DEF WorkerLog
  <2>2. WorkerLine(i) \in Lines
    BY <2>1, InvocationsFacts DEF WorkerLine, Lines, IsResult
  <2> QED
    BY <1>7, <2>2 DEF WorkerLog, jobVars, failureVars
<1>8. ASSUME NEW i \in Invocations, WorkerReturn(i)
      PROVE  TypeOK' /\ HoldsResult'
  BY <1>8, FailedIsOutcome DEF WorkerReturn, ForgetLocals, jobVars, failureVars
<1>9. ASSUME NEW i \in Invocations, WorkerDies(i)
      PROVE  TypeOK' /\ HoldsResult'
  BY <1>9, FailedIsOutcome DEF WorkerDies, ForgetLocals, jobVars
<1>10. ASSUME NEW j \in Jobs, NEW n \in 1..MaxDeliveries, Redeliver(j, n)
       PROVE  TypeOK' /\ HoldsResult'
  BY <1>10 DEF Redeliver, Enqueue, jobVars, failureVars
<1>11. ASSUME NEW i \in Invocations, FailureMark(i)
       PROVE  TypeOK' /\ HoldsResult'
  <2>1. table' \in [Jobs -> Items]
    BY <1>11, FailedIsOutcome, ConditionalUpdateEffect, InvocationsFacts DEF FailureMark
  <2> QED
    BY <1>11, <2>1 DEF FailureMark, workerVars
<1>12. ASSUME NEW i \in Invocations, FailureLog(i)
       PROVE  TypeOK' /\ HoldsResult'
  <2>1. FailureLine(i) \in Lines
    BY InvocationsFacts, CodesAssumption DEF FailureLine, Lines
  <2> QED
    BY <1>12, <2>1 DEF FailureLog, jobVars, workerVars
<1>13. ASSUME NEW i \in Invocations, FailureRetry(i)
       PROVE  TypeOK' /\ HoldsResult'
  BY <1>13, BoundsAssumption DEF FailureRetry, jobVars, workerVars
<1>14. ASSUME NEW j \in Jobs, Sweep(j)
       PROVE  TypeOK' /\ HoldsResult'
  BY <1>14 DEF Sweep, NoItem, Items, workerVars, failureVars
<1>15. CASE Tick
  BY <1>15 DEF Tick, workerVars, failureVars
<1>16. ASSUME NEW j \in Jobs, Replicate(j)
       PROVE  TypeOK' /\ HoldsResult'
  BY <1>16 DEF Replicate, workerVars, failureVars
<1>17. CASE UNCHANGED vars
  BY <1>17 DEF vars, jobVars, workerVars, failureVars
<1> QED
  BY <1>1, <1>2, <1>3, <1>4, <1>5, <1>6, <1>7, <1>8, <1>9, <1>10, <1>11, <1>12, <1>13,
     <1>14, <1>15, <1>16, <1>17
     DEF Next, RequestLambda, WorkerHandler, FailureHandler

(* Nothing has run in the initial state.                                   *)
LEMMA TypeInvInit == Init => TypeInv
BY TypeInit DEF Init, TypeInv, HoldsResult

(* Every variable of the service keeps its type, and a Worker that has     *)
(* finished translating holds a result.                                    *)
THEOREM TypeCorrect == Spec => []TypeInv
<1> QED
  BY TypeInvInit, TypeStep, PTL DEF Spec

(* The types alone, which a run checks.                                    *)
THEOREM TypeOKHolds == Spec => []TypeOK
<1>1. TypeInv => TypeOK
  BY DEF TypeInv
<1> QED
  BY <1>1, TypeCorrect, PTL

----------------------------------------------------------------------------
(* The inductive invariant.                                                *)

(* What an item can look like: a pending one is complete, a decided one    *)
(* holds a result of its own job, and stored text is what was posted.      *)
ItemInv == \A j \in Jobs :
  /\ table[j].status = Absent => table[j] = NoItem
  /\ table[j].status = "pending" => table[j].value = Absent /\ table[j].request # Absent
  /\ table[j].status = "succeeded" => table[j].value = submitted[j]
  /\ table[j].status = "failed" => table[j].value \in ErrorCodes
  /\ table[j].request # Absent => table[j].request = submitted[j] /\ table[j].ttl # Absent

(* How far a POST has come, and what cannot have happened before.          *)
PostInv == \A j \in Jobs :
  /\ post[j] = "idle" => table[j] = NoItem /\ submitted[j] = Absent
  /\ post[j] # "idle" => submitted[j] \in Requests
  /\ post[j] \in {"idle", "created"} =>
       \A i \in Invocations : i[1] = j => worker[i] = "unsent"
  /\ post[j] = "accepted" => worker[<<j, 1>>] # "unsent"

(* A Worker translates the request of its own job.                         *)
LocalsInv == \A i \in Invocations :
  /\ worker[i] = "translating" => input[i] = submitted[i[1]]
  /\ worker[i] \in {"writing", "logging", "returning"} /\ outcome[i].status = "succeeded"
       => outcome[i].value = submitted[i[1]]

(* A Worker event has an onFailure event exactly when its Worker died.     *)
EventInv == \A i \in Invocations : worker[i] = "dead" <=> onFailure[i] # "unsent"

(* A handler past its terminal write, or one that found no item, leaves    *)
(* the job decided; so does every line of the log.                         *)
Settled(i) == worker[i] \in {"logging", "returning", "done"}
                \/ onFailure[i] \in {"marked", "raised", "done"}

DecidedInv ==
  /\ \A i \in Invocations : Settled(i) => table[i[1]].status # "pending"
  /\ \A line \in log : post[line.job] # "idle" /\ table[line.job].status # "pending"

IInv == ItemInv /\ PostInv /\ LocalsInv /\ EventInv /\ DecidedInv

(* The item as it was while it was pending, if it still is what it was.    *)
PendingBefore(old, item) ==
  old.status = "pending" /\ old.value = Absent /\ item.status # Absent /\ item.ttl = old.ttl

(* A copy that is behind has no item, one that has expired, or the pending *)
(* one.                                                                    *)
ReplicaInv == \A j \in Jobs :
  /\ post[j] = "idle" => replica[j] = NoItem
  /\ replica[j].request # Absent => replica[j].request = submitted[j]
  /\ \/ replica[j] = table[j]
     \/ replica[j].status = Absent
     \/ /\ replica[j].ttl # Absent
        /\ replica[j].ttl < now \/ PendingBefore(replica[j], table[j])

(* The invariant holds initially.                                          *)
LEMMA InvInit == Init => IInv
BY AbsentAssumption, InvocationsFacts
   DEF Init, IInv, ItemInv, PostInv, LocalsInv, EventInv, DecidedInv, Settled, NoItem, JobStatus

(* An event that was sent, or handed to onFailure, is one of a POST that is *)
(* past its invoke.                                                        *)
LEMMA SentAfterInvoke ==
  ASSUME PostInv, EventInv, NEW i \in Invocations,
         worker[i] # "unsent" \/ onFailure[i] # "unsent"
  PROVE  i[1] \in Jobs /\ post[i[1]] \notin {"idle", "created"}
<1>1. i[1] \in Jobs
  BY InvocationsFacts
<1>2. worker[i] # "unsent"
  BY DEF EventInv
<1> QED
  BY <1>1, <1>2 DEF PostInv

(* A terminal write keeps what the invariant says of items, and leaves the *)
(* job decided.                                                            *)
LEMMA WriteKeepsItems ==
  ASSUME TypeInv, IInv, NEW j \in Jobs, NEW result \in Outcomes, IsResult(result),
         result.status = "succeeded" => result.value = submitted[j],
         ConditionalUpdate(j, result), submitted' = submitted, post' = post,
         post[j] # "idle"
  PROVE  /\ ItemInv'
         /\ \A k \in Jobs : post[k] = "idle" => table'[k] = NoItem
         /\ \A k \in Jobs : table[k].status # "pending" => table'[k].status # "pending"
         /\ table'[j].status # "pending"
<1>1. result.status \in Terminal /\ result.status # Absent
  BY AbsentAssumption DEF IsResult, Terminal, JobStatus
<1>2. /\ table' \in [Jobs -> Items]
      /\ \A k \in Jobs : k # j => table'[k] = table[k]
      /\ table[j].status \in {Absent, "pending"} => table'[j] = Updated(table[j], result)
      /\ table[j].status \notin {Absent, "pending"} => table'[j] = table[j]
  BY <1>1, ConditionalUpdateEffect DEF TypeInv, TypeOK
<1>3. \A k \in Jobs : ItemInv!(k)'
  <2> SUFFICES ASSUME NEW k \in Jobs PROVE ItemInv!(k)'
    OBVIOUS
  <2>1. CASE table'[k] = table[k]
    BY <2>1 DEF IInv, ItemInv
  <2>2. CASE k = j /\ table'[j] = Updated(table[j], result)
    <3>1. /\ table'[j].status = result.status
          /\ table'[j].value = result.value
          /\ table'[j].request = table[j].request
          /\ table'[j].ttl = table[j].ttl
      BY <2>2 DEF Updated
    <3> QED
      BY <1>1, <2>2, <3>1 DEF IInv, ItemInv, IsResult, Terminal
  <2> QED
    BY <1>2, <2>1, <2>2
<1>4. table'[j].status # "pending"
  BY <1>1, <1>2 DEF Updated, Terminal
<1>5. ItemInv'
  BY <1>3 DEF ItemInv
<1>6. \A k \in Jobs : post[k] = "idle" => table'[k] = NoItem
  BY <1>2 DEF IInv, PostInv
<1>7. \A k \in Jobs : table[k].status # "pending" => table'[k].status # "pending"
  BY <1>2, <1>4
<1> QED
  BY <1>4, <1>5, <1>6, <1>7

(* Every step keeps the invariant.                                         *)
LEMMA InvStep == TypeInv /\ IInv /\ ReplicaInv /\ [Next]_vars => IInv'
<1> SUFFICES ASSUME TypeInv, IInv, ReplicaInv, [Next]_vars
             PROVE  IInv'
  OBVIOUS
<1> USE InvocationsFacts DEF TypeInv, TypeOK, IInv, WorkerStates, Running, PostStates, FailureStates
<1>1. ASSUME NEW j \in Jobs, NEW r \in Requests, CreateJob(j, r)
      PROVE  IInv'
  <2>1. /\ \A k \in Jobs \ {j} : table'[k] = table[k] /\ post'[k] = post[k]
                                    /\ submitted'[k] = submitted[k]
        /\ table'[j] = PendingItem(r) /\ post'[j] = "created" /\ submitted'[j] = r
        /\ post[j] = "idle"
        /\ UNCHANGED <<worker, input, outcome, onFailure, log>>
    BY <1>1 DEF CreateJob, workerVars, failureVars
  <2>2. \A i \in Invocations : i[1] = j => worker[i] = "unsent" /\ onFailure[i] = "unsent"
    BY <2>1 DEF PostInv, EventInv
  <2>3. ItemInv'
    BY <2>1, AbsentAssumption, BoundsAssumption DEF ItemInv, PendingItem, JobStatus
  <2>4. PostInv'
    <3>1. ASSUME NEW k \in Jobs, k # j PROVE PostInv!(k)'
      BY <2>1, <3>1 DEF PostInv
    <3>2. PostInv!(j)'
      BY <2>1, <2>2
    <3> QED
      BY <3>1, <3>2 DEF PostInv
  <2>6. LocalsInv' /\ EventInv'
    BY <2>1, <2>2 DEF LocalsInv, EventInv
  <2>7. DecidedInv'
    <3>1. \A line \in log : line.job # j
      BY <2>1 DEF DecidedInv
    <3> QED
      BY <2>1, <2>2, <3>1 DEF DecidedInv, Settled, Lines
  <2> QED
    BY <2>3, <2>4, <2>6, <2>7
<1>2. ASSUME NEW j \in Jobs, InvokeWorker(j)
      PROVE  IInv'
  BY <1>2 DEF InvokeWorker, Enqueue, failureVars, ItemInv, PostInv, LocalsInv, EventInv,
              DecidedInv, Settled
<1>3. ASSUME NEW j \in Jobs, PostFails(j)
      PROVE  IInv'
  <2>1. CASE worker' = [worker EXCEPT ![<<j, 1>>] = "queued"]
    <3>1. worker[<<j, 1>>] = "unsent"
      BY <1>3 DEF PostFails, PostInv
    <3> QED
      BY <1>3, <2>1, <3>1 DEF PostFails, failureVars, ItemInv, PostInv, LocalsInv, EventInv,
                              DecidedInv, Settled
  <2>2. CASE UNCHANGED worker
    BY <1>3, <2>2 DEF PostFails, failureVars, ItemInv, PostInv, LocalsInv, EventInv,
                      DecidedInv, Settled
  <2> QED
    BY <1>3, <2>1, <2>2 DEF PostFails, Enqueue
<1>4. ASSUME NEW i \in Invocations, WorkerRead(i)
      PROVE  IInv'
  <2>1. \A item \in Reads(i[1]) : item.request # Absent => item.request = submitted[i[1]]
    BY DEF Reads, ItemInv, ReplicaInv
  <2> QED
    BY <1>4, <2>1, AbsentAssumption
       DEF WorkerRead, jobVars, ItemInv, PostInv, LocalsInv, EventInv, DecidedInv, Settled,
           JobStatus
<1>5. ASSUME NEW i \in Invocations, WorkerTranslate(i)
      PROVE  IInv'
  <2>1. PICK result \in {Succeeded(input[i])} \cup {Failed(c) : c \in ErrorCodes} :
          outcome' = [outcome EXCEPT ![i] = result]
    BY <1>5 DEF WorkerTranslate
  <2>2. result.status = "succeeded" => result.value = submitted[i[1]]
    BY <1>5, <2>1 DEF WorkerTranslate, Succeeded, Failed, Result, LocalsInv
  <2> QED
    BY <1>5, <2>1, <2>2
       DEF WorkerTranslate, jobVars, failureVars, ItemInv, PostInv, LocalsInv, EventInv,
           DecidedInv, Settled
<1>6. ASSUME NEW i \in Invocations, WorkerWrite(i)
      PROVE  IInv'
  <2>1. /\ worker[i] = "writing" /\ worker' = [worker EXCEPT ![i] = "logging"]
        /\ ConditionalUpdate(i[1], outcome[i])
        /\ UNCHANGED <<post, submitted, input, outcome, onFailure, log>>
    BY <1>6 DEF WorkerWrite, failureVars
  <2>2. outcome[i] \in Outcomes /\ IsResult(outcome[i])
        /\ (outcome[i].status = "succeeded" => outcome[i].value = submitted[i[1]])
    BY <2>1 DEF HoldsResult, LocalsInv
  <2>3. post[i[1]] # "idle"
    BY <2>1 DEF PostInv
  <2>4. /\ ItemInv'
        /\ \A k \in Jobs : post[k] = "idle" => table'[k] = NoItem
        /\ \A k \in Jobs : table[k].status # "pending" => table'[k].status # "pending"
        /\ table'[i[1]].status # "pending"
    BY <2>1, <2>2, <2>3, WriteKeepsItems
  <2>5. PostInv' /\ LocalsInv' /\ EventInv'
    BY <2>1, <2>4 DEF PostInv, LocalsInv, EventInv
  <2>6. DecidedInv'
    BY <2>1, <2>4 DEF DecidedInv, Settled, Lines
  <2> QED
    BY <2>4, <2>5, <2>6
<1>7. ASSUME NEW i \in Invocations, WorkerLog(i)
      PROVE  IInv'
  <2>1. post[i[1]] # "idle" /\ table[i[1]].status # "pending"
    BY <1>7 DEF WorkerLog, PostInv, DecidedInv, Settled
  <2>2. WorkerLine(i).job = i[1]
    BY DEF WorkerLine
  <2> QED
    BY <1>7, <2>1, <2>2
       DEF WorkerLog, jobVars, failureVars, ItemInv, PostInv, LocalsInv, EventInv, DecidedInv,
           Settled
<1>8. ASSUME NEW i \in Invocations, WorkerReturn(i)
      PROVE  IInv'
  BY <1>8 DEF WorkerReturn, ForgetLocals, jobVars, failureVars, ItemInv, PostInv, LocalsInv,
              EventInv, DecidedInv, Settled
<1>9. ASSUME NEW i \in Invocations, WorkerDies(i)
      PROVE  IInv'
  BY <1>9 DEF WorkerDies, ForgetLocals, jobVars, ItemInv, PostInv, LocalsInv, EventInv,
              DecidedInv, Settled
<1>10. ASSUME NEW j \in Jobs, NEW n \in 1..MaxDeliveries, Redeliver(j, n)
       PROVE  IInv'
  <2> DEFINE i == <<j, n>>
             next == <<j, n + 1>>
  <2>1. /\ i \in Invocations /\ next \in Invocations /\ i[1] = j /\ next[1] = j
        /\ worker[i] # "unsent" /\ worker[next] = "unsent"
        /\ worker' = [worker EXCEPT ![next] = "queued"]
        /\ UNCHANGED <<table, post, submitted, input, outcome, onFailure, log>>
    BY <1>10 DEF Redeliver, Enqueue, jobVars, failureVars
  <2> HIDE DEF i, next
  <2>2. post[j] \notin {"idle", "created"}
    BY <2>1, SentAfterInvoke
  <2>3. ItemInv' /\ LocalsInv' /\ EventInv' /\ DecidedInv'
    BY <2>1 DEF ItemInv, LocalsInv, EventInv, DecidedInv, Settled
  <2>4. ASSUME NEW k \in Jobs, k # j PROVE PostInv!(k)'
    <3>1. \A m \in Invocations : m[1] = k => worker'[m] = worker[m]
      BY <2>1, <2>4
    <3> QED
      BY <2>1, <2>4, <3>1 DEF PostInv
  <2>5. PostInv!(j)'
    BY <2>1, <2>2 DEF PostInv
  <2> QED
    BY <2>3, <2>4, <2>5 DEF PostInv
<1>11. ASSUME NEW i \in Invocations, FailureMark(i)
       PROVE  IInv'
  <2>1. /\ onFailure[i] = "queued" /\ onFailure' = [onFailure EXCEPT ![i] = "marked"]
        /\ ConditionalUpdate(i[1], Failed(504))
        /\ UNCHANGED <<post, submitted, worker, input, outcome, log>>
    BY <1>11 DEF FailureMark, workerVars
  <2>2. Failed(504) \in Outcomes /\ IsResult(Failed(504)) /\ Failed(504).status # "succeeded"
    BY FailedIsOutcome, CodesAssumption DEF Failed, Result, IsResult
  <2>3. post[i[1]] # "idle"
    BY <2>1, SentAfterInvoke
  <2>4. /\ ItemInv'
        /\ \A k \in Jobs : post[k] = "idle" => table'[k] = NoItem
        /\ \A k \in Jobs : table[k].status # "pending" => table'[k].status # "pending"
        /\ table'[i[1]].status # "pending"
    BY <2>1, <2>2, <2>3, WriteKeepsItems
  <2>5. PostInv' /\ LocalsInv' /\ EventInv'
    BY <2>1, <2>4 DEF PostInv, LocalsInv, EventInv
  <2>6. DecidedInv'
    BY <2>1, <2>4 DEF DecidedInv, Settled, Lines
  <2> QED
    BY <2>4, <2>5, <2>6
<1>12. ASSUME NEW i \in Invocations, FailureLog(i)
       PROVE  IInv'
  <2>1. post[i[1]] # "idle" /\ table[i[1]].status # "pending"
    BY <1>12, SentAfterInvoke DEF FailureLog, DecidedInv, Settled
  <2>2. FailureLine(i).job = i[1]
    BY DEF FailureLine
  <2> QED
    BY <1>12, <2>1, <2>2
       DEF FailureLog, jobVars, workerVars, ItemInv, PostInv, LocalsInv, EventInv, DecidedInv,
           Settled
<1>13. ASSUME NEW i \in Invocations, FailureRetry(i)
       PROVE  IInv'
  BY <1>13 DEF FailureRetry, jobVars, workerVars, ItemInv, PostInv, LocalsInv, EventInv,
               DecidedInv, Settled
<1>14. ASSUME NEW j \in Jobs, Sweep(j)
       PROVE  IInv'
  <2>1. NoItem.status # "pending" /\ NoItem.status = Absent /\ NoItem.request = Absent
        /\ Absent \notin Terminal
    BY AbsentAssumption DEF NoItem, JobStatus, Terminal
  <2>2. \A k \in Jobs : table'[k] \in {table[k], NoItem}
    BY <1>14 DEF Sweep
  <2>3. UNCHANGED <<post, submitted, worker, input, outcome, onFailure, log>>
    BY <1>14 DEF Sweep, workerVars, failureVars
  <2>4. ItemInv'
    <3>1. ASSUME NEW k \in Jobs, table'[k] = table[k] PROVE ItemInv!(k)'
      BY <2>3, <3>1 DEF ItemInv
    <3>2. ASSUME NEW k \in Jobs, table'[k] = NoItem PROVE ItemInv!(k)'
      BY <2>1, <3>2, AbsentAssumption DEF JobStatus
    <3> QED
      BY <2>2, <3>1, <3>2 DEF ItemInv
  <2>5. PostInv' /\ LocalsInv' /\ EventInv'
    BY <2>2, <2>3 DEF PostInv, LocalsInv, EventInv
  <2>6. \A k \in Jobs : table[k].status # "pending" => table'[k].status # "pending"
    BY <2>1, <2>2
  <2>7. DecidedInv'
    BY <2>3, <2>6 DEF DecidedInv, Settled, Lines
  <2> QED
    BY <2>4, <2>5, <2>7
<1>15. CASE Tick
  BY <1>15 DEF Tick, workerVars, failureVars, ItemInv, PostInv, LocalsInv, EventInv, DecidedInv,
               Settled
<1>16. ASSUME NEW j \in Jobs, Replicate(j)
       PROVE  IInv'
  BY <1>16 DEF Replicate, workerVars, failureVars, ItemInv, PostInv, LocalsInv, EventInv,
               DecidedInv, Settled
<1>17. CASE UNCHANGED vars
  BY <1>17 DEF vars, jobVars, workerVars, failureVars, ItemInv, PostInv, LocalsInv, EventInv,
               DecidedInv, Settled
<1> QED
  BY <1>1, <1>2, <1>3, <1>4, <1>5, <1>6, <1>7, <1>8, <1>9, <1>10, <1>11, <1>12, <1>13,
     <1>14, <1>15, <1>16, <1>17
     DEF Next, RequestLambda, WorkerHandler, FailureHandler

(* Every copy starts empty.                                                *)
LEMMA ReplicaInit == Init => ReplicaInv
<1> SUFFICES ASSUME Init PROVE ReplicaInv
  OBVIOUS
<1>1. \A j \in Jobs : replica[j] = table[j] /\ table[j] = NoItem
  BY DEF Init
<1>2. NoItem.request = Absent
  BY DEF NoItem
<1> QED
  BY <1>1, <1>2 DEF ReplicaInv

(* A terminal write leaves the copies behind, at the item it updated.      *)
LEMMA WriteKeepsReplicas ==
  ASSUME TypeInv, IInv, ReplicaInv, NEW j \in Jobs, NEW result \in Outcomes, IsResult(result),
         ConditionalUpdate(j, result), UNCHANGED <<now, replica, post, submitted>>
  PROVE  ReplicaInv'
<1>1. result.status # Absent
  BY AbsentAssumption DEF IsResult, JobStatus
<1>2. /\ \A k \in Jobs : k # j => table'[k] = table[k]
      /\ table[j].status \in {Absent, "pending"} => table'[j] = Updated(table[j], result)
      /\ table[j].status \notin {Absent, "pending"} => table'[j] = table[j]
  BY <1>1, ConditionalUpdateEffect DEF TypeInv, TypeOK
<1>3. ASSUME NEW k \in Jobs, table'[k] = table[k]
      PROVE  ReplicaInv!(k)'
  BY <1>3 DEF ReplicaInv, PendingBefore
<1>4. ASSUME table'[j] = Updated(table[j], result), table[j].status \in {Absent, "pending"}
      PROVE  ReplicaInv!(j)'
  <2>1. table'[j].status = result.status /\ table'[j].ttl = table[j].ttl
    BY <1>4 DEF Updated
  <2>2. table[j].status = "pending" => table[j].value = Absent /\ table[j].ttl # Absent
    BY DEF IInv, ItemInv
  <2> QED
    BY <1>1, <1>4, <2>1, <2>2 DEF ReplicaInv, PendingBefore
<1> QED
  BY <1>2, <1>3, <1>4 DEF ReplicaInv

(* Every step keeps what a copy may be.                                    *)
LEMMA ReplicaStep == TypeInv /\ IInv /\ ReplicaInv /\ [Next]_vars => ReplicaInv'
<1> SUFFICES ASSUME TypeInv, IInv, ReplicaInv, [Next]_vars
             PROVE  ReplicaInv'
  OBVIOUS
<1>1. CASE UNCHANGED <<now, table, replica, submitted>> /\ \A j \in Jobs : post'[j] = "idle" => post[j] = "idle"
  BY <1>1 DEF ReplicaInv, PendingBefore
<1>2. ASSUME NEW j \in Jobs, NEW r \in Requests, CreateJob(j, r)
      PROVE  ReplicaInv'
  <2>1. /\ replica[j] = NoItem /\ NoItem.status = Absent /\ NoItem.request = Absent
        /\ post'[j] = "created"
        /\ UNCHANGED <<now, replica>>
        /\ \A k \in Jobs : k # j => /\ table'[k] = table[k] /\ post'[k] = post[k]
                                     /\ submitted'[k] = submitted[k]
    BY <1>2 DEF CreateJob, ReplicaInv, NoItem, TypeInv, TypeOK
  <2> QED
    BY <2>1 DEF ReplicaInv, PendingBefore
<1>3. ASSUME NEW i \in Invocations, WorkerWrite(i)
      PROVE  ReplicaInv'
  BY <1>3, WriteKeepsReplicas, InvocationsFacts DEF WorkerWrite, TypeInv, TypeOK, HoldsResult
<1>4. ASSUME NEW i \in Invocations, FailureMark(i)
      PROVE  ReplicaInv'
  <2>1. IsResult(Failed(504))
    BY CodesAssumption DEF Failed, Result, IsResult
  <2> QED
    BY <1>4, <2>1, FailedIsOutcome, WriteKeepsReplicas, InvocationsFacts DEF FailureMark
<1>5. ASSUME NEW j \in Jobs, Sweep(j)
      PROVE  ReplicaInv'
  <2>1. /\ table[j].ttl # Absent /\ table[j].ttl < now
        /\ UNCHANGED <<now, replica, post, submitted>>
        /\ \A k \in Jobs : k # j => table'[k] = table[k]
    BY <1>5 DEF Sweep, Expired, TypeInv, TypeOK
  <2> QED
    BY <2>1 DEF ReplicaInv, PendingBefore
<1>6. ASSUME NEW j \in Jobs, Replicate(j)
      PROVE  ReplicaInv'
  <2>1. /\ replica'[j] = table[j] /\ UNCHANGED <<now, table, post, submitted>>
        /\ \A k \in Jobs : k # j => replica'[k] = replica[k]
    BY <1>6 DEF Replicate, TypeInv, TypeOK
  <2>2. /\ post[j] = "idle" => table[j] = NoItem
        /\ table[j].request # Absent => table[j].request = submitted[j]
    BY DEF IInv, ItemInv, PostInv
  <2> QED
    BY <2>1, <2>2 DEF ReplicaInv, PendingBefore
<1>7. CASE Tick
  BY <1>7 DEF Tick, ReplicaInv
<1> QED
  BY <1>1, <1>2, <1>3, <1>4, <1>5, <1>6, <1>7
     DEF Next, RequestLambda, WorkerHandler, FailureHandler, InvokeWorker, PostFails,
         WorkerRead, WorkerTranslate, WorkerLog, WorkerReturn, WorkerDies, Redeliver,
         FailureLog, FailureRetry, vars, jobVars, TypeInv, TypeOK

(* The whole inductive invariant, in every reachable state.                *)
THEOREM InvCorrect == Spec => [](TypeInv /\ IInv /\ ReplicaInv)
<1>1. Init => TypeInv /\ IInv /\ ReplicaInv
  BY TypeInvInit, InvInit, ReplicaInit
<1>2. TypeInv /\ IInv /\ ReplicaInv /\ [Next]_vars => (TypeInv /\ IInv /\ ReplicaInv)'
  BY TypeStep, InvStep, ReplicaStep
<1> QED
  BY <1>1, <1>2, PTL DEF Spec

----------------------------------------------------------------------------
(* What it gives.                                                          *)

(* No resolution line is written while GET still says pending.             *)
THEOREM LoggedOnlyAfterDecidedHolds == Spec => []LoggedOnlyAfterDecided
<1>1. TypeInv /\ IInv => LoggedOnlyAfterDecided
  BY DEF IInv, DecidedInv, LoggedOnlyAfterDecided
<1> QED
  BY <1>1, InvCorrect, PTL

(* A stored translation is the one of the request posted under its job id. *)
THEOREM ResultIsForSubmissionHolds == Spec => []ResultIsForSubmission
<1>1. TypeInv /\ IInv => ResultIsForSubmission
  BY DEF IInv, ItemInv, ResultIsForSubmission
<1> QED
  BY <1>1, InvCorrect, PTL

(* No step loses an accepted job that is still pending: its first Worker   *)
(* event, or that event's onFailure event, is still to decide it.          *)
THEOREM PendingHasOwnerHolds == Spec => []PendingHasOwner
<1>1. ASSUME TypeInv, IInv, NEW j \in Jobs, post[j] = "accepted", table[j].status = "pending"
      PROVE  Owned(<<j, 1>>)
  <2> DEFINE i == <<j, 1>>
  <2>1. i \in Invocations /\ i[1] = j /\ worker[i] # "unsent"
    BY <1>1, InvocationsFacts DEF IInv, PostInv
  <2> HIDE DEF i
  <2>2. ~Settled(i)
    BY <1>1, <2>1 DEF IInv, DecidedInv
  <2>3. worker[i] \in {"queued", "nothing", "translating", "writing"} \/ worker[i] = "dead"
    BY <1>1, <2>1, <2>2 DEF Settled, TypeInv, TypeOK, WorkerStates, Running
  <2>4. worker[i] = "dead" => onFailure[i] \in {"queued", "dropped"}
    BY <1>1, <2>1, <2>2 DEF Settled, TypeInv, TypeOK, FailureStates, IInv, EventInv
  <2> QED
    BY <2>3, <2>4 DEF Owned, i
<1>2. TypeInv /\ IInv => PendingHasOwner
  BY <1>1, BoundsAssumption DEF PendingHasOwner
<1> QED
  BY <1>2, InvCorrect, PTL

(* What TerminalIsFinal says of one step.                                  *)
FinalStep ==
  \A j \in Jobs : table[j].status \in Terminal => table'[j] \in {table[j], NoItem}

(* A terminal write leaves every decided item alone.                       *)
LEMMA WriteIsFinal ==
  ASSUME TypeInv, NEW j \in Jobs, NEW result \in Outcomes, IsResult(result),
         ConditionalUpdate(j, result)
  PROVE  FinalStep
<1>1. result.status # Absent
  BY AbsentAssumption DEF IsResult, JobStatus
<1>2. \A k \in Jobs : table[k].status \notin {Absent, "pending"} => table'[k] = table[k]
  BY <1>1, ConditionalUpdateEffect DEF TypeInv, TypeOK
<1> QED
  BY <1>2, AbsentAssumption DEF FinalStep, Terminal, JobStatus

(* The first terminal write is the last one: afterwards an item only ever  *)
(* disappears, whatever the order of Worker, redelivery and onFailure.     *)
THEOREM TerminalIsFinalHolds == Spec => TerminalIsFinal
<1>1. ASSUME TypeInv, IInv, [Next]_vars
      PROVE  FinalStep
  <2>1. CASE UNCHANGED table
    BY <2>1 DEF FinalStep
  <2>2. ASSUME NEW j \in Jobs, NEW r \in Requests, CreateJob(j, r)
        PROVE  FinalStep
    <3>1. table[j] = NoItem
      BY <1>1, <2>2 DEF CreateJob, IInv, PostInv
    <3>2. table[j].status \notin Terminal
      BY <3>1, AbsentAssumption DEF NoItem, Terminal, JobStatus
    <3> QED
      BY <1>1, <2>2, <3>2 DEF CreateJob, FinalStep, TypeInv, TypeOK
  <2>3. ASSUME NEW i \in Invocations, WorkerWrite(i)
        PROVE  FinalStep
    BY <1>1, <2>3, WriteIsFinal, InvocationsFacts DEF WorkerWrite, TypeInv, TypeOK, HoldsResult
  <2>4. ASSUME NEW i \in Invocations, FailureMark(i)
        PROVE  FinalStep
    <3>1. IsResult(Failed(504))
      BY CodesAssumption DEF Failed, Result, IsResult
    <3> QED
      BY <1>1, <2>4, <3>1, WriteIsFinal, FailedIsOutcome, InvocationsFacts DEF FailureMark
  <2>5. ASSUME NEW j \in Jobs, Sweep(j)
        PROVE  FinalStep
    BY <1>1, <2>5 DEF Sweep, FinalStep, TypeInv, TypeOK
  <2> QED
    BY <1>1, <2>1, <2>2, <2>3, <2>4, <2>5
       DEF Next, RequestLambda, WorkerHandler, FailureHandler, InvokeWorker, PostFails,
           WorkerRead, WorkerTranslate, WorkerLog, WorkerReturn, WorkerDies, Redeliver,
           FailureLog, FailureRetry, Replicate, Tick, vars, jobVars
<1>2. TypeInv /\ IInv /\ [Next]_vars => [FinalStep]_vars
  BY <1>1
<1> QED
  BY <1>2, InvCorrect, PTL DEF Spec, TerminalIsFinal, FinalStep

----------------------------------------------------------------------------
(* JobService implements TranslateJobs.                                    *)

(* What GET answers for an item at a time.                                 *)
AnswerOf(item, t) ==
  CASE item.status = Absent \/ (item.ttl # Absent /\ item.ttl < t) -> Result("notFound", Absent)
    [] item.status # Absent /\ item.ttl = Absent -> Result("serverError", Absent)
    [] OTHER -> Result(item.status, item.value)

(* GetResponse answers from the item and the clock alone.                  *)
LEMMA ResponseIsAnswer ==
  \A j \in Jobs : GetResponse(j) = AnswerOf(table[j], now)
                  /\ GetResponse(j)' = AnswerOf(table'[j], now')
BY DEF GetResponse, Response, AnswerOf, Expired

(* The four answers of get_job.                                            *)
LEMMA AnswerCases ==
  ASSUME NEW item \in Items, NEW t \in Nat
  PROVE  /\ item.status = Absent => AnswerOf(item, t) = Promise!NotFound
         /\ item.ttl # Absent /\ item.ttl < t => AnswerOf(item, t) = Promise!NotFound
         /\ item.status # Absent /\ item.ttl = Absent => AnswerOf(item, t) = Promise!ServerError
         /\ item.status # Absent /\ item.ttl # Absent /\ ~(item.ttl < t)
              => AnswerOf(item, t) = Promise!Answer(item.status, item.value)
BY DEF AnswerOf, Result, Promise!NotFound, Promise!ServerError, Promise!Answer

(* Steps that change no answer stutter.                                    *)
LEMMA SameAnswers ==
  ASSUME submitted' = submitted, \A j \in Jobs : GetResponse(j)' = GetResponse(j)
  PROVE  UNCHANGED Promise!jobVars
BY DEF Promise!jobVars

(* A terminal write resolves a pending job, revives one that is gone, or   *)
(* changes no answer.                                                      *)
LEMMA WriteRefines ==
  ASSUME TypeInv, IInv, NEW j \in Jobs, NEW result \in Outcomes, IsResult(result),
         result.status = "succeeded" => result.value = submitted[j],
         ConditionalUpdate(j, result), now' = now, submitted' = submitted,
         post[j] # "idle"
  PROVE  [Promise!Next]_Promise!jobVars
<1>1. result.status # Absent /\ result.status # "pending"
  BY AbsentAssumption DEF IsResult, JobStatus
<1>2. /\ table' \in [Jobs -> Items]
      /\ \A k \in Jobs : k # j => table'[k] = table[k]
      /\ table[j].status \in {Absent, "pending"} => table'[j] = Updated(table[j], result)
      /\ table[j].status \notin {Absent, "pending"} => table'[j] = table[j]
  BY <1>1, ConditionalUpdateEffect DEF TypeInv, TypeOK
<1>3. \A k \in Jobs : k # j => GetResponse(k)' = GetResponse(k)
  BY <1>2, ResponseIsAnswer
<1>4. table[j] \in Items /\ table'[j] \in Items /\ now \in Nat
  BY <1>2 DEF TypeInv, TypeOK
<1>5. CASE table[j].status = "pending"
  <2>1. table[j].ttl # Absent /\ table[j].value = Absent /\ table[j].status # Absent
    BY <1>5, AbsentAssumption DEF IInv, ItemInv, JobStatus
  <2>2. /\ table'[j].status = result.status /\ table'[j].value = result.value
        /\ table'[j].ttl = table[j].ttl
    BY <1>2, <1>5 DEF Updated
  <2>3. CASE table[j].ttl < now
    <3>1. GetResponse(j)' = GetResponse(j)
      BY <1>4, <2>1, <2>2, <2>3, AnswerCases, ResponseIsAnswer
    <3> QED
      BY <1>3, <3>1, SameAnswers
  <2>4. CASE ~(table[j].ttl < now)
    <3>1. GetResponse(j) = Promise!Pending
      BY <1>4, <1>5, <2>1, <2>4, AnswerCases, ResponseIsAnswer
         DEF Promise!Pending, Promise!Answer
    <3>2. GetResponse(j)' = Promise!Answer(result.status, result.value)
      BY <1>1, <1>4, <2>1, <2>2, <2>4, AnswerCases, ResponseIsAnswer
    <3>3. Promise!Answer(result.status, result.value) \in Promise!Results(submitted[j])
      BY DEF IsResult, Promise!Results, Promise!Answer
    <3>4. Promise!Resolve(j)
      BY <1>3, <3>1, <3>2, <3>3 DEF Promise!Resolve
    <3> QED
      BY <3>4 DEF Promise!Next
  <2> QED
    BY <2>3, <2>4
<1>6. CASE table[j].status = Absent
  <2>1. table[j] = NoItem
    BY <1>6 DEF IInv, ItemInv
  <2>2. table'[j].status = result.status /\ table'[j].ttl = Absent
    BY <1>2, <1>6, <2>1 DEF Updated, NoItem
  <2>3. GetResponse(j) = Promise!NotFound /\ GetResponse(j)' = Promise!ServerError
    BY <1>1, <1>4, <1>6, <2>2, AnswerCases, ResponseIsAnswer
  <2>4. submitted[j] # Absent
    BY AbsentAssumption DEF IInv, PostInv
  <2>5. Promise!Revive(j)
    BY <1>3, <2>3, <2>4 DEF Promise!Revive
  <2> QED
    BY <2>5 DEF Promise!Next
<1>7. CASE table[j].status \notin {Absent, "pending"}
  <2>1. GetResponse(j)' = GetResponse(j)
    BY <1>2, <1>7, ResponseIsAnswer
  <2> QED
    BY <1>3, <2>1, SameAnswers
<1> QED
  BY <1>5, <1>6, <1>7

(* A tick expires the jobs whose answer it takes away.                     *)
LEMMA TickRefines ==
  ASSUME TypeInv, IInv, Tick
  PROVE  Promise!Next
<1>1. /\ now \in Nat /\ now' = now + 1 /\ table' = table /\ submitted' = submitted
      /\ \A j \in Jobs : table[j] \in Items
  BY DEF Tick, TypeInv, TypeOK
<1> DEFINE S == {j \in Jobs : GetResponse(j)' # GetResponse(j)}
<1>2. ASSUME NEW j \in S
      PROVE  /\ GetResponse(j).status \in {"pending", "succeeded", "failed"}
             /\ GetResponse(j)' = Promise!NotFound
  <2>1. table[j].status # Absent /\ table[j].ttl # Absent /\ ~(table[j].ttl < now)
    BY <1>1, <1>2, AnswerCases, ResponseIsAnswer DEF Items
  <2>2. GetResponse(j) = Promise!Answer(table[j].status, table[j].value)
    BY <1>1, <2>1, AnswerCases, ResponseIsAnswer
  <2>3. table[j].ttl < now'
    BY <1>1, <1>2, <2>1, <2>2, AnswerCases, ResponseIsAnswer
  <2>4. GetResponse(j)' = Promise!NotFound
    BY <1>1, <2>1, <2>3, AnswerCases, ResponseIsAnswer
  <2>5. table[j].status \in JobStatus
    BY <1>1, <2>1 DEF Items
  <2> QED
    BY <2>2, <2>4, <2>5 DEF Promise!Answer, JobStatus
<1>3. Promise!Expire(S)
  BY <1>1, <1>2 DEF Promise!Expire
<1>4. S \in SUBSET Jobs
  OBVIOUS
<1> QED
  BY <1>3, <1>4 DEF Promise!Next

(* The first states and every step of the service are allowed by           *)
(* TranslateJobs.                                                          *)
LEMMA InitRefines == Init => Promise!Init
BY AbsentAssumption
   DEF Init, Promise!Init, GetResponse, Response, NoItem, Promise!NotFound, Promise!Answer, Result

LEMMA StepRefines ==
  TypeInv /\ IInv /\ [Next]_vars => [Promise!Next]_Promise!jobVars
<1> SUFFICES ASSUME TypeInv, IInv, [Next]_vars
             PROVE  [Promise!Next]_Promise!jobVars
  OBVIOUS
<1>1. CASE UNCHANGED <<now, table, submitted>>
  <2>1. \A j \in Jobs : GetResponse(j)' = GetResponse(j)
    BY <1>1, ResponseIsAnswer
  <2> QED
    BY <1>1, <2>1, SameAnswers
<1>2. ASSUME NEW j \in Jobs, NEW r \in Requests, CreateJob(j, r)
      PROVE  [Promise!Next]_Promise!jobVars
  <2>1. /\ table[j] = NoItem /\ submitted[j] = Absent
        /\ table'[j] = PendingItem(r) /\ now' = now /\ now \in Nat
        /\ submitted' = [submitted EXCEPT ![j] = r]
        /\ \A k \in Jobs : k # j => table'[k] = table[k]
    BY <1>2 DEF CreateJob, IInv, PostInv, TypeInv, TypeOK
  <2>2. now + TTL \in Nat /\ ~(now + TTL < now) /\ now + TTL # Absent
    BY <2>1, BoundsAssumption, AbsentAssumption
  <2>3. GetResponse(j)' = Promise!Pending
    BY <2>1, <2>2, ResponseIsAnswer, AbsentAssumption
       DEF AnswerOf, PendingItem, Promise!Pending, Promise!Answer, Result, JobStatus
  <2>4. \A k \in Jobs : k # j => GetResponse(k)' = GetResponse(k)
    BY <2>1, ResponseIsAnswer
  <2>5. Promise!Submit(j, r)
    BY <2>1, <2>3, <2>4 DEF Promise!Submit
  <2> QED
    BY <2>5 DEF Promise!Next
<1>3. ASSUME NEW i \in Invocations, WorkerWrite(i)
      PROVE  [Promise!Next]_Promise!jobVars
  <2>1. /\ worker[i] = "writing" /\ ConditionalUpdate(i[1], outcome[i])
        /\ now' = now /\ submitted' = submitted /\ outcome[i] \in Outcomes
    BY <1>3 DEF WorkerWrite, TypeInv, TypeOK
  <2>2. /\ IsResult(outcome[i])
        /\ outcome[i].status = "succeeded" => outcome[i].value = submitted[i[1]]
    BY <2>1 DEF TypeInv, HoldsResult, IInv, LocalsInv
  <2>3. i[1] \in Jobs /\ post[i[1]] # "idle"
    BY <2>1, SentAfterInvoke DEF IInv
  <2> QED
    BY <2>1, <2>2, <2>3, WriteRefines
<1>4. ASSUME NEW i \in Invocations, FailureMark(i)
      PROVE  [Promise!Next]_Promise!jobVars
  <2>1. /\ onFailure[i] = "queued" /\ ConditionalUpdate(i[1], Failed(504))
        /\ now' = now /\ submitted' = submitted
    BY <1>4 DEF FailureMark
  <2>2. IsResult(Failed(504)) /\ Failed(504).status # "succeeded"
    BY CodesAssumption DEF Failed, Result, IsResult
  <2>3. i[1] \in Jobs /\ post[i[1]] # "idle"
    BY <2>1, SentAfterInvoke DEF IInv
  <2> QED
    BY <2>1, <2>2, <2>3, FailedIsOutcome, WriteRefines
<1>5. ASSUME NEW j \in Jobs, Sweep(j)
      PROVE  [Promise!Next]_Promise!jobVars
  <2>1. /\ table[j].ttl # Absent /\ table[j].ttl < now
        /\ table'[j] = NoItem /\ NoItem.status = Absent
        /\ now' = now /\ submitted' = submitted
        /\ \A k \in Jobs : k # j => table'[k] = table[k]
    BY <1>5 DEF Sweep, Expired, NoItem, TypeInv, TypeOK
  <2>2. table[j] \in Items /\ NoItem \in Items /\ now \in Nat
    BY DEF TypeInv, TypeOK, Items, NoItem
  <2>3. GetResponse(j)' = GetResponse(j)
    BY <2>1, <2>2, AnswerCases, ResponseIsAnswer
  <2>4. \A k \in Jobs : k # j => GetResponse(k)' = GetResponse(k)
    BY <2>1, ResponseIsAnswer
  <2> QED
    BY <2>1, <2>3, <2>4, SameAnswers
<1>6. CASE Tick
  BY <1>6, TickRefines
<1> QED
  BY <1>1, <1>2, <1>3, <1>4, <1>5, <1>6
     DEF Next, RequestLambda, WorkerHandler, FailureHandler, InvokeWorker, PostFails,
         WorkerRead, WorkerTranslate, WorkerLog, WorkerReturn, WorkerDies, Redeliver,
         FailureLog, FailureRetry, Replicate, vars, jobVars

(* For every set of jobs and every bound, what GET answers is what         *)
(* TranslateJobs allows.                                                   *)
THEOREM RefinesTranslateJobsHolds == Spec => RefinesTranslateJobs
<1> QED
  BY InitRefines, StepRefines, InvCorrect, PTL DEF Spec, RefinesTranslateJobs, Promise!Spec

(* A copy the last write has not reached never gives an answer the job did *)
(* not have before, nor one that has expired.                              *)
THEOREM ReadsAreAnswersHolds == Spec => []ReadsAreAnswers
<1>1. ASSUME TypeInv, IInv, ReplicaInv, NEW j \in Jobs, NEW item \in Reads(j)
      PROVE  Response(item) \in Promise!Readable(j)
  <2>1. /\ item \in Items /\ table[j] \in Items /\ now \in Nat
        /\ Response(item) = AnswerOf(item, now) /\ GetResponse(j) = AnswerOf(table[j], now)
    BY <1>1 DEF Reads, TypeInv, TypeOK, GetResponse, Response, AnswerOf, Expired
  <2>2. CASE item = table[j]
    BY <2>1, <2>2 DEF Promise!Readable
  <2>3. CASE item.status = Absent \/ (item.ttl # Absent /\ item.ttl < now)
    <3>1. Response(item) = Promise!NotFound
      BY <2>1, <2>3, AnswerCases
    <3> QED
      BY <3>1 DEF Promise!Readable
  <2>4. CASE /\ PendingBefore(item, table[j]) /\ item.ttl # Absent /\ ~(item.ttl < now)
    <3>1. Response(item) = Promise!Pending
      BY <2>1, <2>4, AnswerCases, AbsentAssumption
         DEF PendingBefore, Promise!Pending, Promise!Answer, JobStatus
    <3>2. GetResponse(j) = Promise!Answer(table[j].status, table[j].value)
      BY <2>1, <2>4, AnswerCases DEF PendingBefore
    <3>3. table[j].status = "pending" => GetResponse(j) = Promise!Pending
      BY <1>1, <3>2 DEF IInv, ItemInv, Promise!Pending
    <3>4. table[j].status # "pending" => GetResponse(j).status \in {"succeeded", "failed"}
      BY <2>1, <2>4, <3>2 DEF Items, JobStatus, PendingBefore, Promise!Answer
    <3> QED
      BY <3>1, <3>3, <3>4 DEF Promise!Readable
  <2> QED
    BY <1>1, <2>2, <2>3, <2>4 DEF Reads, ReplicaInv
<1>2. TypeInv /\ IInv /\ ReplicaInv => ReadsAreAnswers
  BY <1>1 DEF ReadsAreAnswers
<1> QED
  BY <1>2, InvCorrect, PTL
=============================================================================
