--------------------------- MODULE TranslateJobs ---------------------------
(***************************************************************************)
(* What the translate-job API promises to whoever polls a job id: the      *)
(* answers of GET /v1/translate-jobs/{job_id} over the life of one job,    *)
(* with no table, no Lambda and no clock.  JobService implements it.       *)
(*                                                                         *)
(* A job is unknown until it is submitted, then pending, then has one      *)
(* result, and disappears one hour after it was submitted.  The last       *)
(* disjunct of Next is the behaviour of the code nobody would ask for: a   *)
(* late terminal write on a job that is already gone leaves a record that  *)
(* GET can only answer with a 500 (JobService!JobsSelfExpire).             *)
(***************************************************************************)
CONSTANTS
  Jobs,       \* job ids, uuid4 values in the code
  Requests,   \* submitted (text, direction) pairs
  Codes,      \* the status codes of a failed job
  Absent      \* "no value"

VARIABLES
  request,    \* what was submitted under each job id, Absent before the POST
  answer      \* what GET answers for each job id, once the last write is seen

jobVars == <<request, answer>>

Answer(status, value) == [status |-> status, value |-> value]
NotFound    == Answer("notFound", Absent)      \* 404
Pending     == Answer("pending", Absent)       \* 200, pending
ServerError == Answer("serverError", Absent)   \* 500

(* The answers that end a poll loop: the translation of the submitted      *)
(* request, or a failure with the code the synchronous API would have had. *)
Results(r) == {Answer("succeeded", r)} \cup {Answer("failed", c) : c \in Codes}

(* The answers a GET may give: the present one, or one of before the last  *)
(* writes.  What has expired is never seen again.                          *)
Readable(j) ==
  {answer[j], NotFound}
    \cup IF answer[j].status \in {"succeeded", "failed"} THEN {Pending} ELSE {}

----------------------------------------------------------------------------
Init == /\ request = [j \in Jobs |-> Absent]
        /\ answer = [j \in Jobs |-> NotFound]

Submit(j, r) == /\ request[j] = Absent
                /\ request' = [request EXCEPT ![j] = r]
                /\ answer' = [answer EXCEPT ![j] = Pending]

Resolve(j) == /\ answer[j] = Pending
              /\ \E a \in Results(request[j]) :
                    answer' = [answer EXCEPT ![j] = a]
              /\ UNCHANGED request

(* One tick of the clock may expire several jobs at once.                  *)
Expire(S) == /\ \A j \in S : answer[j].status \in {"pending", "succeeded", "failed"}
             /\ answer' = [j \in Jobs |-> IF j \in S THEN NotFound ELSE answer[j]]
             /\ UNCHANGED request

Revive(j) == /\ request[j] # Absent
             /\ answer[j] = NotFound
             /\ answer' = [answer EXCEPT ![j] = ServerError]
             /\ UNCHANGED request

Next == \/ \E j \in Jobs, r \in Requests : Submit(j, r)
        \/ \E j \in Jobs : Resolve(j) \/ Revive(j)
        \/ \E S \in SUBSET Jobs : Expire(S)

Spec == Init /\ [][Next]_jobVars
=============================================================================
