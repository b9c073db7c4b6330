\* Two jobs, so that a mixed-up job id would show; the Worker of a job may
\* start in the last tick before the item expires and write after the sweep.
CONSTANTS
  Jobs = {j1, j2}
  Requests = {r1, r2}
  Absent = Absent
  ErrorCodes = {504}
  TTL = 1
  WorkerTimeout = 1
  MaxDeliveries = 1
  MaxFailureAttempts = 1
  MaxTime = 2

SPECIFICATION Spec
SYMMETRY JobSymmetry

INVARIANTS
  ReadsAreAnswers
  ResultIsForSubmission
  LoggedOnlyAfterDecided
  PendingHasOwner

PROPERTIES
  TerminalIsFinal
  RefinesTranslateJobs

CHECK_DEADLOCK FALSE
