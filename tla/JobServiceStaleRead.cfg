\* The least that shows an item its Worker does not see: no clock, one
\* delivery.
CONSTANTS
  Jobs = {j1}
  Requests = {r1}
  Absent = Absent
  ErrorCodes = {504}
  TTL = 1
  WorkerTimeout = 1
  MaxDeliveries = 1
  MaxFailureAttempts = 1
  MaxTime = 0

SPECIFICATION FairSpec
PROPERTY AcceptedIsDecided
CHECK_DEADLOCK FALSE
