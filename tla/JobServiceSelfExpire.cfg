\* The least that shows an item without a ttl: one delivery, one attempt.
CONSTANTS
  Jobs = {j1}
  Requests = {r1}
  Absent = Absent
  ErrorCodes = {502, 504}
  TTL = 1
  WorkerTimeout = 1
  MaxDeliveries = 1
  MaxFailureAttempts = 1
  MaxTime = 3

SPECIFICATION Spec
INVARIANT JobsSelfExpire
CHECK_DEADLOCK FALSE
