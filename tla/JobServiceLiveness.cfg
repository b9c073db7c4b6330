\* One job whose Worker event Lambda delivers twice: two Workers and two
\* onFailure handlers race for one item.
CONSTANTS
  Jobs = {j1}
  Requests = {r1}
  Absent = Absent
  ErrorCodes = {502, 504}
  TTL = 1
  WorkerTimeout = 1
  MaxDeliveries = 2
  MaxFailureAttempts = 2
  MaxTime = 2

SPECIFICATION FairSpec

PROPERTIES
  AcceptedIsAnswered
  ResolutionIsLogged

CHECK_DEADLOCK FALSE
