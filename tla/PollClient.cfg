\* Two calls of translate(), the second overlapping or following the first.
SPECIFICATION ClientFairSpec
CONSTANTS
  Sessions = {s1, s2}
  Texts = {hola}
  JobCodes = {504}
  HttpErrors = {500}
  None = None
  MaxPollFailures = 2
INVARIANTS QuietOnceSettled NetworkErrorMeansOutage
PROPERTY RefinesTranslatePromise
