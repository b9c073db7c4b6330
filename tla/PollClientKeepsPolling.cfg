\* One call, and the claim of ADR 0008 that it polls until it gives up.
SPECIFICATION ClientSpec
CONSTANTS
  Sessions = {s1}
  Texts = {hola}
  JobCodes = {504}
  HttpErrors = {500}
  None = None
  MaxPollFailures = 3
PROPERTY PollsUntilSettled
