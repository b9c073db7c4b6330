\* One shell, one job: one model is promoted a second time after its
\* inference code was edited, or after its raw training package was.
SPECIFICATION Spec
CONSTANTS
  dev = dev
  qa = qa
  Envs = {dev, qa}
  TrainingEnv = dev
  j1 = j1
  Jobs = {j1}
  RunIdOf <- MCRunIdOf
  s1 = s1
  Scripts = {s1}
  MaxRevision = 2
  MaxCommands = 5
  None = None
PROPERTY PromotionsAreKept
CHECK_DEADLOCK FALSE
