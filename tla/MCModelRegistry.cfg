\* One environment trains and another receives; two shells, two jobs.
SPECIFICATION Spec
CONSTANTS
  dev = dev
  qa = qa
  Envs = {dev, qa}
  TrainingEnv = dev
  j1 = j1
  j2 = j2
  Jobs = {j1, j2}
  RunIdOf <- MCRunIdOf
  s1 = s1
  s2 = s2
  Scripts = {s1, s2}
  MaxRevision = 2
  MaxCommands = 4
  None = None
SYMMETRY Symmetry
INVARIANTS TypeOK MetadataDescribesArtifact ProvenanceIsTrue EndpointRunsItsVersion
PROPERTY TrainingArtifactsAreKept
CHECK_DEADLOCK FALSE
