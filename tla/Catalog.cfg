\* Creations of a schema; an erasure; a flow's compliance; pairs of all the other routes.
CONSTANTS
  q1 = q1
  q2 = q2
  q3 = q3
  Requests = {q1, q2, q3}
  None = None
  Scenarios <- SmallScenarios
  Seed <- SmallSeed
  BuiltInTypes <- SmallTypes
  MaxAttempts = 3
  DocumentsCascade = FALSE
SPECIFICATION Spec
INVARIANTS
  OneActiveSchema
  SchemaCreationSucceeds
  ErasureIsWhole
  ComplianceErrsOnlyByChange
