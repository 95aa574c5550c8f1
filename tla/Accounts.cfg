\* Configurations and callbacks, three requests at a time; e-mail accounts, two.
CONSTANTS
  q1 = q1
  q2 = q2
  q3 = q3
  Requests = {q1, q2, q3}
  None = None
  Scenarios <- SmallScenarios
  Seed <- SmallSeed
  Supported = {"gmail", "yahoo"}
SPECIFICATION Spec
INVARIANTS
  SecondActiveNeedsOverlap
  StateReuseNeedsOverlap
  DeletedConfigServesNoCallback
  LostKeyNeedsOverlap
