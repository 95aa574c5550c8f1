\* Batches that trigger limited and failing workflows, over a midnight; passes of the anchoring job.
CONSTANTS
  q1 = q1
  q2 = q2
  q3 = q3
  Requests = {q1, q2, q3}
  None = None
  Scenarios <- SmallScenarios
  Seed <- SmallSeed
  MaxDay = 2
SPECIFICATION Spec
INVARIANTS
  DailyLimitKept
  LossNeedsRefusal
  AnchorsAreStamped
PROPERTY
  AnchorsAreFinal
