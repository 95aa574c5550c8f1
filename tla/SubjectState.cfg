SPECIFICATION StateSpec
CONSTANTS
  s1 = s1
  s2 = s2
  s3 = s3
  g1 = g1
  c1 = c1
  j1 = j1
  x = x
  y = y
  NoSnapshot = NoSnapshot
  Readers = {g1}
  Creators = {c1}
  Runs = {j1}
  Listed <- TwoSubjects
  Newcomers = {s3}
  Targets <- Together
  AsOf <- UpToThree
  Keys = {x, y}
  Values = {0, 1}
  Stored <- Before
  Histories <- Mixed
  MAX_TAIL = 2
  PAGE_SIZE = 2
  Limits = {3, 4}
INVARIANTS
  AnswerIsReplay
  AnswerIsCurrent
  ErrorsLoseTheRun
