SPECIFICATION FairSpec
CONSTANTS
  s1 = s1
  s2 = s2
  t = t
  p = p
  none = none
  j1 = j1
  c1 = c1
  Writer = Writer
  Subjects = {s1, s2}
  EventTypes = {t}
  Payloads = {none, p}
  EmptyPayload = none
  Requests = {Writer}
  Jobs = {j1}
  Checks = {c1}
  None = None
  BATCH_SIZE = 2
  MAX_EVENTS = 2
  MAX_AGE = 1
  GRACE = 0
  MaxSeq = 3
  MaxNow = 2
INVARIANTS
  BrokenChainNeverValid
  FalseAlarmNeedsAppend
PROPERTIES
  StatusOnlyAdvances
  PollerGetsAnswer
