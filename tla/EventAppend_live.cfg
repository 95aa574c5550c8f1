SPECIFICATION FairSpec
CONSTANTS
  s1 = s1
  s2 = s2
  a = a
  b = b
  c = c
  d = d
  p = p
  none = none
  r1 = r1
  r2 = r2
  b1 = b1
  b2 = b2
  EmptyPayload = none
  NoType = NoType
  NoOne = NoOne
  Payloads = {p, none}
  Subjects = {s1, s2}
  EventTypes = {a}
  Requests = {r1, b1, b2}
  Creates = {r1}
  CallerSessions = {"none"}
  CreateInputs <- CrossCreates
  BulkInputs <- CrossBatches
  AllowedTypes <- AnyType
  ValidPayloads <- AnyPayload
  Rules <- NoRules
  MAX_RETRIES = 2
  AutoBegin = FALSE
  MaxNow = 1
PROPERTY EveryRequestAnswered
