SPECIFICATION Spec
CONSTANTS
  s1 = s1
  s2 = s2
  a = a
  b = b
  c = c
  d = d
  p = p
  none = none
  r1 = r1
  r2 = r2
  b1 = b1
  b2 = b2
  EmptyPayload = none
  NoType = NoType
  NoOne = NoOne
  Payloads = {p, none}
  Subjects = {s1}
  EventTypes = {a, b, c, d}
  Requests = {r1, r2, b1}
  Creates = {r1, r2}
  CallerSessions = {"none", "begun"}
  CreateInputs <- MixedCreates
  BulkInputs <- MixedBatches
  AllowedTypes <- MixedTypes
  ValidPayloads <- AnyPayload
  Rules <- MixedRules
  MAX_RETRIES = 3
  AutoBegin = FALSE
  MaxNow = 2
INVARIANTS
  TypeOK
  ChainIntegrity
  OrdersAgree
  ResubmissionStoredOnce
  OutcomeMatchesStore
  IntegrityErrorMeansSubjectGone
  PriorsPrecede
PROPERTY ImplementsAppendLog
