\* Two clerks' requests, or the creation of a role, against every other operation.
CONSTANTS
  q1 = q1
  q2 = q2
  q3 = q3
  Requests = {q1, q2, q3}
  None = None
  Scenarios <- SmallScenarios
  Seed <- SmallSeed
  Codes <- SmallCodes
  SYSTEM_PERMISSIONS <- SmallCodes
  DEFAULT_ROLES <- SmallRoles
  GDPR_SENSITIVE_PERMISSIONS <- SmallSensitive
  PERMISSION_TTL = 1
  TENANT_TTL = 1
  TOKEN_TTL = 2
  MaxFlight = 1
  MaxNow = 2
SPECIFICATION Spec
INVARIANTS
  RevocationTakesEffect
  UnknownTenantWasAbsent
  TenantIsComplete
PROPERTIES
  DeactivationIsFinal
  SpentTokenServesNoLater
