SPECIFICATION RunsToEnd
CONSTANTS
  r1 = r1
  r2 = r2
  r3 = r3
  Create = Create
  Update = Update
  Delete = Delete
  AuditSubject = AuditSubject
  AuditEvent = AuditEvent
  EmptyPayload = EmptyPayload
  Payloads = {EmptyPayload, r1, r2}
  Subjects = {AuditSubject}
  EventTypes = {AuditEvent}
  Requests = {r1, r2}
  Operations = {Create, Update, Delete}
  LogMayFail = FALSE
  MaxNow = 1
INVARIANT SuccessMeansCommitted
