------------------------------ MODULE AuditChain ------------------------------
(***************************************************************************)
(* Audited writes: requests that change one entity in the transaction of     *)
(* get_db_transactional, append a system audit event to the chain of the     *)
(* tenant's audit subject (SystemAuditService, no lock on that subject) and  *)
(* write an audit_log row after the route has returned (ensure_audit_logged).*)
(*                                                                         *)
(* A flush that fails rolls the whole transaction back and leaves the        *)
(* session inactive; both audit writers catch the exception.  The commit of  *)
(* an inactive session closes it and raises nothing.                        *)
(*                                                                         *)
(* Each request makes one audited change on a route that depends on         *)
(* ensure_audit_logged, and nobody appends to the audit subject through the  *)
(* event service.                                                          *)
(***************************************************************************)
EXTENDS EventStore

CONSTANTS
  Operations,      \* what a request does to its entity: some of Create, Update, Delete
  Create, Update, Delete,
  AuditSubject,    \* the tenant's audit subject
  AuditEvent,      \* SYSTEM_AUDIT_EVENT_TYPE
  LogMayFail,      \* whether the insert into audit_log may fail on a usable session
  MaxNow           \* bound on the clock

\* The payload of an audit event names the request it describes.
ASSUME AuditAssumption ==
  /\ Subjects = {AuditSubject} /\ EventTypes = {AuditEvent}
  /\ Requests \subseteq Payloads
  /\ Operations \subseteq {Create, Update, Delete}
  /\ Create # Update /\ Create # Delete /\ Update # Delete
  /\ LogMayFail \in BOOLEAN
  /\ MaxNow \in Nat

VARIABLES
  events,        \* committed rows of table event for the audit subject
  pending,       \* pending[r]: audit events r has inserted and not committed
  changed,       \* requests whose change to their entity is committed
  audit_log,     \* requests whose audit_log row is committed
  logged,        \* logged[r]: r has inserted its audit_log row
  auditSubject,  \* whether the tenant has been initialised with an audit subject
  nextSeq,
  now,
  pc,
  op,            \* op[r]: what r does
  session,       \* session[r]: its transaction is active, inactive or closed
  stamp,         \* stamp[r]: the event_time r's audit event will carry
  previous,      \* previous[r]: the hash r read as the latest
  answer         \* answer[r]: what the client was told

vars == <<events, pending, changed, audit_log, logged, auditSubject, nextSeq, now, pc, op,
          session, stamp, previous, answer>>

PCs == {"change", "subject", "latest", "emit", "after", "answer", "log", "commit", "done"}

\* Types; and only an active session holds rows it may still commit.
TypeOK ==
  /\ events \in SUBSET Row
  /\ pending \in [Requests -> SUBSET Row]
  /\ changed \in SUBSET Requests
  /\ audit_log \in SUBSET Requests
  /\ logged \in [Requests -> BOOLEAN]
  /\ auditSubject \in BOOLEAN
  /\ nextSeq \in Nat /\ now \in Nat
  /\ pc \in [Requests -> PCs]
  /\ op \in [Requests -> Operations]
  /\ session \in [Requests -> {"active", "inactive", "closed"}]
  /\ stamp \in [Requests -> Nat]
  /\ previous \in [Requests -> Hashes]
  /\ answer \in [Requests -> {"none", "success", "error"}]
  /\ \A r \in Requests :
       /\ session[r] # "active" => pending[r] = {}
       /\ pc[r] = "done" <=> session[r] = "closed"

Init ==
  /\ events = {}
  /\ pending = [r \in Requests |-> {}]
  /\ changed = {}
  /\ audit_log = {}
  /\ logged = [r \in Requests |-> FALSE]
  /\ auditSubject \in BOOLEAN
  /\ nextSeq = 1
  /\ now = 0
  /\ op \in [Requests -> Operations]
  /\ pc = [r \in Requests |-> IF op[r] = Delete THEN "subject" ELSE "change"]
  /\ session = [r \in Requests |-> "active"]
  /\ stamp = [r \in Requests |-> 0]
  /\ previous = [r \in Requests |-> NoHash]
  /\ answer = [r \in Requests |-> "none"]

-----------------------------------------------------------------------------
Goto(r, label) == pc' = [pc EXCEPT ![r] = label]

\* The exception reaches get_db_transactional, which rolls back.
Fail(r) ==
  /\ Goto(r, "done")
  /\ session' = [session EXCEPT ![r] = "closed"]
  /\ pending' = [pending EXCEPT ![r] = {}]
  /\ logged' = [logged EXCEPT ![r] = FALSE]
  /\ answer' = [answer EXCEPT ![r] = IF @ = "none" THEN "error" ELSE @]
  /\ UNCHANGED <<events, changed, audit_log, auditSubject, nextSeq, now, op, stamp, previous>>

\* A failed flush whose exception is caught: rolled back, and the session inactive.
FlushFails(r) ==
  /\ session' = [session EXCEPT ![r] = "inactive"]
  /\ pending' = [pending EXCEPT ![r] = {}]
  /\ logged' = [logged EXCEPT ![r] = FALSE]

\* BaseRepository.create and update flush the entity before the hook that audits it;
\* the flush may violate a constraint.
Change(r) ==
  /\ pc[r] = "change"
  /\ \/ Fail(r)
     \/ /\ Goto(r, "subject")
        /\ UNCHANGED <<events, pending, changed, audit_log, logged, auditSubject, nextSeq, now,
                       op, session, stamp, previous, answer>>

\* _get_system_subject; emit_audit_event then takes the event's time, before it reads
\* the latest hash.  Without an audit subject it returns None.
FindAuditSubject(r) ==
  /\ pc[r] = "subject"
  /\ \/ /\ ~auditSubject
        /\ Goto(r, "after")
        /\ UNCHANGED stamp
     \/ /\ auditSubject
        /\ Goto(r, "latest")
        /\ stamp' = [stamp EXCEPT ![r] = now]
  /\ UNCHANGED <<events, pending, changed, audit_log, logged, auditSubject, nextSeq, now, op,
                 session, previous, answer>>

\* ORDER BY event_time DESC LIMIT 1, over what READ COMMITTED shows.
IsLatest(x, rows) == x \in rows /\ \A y \in rows : y.content.time <= x.content.time
LatestHashes(rows) ==
  IF rows = {} THEN {NoHash} ELSE {x.hash : x \in {y \in rows : IsLatest(y, rows)}}

GetLatestHash(r) ==
  /\ pc[r] = "latest"
  /\ \E h \in LatestHashes(events) : previous' = [previous EXCEPT ![r] = h]
  /\ Goto(r, "emit")
  /\ UNCHANGED <<events, pending, changed, audit_log, logged, auditSubject, nextSeq, now, op,
                 session, stamp, answer>>

AuditContent(r) ==
  [subject |-> AuditSubject, type |-> AuditEvent, payload |-> r, time |-> stamp[r]]

AuditRow(r) ==
  [id |-> <<r, 1>>, content |-> AuditContent(r), prev |-> previous[r],
   hash |-> compute_hash(AuditContent(r), previous[r]), seq |-> nextSeq]

\* An uncommitted row that collides makes the insert wait for its transaction.
MustWait(r) == \E q \in Requests \ {r} : \E x \in pending[q] : Collides(AuditRow(r), x)

\* Mutant: the insert runs in a savepoint, so a refused one leaves the session usable.
EmitRefused_Savepoint(r) ==
  /\ Goto(r, "after")
  /\ UNCHANGED <<session, pending, logged>>
  /\ UNCHANGED <<events, changed, audit_log, auditSubject, nextSeq, now, op, stamp, previous,
                 answer>>

\* IntegrityError in the flush: _emit_audit_event logs a warning and goes on.
EmitRefused(r) ==
  /\ Goto(r, "after")
  /\ FlushFails(r)
  /\ UNCHANGED <<events, changed, audit_log, auditSubject, nextSeq, now, op, stamp, previous,
                 answer>>

EmitAuditEvent(r) ==
  LET refused == \E x \in events : Collides(AuditRow(r), x)
  IN  /\ pc[r] = "emit"
      /\ ~MustWait(r)
      /\ \/ refused /\ EmitRefused(r)
         \/ /\ ~refused
            /\ pending' = [pending EXCEPT ![r] = {AuditRow(r)}]
            /\ nextSeq' = nextSeq + 1
            /\ Goto(r, "after")
            /\ UNCHANGED <<events, changed, audit_log, logged, auditSubject, now, op, session,
                           stamp, previous, answer>>

\* What the route still does with the session.  A created object was expunged by the
\* rollback and stays readable; an updated one is expired and must be reloaded, and a
\* delete has its own flush: both raise if the session is inactive.
FinishRoute(r) ==
  /\ pc[r] = "after"
  /\ \/ /\ op[r] # Create /\ session[r] = "inactive"
        /\ Fail(r)
     \/ /\ op[r] = Create \/ session[r] = "active"
        /\ Goto(r, "answer")
        /\ UNCHANGED <<events, pending, changed, audit_log, logged, auditSubject, nextSeq, now,
                       op, session, stamp, previous, answer>>

\* The response is sent before the dependencies with yield run their exit code.
Answer(r) ==
  /\ pc[r] = "answer"
  /\ answer' = [answer EXCEPT ![r] = "success"]
  /\ Goto(r, "log")
  /\ UNCHANGED <<events, pending, changed, audit_log, logged, auditSubject, nextSeq, now, op,
                 session, stamp, previous>>

\* ensure_audit_logged after its yield: any exception is logged and swallowed.
LogAction(r) ==
  /\ pc[r] = "log"
  /\ Goto(r, "commit")
  /\ \/ /\ session[r] = "active"
        /\ logged' = [logged EXCEPT ![r] = TRUE]
        /\ UNCHANGED <<session, pending>>
     \/ /\ LogMayFail \/ session[r] = "inactive"
        /\ FlushFails(r)
  /\ UNCHANGED <<events, changed, audit_log, auditSubject, nextSeq, now, op, stamp, previous,
                 answer>>

\* The end of `async with session.begin()`.
CommitOrClose(r) ==
  /\ pc[r] = "commit"
  /\ \/ /\ session[r] = "active"
        /\ events' = events \cup pending[r]
        /\ changed' = changed \cup {r}
        /\ audit_log' = IF logged[r] THEN audit_log \cup {r} ELSE audit_log
     \/ /\ session[r] = "inactive"
        /\ UNCHANGED <<events, changed, audit_log>>
  /\ pending' = [pending EXCEPT ![r] = {}]
  /\ session' = [session EXCEPT ![r] = "closed"]
  /\ Goto(r, "done")
  /\ UNCHANGED <<logged, auditSubject, nextSeq, now, op, stamp, previous, answer>>

\* The request is cancelled or its process dies.
Abort(r) == pc[r] # "done" /\ Fail(r)

Tick ==
  /\ now < MaxNow
  /\ now' = now + 1
  /\ UNCHANGED <<events, pending, changed, audit_log, logged, auditSubject, nextSeq, pc, op,
                 session, stamp, previous, answer>>

Step(r) ==
  \/ Change(r) \/ FindAuditSubject(r) \/ GetLatestHash(r) \/ EmitAuditEvent(r)
  \/ FinishRoute(r) \/ Answer(r) \/ LogAction(r) \/ CommitOrClose(r)

AllAnswered ==
  /\ \A r \in Requests : pc[r] = "done"
  /\ UNCHANGED vars

Next ==
  \/ \E r \in Requests : Step(r) \/ Abort(r)
  \/ Tick
  \/ AllAnswered

Spec == Init /\ [][Next]_vars

\* No request is cut off: the requests run to their end.
RunsToEnd == Init /\ [][(\E r \in Requests : Step(r)) \/ Tick \/ AllAnswered]_vars

-----------------------------------------------------------------------------
(***************************************************************************)
(* Properties.                                                             *)
(***************************************************************************)

\* A change is committed exactly when its two audit records are, and never for a client that
\* was told of an error: the swallowed exceptions never let one through without the others.
\* (A tenant without an audit subject has no system audit event.)
ChangeAndAuditTogether ==
  \A r \in Requests :
    /\ r \in changed <=> r \in audit_log
    /\ r \in changed /\ auditSubject <=> \E x \in events : x.content.payload = r
    /\ answer[r] = "error" => r \notin changed

\* The row _get_latest_hash would return already has a successor.
Stuck ==
  events # {} /\ \A x \in events : IsLatest(x, events) => \E y \in events : y.prev = x.hash

\* Two requests may take their times in one order and append in the other.  The chain
\* then never grows again: every later audited change is refused by the unique index.
StuckForGood == [][Stuck => events' = events]_vars

\* "Begins a transaction, commits on success": a client that was told of a success has
\* its change committed once the request is over.
SuccessMeansCommitted ==
  \A r \in Requests : answer[r] = "success" /\ pc[r] = "done" => r \in changed

===============================================================================
