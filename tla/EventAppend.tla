----------------------------- MODULE EventAppend ------------------------------
(***************************************************************************)
(* EventService: create_event (one event, under the lock of its subject's   *)
(* row, retried on an integrity error) and create_events_bulk (a batch, no  *)
(* lock, in the caller's transaction), run by concurrent requests against   *)
(* PostgreSQL at READ COMMITTED.                                            *)
(*                                                                         *)
(* A step is what a request does between two awaits.  Rows a transaction has *)
(* inserted and not committed are seen by it alone, but they occupy the      *)
(* unique indexes: a colliding insert waits for their transaction to end.    *)
(* An insert also takes the foreign key's KEY SHARE lock on the subject      *)
(* row, which FOR UPDATE excludes.                                           *)
(***************************************************************************)
EXTENDS EventTransitions

CONSTANTS
  Creates,          \* the requests that call create_event; the others are bulk
  CallerSessions,   \* the states a caller of create_event may leave its session in
  CreateInputs,     \* the contents a create_event call may carry
  BulkInputs,       \* the batches, sequences of contents, a bulk call may carry
  AllowedTypes,     \* AllowedTypes[s]: allowed_event_types of s's subject type
  ValidPayloads,    \* ValidPayloads[t]: payloads the schema of event type t accepts
  MAX_RETRIES,
  AutoBegin,        \* whether the first statement of a session opens its transaction
  MaxNow,           \* bound on the clock
  NoOne             \* no request: an unlocked subject row

Bulks == Requests \ Creates

ASSUME RequestsAssumption ==
  /\ Creates \subseteq Requests
  /\ CallerSessions \subseteq {"none", "begun"}
  /\ NoOne \notin Requests
  /\ CreateInputs \subseteq Content
  /\ BulkInputs \subseteq Seq(Content) \ {<< >>}   \* an empty batch returns at once
  /\ AllowedTypes \in [Subjects -> SUBSET EventTypes]
  /\ ValidPayloads \in [EventTypes -> SUBSET Payloads]

ASSUME BoundsAssumption ==
  MAX_RETRIES \in Nat \ {0} /\ MaxNow \in Nat /\ AutoBegin \in BOOLEAN

VARIABLES
  events,      \* committed rows of table event
  pending,     \* pending[r]: rows r's open transaction has inserted
  subjects,    \* committed rows of table subject
  lock,        \* lock[s]: the request holding s's row FOR UPDATE
  nextSeq,     \* next value of event_event_seq_seq
  now,         \* the clock utc_now() reads
  pc,          \* pc[r]: where request r is
  tx,          \* tx[r]: the state of r's session
  input,       \* input[r]: the contents r was called with
  tip,         \* tip[r][s]: hash and time r takes for the end of s's chain
  built,       \* built[r]: the rows r has prepared in memory and not inserted
  attempt,     \* attempt[r]: attempts of r that ended in an integrity error
  outcome      \* outcome[r]: what r's caller was told

vars == <<events, pending, subjects, lock, nextSeq, now, pc, tx, input, tip, built,
          attempt, outcome>>

Tip == [hash : Hashes, time : Nat]
NoTip == [hash |-> NoHash, time |-> 0]

Prepared == [content : Content, prev : Hashes, hash : Hashes]

PCs == {"find", "transition", "lock", "read", "insert", "commit", "respond",
        "bulk_read", "bulk_compute", "bulk_insert", "bulk_fk", "bulk_respond",
        "bulk_commit", "done"}

Outcomes == {"none", "created", "not_found", "rejected", "chain_fork",
             "integrity_error", "invalid_request", "deadlock", "validation_error",
             "aborted"}

TypeOK ==
  /\ events \in SUBSET Row
  /\ pending \in [Requests -> SUBSET Row]
  /\ subjects \in SUBSET Subjects
  /\ lock \in [Subjects -> Requests \cup {NoOne}]
  /\ nextSeq \in Nat
  /\ now \in Nat
  /\ pc \in [Requests -> PCs]
  /\ tx \in [Requests -> {"none", "autobegun", "begun"}]
  /\ input \in [Requests -> Seq(Content)]
  /\ tip \in [Requests -> [Subjects -> Tip]]
  /\ built \in [Requests -> Seq(Prepared)]
  /\ attempt \in [Requests -> 0..MAX_RETRIES]
  /\ outcome \in [Requests -> Outcomes]

Init ==
  /\ events = {}
  /\ pending = [r \in Requests |-> {}]
  /\ subjects = Subjects
  /\ lock = [s \in Subjects |-> NoOne]
  /\ nextSeq = 1
  /\ now = 0
  /\ pc = [r \in Requests |-> "find"]
  /\ tx \in [Requests -> CallerSessions \cup {"begun"}]
  /\ \A r \in Requests : tx[r] \in (IF r \in Creates THEN CallerSessions ELSE {"begun"})
  /\ input \in {f \in [Requests -> BulkInputs \cup {<<c>> : c \in CreateInputs}] :
                  \A r \in Requests :
                    f[r] \in (IF r \in Creates THEN {<<c>> : c \in CreateInputs}
                                               ELSE BulkInputs)}
  /\ tip = [r \in Requests |-> [s \in Subjects |-> NoTip]]
  /\ built = [r \in Requests |-> << >>]
  /\ attempt = [r \in Requests |-> 0]
  /\ outcome = [r \in Requests |-> "none"]

-----------------------------------------------------------------------------
\* The subject of a create_event call.
Subject(r) == input[r][1].subject

SubjectsOf(r) == {input[r][i].subject : i \in DOMAIN input[r]}

\* Allowed for the subject's type, and valid under the event type's schema.
TypeAndPayloadValid(c) ==
  c.type \in AllowedTypes[c.subject] /\ c.payload \in ValidPayloads[c.type]

\* Mutants: the check is left out, or lets an equal time pass.
TimeAfterPrevious_Unchecked(c, t) == t = t /\ c = c
TimeAfterPrevious_NotStrict(c, t) == t.hash = NoHash \/ c.time >= t.time

\* EventEntity.validate_event_time_after_previous; a genesis event passes.
TimeAfterPrevious(c, t) == t.hash = NoHash \/ c.time > t.time

\* EventEntity.validate, run when a stored row is mapped to an entity.
EntityValid(c) == c.time <= now /\ c.payload # EmptyPayload

\* What get_last_event returns of these rows, as the end of a chain.
LastEvent(rows) ==
  IF rows = {} THEN {NoTip}
  ELSE {[hash |-> r.hash, time |-> r.content.time] : r \in {q \in rows : IsLastEvent(q, rows)}}

Prepare(c, t) == [content |-> c, prev |-> t.hash, hash |-> compute_hash(c, t.hash)]

\* The next row of r's INSERT.
NextRow(r) ==
  [id |-> <<r, nextSeq>>, content |-> Head(built[r]).content, prev |-> Head(built[r]).prev,
   hash |-> Head(built[r]).hash, seq |-> nextSeq]

\* A unique index refuses it.
UniqueViolation(r) == \E x \in events \cup pending[r] : Collides(NextRow(r), x)

\* Transactions that hold KEY SHARE on s: their foreign key check has passed.
KeySharers(s) ==
  {q \in Requests : pc[q] \in {"bulk_respond", "bulk_commit"} /\ s \in SubjectsOf(q)}

\* Who r's statement waits for.
WaitsForLock(r) ==
  {q \in Requests \ {r} : Subject(r) \in subjects
                          /\ (lock[Subject(r)] = q \/ q \in KeySharers(Subject(r)))}
WaitsForIndex(r) ==
  {q \in Requests \ {r} : \E x \in pending[q] : Collides(NextRow(r), x)}
WaitsForKeyShare(r) ==
  {q \in Requests \ {r} : \E s \in SubjectsOf(r) \cap subjects : lock[s] = q}

WaitsFor(r) ==
  CASE pc[r] = "lock" /\ tx[r] = "none"      -> WaitsForLock(r)
    [] pc[r] \in {"insert", "bulk_insert"}   -> WaitsForIndex(r)
    [] pc[r] = "bulk_fk"                     -> WaitsForKeyShare(r)
    [] OTHER                                 -> {}

\* The deadlock detector: r is in a set of which each member waits for another.
Deadlocked(r) ==
  \E D \in SUBSET Requests : r \in D /\ \A d \in D : WaitsFor(d) \cap D # {}

-----------------------------------------------------------------------------
Goto(r, label) == pc' = [pc EXCEPT ![r] = label]

\* The end of r's transaction: its locks go, and its rows stay or go with it.
Release(r) == [s \in Subjects |-> IF lock[s] = r THEN NoOne ELSE lock[s]]
EndTransaction(r) ==
  /\ pending' = [pending EXCEPT ![r] = {}]
  /\ lock' = Release(r)
  /\ tx' = [tx EXCEPT ![r] = "none"]

\* Mutant: the error path commits what was flushed.
Fail_Commits(r, error) ==
  /\ Goto(r, "done")
  /\ outcome' = [outcome EXCEPT ![r] = error]
  /\ EndTransaction(r)
  /\ events' = events \cup pending[r]
  /\ UNCHANGED <<subjects, nextSeq, now, input, tip, built, attempt>>

\* The request ends in an error and its open transaction, if any, is rolled back.
Fail(r, error) ==
  /\ Goto(r, "done")
  /\ outcome' = [outcome EXCEPT ![r] = error]
  /\ EndTransaction(r)
  /\ UNCHANGED <<events, subjects, nextSeq, now, input, tip, built, attempt>>

\* A read through r's session opens its transaction when the session autobegins.
ReadSession(r) ==
  tx' = [tx EXCEPT ![r] = IF AutoBegin /\ @ = "none" THEN "autobegun" ELSE @]

\* create_event up to the schema validation.
FindSubject(r) ==
  /\ pc[r] = "find" /\ r \in Creates
  /\ \/ /\ Subject(r) \notin subjects
        /\ Fail(r, "not_found")
     \/ /\ Subject(r) \in subjects /\ ~TypeAndPayloadValid(input[r][1])
        /\ Fail(r, "rejected")
     \/ /\ Subject(r) \in subjects /\ TypeAndPayloadValid(input[r][1])
        /\ Goto(r, "transition")
        /\ ReadSession(r)
        /\ UNCHANGED <<events, pending, subjects, lock, nextSeq, now, input, tip,
                       built, attempt, outcome>>

\* The transition rules, against the rows committed now; no lock is held yet.
ValidateTransition(r) ==
  /\ pc[r] = "transition"
  /\ \/ /\ ~CanEmit(RowsOf(events, Subject(r)), input[r][1].type)
        /\ Fail(r, "rejected")
     \/ /\ CanEmit(RowsOf(events, Subject(r)), input[r][1].type)
        /\ Goto(r, "lock")
        /\ ReadSession(r)
        /\ UNCHANGED <<events, pending, subjects, lock, nextSeq, now, input, tip,
                       built, attempt, outcome>>

\* Mutant: the subject's row is read without FOR UPDATE.
LockSubject_Unlocked(r) ==
  /\ pc[r] = "lock"
  /\ \/ /\ tx[r] # "none"
        /\ Fail(r, "invalid_request")
     \/ /\ tx[r] = "none"
        /\ tx' = [tx EXCEPT ![r] = "begun"]
        /\ Goto(r, "read")
        /\ UNCHANGED <<events, pending, subjects, lock, nextSeq, now, input, tip, built,
                       attempt, outcome>>

\* db.begin() and SELECT ... FOR UPDATE, which locks nothing if the row is gone.
LockSubject(r) ==
  /\ pc[r] = "lock"
  /\ \/ /\ tx[r] # "none"
        /\ Fail(r, "invalid_request")
     \/ /\ tx[r] = "none"
        /\ WaitsForLock(r) = {}
        /\ lock' = [s \in Subjects |-> IF s = Subject(r) /\ s \in subjects THEN r
                                                                          ELSE lock[s]]
        /\ tx' = [tx EXCEPT ![r] = "begun"]
        /\ Goto(r, "read")
        /\ UNCHANGED <<events, pending, subjects, nextSeq, now, input, tip, built,
                       attempt, outcome>>

\* get_last_event, the event time check and the hash.
ReadTip(r) ==
  /\ pc[r] = "read"
  /\ \E t \in LastEvent(RowsOf(events, Subject(r))) :
       \/ /\ ~TimeAfterPrevious(input[r][1], t)
          /\ Fail(r, "rejected")
       \/ /\ TimeAfterPrevious(input[r][1], t)
          /\ built' = [built EXCEPT ![r] = <<Prepare(input[r][1], t)>>]
          /\ Goto(r, "insert")
          /\ UNCHANGED <<events, pending, subjects, lock, nextSeq, now, tx, input, tip,
                         attempt, outcome>>

\* Mutants: one attempt too many; the attempts are not counted.
InsertRefused_OneMore(r) ==
  /\ attempt' = [attempt EXCEPT ![r] = @ + 1]
  /\ EndTransaction(r)
  /\ built' = [built EXCEPT ![r] = << >>]
  /\ IF attempt[r] = MAX_RETRIES
     THEN Goto(r, "done") /\ outcome' = [outcome EXCEPT ![r] = "chain_fork"]
     ELSE Goto(r, "lock") /\ UNCHANGED outcome
  /\ UNCHANGED <<events, subjects, nextSeq, now, input, tip>>

InsertRefused_Forever(r) ==
  /\ EndTransaction(r)
  /\ built' = [built EXCEPT ![r] = << >>]
  /\ Goto(r, "lock")
  /\ UNCHANGED <<events, subjects, nextSeq, now, input, tip, attempt, outcome>>

\* The INSERT raised IntegrityError: roll back, then retry or give up.
InsertRefused(r) ==
  /\ attempt' = [attempt EXCEPT ![r] = @ + 1]
  /\ EndTransaction(r)
  /\ built' = [built EXCEPT ![r] = << >>]
  /\ IF attempt[r] = MAX_RETRIES - 1
     THEN Goto(r, "done") /\ outcome' = [outcome EXCEPT ![r] = "chain_fork"]
     ELSE Goto(r, "lock") /\ UNCHANGED outcome
  /\ UNCHANGED <<events, subjects, nextSeq, now, input, tip>>

\* (A refused row uses up a value of event_seq too; only the order of the values counts.)
InsertAccepted(r, label) ==
  /\ pending' = [pending EXCEPT ![r] = @ \cup {NextRow(r)}]
  /\ built' = [built EXCEPT ![r] = Tail(@)]
  /\ nextSeq' = nextSeq + 1
  /\ Goto(r, label)
  /\ UNCHANGED <<events, subjects, lock, now, tx, input, tip, attempt, outcome>>

\* EventRepository.create_event: unique indexes and the foreign key to subject.
InsertRow(r) ==
  LET refused == UniqueViolation(r) \/ Subject(r) \notin subjects
  IN  /\ pc[r] = "insert"
      /\ WaitsForIndex(r) = {}
      /\ \/ refused /\ InsertRefused(r)
         \/ ~refused /\ InsertAccepted(r, "commit")

\* The end of the block `async with self.db.begin()`.
Commit(r) ==
  /\ pc[r] = "commit"
  /\ events' = events \cup pending[r]
  /\ EndTransaction(r)
  /\ Goto(r, "respond")
  /\ UNCHANGED <<subjects, nextSeq, now, input, tip, built, attempt, outcome>>

\* _event_result_to_entity validates the entity of the row just committed.
Respond(r) ==
  /\ pc[r] = "respond"
  /\ outcome' = [outcome EXCEPT ![r] = IF EntityValid(input[r][1]) THEN "created"
                                                                  ELSE "validation_error"]
  /\ Goto(r, "done")
  /\ UNCHANGED <<events, pending, subjects, lock, nextSeq, now, tx, input, tip, built,
                 attempt>>

-----------------------------------------------------------------------------
\* create_events_bulk: the subjects and the allowed types of the whole batch.
BulkFindSubjects(r) ==
  /\ pc[r] = "find" /\ r \in Bulks
  /\ \/ /\ ~(SubjectsOf(r) \subseteq subjects)
        /\ Fail(r, "not_found")
     \/ /\ SubjectsOf(r) \subseteq subjects
        /\ \E i \in DOMAIN input[r] : input[r][i].type \notin AllowedTypes[input[r][i].subject]
        /\ Fail(r, "rejected")
     \/ /\ SubjectsOf(r) \subseteq subjects
        /\ \A i \in DOMAIN input[r] : input[r][i].type \in AllowedTypes[input[r][i].subject]
        /\ Goto(r, "bulk_read")
        /\ UNCHANGED <<events, pending, subjects, lock, nextSeq, now, tx, input, tip,
                       built, attempt, outcome>>

\* get_last_events_for_subjects: one query, no lock.
BulkReadTips(r) ==
  /\ pc[r] = "bulk_read"
  /\ \E t \in [SubjectsOf(r) -> UNION {LastEvent(RowsOf(events, s)) : s \in SubjectsOf(r)}] :
       /\ \A s \in SubjectsOf(r) : t[s] \in LastEvent(RowsOf(events, s))
       /\ tip' = [tip EXCEPT ![r] = [s \in Subjects |-> IF s \in SubjectsOf(r) THEN t[s]
                                                                             ELSE NoTip]]
  /\ Goto(r, "bulk_compute")
  /\ UNCHANGED <<events, pending, subjects, lock, nextSeq, now, tx, input, built, attempt,
                 outcome>>

\* One turn of the loop: checks the next event of the batch and hashes it onto the
\* chain kept in memory.  The transition rules see the committed rows only.
BulkCompute(r) ==
  LET i == Len(built[r]) + 1
      next == input[r][i]
      valid == /\ TimeAfterPrevious(next, tip[r][next.subject])
               /\ CanEmit(RowsOf(events, next.subject), next.type)
               /\ next.payload \in ValidPayloads[next.type]
  IN  /\ pc[r] = "bulk_compute"
      /\ i <= Len(input[r])
      /\ \/ ~valid /\ Fail(r, "rejected")
         \/ /\ valid
            /\ built' = [built EXCEPT ![r] = Append(@, Prepare(next, tip[r][next.subject]))]
            /\ tip' = [tip EXCEPT ![r][next.subject] =
                         [hash |-> compute_hash(next, tip[r][next.subject].hash),
                          time |-> next.time]]
            /\ Goto(r, IF i = Len(input[r]) THEN "bulk_insert" ELSE "bulk_compute")
            /\ UNCHANGED <<events, pending, subjects, lock, nextSeq, now, tx, input,
                           attempt, outcome>>

\* EventRepository.create_events_bulk: one INSERT, row by row into the unique indexes ...
BulkInsert(r) ==
  /\ pc[r] = "bulk_insert"
  /\ WaitsForIndex(r) = {}
  /\ \/ UniqueViolation(r) /\ Fail(r, "integrity_error")
     \/ /\ ~UniqueViolation(r)
        /\ InsertAccepted(r, IF Len(built[r]) = 1 THEN "bulk_fk" ELSE "bulk_insert")

\* ... and the foreign keys at the end of the statement.
BulkForeignKeys(r) ==
  /\ pc[r] = "bulk_fk"
  /\ WaitsForKeyShare(r) = {}
  /\ \/ /\ ~(SubjectsOf(r) \subseteq subjects)
        /\ Fail(r, "integrity_error")
     \/ /\ SubjectsOf(r) \subseteq subjects
        /\ Goto(r, "bulk_respond")
        /\ UNCHANGED <<events, pending, subjects, lock, nextSeq, now, tx, input, tip,
                       built, attempt, outcome>>

\* The rows are mapped to entities, validated, before the caller commits.
BulkRespond(r) ==
  LET valid == \A i \in DOMAIN input[r] : EntityValid(input[r][i])
  IN  /\ pc[r] = "bulk_respond"
      /\ \/ ~valid /\ Fail(r, "validation_error")
         \/ /\ valid
            /\ Goto(r, "bulk_commit")
            /\ UNCHANGED <<events, pending, subjects, lock, nextSeq, now, tx, input, tip,
                           built, attempt, outcome>>

\* get_db_transactional commits when the caller returns.
BulkCommit(r) ==
  /\ pc[r] = "bulk_commit"
  /\ events' = events \cup pending[r]
  /\ outcome' = [outcome EXCEPT ![r] = "created"]
  /\ EndTransaction(r)
  /\ Goto(r, "done")
  /\ UNCHANGED <<subjects, nextSeq, now, input, tip, built, attempt>>

-----------------------------------------------------------------------------
\* PostgreSQL ends a deadlock by an error in one of the statements that wait; it is
\* not an IntegrityError, so create_event does not retry it.
DeadlockAbort(r) ==
  /\ WaitsFor(r) # {}
  /\ Deadlocked(r)
  /\ Fail(r, "deadlock")

\* The request is cancelled (timeout, disconnect) or its process dies.
Abort(r) ==
  /\ pc[r] # "done"
  /\ Fail(r, "aborted")

\* SubjectService.delete_subject: the foreign key of event forbids it once the subject
\* has an event, and it waits for the locks on the subject's row.
DeleteSubject(s) ==
  /\ s \in subjects
  /\ RowsOf(events, s) = {}
  /\ lock[s] = NoOne /\ KeySharers(s) = {}
  /\ subjects' = subjects \ {s}
  /\ UNCHANGED <<events, pending, lock, nextSeq, now, pc, tx, input, tip, built, attempt,
                 outcome>>

Tick ==
  /\ now < MaxNow
  /\ now' = now + 1
  /\ UNCHANGED <<events, pending, subjects, lock, nextSeq, pc, tx, input, tip, built,
                 attempt, outcome>>

CreateStep(r) ==
  \/ FindSubject(r) \/ ValidateTransition(r) \/ LockSubject(r) \/ ReadTip(r)
  \/ InsertRow(r) \/ Commit(r) \/ Respond(r)

BulkStep(r) ==
  \/ BulkFindSubjects(r) \/ BulkReadTips(r) \/ BulkCompute(r) \/ BulkInsert(r)
  \/ BulkForeignKeys(r) \/ BulkRespond(r) \/ BulkCommit(r)

Step(r) == CreateStep(r) \/ BulkStep(r) \/ DeadlockAbort(r)

\* Every request has been answered: nothing more has to happen.
AllAnswered ==
  /\ \A r \in Requests : pc[r] = "done"
  /\ UNCHANGED vars

Next ==
  \/ \E r \in Requests : Step(r) \/ Abort(r)
  \/ \E s \in Subjects : DeleteSubject(s)
  \/ Tick
  \/ AllAnswered

Spec == Init /\ [][Next]_vars

\* The event loop resumes every request whose statement has returned.
FairSpec == Spec /\ \A r \in Requests : WF_vars(Step(r))

-----------------------------------------------------------------------------
(***************************************************************************)
(* Properties.                                                             *)
(***************************************************************************)

\* The chains stay well formed under every interleaving of locked single appends and
\* unlocked batches: no two events of a subject share a predecessor, and every event's
\* predecessor is stored, earlier in time and in event_seq.
ChainIntegrity ==
  HashesRecompute(events) /\ NoFork(events) /\ LinkedToParent(events)

StrictPrefix(g, h) == Len(g) < Len(h) /\ SubSeq(h, 1, Len(g)) = g

\* The three orders the code takes for "the timeline" are one: event_seq, by which the
\* append finds the tip, event_time, by which verification and replay sort, and the
\* hash links.
OrdersAgree ==
  \A p, q \in events : p.content.subject = q.content.subject =>
    /\ p.seq < q.seq <=> StrictPrefix(p.hash, q.hash)
    /\ p.seq < q.seq <=> p.content.time < q.content.time

\* A content a client sends twice (a retry after a lost answer) is stored at most once:
\* the strict time check makes the append idempotent.
ResubmissionStoredOnce ==
  \A p, q \in events : p.content = q.content => p = q

\* What the caller is told matches what is stored: "created" means every event of the
\* call, once; an error means none, except the validation_error of create_event and a
\* call cut off after its commit.  No batch is ever stored in part.
StoredOf(r) == {e \in events : e.id[1] = r}
OutcomeMatchesStore ==
  \A r \in Requests :
    /\ Cardinality(StoredOf(r)) \in {0, Len(input[r])}
    /\ outcome[r] = "created" => Cardinality(StoredOf(r)) = Len(input[r])
    /\ outcome[r] \notin {"none", "created", "validation_error", "aborted"} => StoredOf(r) = {}
    /\ outcome[r] = "validation_error" /\ r \in Bulks => StoredOf(r) = {}

\* The lock on the subject row makes the tip create_event read still the tip when it
\* inserts: it meets an integrity error, and so can give up with ChainForkError, only
\* because the subject has been deleted under it.
IntegrityErrorMeansSubjectGone ==
  \A r \in Creates : attempt[r] > 0 => Subject(r) \notin subjects

\* Required prior types are checked before the lock is taken, on rows that may be stale
\* by then; as nothing is ever deleted from a timeline the check still holds for every
\* stored event.
PriorsPrecede ==
  \A e \in events : \A t \in Rules[e.content.type].required :
    \E p \in events : /\ p.content.subject = e.content.subject
                      /\ p.content.type = t
                      /\ p.seq < e.seq

\* Every call is answered: no wait for a lock, no deadlock and no retry loop lasts.
EveryRequestAnswered == \A r \in Requests : <>(pc[r] = "done")

\* The timelines, read off the tips: a hash is the sequence of contents it commits to.
Timeline(s) ==
  IF RowsOf(events, s) = {} THEN << >>
  ELSE (CHOOSE r \in RowsOf(events, s) : IsLastEvent(r, RowsOf(events, s))).hash

Log == INSTANCE AppendLog WITH log <- [s \in Subjects |-> Timeline(s)], Contents <- Content

\* The store implements one growing, time ordered log per subject.
ImplementsAppendLog == Log!Spec

===============================================================================
