# Timeline: a formal model

Timeline is a multi-tenant event store behind a FastAPI service (`src/app`, Python,
SQLAlchemy async sessions on PostgreSQL, optional Redis). Every *subject* of a tenant owns
a timeline: events, each carrying the SHA-256 of its content and of its predecessor's
hash. Documents, workflows, audits, snapshots and anchors hang off those timelines.

This directory models the parts on which the integrity of the timelines rests, checks them
with TLC and proves with TLAPS, for every value of the constants, most of what the runs check. `PROJECT.json` maps every definition to
the lines it models.

## 1. Inventory

### 1.1 Components

| Component | State | Operations | Correct when | Module |
|---|---|---|---|---|
| Event append (`use_cases/events/create_event.py`) | table `event`, the lock on the subject's row, the session's transaction | `create_event` (locked, retried), `create_events_bulk` (unlocked, in the caller's transaction) | one growing hash chain per subject; the caller is told what is stored; always answers | `EventAppend` |
| Event entity (`domain/entities/event.py`) | - | time check, entity validation | event times increase along a chain | `EventAppend` |
| Hash service | - | `compute_hash` | the hash commits to the whole history | `EventStore` |
| Event table, indexes, repository | rows, `event_seq`, unique indexes on genesis, successor and hash | inserts, tip reads, paging | indexes refuse a fork | `EventStore`, `EventAppend`, `VerificationJobs` |
| Transition rules | a rule per event type | `validate_can_emit`; CRUD | a stored event satisfies its rule | `EventTransitions`; CRUD in `Catalog` |
| Database sessions (`persistence/database.py`) | transaction: none, autobegun, begun, inactive | `get_db`, `get_db_transactional` | commit on success, roll back on error | `Tables`, `Routes`, `EventAppend`, `AuditChain` |
| System audit and API audit log | the audit subject's chain, table `audit_log` | `AuditableRepository` hooks, `emit_audit_event`, `ensure_audit_logged` | a change and its audit records stand or fall together | `AuditChain` |
| Chain verification | - | page, sort, verify | a broken chain is found, an intact one accepted | `Verification`, `VerificationJobs` |
| Verification jobs | in-memory job store, asyncio tasks | start, run, evict, poll | a poller learns the result | `VerificationJobs` |
| Subjects, types, relationships, kinds | their tables | CRUD | no subject with events is deleted; `external_ref` unique | `Catalog`, `EventAppend` |
| Export and erasure | - | export, anonymize, delete | an erasure is whole | `Catalog` |
| Subject state and snapshots | table `subject_snapshot` | replay, snapshot, snapshot job | snapshot + tail = full replay; the job's counts are true | `SubjectState` |
| Documents, retention, storage | table `document`, files | upload, new version, delete, change of type, retention run | versions form chains; no row without its file | `Documents` |
| Event schemas, categories, requirements, naming templates | versions, active flag; settings | CRUD, retried creation of a version | one active schema version per type | `Catalog` |
| Flows | flow, its subjects | CRUD, document compliance | compliance is true of the store | `Catalog` |
| Workflow engine | workflows, executions, tasks, advisory locks | trigger, daily limit, actions, routes | limit kept; a failing action does not cost the events | `Automation` |
| Chain anchor | table `chain_anchor`, the TSA | one pass of the job | an anchor is stored with its receipt and stays | `Automation` |
| Authorization, tenant and permission cache | Redis entries | check, cache, expire | a revoked permission is refused before long | `Access` |
| Tenants, users, roles, permissions, tokens | their tables | tenant creation, log-in, registration, CRUD, first password | a tenant comes whole; a deactivated user stays out; a token serves once | `Access` |
| OAuth configurations, e-mail accounts | configurations, states, salt file, accounts | create, rotate, delete, authorize, callback; accounts' CRUD and sync | a rotation is whole; a state serves one callback | `Accounts` |
| Redis client (`redis_cache.py`) | client, `_connected` | connect, reconnect, commands, disconnect | never raises for want of Redis | `CacheClient` |
| WebSockets, messaging | connections, subscription | connect, serve, forward | a client gets its tenant's messages, all and in order | `Messaging` |
| Lifespan | the background tasks and clients of a process | start, stop | everything is closed | `Process` |
| Request timeout | - | cancel a request | nothing half done is committed | `Abort` in every module of requests |
| Other middleware, telemetry, search, analytics | - | - | - | not modelled |

### 1.2 How they interact

* A request runs in one asyncio task and has one session. `get_db` hands out a session with
  no transaction, `get_db_transactional` one inside `session.begin()`, committed when the
  route has returned (and, with this FastAPI, *after* the response has been sent).
* `create_event` opens its own transaction per attempt; everything else appends in the
  caller's.
* Nearly all concurrency meets in PostgreSQL: row locks (`FOR UPDATE` on the subject, the key
  share an insert's foreign key takes), unique indexes (a colliding insert waits for the other
  transaction), advisory locks, the deadlock detector, READ COMMITTED visibility.
* Verification jobs share a process and read what the appends commit.
* The audit writer appends to the same table, to another subject, without the service. Every
  audited write of a tenant meets the others there, whatever else it locks.
* An upload puts its file into the storage between two statements of its transaction.
* A protected request first passes the tenant check and the permission check, which read Redis
  before the database and write what they have read back to it.
* A batch with workflows runs their actions in its own transaction. An anchoring pass waits for
  the TSA in the middle of one.
* A process has one Redis client, one connection manager and one subscription, shared by its
  tasks without a lock of their own (but the manager's). The key salt is a file that processes
  share.
* `TimeoutMiddleware` cancels a request at whatever await it is, even after its answer.

### 1.3 What is hard

Interleavings of locked and unlocked appends; orders that need not agree (`event_seq` is
drawn at the insert, visible at the commit, while others sort by `event_time`); rules and
tips read in one await and relied on in another; errors swallowed after a flush that has
killed the session; results returned before a commit; paging by OFFSET under inserts; jobs
evicted while they run; copies of a row written back over a newer one; row locks, unique keys
and the audit chain taken in different orders; cache entries written after what they say has
changed; check-then-write on versions, tokens and states; answers put together from many
statements; clients replaced while others await them. `PROJECT.json` lists these hazards, each
at its line, with the properties that cover it.

## 2. Modules

| Module | Contents |
|---|---|
| `EventStore` | rows, hashes, the unique indexes (`Collides`), what a well-formed set of chains is |
| `EventTransitions` | `validate_can_emit` as operators |
| `EventAppend` | the two append operations, step by step, against the database |
| `AppendLog` | abstract: per subject one sequence that only grows, with increasing times |
| `EventAppend_proofs` | the theorems about `EventAppend` |
| `AuditChain` | audited requests, the swallowed flush errors, the commit of an inactive session |
| `AuditChain_proofs` | the theorems about `AuditChain` |
| `Verification` | sorting, grouping and judging a list of events |
| `VerificationJobs` | verification in a request and in a job, appends and forgeries meanwhile, the poller |
| `Documents` | uploads, versions, deletions, changes of type and the retention run |
| `Documents_proofs` | the theorems about `Documents` |
| `SubjectState` | the derived state of a subject, its snapshot, the snapshot job |
| `Readers_proofs` | the theorems about `Verification` and `VerificationJobs`, and about `SubjectState` |
| `Tables` | transactions over tables with unique keys, foreign keys and audit events |
| `Routes` | the frame of a writing route: read, write, answer, commit, abort |
| `Access` | caches, authorization, tenants, users, roles, tokens, log-in; over `Tables` |
| `Access_proofs` | the theorems about `Access` |
| `Catalog` | a tenant's subjects and what describes them, erasure, export, flows; over `Routes` |
| `Catalog_proofs` | the theorems about `Catalog` |
| `Accounts` | OAuth configurations, states and callbacks, the salt, e-mail accounts; over `Routes` |
| `Accounts_proofs` | the theorems about `Accounts` |
| `Automation` | workflows and anchoring; over `Routes` |
| `CacheClient` | the shared Redis client |
| `Messaging` | WebSocket connections and the forwarding of messages |
| `Process` | start and stop of a process; `CacheClient` and `Messaging` composed |
| `Background_proofs` | the theorems about `Automation`, and about `Process`, `CacheClient` and `Messaging` |
| `MC*` | constants of the runs |

### 2.1 Conventions

* **A step is what a request does between two awaits** that another request, the database or
  a crash can come between. The label `pc[r]` is the await the request is at.
* **Rows.** `events` holds committed rows, `pending[r]` what `r`'s open transaction has
  inserted: only `r` sees those, but they occupy the unique indexes. `WaitsFor(r)` names the
  transactions `r`'s statement waits for; a step that would wait is disabled, and a cycle may
  be broken by `DeadlockAbort`.
* **Hash.** SHA-256 is taken to be injective: the hash *is* the sequence of contents of the
  chain that ends in the event. Equal hashes are then equal histories; a forged row is one
  whose `hash` is not what `compute_hash` gives, or whose links are wrong.
* **READ COMMITTED.** A read sees the rows committed when it runs.
* **Refused inserts** use up a sequence number in PostgreSQL; only the order of the numbers
  matters, so the models do not count them.
* **AutoBegin.** A SQLAlchemy session opens its transaction at its first statement. As
  `create_event` reads before it calls `db.begin()`, with `AutoBegin = TRUE` that call always
  finds a transaction open (finding 2). The append runs set it to FALSE: they check the
  session protocol the docstring of `get_event_service_for_create` describes, so that the
  retry loop and its lock are checked at all. `CallerSessions` lets a caller leave a
  transaction open in the mixed run. The theorems hold for both values.
* `Operator_Something` definitions marked "Mutant" are broken variants of the operator they
  precede; no specification uses them. They record that a property notices the break.

### 2.2 EventAppend and the code

`create_event` is `FindSubject` (subject, allowed type, schema), `ValidateTransition`,
`LockSubject` (`begin()` and `SELECT ... FOR UPDATE`), `ReadTip` (tip, time check, hash),
`InsertRow`, `Commit`, `Respond` (which validates the entity *after* the commit).
`InsertRow` waits for a colliding uncommitted row, then inserts, or gets an
`IntegrityError`: `InsertRefused` rolls back and goes back to `LockSubject` with the same
input, or answers `chain_fork` after `MAX_RETRIES`. The locks of a transaction go with it.

`create_events_bulk` is `BulkFindSubjects`, `BulkReadTips`, `BulkCompute` (one event per
step, onto tips kept in memory), `BulkInsert` (row by row into the unique indexes),
`BulkForeignKeys` (the check at the end of the statement, which needs a key share on the
subject), `BulkRespond`, `BulkCommit`. `DeleteSubject`, `Tick`, `Abort` and `DeadlockAbort`
interleave with all of them.

### 2.3 AuditChain and the code

A request changes an entity (`Change`, the flush of `BaseRepository`), then
`AuditableRepository._emit_audit_event` calls `SystemAuditService.emit_audit_event`:
`FindAuditSubject` (and the event's time), `GetLatestHash`, `EmitAuditEvent`. A delete audits
first and flushes after. `EmitRefused` is the caught exception: everything the transaction
flushed is rolled back and the session is inactive. `FinishRoute` is what the route still
does with the session: an update reloads its expired object and a delete flushes, both of
which raise in an inactive session; a create returns an object that is still readable.
`Answer`, `LogAction` (`ensure_audit_logged` after its yield) and `CommitOrClose` follow.

### 2.4 Verification and the code

`Verification` holds the pure part: the stable sort by `event_time`, the grouping by
subject, `_verify_event`. `VerificationJobs` has the store (`Evict`, `Update`), the task
(`RunJob`, `CountEvents`, `FetchPage`, `TimeOut`, `QueryFails`, `DropTask`), the endpoint that
starts it, the poller, and the world: `CommitAppend`, `Tamper`, `Restart`, `Tick`. `CheckTenant`
and `CheckSubject` are the requests that verify inline: the first shares `CountEvents` and
`FetchPage` with the job and puts its verdict into the response; the second pages through one
subject's events only. After the last page the verdict is computed without an
await, so it is part of `FetchPage`. `intact` and `quiet` are history variables the properties
refer to; no guard reads them.

### 2.5 Documents and the code

`upload_document` is `CheckUpload` (lookup of the checksum), `MarkParent`
(`mark_parent_not_latest_if_current`, whose `UPDATE` waits for the parent's row), `StoreFile`,
`InsertDoc`; `delete_document` is `ReadDocument` and `SoftDelete`; `update_document` is
`ReadDocument`, `RereadDocument` (the repository loads the row again and assigns three
attributes from the first copy) and `WriteDocument` (the flush, which sets only the attributes
that differ from what was loaded); the retention run is `BeginRetention`, `ListBatch` and
`SoftDelete` for each document of the page. All go on with `EmitAudit`, then `Answer` and
`CommitOrClose`.

* `write[r]` holds the rows `r`'s open transaction has inserted or updated: their updates lock
  the row, their inserts hold the unique keys.
* `RereadDocument` sees a fresh row because nothing refers to the object of the first read once
  it is turned into a DTO, and a session's identity map is weak.
* The audit event is one step here: accepted, refused (which leaves the session inactive, as in
  `AuditChain`), or waiting for the other open transaction that has inserted one. How a refusal
  comes about is `AuditChain`'s matter.
* The schema is that of the migrations. The ORM model also declares `ux_document_root_version`
  (one root document per subject), which no migration creates.
* Only the type with a retention period matters to the run; the loop over categories is one
  category long.

### 2.6 SubjectState and the code

`get_current_state` is `ReadSnapshot` (the row, and the choice between it and a full replay) and
`ReadEvents` (`get_events_chronological`, at most `MAX_TAIL` events, and the replay). A reader is
then answered. A creation goes on with `LoadRow` and `WriteRow`, the two halves of the
repository's `create_snapshot`; the job does the same for one subject after the other
(`NextSubject`), all in one transaction. `Answer` and `CommitOrClose` end both.

* `timeline[s]` is what `AppendLog` promises and `EventAppend` is checked against: a sequence that
  only grows. So an index stands for an event's place by `event_time` and id, and `as_of` for a
  number of events. (The audit subject, whose times nobody checks, is not a case of this.)
* `WriteRow` waits while another open transaction has written the subject's row or claimed its
  unique key (`Holders`). `Updated` is the `UPDATE`: only attributes that differ from the loaded
  ones are set, and SQLAlchemy sends nothing if none does.
* `LoadRow` sees the row as it is: the object of the first read is gone by then, and a session's
  identity map is weak.
* A refused insert (`FlushFails`) leaves the session inactive. The job catches the exception and
  goes on, counting an error for every later subject; only listing a further page ends it.
* `ListPage` is one page of `get_by_tenant` (`listed`, the newest first), from an offset that grows
  by what was listed before. `CreateSubject` and `DeleteSubject` are other requests', which shift
  it: the job may pass a subject over or go through it twice. A subject that is gone at its turn is
  an error to the job, which goes on in an active session, and a 404 to a reader or a creator
  (`ReadSnapshot`). Subjects are listed in the order of their creation (`created_at`). Only one
  without events can be deleted: the foreign key of `event` refuses the others.
* The replay of one workflow's stream uses no snapshot and is left out.

`StateInit`, `StateNext`, `StateSpec`, `StateTypeOK` and `stateVars` carry a prefix because
`Readers_proofs` extends this module and `VerificationJobs` together.

### 2.7 Tables and Routes, and the code

`Tables` is what a module of routes needs of SQLAlchemy and PostgreSQL. `View(r)` is what `r`'s
transaction sees. `Flush(r, new, del, tenants)` writes rows, deletes rows with all that
references them `ON DELETE CASCADE`, and extends the audit chains of `tenants`; it is enabled
once no other open transaction holds a row, a unique key, a reference or an audit chain it
needs. `IntegrityError` holds when a committed row collides or a reference is missing or left
dangling. `AuditRefused` is the audit event that fails instead (how it comes to that is
`AuditChain`'s matter), which leaves the session inactive; `Close` commits an active session and
does nothing for an inactive one.

`Routes` puts a route together of them: `Look` (a read; `got[r]` is what it keeps), a write, its
answer, and the commit after it. An operation in `Creates` answers even when its audit event has
been refused, as `FinishRoute` of `AuditChain` explains; one in `Unaudited` has a repository
without audit hook. `Abort` cancels a request that has written something, before its answer or
between its answer and its commit (`TimeoutMiddleware`, or a process that dies); a request that
has written nothing leaves no trace either way. `before[r]` is a history variable: who had
committed when `r` began.

The schema is that of the migrations, except where a constant says otherwise
(`DocumentsCascade`: the models declare a cascade from subjects to documents that no migration
creates). In particular, configuration versions have no unique key (finding 9).

### 2.8 Access and the code

The way in is `LookUpTenant`, `FindTenant`, `KeepTenant` (`get_tenant_id`), `CurrentUser`, and
`GetPermissions`, `ResolvePermissions`, `KeepPermissions` (`AuthorizationService`), each a
separate await on Redis or on the database: what `FindTenant` and `ResolvePermissions` have read
at `readAt[r]` is on its way into the cache until the matching `Keep` step. `Check` is what the
route reads before it writes, `Write` its write, with the answer each route gives to each error.
`Grant` and `FindCode` are the loop over permission codes of a new role, `Spend` the second half
of a redeemed token, `Initialise`, `CreateAdmin`, `AssignAdminRole` and `IssueToken` the rest of a
tenant's creation, `LoginTenant` and `Authenticate` the log-in. Routes in `ReadsCommitted` look
things up with a second session. `lastHeld`, `lastAbsent` and `decidedAt` are history variables:
when a user last held a permission, when a tenant was last absent, when a request was let in.

A tenant's creation is a step per flush or savepoint, where another request can come between or
an insert fail. The inserts of one `flush` are one step.

### 2.9 Catalog and the code

One action per route, or several where a route awaits between reads that matter: a schema's
creation (`start`, `write`, `others`, with the savepoint that is retried), an erasure (the
subject, the list, the deletions), an export (subject, events, documents), a flow's compliance
(flow, members, requirements, then category and count of each). A row has the columns that a
guard, a key or a property looks at; names and contents are one column `content`. `CallOK` is what
the paths and the Pydantic schemas let a request be called with; whether an id is one of the table
it is looked up in is for the route to find out.

### 2.10 Accounts and the code

Every request that uses the OAuth service first derives a key (`ReadSalt`, `OpenSalt`,
`WriteSalt`): the salt's file is outside every transaction, may be opened and not yet written,
and is read or made by any process. `Rotate` and `NewVersion` are `create_new_version`, whose
three statements (active version, insert, superseding the former) others come between.
`Authorize` issues a state, `Callback` consumes it; what the provider answers is either outcome.
The table is the one migration 063b9eee42d4 creates, so nothing refuses a version that is given
twice. If the audit event of the insert is refused, the session is inactive when the version before
is to be superseded (`SaveIf`), and if that of the superseding is, nobody notices: either way the
commit does nothing.

### 2.11 Automation and the code

`bulk` is `create_events_bulk` with `trigger_workflows`: `AppendEvents`, then for each event
`Trigger` (the workflows by their order, and in any order where it is the same: `Orderings`), and
for each workflow `Execute`, `Lock` (the advisory lock; batches that wait in a circle are
`Deadlocked`, and the database cancels one of them), `Count`, `Start`, `Act` for each action,
`Finish`. An exception is noted where the
code catches it, and the session is whatever the failed statement has left. An action is `refused` if it
has a value that the routes let pass and the database does not take: a `create_task` title of 501 to
512 characters (`schemas/workflow.py:36` allows 512, `task.title` is a `VARCHAR(500)`), or a value
that an action looks up by and the driver rejects. A task's user may also be missing. No HTTP route passes
`trigger_workflows=True` for a batch today, and `POST /events` does not get that far (finding 2):
the module models the engine as its caller in the service would run it. An anchoring pass is
`ReadTip`, `Lookup`, `CreatePending` (a savepoint), `Stamp` (the TSA), `Confirm`; as wired the job
never gets a session (section 5), and the module gives it one.

### 2.12 CacheClient, Messaging, Process and the code

Here a step ends at an await of the event loop, since all state is one process's memory.
`CacheClient` has the calls (`Call`, `Served`, `NextBatch`, `Lose`) and the reconnection
(`Replace`, `Reconnected`, `ReconnectFailed`), each on the client that was the service's when the
call took it. `Messaging` has the endpoint (`CheckToken`, `Accept`, `Leave`, `HangUp`) and the
task (`Subscribe`, `Forward`, `Send` to one connection after the other in any order, as a set is
iterated, `Sent`, `LoseRedis`). Messages may be JSON objects, other JSON, or no JSON. `Process`
starts and stops both as `create_lifespan` does, in its order.

## 3. Runs

| Run | Question | Result |
|---|---|---|
| `append_mixed` | two single appends (one may be the client's retry of the other) against a batch, with rules, aborts, deadlocks, a clock, a deletion | all properties hold, and the store implements `AppendLog` |
| `append_live` | two batches over two subjects that may cross, one single append | every request is answered |
| `audit` | three audited writes, failing flushes, aborts | both properties hold |
| `audit_lost` | two audited writes, none cut off, `audit_log` always writable | `SuccessMeansCommitted` is violated (finding 1) |
| `verification` | a job or an inline verification, three appends, one forgery, time-out, failure, dropped task, restart | all properties hold |
| `documents` | two uploads or an upload and a deletion, beside a retention run or a change of type, with failing storage, refused audits, deadlocks and aborts | all properties hold |
| `subject_state` | a reader with an `as_of`, a creation and a job that lists in pages, while a timeline grows and a subject is created and deleted | all properties hold |
| `access` | requests of a clerk against each kind of revocation; two creations of a tenant and its first request; pairs and triples of the other operations | all properties hold |
| `catalog` | creations of schema versions with other changes of them; erasures and exports; compliance; the other routes against those of the same row or key | all properties hold |
| `accounts` | three creations, rotations, deletions, authorizations and callbacks, with and without a salt file; pairs for e-mail accounts | all properties hold |
| `automation` | two triggering batches over a change of the date; two anchoring passes and a batch; workflow routes | all properties hold |
| `process` | a process's life: cache calls that reconnect, sockets, messages, a failing task, shutdown | both properties hold |

### 3.1 What the properties say

Every property of a passing run has a mutant in `PROJECT.json`, a plausible bug that breaks it.

* `ChainIntegrity`: hashes recompute, no two events of a subject share a predecessor, every
  predecessor is stored, older and earlier in `event_seq`. The batch takes no lock: it is the
  indexes that keep it true.
* `OrdersAgree`: `event_seq`, `event_time` and the hash links order a timeline alike. The
  append finds the tip by the first, verification and replay sort by the second.
* `ResubmissionStoredOnce`: a content sent twice is stored once; the strict time check is
  what makes the append idempotent.
* `OutcomeMatchesStore`: the answer against the store, and no batch in part. It names the one
  exception: `create_event` may answer `validation_error` for an event it has committed.
* `IntegrityErrorMeansSubjectGone`: under the row lock an attempt fails only because the
  subject was deleted between the check and the lock, and is then reported as a chain fork.
* `PriorsPrecede`: required prior types stay satisfied although they are checked before the
  lock, because a timeline never shrinks. (`max_occurrences` has no such excuse: finding 3.)
* `ImplementsAppendLog`: refinement of `AppendLog` under `log[s] = Timeline(s)`.
* `EveryRequestAnswered`: no wait, deadlock or retry loop keeps a request for ever. In
  `Documents` a retention run holds the audit chain while it takes row locks, and an upload holds
  a row lock while it waits for the audit chain: the deadlock is reachable, and is broken.
* `ChangeAndAuditTogether`: a change is committed exactly with its audit event and its log entry,
  through swallowed exceptions.
* `StuckForGood`: the latest event by `event_time` may have a successor already (two requests
  took their times in one order and appended in the other); no audited change then ever
  commits again. It is a property of the code as it stands, stated because an operator should
  know it: the state `Stuck` is reachable in the run.
* `BrokenChainNeverValid`, `FalseAlarmNeedsAppend`: OFFSET paging under appends repeats events
  but hides none; a false alarm needs an append between the first page and the last, and for one
  subject's verification an append to that subject.
* `StatusOnlyAdvances`, `PollerGetsAnswer`: the job seen by its client. A dropped task leaves
  "running" behind; eviction by age is what ends the wait.
* `VersionsFormChains`: at most one successor per document, and `is_latest_version` says exactly
  whether there is one. The conditional `UPDATE` decides the race; the index on versions does not
  help, since a new version may name another subject. Documents that `update_document` is called
  for are left out, because of finding 4.
* `EveryDocumentHasItsFile`: rows never point to a missing file. (Files without a row are left
  behind by every failure after the upload; nothing collects them.)
* `AnswerIsReplay`: an answer built on a snapshot is what a full replay gives, although a slower
  creation may put an older snapshot over a newer one between a reader's two reads. It leaves out
  the state (not the event and the count) of a subject one of whose states comes back: under
  `NeverRepeats` finding 6 cannot strike, since then a state that equals the loaded one belongs to
  the loaded event.
* `AnswerIsCurrent`: however old the snapshot, a reader misses nothing that was committed when it
  began, as long as there are no more than `MAX_TAIL` events to replay. Beyond it the answer is
  older and nothing in it says so.
* `ErrorsLoseTheRun`: an error for a subject that is still there comes of a failed flush, which has
  rolled back all that the job reports as created, and the job never commits. An error for a subject
  that was deleted before its turn costs nothing: what a committed job reports as created is stored.
  A property of the code as it stands, for the operator who reads the report.
* `RevocationTakesEffect`: nothing invalidates the permission cache, but whoever is let in held
  the permission no longer ago than an entry lives plus its way into the cache.
* `UnknownTenantWasAbsent`: the marker for an unknown tenant keeps a new one out, and no longer
  than its own time plus its way.
* `TenantIsComplete`: wherever a creation fails, a stored tenant has the subject of its audit
  chain, an administrator with all permissions and a token, and gives no other default role the
  right to export or erase.
* `DeactivationIsFinal`: an update of an account read before its deactivation, and written after a
  password was hashed in a thread, does not bring it back: only changed columns are set.
* `SpentTokenServesNoLater`: a request that looks a token up after it has set a password finds it
  used. (Requests that overlap may both use it: finding 7.)
* `OneActiveSchema`, `SchemaCreationSucceeds`: however creations race, a type has at most one
  active version (unless a PATCH activated one), and with no more creations than attempts none
  fails for want of a version. An attempt is lost only to a creation that has committed.
* `ErasureIsWhole`: a redacted subject has no document but those stored while its erasure ran;
  nor does an export of a redacted subject show one.
* `ComplianceErrsOnlyByChange`: "all satisfied" is wrong only if something was deleted or required
  since the request began; uploads and new members cannot make the many statements disagree.
* `SecondActiveNeedsOverlap`: a provider gets a second active configuration only from two requests
  that overlap, never from half a rotation (the audit event of either of its writes may be refused,
  and the exception swallowed), nor from a rotation or a deletion before or after. `StateReuseNeedsOverlap`,
  `DeletedConfigServesNoCallback`: what a state can be used for. `LostKeyNeedsOverlap`: a secret
  becomes undecipherable only if two requests that overlapped made a salt each.
* `DailyLimitKept`: the limit holds over all batches, for the day the execution is counted under.
  A limit that was changed counts as its highest value, and a workflow that was ever without one is
  left out: a batch that found it so takes no lock.
* `LossNeedsRefusal`: a batch answered as stored is lost only to an action with a value or a user
  that the database refuses, or to a deadlock; and batches of one event each that find the workflows of a trigger in one order take
  their locks in that order and never deadlock.
* `AnchorsAreStamped`, `AnchorsAreFinal`: a stored anchor has the receipt of the pass that read its
  tip, and no pass of another process replaces it.
* `ServedMissNothing`: a client still there has received exactly the messages forwarded to its
  tenant while it was served, in order. `RaiseNeedsCrossing`: a cache call raises only after
  another call's failed reconnection took the client from under it (finding 13).

`TypeOK` is checked in `append_mixed`, where it also bounds the attempts. The other modules define
one too, with the rows' columns; it is left out of their runs to keep each to its question. It is
proved wherever section 4 lists a theorem `TypeCorrect`.

### 3.2 Bounds, and why they are enough

* `append_mixed`: one subject and three requests: every pair of operations meets with a
  third to disturb it, and all conflicts are per subject. Four types (one with a rule that
  has all four parts, one not allowed), two payloads, times 1..3 with a clock up to 2, so that
  an event may lie in the future at its validation and be past at a later one.
  `MAX_RETRIES = 3` as in the code.
* `append_live`: two subjects, because a crossing of two batches needs two; `MAX_RETRIES = 2`.
* `audit`: three requests: two collide, the third finds the chain stuck. Two clock values.
* `verification`: `BATCH_SIZE = 2`, `MAX_EVENTS = 2` and three events at most: a full page
  and a short one, a shift between them, and the limit on both sides. One verification per
  behaviour (`Alone`), a job's or a request's: they only read, and jobs meet only in the store's
  dictionary, where each touches its own key and eviction treats each alone. The clock runs one
  step past a job's expiry.
* `documents`: two stored documents and three requests, two of them uploads, so that chains of
  three versions, races for one parent and deadlocks of two transactions occur; `BATCH_SIZE = 2`
  is one full page. A clock of two values: the stored documents become due during the run or
  before it.
* `subject_state`: two subjects, and one without events that may be created and deleted, so that a
  job skips it, finds it gone at its turn, or has its offset shifted by it. One timeline grows, to four events that never
  repeat a state or to three that do; `MAX_TAIL = 2`, so that a replay with and without a
  snapshot can be cut short. `PAGE_SIZE = 2` and a limit of 3 or 4: a second page that is full, short or empty. A job ended by
  its second listing in an inactive session, one that commits with an error for a deleted subject, and
  one that misses a subject by the shifted offset are all reachable.
* `access`, `catalog`, `accounts`, `automation`: the set `SmallScenarios` of their `MC` module
  names which requests meet. Two requests show each race for a row, a key or an entry; a third is
  added where a property is about three (a schema created thrice, a reader beside two writers, a
  tenant's first request beside two creations). `PERMISSION_TTL = TENANT_TTL = 1`,
  `MaxFlight = 1` and a clock to 2 let an entry be written late, be used and expire;
  `TOKEN_TTL = 2` lets a token expire. `MaxAttempts = 3` (the code has 5) is the number of
  creations, the boundary `SchemaCreationSucceeds` is about. `MaxDay = 2` is one midnight.
* `process`: three calls of the cache, one of them a scan, since a crossing needs two and a third
  may see what is left; three sockets of two tenants; two messages, of which one may end the
  task; calls and sockets together only one of each (`Loads`), since they share nothing but the
  process's end.

### 3.3 Fairness

* `EventAppend`: weak fairness of each request's `Step`: the event loop resumes a request
  whose statement has returned, and PostgreSQL's deadlock detector acts (`DeadlockAbort` is
  part of `Step`). A step that waits for a lock is disabled. Weak fairness is enough since a
  waiting request stays enabled once nobody else is left to take the lock. Nothing is assumed
  of `Abort`, `DeleteSubject` or `Tick`.
* `VerificationJobs`: weak fairness of a task that is ready, of the client's polling and of
  time. Nothing is assumed of time-outs, failures or restarts.
* `Documents`: weak fairness of each request's `Step`, for the same reasons as in `EventAppend`.
  Nothing is assumed of `AuditStale`, `Abort` or `Tick`.
* The other modules state safety only. That their requests end is checked as absence of deadlock:
  the only state without a successor but stuttering is the one in which all are done (`AllDone`).

## 4. Proofs

Every theorem holds for all values of the constants that satisfy the named assumptions, so for any
number of requests, rows, tenants or messages, any bound and any input. 4.11 lists the assumptions,
4.12 what stays with TLC.

All proofs go the same way. The property speaks of committed state, or of answers, and is not
inductive: a row is committed long after it was checked, an answer given long after it was read.
The inductive invariant adds what each label of `pc` implies of the request's transaction and of
what it has read. Then there is one lemma per action; where many actions do the same thing to the
tables, they are first shown to take one of a few *steps* (insert, commit, roll back, nothing), and
the invariant is proved per step. A step of one request is shown to keep what the invariant says of
the others from what it leaves alone and from what their locks keep it from.

### 4.1 EventAppend

| Theorem | States |
|---|---|
| `TypeCorrect` | `TypeOK`, including that no call uses more attempts than `MAX_RETRIES` |
| `ChainsStayWellFormed` | `ChainIntegrity` |
| `TimelinesStayLinear` | the inductive invariant of the timelines, uncommitted rows included |
| `OrdersStayOne` | `OrdersAgree` |
| `ResubmissionsStayStoredOnce` | `ResubmissionStoredOnce` |
| `StoreImplementsAppendLog` | `ImplementsAppendLog`, the refinement of `AppendLog` |
| `CallersAreToldTheTruth` | `OutcomeMatchesStore` |
| `OnlyDeletionRefusesAnInsert` | `IntegrityErrorMeansSubjectGone` |
| `PriorsArePreceding` | `PriorsPrecede` |

`ChainInv` is the basis. Its part `TypeInv` adds to `TypeOK` what each label implies of the
prepared rows. `StoreInv` speaks of *all* inserted rows, committed or not: hashes recompute, no two
rows of a subject have one predecessor, every non-genesis row has an older parent among the rows
its transaction can see. This is where the indexes come in: a row enters `pending` only if no row
of any transaction collides with it. `BuiltInv` says that the rows a request has prepared form a
chain in memory that is linked to a row the request sees.

`OrderInv` builds on it: what any one transaction sees of a subject is `Linear` (sequence numbers,
times and hash prefixes give one order, and there is one end), and no two transactions hold rows of
one subject, because the second would have to extend the same end and the index makes it wait. The
tip that a batch, or an attempt after a lost race, has read may be an old one: then some committed
row has it as its predecessor already and the index refuses the insert. So what enters always
continues the end.

The refinement maps `log[s]` to `Timeline(s)`. `HistoryInv` says that a hash is a sequence of
contents of one subject in increasing time, and `TimelineFacts` that the timeline is the hash of the
last committed row; a commit then appends to it and every other step stutters.

`CallInv` and `StoredInv` count: the rows a call has inserted and those it still has to insert are
as many as it was called with, and none is stored before its commit, all after it. `LockInv` says
who may hold a subject's row at which label; from it and `TipInv` a locked attempt inserts after the
tip as it is, so a refusal means that the subject is gone. `PriorsInv` keeps the required prior
types of prepared rows among the *committed* rows, which only grow.

### 4.2 AuditChain

`TypeCorrect` (with what each label implies of the session); `ChangeAndAuditStayTogether` states
`ChangeAndAuditTogether`; `AuditEventsFormOneChain` that the tenant's audit events have one
extensible end; `StuckChainStaysStuck` states `StuckForGood`.

`TogetherInv`: past the audit event, an active session holds that event exactly when the tenant has
an audit subject. A refused flush leaves the session inactive, and an inactive session commits
nothing; that is what makes the swallowed exception harmless to the property. `ChainInv`: at most one
committed row has no successor (`OneEnd`), a hash read as the latest is still the end or already
`Taken`, and an uncommitted row extends the end. If all rows with the latest time are taken, whoever
reads the latest hash will be refused, which is why nobody commits again.

### 4.3 Verification

`TypeCorrect`; `JobsOnlyAdvance` states `StatusOnlyAdvances`; `BrokenChainsAreFound` and
`FalseAlarmsComeFromAppends` state `BrokenChainNeverValid` and `FalseAlarmNeedsAppend`.

`JobAgrees` ties a job's entry to its task, and every step of a job is one of `Keeps`, `Starts`,
`GoesOn`, `Ends`. For the verdict, the pages are described by *ranks*: `Above(table, r)` is how many
rows precede `r` in the order the query uses (latest `event_seq` first). A row that commits later, with
whatever number, only adds to the ranks of others: a row of rank below the offset has been fetched
whatever was appended (`Paged`), and what was appended is newer than the rest of its subject. `PageInv` keeps a set `S` of rows, those there at the first page, for which this holds; it
also says that the list is `Exact` as long as nothing was appended. When the last page is short the
list covers `S`, and the lemmas about sorting and grouping (`IsSorting`, proved for `Verification`'s
operators) carry a broken chain of `S` into the verdict; an exact list of an intact table is found
intact.

### 4.4 Documents

`TypeCorrect`; `UploadsFormChains` states `VersionsFormChains`, `DocumentsHaveTheirFiles`
`EveryDocumentHasItsFile`.

`ChainInv` says what an open transaction may hold: its own new document, its parent marked as no
longer latest (`IsMarked`, possible only while the committed parent is flagged), or a rewrite that
leaves the flag alone, unless the document is one `update_document` is called for. An upload about to
insert holds its parent's row (`HoldsParent`), and no two transactions hold one row (`Locked`), so
only one of two uploads for a parent gets as far as its insert. `FilesInv` has the file from
`StoreFile` on; files are never removed.

### 4.5 SubjectState

`JobErrorsLoseTheRun` states `ErrorsLoseTheRun`, `ReadersAreCurrent` `AnswerIsCurrent`,
`AnswersAreReplays` `AnswerIsReplay`.

For the first, only the session ties an error that was counted to the fact that nothing is stored.
`RequestInv` says that a session that is not active has written nothing, and that a request derives and
writes only in an active one. `JobInv` says that the subjects a job has listed are still there or gone,
that an error for one that is not gone has made the session inactive for good, and that an active
session still sees (`Has`) a row for each subject reported as created, which the commit then stores;
rows are replaced by others, never removed (`OthersSame`). For the
second, `ReadInv` says that snapshots, committed or not, name an event that the timeline has, and
that timelines only grow: the tail that is replayed onto an older snapshot is longer, never shorter.
For the third, `ReplayInv`: every row, stored, written or loaded, and every result counts as many
events as precede its last, and has the state of a replay up to there unless a state repeats. It takes
one fact about `Replay`: a stretch of a timeline replayed onto the state before it gives the state after
it (`ReplayStretch`). `Replay` is a recursive function, and two such functions that start alike and step
alike agree, since there is no least place where they differ; no induction theorem is needed.

### 4.6 Background: Process

`ProcessTypeCorrect` (nothing runs before the process is up or after it stops); `OnlyTheRobbedRaise` states
`RaiseNeedsCrossing`; `ServedClientsMissNothing` states `ServedMissNothing`.

`CallInv`: a call that is about to use a client again and finds none has been crossed by another one's
reconnection. `SocketInv`: a served client that has not gone is registered for its tenant, and what it is due is
what it got, plus the message on its way if it is among those still to be sent to. Only clients that
have gone are taken for dead.

### 4.7 Background: Automation

`LimitsHold` states `DailyLimitKept`, `LossesAreExplained` `LossNeedsRefusal`, `AnchorsConfirmed`
`AnchorsAreStamped`, `AnchorsNeverChange` the action property `AnchorsAreFinal`. All four follow from
one invariant, `Inv`.

Every step of a request is `Quiet`, `Loses`, `Writes` or `Commits` (nothing in the store, all it has
written, some rows, the whole transaction). `RowsOK` is of stored rows: a workflow has the trigger
and actions it was made with and one of the limits and orders it was given; an anchor is the confirmed
one of a pass that committed. `Own(r)` is of a request, in six parts: what its transaction may hold
(`PutOK`; an execution of a workflow that always had a limit only under the lock of that workflow and
day), what each label implies (`PathOK`), the anchor a pass works on (`AnchorOK`), where a batch is and
which lock it has (`BatchOK`), the order of its locks (`OrderOK`), and why it may be lost (`LossOK`).

* The limit. `LocksOK`: nobody holds another's lock. `BoundOK` states the limit for the committed rows
  and for every transaction's view. The count a batch has read may be overtaken by a commit only if
  another batch has stored an execution of that workflow and day; it would have held the lock. So at
  the insert there are as many as were counted, and one more is not too many. The view of a
  transaction that holds executions under its lock is what is there once it commits.
* The losses. A transaction goes by a refused task (a user that does not exist) or a deadlock. A
  batch of one event takes its locks in the order of the workflows it found: those it holds may precede
  the one it waits for (`OrderOK`). In a circle of such batches (`CircleIs`), one waits for the workflow
  of the least order, and holds the lock another of them waits for. So of these two workflows each may
  precede the other: nothing orders them, which is the case the property excepts.
* The anchors. A pass confirms its own pending anchor or none, since whatever is stored is confirmed;
  and an anchor's id is its maker's, so nothing is put over a stored one.

### 4.8 Accounts

`TypeCorrect`; `SecondActiveIsExplained` states `SecondActiveNeedsOverlap`; `RotationsAreWhole`, which no
run has as a property of its own, that a version and the superseding of the one before stand or fall
together; `StatesServeOnce` `StateReuseNeedsOverlap`; `DeletedConfigsServeNobody` `DeletedConfigServesNoCallback`;
`KeysAreLostOnlyTogether` `LostKeyNeedsOverlap`.

`StoreInv` is what the operators of `Tables` give every module of routes: an id per row, no row in
two transactions, nothing visible before its commit. `WriteInv` limits what a transaction may hold
to the new version of its maker, a change that keeps provider, version and key, or a consumed state.
`MakeInv` has both halves of a rotation in one transaction: an active session past the superseding
holds the new version and the superseded one, and an inactive session commits neither. Its part
`Seen` says that an active version that was committed when a request began (`Earlier`) is the one the
request has found, if it is about to write or has written a version of that provider; as it
supersedes what it has found, two active versions leave only requests that overlap. `SaltInv` is a disjunction: two overlapping requests have made a salt each
(`SaltsCrossed`, which stays true), or there is one salt and all stored keys are its.

### 4.9 Access

`TypeCorrect`; `RevocationIsFelt` states `RevocationTakesEffect`; `UnknownTenantsWereAbsent`
`UnknownTenantWasAbsent`; `DeactivationsAreFinal` `DeactivationIsFinal`; `SpentTokensServeNoLater`
`SpentTokenServesNoLater`.

The caches: `RecordInv` says that the history variables have what is true now on record for now.
What a request has read was therefore on record at `readAt` (`FlightInv`); it is put into the cache
at most `MaxFlight` later, and the entry is used for less than its time to live. `CacheInv` adds the two
up for every entry, and `DecisionInv` keeps the sum, taken at `decidedAt`, until the request is answered.
Time passes only in `Tick`, and no other step takes a record away (`Quiet`).

Users and tokens: `Keeps` says that a written row does not undo a committed deactivation or use.
An open transaction holds its own new row or one that `Keeps` the committed one (`WriteInv`), which
survives other commits because no two transactions hold one row; `TokenInv` says that a request
that set a password has its token's use in its transaction, and in the table once it has committed.

### 4.10 Catalog

`TypeCorrect`; `OneActive` states `OneActiveSchema`, `CreationsSucceed` `SchemaCreationSucceeds`,
`ErasuresAreWhole` `ErasureIsWhole`, `ComplianceErrs` `ComplianceErrsOnlyByChange`. All five follow from
one invariant, `Inv`.

Every step of every route is a `StepOf`: a refusal, a lost write, a read, a write of rows the route may
write (`Written`: `Allowed` and `Deletable` say which tables each operation touches, and how), or a commit.
There is one lemma per route that it is, and `Base` (types, `StoreInv`, `WriteInv`, `PathInv`) follows
from that alone. The four properties then look only at their own routes' steps, and at the others'
as far as `StepOf` describes them.

* One active version. A creation that has deactivated the others sees none active but its own
  (`SchemaPath`). It holds the tenant's audit chain from its insert on, and every other write of a schema
  needs the chain as well: so nothing changes among the schemas until its commit
  (`NoNewSchemas`), and what it sees is what it leaves.
* Lost attempts. A number is refused only because a row that has it was committed after the
  creation had read (`RefusedVersion`: an uncommitted one would make it wait), and before the next
  attempt reads. So the attempts lost are at most the other creations that have committed
  (`TriesInv`), fewer than `MaxAttempts`.
* Erasures. An erasure that has listed the documents has in its list, or sees deleted, all but those that
  came after it began (`ErasePath`); `ErasedInv` keeps that for committed erasures, since a
  stored document is never restored by these routes and a new one is an upload's. A subject
  is redacted in the same commit as its documents (`RedactedInv`), so an export that has read it redacted
  reads the documents later (`ExportPath`).
* Compliance. While only uploads and new members are committed, the rows a compliance request
  reads stay and what it counts only grows (`Grows`, `CountGrows`): each requirement is still to be
  looked at, or is being counted, or is satisfied (`CompliancePath`).

### 4.11 Assumptions

Those named in the modules, which TLC evaluates in the runs. The injective hash is not one of them
but the way `compute_hash` is defined. Beyond the types of the constants they say:

* `RequestsAssumption`, `AuditAssumption`, `StateAssumption`, `DocumentsAssumption`: the kinds of
  requests are different, a `None` of each kind is not one of the values, a batch is not empty
  (`create_events_bulk` returns at once), every audited change has a payload of its own.
* `DocumentsAssumption`, `StateAssumption`: what is stored at the start is a state the program
  leaves: original documents without versions; timelines that are prefixes of what they become.
* `VerificationAssumption`: one writer of appends stands for all, since appends are atomic there.
* `AccountsAssumption`, `SeedAssumption`: seed rows have ids of their own, not those that requests
  will insert (they are UUIDs), a seeded version that is superseded is inactive and its successor is
  there, and the salt opens the seeded secrets.
* `ScenariosAssumption` (in `Accounts` and `Access`): a request's ids are those of the table they are
  looked up in, as the path or the schema of each route has it.
* `AutomationAssumption`: the store starts with workflows, users and events, each under an id of its
  own that no request will give; requests have the fields their schemas have.
* `CatalogAssumption`: the same, with the fields each route's call has (`CallOK`); the store starts
  with one active version of a schema at most, and before any erasure; rows are finitely many.
* `AccessAssumption`: "admin" is one of the default roles, and codes are strings, as in
  `core/constants`; times to live are positive.
* `MessagingAssumption`, `CacheAssumption`, `ProcessAssumption`: sockets and calls are what they are
  called.

### 4.12 Left to TLC

* `EveryRequestAnswered` and `PollerGetsAnswer`: liveness under fairness.
* `TenantIsComplete`: true while no other request changes the roles of the new tenant, as in the
  scenarios of the run; it is no invariant of arbitrary requests, and an assumption that excluded
  those would say half of the theorem.
* `SuccessMeansCommitted` is false (finding 1).

## 5. Findings

1. **A create that is reported and lost** (`auditable_repo.py:114`, run `audit_lost`): the audit
   event's refused flush is swallowed and the inactive session's commit does nothing.

The others have no run of their own. Where the model follows the code into one, the text says
which property steps around it.

2. **`begin()` on an open session** (`create_event.py:136`): the reads before the retry loop
   open the session's transaction, so the "fresh transaction" of each attempt cannot begin.
   Relationships cannot be added or removed for the same reason.
3. **`max_occurrences_per_stream` under concurrency** (`create_event.py:126`): counted before
   the lock, never again under it. A batch also does not count its own earlier events.
4. **A deleted document comes back** (`document_repo.py:177`): `PUT /documents/{id}` writes
   `deleted_at` and `is_latest_version` of the copy it read first over the row as it is now.
5. **Retention skips every second batch** (`run_retention.py:75`): the offset moves on although
   the deleted documents have left the list.
6. **A snapshot of two creations** (`subject_snapshot_repo.py:64`): an attribute equal to the
   loaded one is not written, so the row may get the event of one creation and the state of
   another.
7. **A one-time token used twice** (`password_set_token_repo.py:62`): two requests that overlap.
8. **A role answered and not stored** (`role_permission_repo.py:69`): a permission code that is
   listed twice rolls everything back, and the error is swallowed.
9. **Versions given twice** (`oauth_provider_config_repo.py:126`): two
   creations or rotations that overlap store two active configurations of one version, and every
   later look-up of the active one raises. `uq_tenant_provider_version`
   (`models/oauth_provider_config.py:69`), which would refuse the second, is created by no migration;
   with it, a provider whose configuration was deleted could not be configured again. The table of
   `Accounts` has no such key, and `SecondActiveNeedsOverlap` says what is left without it.
10. **One erasure per tenant** (`subject_export_erasure.py:150`): "[REDACTED]" is a unique
    `external_ref`. **Deleting erasure** (`:171`): refused by the foreign keys for any subject
    with events or documents.
11. **"Immutable" schemas are overwritten** (`event_schema_repo.py:278`).
12. **Forwarding ends for good** (`redis_pubsub.py:313`): one message that is no JSON object, or
    a lost connection; and then the shutdown is cut short (`lifespan.py:106`).
13. **A cache call that raises** (`redis_cache.py:85`): two overlapping reconnections, or a scan
    beside a failed one.

Met while reading:

* *Events.* The background verification is refused by the same limit on events that sends large
  tenants to it (`_domain.py:281`). An export is cut off silently at 10,000 events.
* *Workflows.* No route passes `trigger_workflows=True` for a batch. An execution is completed
  even if every action failed; a create_event action always fails; a task for a missing user
  or with a title of more than 500 characters, or a deadlock on two daily locks, loses a batch that is
  answered as stored.
* *Anchors.* `core/anchor_job.py` imports `AsyncSessionLocal` by value before it is set, so the job
  has no session. `get_chain_tip_hash` anchors only the tenant's newest event, not each subject's.
  The failed status is rolled back by the exception raised after it.
* *Access.* The 201 of a tenant's creation is sent before its commit, and the marker for an unknown
  tenant lives 60 s. An archived tenant can be reactivated by `PATCH status`. Nothing calls the
  cache's `invalidate_*`. The last administrator can be removed.
* *Catalog.* `create_flow` does not check whose its subjects are. A subject type's version may lose
  an increment. A schema's creation whose audit event is refused is answered and not stored.
* *Accounts.* A state is consumed without a lock. An unsupported provider is a `ValueError`, hence
  a 500. `sync-background` answers 202 for a missing account.
* *Snapshots.* The job's listing is shifted by subjects created or deleted meanwhile, so it may pass
  one over.
* *Files.* Download URLs of the local storage name a route that does not exist.
* *Process.* The engine's `dispose()` is never awaited. Nothing publishes sync progress, and nothing
  calls the e-mail providers. Repositories are wired without their cache.
* A request timed out between its answer and its commit is rolled back although answered.

## 6. Plan

Done: every component of section 1.1 but the last row, and the theorems of section 4.

Of the safety properties that the runs check, `TenantIsComplete` and the finding `SuccessMeansCommitted`
have no theorem, for the reasons in 4.12. To prove `TenantIsComplete` one would have to let
`Access` say who may change a new tenant's roles before its creation is answered.

## 7. Not modelled

HTTP parsing and formatting, exception handlers, row-level security and the tenant filter (one
tenant is modelled, several only in `Access` and `Messaging`), limits of rate and size, the other
middleware, telemetry, search and analytics (read-only queries), the e-mail providers and their
webhook (which only acknowledges), the audit log and purge of OAuth states, downloads and URLs of
the storage, seed and maintenance scripts, dependency wiring and the protocols of
`application/interfaces` (declarations without code).
