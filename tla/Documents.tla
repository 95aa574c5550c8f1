------------------------------- MODULE Documents -------------------------------
(***************************************************************************)
(* Documents: uploads (of a root or of a new version), soft deletion, change *)
(* of type and the retention run, by concurrent requests, each in the        *)
(* transaction of get_db_transactional at READ COMMITTED, and the files in   *)
(* the storage, which is outside every transaction.                          *)
(*                                                                         *)
(* A request sees the committed rows under those it has written itself.  A   *)
(* row that is written and not committed is locked, and holds its keys in    *)
(* the unique indexes.  The audit event of a change is an insert that waits  *)
(* for the audit event of another open transaction and may be refused, which *)
(* leaves the session inactive (AuditChain has the details).  Subjects, the  *)
(* tenant and the categories are constant, names and metadata valid.         *)
(***************************************************************************)
EXTENDS Integers, Sequences, FiniteSets

CONSTANTS
  Stored,          \* ids of the documents that are there at the start
  Requests,        \* requests; an upload's request is also its document's id
  Upload, Delete, Update, Retention,   \* what a request does
  Calls,           \* Calls[r]: the calls r may be
  Subjects, Types, Files,
  Expiring,        \* the type whose category has default_retention_days
  StoredRow,       \* StoredRow[d]: the row of a stored document
  NoDoc,           \* parent_document_id = None
  BATCH_SIZE,      \* RETENTION_BATCH_SIZE
  RETENTION_DAYS,  \* default_retention_days of the category of Expiring
  Start, MaxNow    \* the clock at the start, and the bound on it

Ids == Stored \cup Requests

\* file stands for the checksum; deleted for deleted_at, created for created_at.
Doc == [id : Ids, file : Files, subject : Subjects, type : Types, parent : Ids \cup {NoDoc},
        version : Nat, latest : BOOLEAN, deleted : BOOLEAN, created : Nat]

Call == [op : {Upload, Delete, Update, Retention}, doc : Ids \cup {NoDoc},
         file : Files, subject : Subjects, type : Types]

ASSUME DocumentsAssumption ==
  /\ Upload \notin {Delete, Update, Retention}
  /\ Delete \notin {Update, Retention} /\ Update # Retention
  /\ IsFiniteSet(Stored)
  /\ Stored \cap Requests = {} /\ NoDoc \notin Ids
  /\ Calls \in [Requests -> SUBSET Call]
  /\ \A r \in Requests : \A c \in Calls[r] : c.op \in {Delete, Update} => c.doc \in Ids
  /\ StoredRow \in [Stored -> Doc]
  /\ \A d \in Stored : /\ StoredRow[d].id = d /\ StoredRow[d].parent = NoDoc
                       /\ StoredRow[d].version = 1
                       /\ StoredRow[d].latest /\ ~StoredRow[d].deleted
  /\ \A d, e \in Stored : StoredRow[d].file = StoredRow[e].file => d = e
  /\ Expiring \in Types
  /\ {BATCH_SIZE, RETENTION_DAYS} \subseteq Nat \ {0} /\ {Start, MaxNow} \subseteq Nat

VARIABLES
  docs,       \* committed rows of table document
  files,      \* ids of the documents whose file is in the storage
  write,      \* write[r]: the rows r's open transaction has inserted or updated
  audited,    \* audited[r]: r's open transaction has inserted an audit event
  session,    \* session[r]: its transaction is active, inactive or closed
  committed,  \* requests whose transaction was committed
  now,
  began,      \* began[r]: when r's transaction began
  call,       \* call[r]: what r was called with
  pc,         \* pc[r]: where request r is
  wasLatest,  \* wasLatest[r]: is_latest_version in the copy an update has read
  sets,       \* sets[r]: the attributes an update is going to set
  todo,       \* todo[r]: documents r still has to delete, in the order of their page
  skip,       \* skip[r]: offset of r's next page
  outcome     \* outcome[r]: what r's client was told

vars == <<docs, files, write, audited, session, committed, now, began, call, pc, wasLatest,
          sets, todo, skip, outcome>>

\* What a request keeps to itself.
locals == <<began, call, wasLatest, sets, todo, skip>>

PCs == {"begin", "check", "mark", "store", "insert", "read", "reread", "write", "list", "sweep",
        "audit", "answer", "commit", "done"}
Outcomes == {"none", "success", "duplicate", "not_found", "gone", "conflict", "integrity_error",
             "storage_error", "deadlock", "error", "aborted"}

\* Types; and a session that is not active holds no rows it might still commit.
TypeOK ==
  /\ docs \in SUBSET Doc
  /\ files \in SUBSET Ids
  /\ write \in [Requests -> SUBSET Doc]
  /\ audited \in [Requests -> BOOLEAN]
  /\ session \in [Requests -> {"active", "inactive", "closed"}]
  /\ committed \in SUBSET Requests
  /\ now \in Nat /\ began \in [Requests -> Nat]
  /\ call \in [Requests -> Call]
  /\ pc \in [Requests -> PCs]
  /\ wasLatest \in [Requests -> BOOLEAN]
  /\ sets \in [Requests -> SUBSET {"type", "latest", "deleted"}]
  /\ todo \in [Requests -> Seq(Ids)]
  /\ skip \in [Requests -> Nat]
  /\ outcome \in [Requests -> Outcomes]
  /\ \A r \in Requests : session[r] # "active" => write[r] = {} /\ ~audited[r]

FirstStep == [o \in {Upload, Delete, Update, Retention} |->
                IF o = Upload THEN "check" ELSE IF o = Retention THEN "begin" ELSE "read"]

Init ==
  /\ docs = {StoredRow[d] : d \in Stored}
  /\ files = Stored
  /\ write = [r \in Requests |-> {}]
  /\ audited = [r \in Requests |-> FALSE]
  /\ session = [r \in Requests |-> "active"]
  /\ committed = {}
  /\ now = Start
  /\ began = [r \in Requests |-> Start]
  /\ call \in {f \in [Requests -> UNION {Calls[r] : r \in Requests}] :
                 \A r \in Requests : f[r] \in Calls[r]}
  /\ pc = [r \in Requests |-> FirstStep[call[r].op]]
  /\ wasLatest = [r \in Requests |-> FALSE]
  /\ sets = [r \in Requests |-> {}]
  /\ todo = [r \in Requests |-> IF call[r].op = Delete THEN <<call[r].doc>> ELSE << >>]
  /\ skip = [r \in Requests |-> 0]
  /\ outcome = [r \in Requests |-> "none"]

-----------------------------------------------------------------------------
IdsOf(rows) == {x.id : x \in rows}

\* The rows of old, with those of new over them.
Overlay(old, new) == {x \in old : x.id \notin IdsOf(new)} \cup new

View(r) == Overlay(docs, write[r])

RowOf(r, d) == CHOOSE x \in View(r) : x.id = d

\* ix_document_checksum_unique, and ux_document_versions (a null parent is no key).
Collides(x, y) ==
  \/ x.file = y.file
  \/ x.subject = y.subject /\ x.parent = y.parent /\ x.version = y.version /\ x.parent # NoDoc

\* DocumentCreate, as the upload fills it in.
NewDoc(r) ==
  [id |-> r, file |-> call[r].file, subject |-> call[r].subject, type |-> call[r].type,
   parent |-> call[r].doc,
   version |-> IF call[r].doc = NoDoc THEN 1 ELSE RowOf(r, call[r].doc).version + 1,
   latest |-> TRUE, deleted |-> FALSE, created |-> began[r]]

\* The row r's next UPDATE is for, and the requests that hold an uncommitted version of it.
Target(r) == IF pc[r] = "sweep" THEN Head(todo[r]) ELSE call[r].doc
RowHolders(r) == {q \in Requests \ {r} : Target(r) \in IdsOf(docs) \cap IdsOf(write[q])}

\* The requests whose uncommitted insert collides with r's.
KeyHolders(r) ==
  {q \in Requests \ {r} : \E x \in write[q] : x.id = q /\ Collides(NewDoc(r), x)}

AuditHolders(r) == {q \in Requests \ {r} : audited[q]}

WaitsFor(r) ==
  CASE pc[r] \in {"mark", "write", "sweep"} -> RowHolders(r)
    [] pc[r] = "insert"                     -> KeyHolders(r)
    [] pc[r] = "audit"                      -> AuditHolders(r)
    [] OTHER                                -> {}

\* The deadlock detector: r is in a set of which each member waits for another.
Deadlocked(r) ==
  \E D \in SUBSET Requests : r \in D /\ \A d \in D : WaitsFor(d) \cap D # {}

-----------------------------------------------------------------------------
Goto(r, label) == pc' = [pc EXCEPT ![r] = label]

\* A statement of an upload, or of another request, that puts row x into the transaction.
Put(r, x) == write' = [write EXCEPT ![r] = Overlay(@, {x})]

\* The exception reaches get_db_transactional, which rolls back.
Fail(r, error) ==
  /\ Goto(r, "done")
  /\ outcome' = [outcome EXCEPT ![r] = error]
  /\ write' = [write EXCEPT ![r] = {}]
  /\ audited' = [audited EXCEPT ![r] = FALSE]
  /\ session' = [session EXCEPT ![r] = "closed"]
  /\ UNCHANGED <<docs, committed, now, locals>>

\* upload_document up to the lookup of the checksum, which sees documents not deleted.
CheckUpload(r) ==
  LET duplicate == \E x \in docs : x.file = call[r].file /\ ~x.deleted
  IN  /\ pc[r] = "check"
      /\ \/ duplicate /\ Fail(r, "duplicate")
         \/ /\ ~duplicate
            /\ Goto(r, IF call[r].doc = NoDoc THEN "store" ELSE "mark")
            /\ began' = [began EXCEPT ![r] = now]
            /\ UNCHANGED <<docs, write, audited, session, committed, now, call, wasLatest,
                           sets, todo, skip, outcome>>
      /\ UNCHANGED files

\* Mutant: the UPDATE has no condition.
MarkParent_Always(r) ==
  /\ pc[r] = "mark" /\ RowHolders(r) = {}
  /\ call[r].doc \in IdsOf(docs)
  /\ Put(r, [RowOf(r, call[r].doc) EXCEPT !.latest = FALSE])
  /\ Goto(r, "store")
  /\ UNCHANGED <<docs, files, audited, session, committed, now, locals, outcome>>

\* The parent and mark_parent_not_latest_if_current, whose UPDATE waits for the row and
\* then looks at its condition again.  (A row never goes and its version never changes,
\* so the read before it needs no step of its own.)
MarkParent(r) ==
  /\ pc[r] = "mark"
  /\ \/ /\ call[r].doc \notin IdsOf(docs)
        /\ Fail(r, "not_found")
     \/ /\ call[r].doc \in IdsOf(docs)
        /\ RowHolders(r) = {}
        /\ \/ /\ ~RowOf(r, call[r].doc).latest
              /\ Fail(r, "conflict")
           \/ /\ RowOf(r, call[r].doc).latest
              /\ Put(r, [RowOf(r, call[r].doc) EXCEPT !.latest = FALSE])
              /\ Goto(r, "store")
              /\ UNCHANGED <<docs, audited, session, committed, now, locals, outcome>>
  /\ UNCHANGED files

\* Mutant: a failed upload to the storage is logged and passed over.
StoreFile_FailureIgnored(r) ==
  /\ pc[r] = "store"
  /\ files' \in {files, files \cup {r}}
  /\ Goto(r, "insert")
  /\ UNCHANGED <<docs, write, audited, session, committed, now, locals, outcome>>

\* storage.upload, under a name of the document's own; it may fail before or after the
\* file is there.
StoreFile(r) ==
  /\ pc[r] = "store"
  /\ \/ /\ files' = files \cup {r}
        /\ Goto(r, "insert")
        /\ UNCHANGED <<docs, write, audited, session, committed, now, locals, outcome>>
     \/ /\ files' \in {files, files \cup {r}}
        /\ Fail(r, "storage_error")

\* DocumentRepository.create_document.
InsertDoc(r) ==
  LET refused == \E x \in View(r) : Collides(NewDoc(r), x)
  IN  /\ pc[r] = "insert"
      /\ KeyHolders(r) = {}
      /\ \/ refused /\ Fail(r, "integrity_error")
         \/ /\ ~refused
            /\ Put(r, NewDoc(r))
            /\ Goto(r, "audit")
            /\ UNCHANGED <<docs, audited, session, committed, now, locals, outcome>>
      /\ UNCHANGED files

\* delete_document and update_document look the document up first.
ReadDocument(r) ==
  /\ pc[r] = "read"
  /\ \/ /\ call[r].doc \notin IdsOf(docs)
        /\ Fail(r, "not_found")
     \/ /\ call[r].doc \in IdsOf(docs) /\ RowOf(r, call[r].doc).deleted
        /\ Fail(r, "gone")
     \/ /\ call[r].doc \in IdsOf(docs) /\ ~RowOf(r, call[r].doc).deleted
        /\ wasLatest' = [wasLatest EXCEPT ![r] = RowOf(r, call[r].doc).latest]
        /\ Goto(r, IF call[r].op = Update THEN "reread" ELSE "sweep")
        /\ UNCHANGED <<docs, write, audited, session, committed, now, began, call, sets,
                       todo, skip, outcome>>
  /\ UNCHANGED files

\* DocumentRepository.update loads the row again (nothing keeps the object of the first
\* read) and assigns is_latest_version, deleted_at and document_type from the copy; the
\* UPDATE will set the attributes that thereby change.  The copy is not deleted.
RereadDocument(r) ==
  LET loaded == RowOf(r, call[r].doc)
  IN  /\ pc[r] = "reread"
      /\ sets' = [sets EXCEPT ![r] = {f \in {"type", "latest", "deleted"} :
                    \/ f = "type" /\ loaded.type # call[r].type
                    \/ f = "latest" /\ loaded.latest # wasLatest[r]
                    \/ f = "deleted" /\ loaded.deleted}]
      /\ Goto(r, "write")
      /\ UNCHANGED <<docs, files, write, audited, session, committed, now, began, call,
                     wasLatest, todo, skip, outcome>>

\* Its flush; an update that finds the document deleted is not audited.
WriteDocument(r) ==
  LET old == RowOf(r, call[r].doc)
      new == [old EXCEPT !.type    = IF "type" \in sets[r] THEN call[r].type ELSE @,
                         !.latest  = IF "latest" \in sets[r] THEN wasLatest[r] ELSE @,
                         !.deleted = @ /\ "deleted" \notin sets[r]]
  IN  /\ pc[r] = "write"
      /\ \/ sets[r] = {} /\ UNCHANGED write
         \/ sets[r] # {} /\ RowHolders(r) = {} /\ Put(r, new)
      /\ Goto(r, IF new.deleted THEN "answer" ELSE "audit")
      /\ UNCHANGED <<docs, files, audited, session, committed, now, locals, outcome>>

\* list_by_tenant: the documents of the category that are past its cutoff, newest first.
Due(r) ==
  {x \in View(r) : /\ ~x.deleted /\ x.type = Expiring
                   /\ x.created < began[r] - RETENTION_DAYS}
Listings(r) ==
  {s \in [1..Cardinality(Due(r)) -> Due(r)] :
     \A i, j \in DOMAIN s : i < j => s[i] # s[j] /\ s[i].created >= s[j].created}
Page(s, k) == [i \in {j \in 1..BATCH_SIZE : k + j <= Len(s)} |-> s[k + i].id]

\* RunDocumentRetentionUseCase.run reads the categories and takes the time.
BeginRetention(r) ==
  /\ pc[r] = "begin"
  /\ began' = [began EXCEPT ![r] = now]
  /\ Goto(r, "list")
  /\ UNCHANGED <<docs, files, write, audited, session, committed, now, call, wasLatest, sets,
                 todo, skip, outcome>>

\* One page, at the offset of what has been listed so far.
ListBatch(r) ==
  /\ pc[r] = "list"
  /\ \E s \in Listings(r) :
       /\ todo' = [todo EXCEPT ![r] = Page(s, skip[r])]
       /\ skip' = [skip EXCEPT ![r] = @ + Len(Page(s, skip[r]))]
       /\ Goto(r, IF Page(s, skip[r]) = << >> THEN "answer" ELSE "sweep")
  /\ UNCHANGED <<docs, files, write, audited, session, committed, now, began, call,
                 wasLatest, sets, outcome>>

\* soft_delete, of the document of a delete or of the next one of the page: whatever the
\* row says by now.
SoftDelete(r) ==
  /\ pc[r] = "sweep"
  /\ RowHolders(r) = {}
  /\ Put(r, [RowOf(r, Target(r)) EXCEPT !.deleted = TRUE])
  /\ Goto(r, "audit")
  /\ UNCHANGED <<docs, files, audited, session, committed, now, locals, outcome>>

\* After the audit event: the next document, the next page unless this one was short, or
\* the end of the route.
AfterAudit(r) ==
  /\ todo' = [todo EXCEPT ![r] = IF @ = << >> THEN @ ELSE Tail(@)]
  /\ Goto(r, IF Len(todo[r]) > 1 THEN "sweep"
             ELSE IF call[r].op = Retention /\ skip[r] % BATCH_SIZE = 0 THEN "list"
             ELSE "answer")

\* Mutant: the change is tried again for ever.
AuditRefused_Retries(r) ==
  /\ write' = [write EXCEPT ![r] = {}]
  /\ Goto(r, IF call[r].op = Upload THEN "insert" ELSE "audit")
  /\ UNCHANGED <<docs, files, audited, session, committed, now, locals, outcome>>

\* _emit_audit_event catches the failure of its flush, which has rolled everything back.
\* Only the route of an upload then gets to its end: the others use the session again.
AuditRefused(r) ==
  \/ /\ call[r].op = Upload
     /\ session' = [session EXCEPT ![r] = "inactive"]
     /\ write' = [write EXCEPT ![r] = {}]
     /\ audited' = [audited EXCEPT ![r] = FALSE]
     /\ Goto(r, "answer")
     /\ UNCHANGED <<docs, files, committed, now, locals, outcome>>
  \/ /\ call[r].op # Upload
     /\ Fail(r, "error")
     /\ UNCHANGED files

\* The audit event: accepted or refused when no other open transaction has inserted one.
EmitAudit(r) ==
  /\ pc[r] = "audit"
  /\ AuditHolders(r) = {}
  /\ \/ /\ audited' = [audited EXCEPT ![r] = TRUE]
        /\ AfterAudit(r)
        /\ UNCHANGED <<docs, files, write, session, committed, now, began, call, wasLatest,
                       sets, skip, outcome>>
     \/ AuditRefused(r)

\* Refused without a wait: the hash it read as the latest was not, or no longer.
AuditStale(r) == pc[r] = "audit" /\ AuditHolders(r) # {} /\ AuditRefused(r)

\* The response is sent before the exit code of the dependencies runs.
Answer(r) ==
  /\ pc[r] = "answer"
  /\ outcome' = [outcome EXCEPT ![r] = "success"]
  /\ Goto(r, "commit")
  /\ UNCHANGED <<docs, files, write, audited, session, committed, now, locals>>

\* ensure_audit_logged, whose failure is caught too, and the end of session.begin().
CommitOrClose(r) ==
  /\ pc[r] = "commit"
  /\ \/ /\ session[r] = "active"
        /\ docs' = View(r)
        /\ committed' = committed \cup {r}
     \/ UNCHANGED <<docs, committed>>
  /\ write' = [write EXCEPT ![r] = {}]
  /\ audited' = [audited EXCEPT ![r] = FALSE]
  /\ session' = [session EXCEPT ![r] = "closed"]
  /\ Goto(r, "done")
  /\ UNCHANGED <<files, now, locals, outcome>>

\* PostgreSQL ends a deadlock by an error in one of the statements that wait.
DeadlockAbort(r) ==
  /\ Deadlocked(r)
  /\ \/ pc[r] = "audit" /\ AuditRefused(r)
     \/ pc[r] # "audit" /\ Fail(r, "deadlock") /\ UNCHANGED files

\* The request is cancelled or its process dies.
Abort(r) == pc[r] # "done" /\ Fail(r, IF outcome[r] = "none" THEN "aborted" ELSE outcome[r])
                           /\ UNCHANGED files

Tick ==
  /\ now < MaxNow
  /\ now' = now + 1
  /\ UNCHANGED <<docs, files, write, audited, session, committed, began, call, pc, wasLatest,
                 sets, todo, skip, outcome>>

Step(r) ==
  \/ CheckUpload(r) \/ MarkParent(r) \/ StoreFile(r) \/ InsertDoc(r)
  \/ ReadDocument(r) \/ RereadDocument(r) \/ WriteDocument(r)
  \/ BeginRetention(r) \/ ListBatch(r) \/ SoftDelete(r)
  \/ EmitAudit(r) \/ Answer(r) \/ CommitOrClose(r) \/ DeadlockAbort(r)

AllAnswered ==
  /\ \A r \in Requests : pc[r] = "done"
  /\ UNCHANGED vars

Next ==
  \/ \E r \in Requests : Step(r) \/ AuditStale(r) \/ Abort(r)
  \/ Tick
  \/ AllAnswered

Spec == Init /\ [][Next]_vars

\* The event loop resumes every request whose statement has returned.
FairSpec == Spec /\ \A r \in Requests : WF_vars(Step(r))

-----------------------------------------------------------------------------
(***************************************************************************)
(* Properties.                                                             *)
(***************************************************************************)

Updated(d) == \E r \in Requests : call[r].op = Update /\ call[r].doc = d

\* Versions form chains: two uploads of a new version of one document never both succeed,
\* whatever subject they name, and a document is the latest version exactly when no other is
\* built on it, through lost races, failed uploads and rollbacks.  (Documents that
\* update_document is called for are left out: it writes back the flag it has read before.)
VersionsFormChains ==
  /\ \A x, y \in docs : x.parent = y.parent /\ x.parent # NoDoc /\ ~Updated(x.parent) => x = y
  /\ \A x \in docs : ~Updated(x.id) => (x.latest <=> \A y \in docs : y.parent # x.id)

\* A committed document has its file: the file is there before the row.
EveryDocumentHasItsFile == IdsOf(docs) \subseteq files

\* Every request is answered: the row locks, the unique keys and the audit chain, taken in
\* different orders by a retention run and by uploads, keep none of them for ever.
EveryRequestAnswered == \A r \in Requests : <>(pc[r] = "done")

===============================================================================
