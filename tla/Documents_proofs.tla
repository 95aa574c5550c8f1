---------------------------- MODULE Documents_proofs ----------------------------
(***************************************************************************)
(* Proofs about Documents, for every number of documents and of requests,    *)
(* whatever each request is called with.                                     *)
(***************************************************************************)
EXTENDS Documents, SequenceTheorems, FiniteSetTheorems, TLAPS

-----------------------------------------------------------------------------
(***************************************************************************)
(* The inductive invariants.                                               *)
(***************************************************************************)

\* Labels from which a request with a dead session goes on.
Ending == {"answer", "commit", "done"}

\* What kind of request is at a label, and what it has left to do.
Progress ==
  \A r \in Requests :
    /\ call[r] \in Calls[r]
    /\ session[r] = "active" \/ pc[r] \in Ending
    /\ pc[r] = "done" => session[r] = "closed"
    /\ r \in committed => pc[r] = "done"
    /\ pc[r] \in {"check", "mark", "store", "insert"} => call[r].op = Upload /\ session[r] = "active"
    /\ pc[r] = "read" => call[r].op \in {Delete, Update}
    /\ pc[r] \in {"reread", "write"} => call[r].op = Update
    /\ pc[r] \in {"begin", "list"} => call[r].op = Retention
    /\ pc[r] = "sweep" => call[r].op \in {Delete, Retention} /\ Len(todo[r]) > 0
    /\ call[r].op \in {Upload, Update} => todo[r] = << >>
    /\ call[r].op = Delete /\ pc[r] \notin Ending => todo[r] = <<call[r].doc>>

\* The documents a request is about to change are there.
TargetsThere ==
  \A r \in Requests :
    /\ pc[r] \in {"store", "insert"} => call[r].doc \in IdsOf(docs) \cup {NoDoc}
    /\ pc[r] \in {"reread", "write"} => call[r].doc \in IdsOf(docs)
    /\ pc[r] = "sweep" /\ call[r].op = Delete => call[r].doc \in IdsOf(docs)
    /\ call[r].op = Retention => \A i \in 1..Len(todo[r]) : todo[r][i] \in IdsOf(docs)
    /\ \A x \in write[r] : x.id \in IdsOf(docs) \/ (call[r].op = Upload /\ x.id = r)

\* The tables are finite.
Finite == IsFiniteSet(docs) /\ \A r \in Requests : IsFiniteSet(write[r])

TypeInv == TypeOK /\ Progress /\ TargetsThere /\ Finite

\* No two rows with one id.
OneRow(rows) == \A x, y \in rows : x.id = y.id => x = y

\* A committed row is built on a committed row, and comes from a request that is over.
Committed ==
  /\ OneRow(docs)
  /\ \A x \in docs : x.parent \in IdsOf(docs) \cup {NoDoc}
  /\ \A r \in Requests : r \in IdsOf(docs) => r \in committed

\* x is the document that upload r inserts.
IsNew(r, x) ==
  /\ call[r].op = Upload /\ x.id = r
  /\ x.latest /\ x.parent = call[r].doc

\* x is y as upload r marks it, or as another request writes it: whoever is not update_document
\* leaves the flag alone.
IsMarked(r, x, y) ==
  /\ call[r].op = Upload /\ x.id = call[r].doc
  /\ ~x.latest /\ (Updated(x.id) \/ y.latest)
IsRewritten(r, x, y) == call[r].op # Upload /\ (Updated(x.id) \/ x.latest = y.latest)

\* x is what r makes of a committed row.
IsChanged(r, x) ==
  \E y \in docs : /\ y.id = x.id /\ y.parent = x.parent
                  /\ IsMarked(r, x, y) \/ IsRewritten(r, x, y)

\* An upload holds the parent of its document, marked.
HoldsParent(r) == \E x \in write[r] : x.id = call[r].doc /\ ~x.latest

\* What the open transactions have written.
Written ==
  \A r \in Requests :
    /\ OneRow(write[r])
    /\ \A x \in write[r] : IsNew(r, x) \/ IsChanged(r, x)
    /\ pc[r] \in {"store", "insert"} \/ r \in IdsOf(write[r]) =>
         call[r].doc = NoDoc \/ HoldsParent(r)
    /\ pc[r] \in {"audit", "answer", "commit"} /\ session[r] = "active" /\ call[r].op = Upload =>
         r \in IdsOf(write[r])

\* No row is in two transactions.
Locked == \A r, q \in Requests : r # q => IdsOf(write[r]) \cap IdsOf(write[q]) = {}

ChainInv == Committed /\ Written /\ Locked

\* A file is there before the row that is inserted for it.
FilesInv ==
  /\ IdsOf(docs) \subseteq files
  /\ \A r \in Requests : pc[r] = "insert" \/ r \in IdsOf(write[r]) => r \in files

-----------------------------------------------------------------------------
(***************************************************************************)
(* The operators of the model.                                             *)
(***************************************************************************)

\* Rows over others: an id is of one or the other.
LEMMA OverlayIds ==
  ASSUME NEW old, NEW new
  PROVE  IdsOf(Overlay(old, new)) = IdsOf(old) \cup IdsOf(new)
BY DEF Overlay, IdsOf

\* A document that is there is one row of what a request sees.
LEMMA RowOfSeen ==
  ASSUME NEW r, NEW d \in IdsOf(View(r))
  PROVE  RowOf(r, d) \in View(r) /\ RowOf(r, d).id = d
<1>1. \E x \in View(r) : x.id = d
  BY DEF IdsOf
<1> QED
  BY <1>1 DEF RowOf

\* A request sees the rows of the table, under its own.
LEMMA ViewIds ==
  ASSUME NEW r
  PROVE  IdsOf(View(r)) = IdsOf(docs) \cup IdsOf(write[r])
BY OverlayIds DEF View

LEMMA ViewType ==
  ASSUME TypeOK, NEW r \in Requests
  PROVE  View(r) \in SUBSET Doc
BY DEF View, Overlay, TypeOK

\* A page holds ids of documents that are due.
LEMMA PageType ==
  ASSUME TypeOK, Finite, NEW r \in Requests, NEW s \in Listings(r), NEW k \in Nat
  PROVE  /\ Page(s, k) \in Seq(IdsOf(View(r)))
         /\ Page(s, k) \in Seq(Ids)
<1> DEFINE n == Cardinality(Due(r))
           D == {j \in 1..BATCH_SIZE : k + j <= n}
           m == IF n <= k THEN 0 ELSE IF n - k <= BATCH_SIZE THEN n - k ELSE BATCH_SIZE
<1>1. IsFiniteSet(docs \cup write[r])
  BY FS_Union DEF Finite
<1>2. IsFiniteSet(Due(r)) /\ Due(r) \subseteq View(r)
  BY <1>1, FS_Subset DEF Due, View, Overlay
<1>3. n \in Nat
  BY <1>2, FS_CardinalityType
<1>4. s \in [1..n -> Due(r)]
  BY DEF Listings
<1>5. Len(s) = n
  BY <1>3, <1>4, LenProperties
<1> HIDE DEF n
<1>6. D = 1..m /\ m \in Nat
  BY <1>3, DocumentsAssumption
<1>7. \A i \in D : s[k + i].id \in IdsOf(View(r))
  <2> TAKE i \in D
  <2>1. k + i \in 1..n
    BY <1>3, DocumentsAssumption
  <2> QED
    BY <2>1, <1>4, <1>2 DEF IdsOf
<1>8. IdsOf(View(r)) \subseteq Ids
  BY ViewType DEF IdsOf, Doc
<1>9. Page(s, k) = [i \in D |-> s[k + i].id]
  BY <1>5 DEF Page
<1> HIDE DEF D, m
<1>10. Page(s, k) \in [1..m -> IdsOf(View(r))]
  BY <1>6, <1>7, <1>9
<1> QED
  BY <1>6, <1>8, <1>10, SeqDef

-----------------------------------------------------------------------------
(***************************************************************************)
(* Types, and what a request has left to do.                                *)
(***************************************************************************)

\* What is put into a transaction, over what is in it already, is a set of rows.
LEMMA PutType ==
  ASSUME TypeInv, NEW r \in Requests, session[r] = "active", NEW x \in Doc, Put(r, x)
  PROVE  /\ write' \in [Requests -> SUBSET Doc]
         /\ \A q \in Requests : session[q] # "active" => write'[q] = {}
         /\ \A q \in Requests : IsFiniteSet(write'[q])
         /\ write' = [write EXCEPT ![r] = {y \in write[r] : y.id # x.id} \cup {x}]
<1>1. Overlay(write[r], {x}) = {y \in write[r] : y.id # x.id} \cup {x}
  BY DEF Overlay, IdsOf
<1>2. write' = [write EXCEPT ![r] = Overlay(write[r], {x})]
  BY DEF Put
<1>3. write' = [write EXCEPT ![r] = {y \in write[r] : y.id # x.id} \cup {x}]
  BY <1>1, <1>2
<1>4. IsFiniteSet({y \in write[r] : y.id # x.id} \cup {x})
  <2>1. IsFiniteSet({y \in write[r] : y.id # x.id})
    BY FS_Subset DEF TypeInv, Finite
  <2> QED
    BY <2>1, FS_AddElement
<1>5. write \in [Requests -> SUBSET Doc]
  BY DEF TypeInv, TypeOK
<1>6. \A q \in Requests : session[q] # "active" => write[q] = {}
  BY DEF TypeInv, TypeOK
<1>7. \A q \in Requests : IsFiniteSet(write[q])
  BY DEF TypeInv, Finite
<1>8. \A q \in Requests : q # r => write'[q] = write[q]
  BY <1>3, <1>5
<1>9. write'[r] = {y \in write[r] : y.id # x.id} \cup {x}
  BY <1>3, <1>5
<1>10. write' \in [Requests -> SUBSET Doc]
  BY <1>3, <1>5
<1>11. \A q \in Requests : session[q] # "active" => write'[q] = {}
  BY <1>6, <1>8
<1>12. \A q \in Requests : IsFiniteSet(write'[q])
  BY <1>4, <1>7, <1>8, <1>9
<1> QED
  BY <1>3, <1>10, <1>11, <1>12

\* A transaction that is rolled back leaves nothing behind.
LEMMA FailKeepsTypes ==
  ASSUME TypeInv, NEW r \in Requests, NEW e \in Outcomes, Fail(r, e), files' \in SUBSET Ids
  PROVE  TypeInv'
<1> USE DEF TypeInv, Fail, Goto, locals
<1>1. TypeOK'
  BY DEF TypeOK, PCs
<1>2. Progress'
  BY DEF Progress, TypeOK, Ending
<1>3. TargetsThere'
  BY DEF TargetsThere, TypeOK
<1>4. Finite'
  BY FS_EmptySet DEF Finite, TypeOK
<1> QED
  BY <1>1, <1>2, <1>3, <1>4

\* So does one whose audit event is refused, and the route of an upload goes on.
LEMMA RefusalKeepsTypes ==
  ASSUME TypeInv, NEW r \in Requests, pc[r] = "audit", AuditRefused(r)
  PROVE  TypeInv'
<1>1. CASE call[r].op = Upload
  <2> USE <1>1 DEF TypeInv, AuditRefused, Goto, locals
  <2>0. /\ pc' = [pc EXCEPT ![r] = "answer"]
        /\ write' = [write EXCEPT ![r] = {}]
        /\ session' = [session EXCEPT ![r] = "inactive"]
        /\ UNCHANGED <<docs, committed, call, todo>>
    OBVIOUS
  <2>1. TypeOK'
    BY DEF TypeOK, PCs
  <2>2. Progress'
    <3> HIDE DEF AuditRefused
    <3> QED
      BY <2>0, DocumentsAssumption DEF Progress, TypeOK, Ending
  <2>3. TargetsThere'
    <3> HIDE DEF AuditRefused
    <3> QED
      BY <2>0 DEF TargetsThere, TypeOK
  <2>4. Finite'
    BY FS_EmptySet DEF Finite, TypeOK
  <2> QED
    BY <2>1, <2>2, <2>3, <2>4
<1>2. CASE call[r].op # Upload
  BY <1>2, FailKeepsTypes DEF AuditRefused, Outcomes, TypeInv, TypeOK
<1> QED
  BY <1>1, <1>2

\* A step that changes only where a request is, and what it keeps to itself.
LEMMA MoveKeepsTypes ==
  ASSUME TypeInv, NEW r \in Requests, TypeOK', Progress',
         UNCHANGED <<docs, write, call>>,
         NEW l \in PCs, Goto(r, l),
         \A q \in Requests : q # r => todo'[q] = todo[q],
         l \in {"store", "insert"} => call[r].doc \in IdsOf(docs) \cup {NoDoc},
         l \in {"reread", "write"} => call[r].doc \in IdsOf(docs),
         l = "sweep" /\ call[r].op = Delete => call[r].doc \in IdsOf(docs),
         call[r].op = Retention => \A i \in 1..Len(todo'[r]) : todo'[r][i] \in IdsOf(docs)
  PROVE  TypeInv'
<1>1. TargetsThere'
  <2> SUFFICES ASSUME NEW q \in Requests
               PROVE  /\ pc'[q] \in {"store", "insert"} => call[q].doc \in IdsOf(docs) \cup {NoDoc}
                      /\ pc'[q] \in {"reread", "write"} => call[q].doc \in IdsOf(docs)
                      /\ pc'[q] = "sweep" /\ call[q].op = Delete => call[q].doc \in IdsOf(docs)
                      /\ call[q].op = Retention =>
                           \A i \in 1..Len(todo'[q]) : todo'[q][i] \in IdsOf(docs)
                      /\ \A x \in write[q] : x.id \in IdsOf(docs) \/ (call[q].op = Upload /\ x.id = q)
    BY DEF TargetsThere, IdsOf
  <2>1. CASE q = r
    BY <2>1 DEF Goto, TypeInv, TypeOK, TargetsThere
  <2>2. CASE q # r
    BY <2>2 DEF Goto, TypeInv, TypeOK, TargetsThere
  <2> QED
    BY <2>1, <2>2
<1>2. Finite'
  BY DEF Finite, TypeInv
<1> QED
  BY <1>1, <1>2 DEF TypeInv

\* A step that puts a row into the transaction, a new one or that of a document that is there.
LEMMA PutKeepsTypes ==
  ASSUME TypeInv, NEW r \in Requests, pc[r] \notin Ending, NEW x \in Doc, Put(r, x),
         x.id \in IdsOf(docs) \/ (call[r].op = Upload /\ x.id = r),
         NEW l \in {"store", "audit", "answer"}, Goto(r, l),
         l = "store" => call[r].op = Upload /\ call[r].doc \in IdsOf(docs) \cup {NoDoc},
         UNCHANGED <<docs, files, audited, session, committed, now, locals, outcome>>
  PROVE  TypeInv'
<1>0. session[r] = "active"
  BY DEF TypeInv, Progress
<1>1. /\ write' \in [Requests -> SUBSET Doc]
      /\ \A q \in Requests : session[q] # "active" => write'[q] = {}
      /\ \A q \in Requests : IsFiniteSet(write'[q])
      /\ write' = [write EXCEPT ![r] = {y \in write[r] : y.id # x.id} \cup {x}]
  BY <1>0, PutType
<1> USE DEF TypeInv, Goto, locals
<1>2. TypeOK'
  BY <1>0, <1>1 DEF TypeOK, PCs
<1>3. Progress'
  BY <1>0 DEF Progress, TypeOK, Ending
<1>4. TargetsThere'
  <2>1. /\ write'[r] = {y \in write[r] : y.id # x.id} \cup {x}
        /\ \A q \in Requests : q # r => write'[q] = write[q]
    BY <1>1 DEF TypeOK
  <2>2. pc'[r] = l /\ \A q \in Requests : q # r => pc'[q] = pc[q]
    BY DEF TypeOK
  <2>3. IdsOf(docs)' = IdsOf(docs)
    BY DEF IdsOf
  <2> HIDE DEF TypeInv, Goto
  <2> QED
    BY <2>1, <2>2, <2>3, <1>0 DEF TargetsThere, TypeInv
<1>5. Finite'
  BY <1>1 DEF Finite
<1> QED
  BY <1>2, <1>3, <1>4, <1>5

LEMMA TypeInvInit == Init => TypeInv
<1> SUFFICES ASSUME Init PROVE TypeInv
  OBVIOUS
<1>0. \A r \in Requests : call[r] \in Calls[r]
  BY DEF Init
<1>1. call \in [Requests -> Call]
  BY <1>0, DocumentsAssumption DEF Init
<1>2. \A r \in Requests : call[r].op \in {Upload, Delete, Update, Retention}
  BY <1>1 DEF Call
<1>3. \A r \in Requests : FirstStep[call[r].op] =
          IF call[r].op = Upload THEN "check" ELSE IF call[r].op = Retention THEN "begin" ELSE "read"
  BY <1>2 DEF FirstStep
<1>4. \A r \in Requests : call[r].op = Delete => call[r].doc \in Ids
  BY <1>0, DocumentsAssumption
<1>5. TypeOK
  <2>1. docs \in SUBSET Doc
    BY DocumentsAssumption DEF Init
  <2>2. pc \in [Requests -> PCs]
    BY <1>3 DEF Init, PCs
  <2>3. todo \in [Requests -> Seq(Ids)]
    BY <1>4 DEF Init
  <2>4. now \in Nat /\ began \in [Requests -> Nat]
    BY DocumentsAssumption DEF Init
  <2> QED
    BY <2>1, <2>2, <2>3, <2>4, <1>1 DEF Init, TypeOK, Ids, Outcomes
<1>6. Progress
  BY <1>0, <1>2, <1>3, DocumentsAssumption DEF Init, Progress
<1>7. TargetsThere
  <2> SUFFICES ASSUME NEW r \in Requests
               PROVE  /\ pc[r] \in {"check", "begin", "read"}
                      /\ call[r].op = Retention => todo[r] = << >>
                      /\ write[r] = {}
    BY DEF TargetsThere
  <2> QED
    BY <1>3, DocumentsAssumption DEF Init
<1>8. Finite
  <2>1. StoredRow \in Surjection(Stored, docs)
    BY DocumentsAssumption DEF Init, Surjection
  <2>2. IsFiniteSet(docs)
    BY <2>1, FS_Surjection, DocumentsAssumption
  <2> QED
    BY <2>2, FS_EmptySet DEF Init, Finite
<1> QED
  BY <1>5, <1>6, <1>7, <1>8 DEF TypeInv

\* What an upload inserts is a row of the table.
LEMMA NewDocType ==
  ASSUME TypeInv, NEW r \in Requests, pc[r] = "insert"
  PROVE  NewDoc(r) \in Doc /\ NewDoc(r).id = r
<1>1. call[r].doc \in IdsOf(docs) \cup {NoDoc}
  BY DEF TypeInv, TargetsThere
<1>2. CASE call[r].doc = NoDoc
  BY <1>2 DEF NewDoc, Doc, TypeInv, TypeOK, Call, Ids
<1>3. CASE call[r].doc # NoDoc
  <2>1. RowOf(r, call[r].doc) \in Doc
    BY <1>1, <1>3, ViewIds, RowOfSeen, ViewType DEF TypeInv
  <2>2. RowOf(r, call[r].doc).version + 1 \in Nat
    BY <2>1 DEF Doc
  <2> QED
    BY <1>3, <2>2 DEF NewDoc, Doc, TypeInv, TypeOK, Call, Ids
<1> QED
  BY <1>2, <1>3

\* Uploads.
LEMMA UploadKeepsTypes ==
  ASSUME TypeInv, NEW r \in Requests,
         CheckUpload(r) \/ MarkParent(r) \/ StoreFile(r) \/ InsertDoc(r)
  PROVE  TypeInv'
<1>0. files' \in SUBSET Ids
  BY DEF CheckUpload, MarkParent, StoreFile, InsertDoc, TypeInv, TypeOK, Ids
<1>1. CASE CheckUpload(r)
  <2>1. CASE Fail(r, "duplicate")
    BY <1>0, <2>1, FailKeepsTypes DEF Outcomes
  <2>2. CASE ~Fail(r, "duplicate")
    <3> DEFINE l == IF call[r].doc = NoDoc THEN "store" ELSE "mark"
    <3> USE <1>1, <2>2 DEF CheckUpload, Goto
    <3>1. pc[r] = "check" /\ l \in PCs /\ Goto(r, l) /\ call[r].op = Upload
      BY DEF PCs, TypeInv, Progress
    <3>2. TypeOK'
      BY <3>1 DEF TypeInv, TypeOK
    <3>3. Progress'
      BY <3>1, DocumentsAssumption DEF TypeInv, TypeOK, Progress, Ending
    <3>4. UNCHANGED <<docs, write, call, todo>>
      OBVIOUS
    <3>5. call[r].op # Retention
      BY <3>1, DocumentsAssumption
    <3>6. l = "store" => call[r].doc = NoDoc
      OBVIOUS
    <3>7. l \in {"store", "mark"}
      OBVIOUS
    <3> HIDE DEF l
    <3> QED
      BY <3>1, <3>2, <3>3, <3>4, <3>5, <3>6, <3>7, MoveKeepsTypes
  <2> QED
    BY <2>1, <2>2
<1>2. CASE MarkParent(r)
  <2>1. CASE \E e \in {"not_found", "conflict"} : Fail(r, e)
    BY <1>0, <2>1, FailKeepsTypes DEF Outcomes
  <2>2. CASE ~\E e \in {"not_found", "conflict"} : Fail(r, e)
    <3> DEFINE old == RowOf(r, call[r].doc)
               x == [old EXCEPT !.latest = FALSE]
    <3>1. /\ pc[r] = "mark" /\ call[r].doc \in IdsOf(docs) /\ Put(r, x) /\ Goto(r, "store")
          /\ UNCHANGED <<docs, files, audited, session, committed, now, locals, outcome>>
      BY <1>2, <2>2 DEF MarkParent
    <3>2. old \in Doc /\ old.id = call[r].doc
      BY <3>1, ViewIds, RowOfSeen, ViewType DEF TypeInv
    <3>3. x \in Doc /\ x.id = call[r].doc
      BY <3>2 DEF Doc
    <3>4. pc[r] \notin Ending /\ call[r].op = Upload
      BY <3>1 DEF TypeInv, Progress, Ending
    <3> HIDE DEF x
    <3> QED
      BY <3>1, <3>3, <3>4, PutKeepsTypes
  <2> QED
    BY <2>1, <2>2
<1>3. CASE StoreFile(r)
  <2>1. CASE Fail(r, "storage_error")
    BY <1>0, <2>1, FailKeepsTypes DEF Outcomes
  <2>2. CASE ~Fail(r, "storage_error")
    <3>1. /\ pc[r] = "store" /\ Goto(r, "insert")
          /\ UNCHANGED <<docs, write, audited, session, committed, now, locals, outcome>>
      BY <1>3, <2>2 DEF StoreFile
    <3>2. TypeOK'
      BY <1>0, <3>1 DEF TypeInv, TypeOK, Goto, PCs, locals
    <3>3. Progress'
      BY <3>1 DEF TypeInv, TypeOK, Progress, Ending, Goto, locals
    <3>4. call[r].op # Retention /\ call[r].doc \in IdsOf(docs) \cup {NoDoc}
      BY <3>1, DocumentsAssumption DEF TypeInv, Progress, TargetsThere
    <3> QED
      BY <3>1, <3>2, <3>3, <3>4, MoveKeepsTypes DEF PCs, locals
  <2> QED
    BY <2>1, <2>2
<1>4. CASE InsertDoc(r)
  <2>1. CASE Fail(r, "integrity_error")
    BY <1>0, <2>1, FailKeepsTypes DEF Outcomes
  <2>2. CASE ~Fail(r, "integrity_error")
    <3>1. /\ pc[r] = "insert" /\ Put(r, NewDoc(r)) /\ Goto(r, "audit")
          /\ UNCHANGED <<docs, files, audited, session, committed, now, locals, outcome>>
      BY <1>4, <2>2 DEF InsertDoc
    <3>2. call[r].op = Upload /\ call[r].doc \in IdsOf(docs) \cup {NoDoc}
      BY <3>1 DEF TypeInv, Progress, TargetsThere
    <3>3. NewDoc(r) \in Doc /\ NewDoc(r).id = r
      BY <3>1, NewDocType
    <3> QED
      BY <3>1, <3>2, <3>3, PutKeepsTypes DEF Ending
  <2> QED
    BY <2>1, <2>2
<1> QED
  BY <1>1, <1>2, <1>3, <1>4

\* A document that is about to be deleted is there.
LEMMA SweepTarget ==
  ASSUME TypeInv, NEW r \in Requests, pc[r] = "sweep"
  PROVE  Target(r) \in IdsOf(docs) /\ call[r].op # Upload
<1>1. call[r].op \in {Delete, Retention} /\ Len(todo[r]) > 0 /\ todo[r] \in Seq(Ids)
  BY DEF TypeInv, TypeOK, Progress
<1>2. Target(r) = todo[r][1] /\ 1 \in 1..Len(todo[r])
  BY <1>1 DEF Target
<1>3. CASE call[r].op = Delete
  BY <1>2, <1>3, DocumentsAssumption DEF TypeInv, Progress, TargetsThere, Ending
<1>4. CASE call[r].op = Retention
  BY <1>2, <1>4, DocumentsAssumption DEF TypeInv, TargetsThere
<1> QED
  BY <1>1, <1>3, <1>4

\* Changes and deletions of one document.
LEMMA UpdateKeepsTypes ==
  ASSUME TypeInv, NEW r \in Requests,
         ReadDocument(r) \/ RereadDocument(r) \/ WriteDocument(r) \/ SoftDelete(r)
  PROVE  TypeInv'
<1>0. files' \in SUBSET Ids
  BY DEF ReadDocument, RereadDocument, WriteDocument, SoftDelete, TypeInv, TypeOK
<1>1. CASE ReadDocument(r)
  <2>1. CASE \E e \in {"not_found", "gone"} : Fail(r, e)
    BY <1>0, <2>1, FailKeepsTypes DEF Outcomes
  <2>2. CASE ~\E e \in {"not_found", "gone"} : Fail(r, e)
    <3> DEFINE l == IF call[r].op = Update THEN "reread" ELSE "sweep"
    <3>1. /\ pc[r] = "read" /\ call[r].doc \in IdsOf(docs) /\ Goto(r, l)
          /\ wasLatest' = [wasLatest EXCEPT ![r] = RowOf(r, call[r].doc).latest]
          /\ UNCHANGED <<docs, files, write, audited, session, committed, now, began, call, sets,
                         todo, skip, outcome>>
      BY <1>1, <2>2 DEF ReadDocument
    <3>2. RowOf(r, call[r].doc) \in Doc
      BY <3>1, ViewIds, RowOfSeen, ViewType DEF TypeInv
    <3>3. RowOf(r, call[r].doc).latest \in BOOLEAN
      BY <3>2 DEF Doc
    <3>4. call[r].op \in {Delete, Update}
      BY <3>1 DEF TypeInv, Progress
    <3>5. TypeOK'
      BY <3>1, <3>3 DEF TypeInv, TypeOK, Goto, PCs
    <3>6. Progress'
      <4>1. call[r].op = Delete => todo[r] = <<call[r].doc>>
        BY <3>1 DEF TypeInv, Progress, Ending
      <4>2. call[r].op = Delete => Len(todo[r]) > 0
        BY <4>1
      <4>3. CASE call[r].op = Update
        <5>1. Goto(r, "reread")
          BY <3>1, <4>3
        <5> HIDE DEF l
        <5> QED
          BY <3>1, <4>3, <5>1, DocumentsAssumption DEF TypeInv, TypeOK, Progress, Ending, Goto
      <4>4. CASE call[r].op = Delete
        <5>1. Goto(r, "sweep")
          BY <3>1, <4>4, DocumentsAssumption
        <5> HIDE DEF l
        <5> QED
          BY <3>1, <4>1, <4>2, <4>4, <5>1, DocumentsAssumption
          DEF TypeInv, TypeOK, Progress, Ending, Goto
      <4> QED
        BY <3>4, <4>3, <4>4
    <3>7. l \in PCs /\ l \notin {"store", "insert"} /\ call[r].op # Retention
      BY <3>4, DocumentsAssumption DEF PCs
    <3> HIDE DEF l
    <3> QED
      BY <3>1, <3>5, <3>6, <3>7, MoveKeepsTypes
  <2> QED
    BY <2>1, <2>2
<1>2. CASE RereadDocument(r)
  <2>1. /\ pc[r] = "reread" /\ Goto(r, "write")
        /\ sets' \in [Requests -> SUBSET {"type", "latest", "deleted"}]
        /\ UNCHANGED <<docs, files, write, audited, session, committed, now, began, call,
                       wasLatest, todo, skip, outcome>>
    BY <1>2 DEF RereadDocument, TypeInv, TypeOK
  <2>2. TypeOK'
    BY <2>1 DEF TypeInv, TypeOK, Goto, PCs
  <2>3. Progress'
    BY <2>1, DocumentsAssumption DEF TypeInv, TypeOK, Progress, Ending, Goto
  <2>4. call[r].op = Update /\ call[r].doc \in IdsOf(docs)
    BY <2>1 DEF TypeInv, Progress, TargetsThere
  <2> QED
    BY <2>1, <2>2, <2>3, <2>4, MoveKeepsTypes, DocumentsAssumption DEF PCs
<1>3. CASE WriteDocument(r)
  <2> DEFINE old == RowOf(r, call[r].doc)
             new == [old EXCEPT !.type    = IF "type" \in sets[r] THEN call[r].type ELSE @,
                                !.latest  = IF "latest" \in sets[r] THEN wasLatest[r] ELSE @,
                                !.deleted = @ /\ "deleted" \notin sets[r]]
             l == IF new.deleted THEN "answer" ELSE "audit"
  <2>1. /\ pc[r] = "write" /\ (UNCHANGED write \/ Put(r, new)) /\ Goto(r, l)
        /\ UNCHANGED <<docs, files, audited, session, committed, now, locals, outcome>>
    BY <1>3 DEF WriteDocument
  <2>2. call[r].op = Update /\ call[r].doc \in IdsOf(docs)
    BY <2>1 DEF TypeInv, Progress, TargetsThere
  <2>3. old \in Doc /\ old.id = call[r].doc
    BY <2>2, ViewIds, RowOfSeen, ViewType DEF TypeInv
  <2>4. new \in Doc /\ new.id = call[r].doc
    BY <2>3 DEF Doc, TypeInv, TypeOK, Call
  <2>5. l \in {"audit", "answer"} /\ l \in PCs
    BY DEF PCs
  <2> HIDE DEF new, l
  <2>6. CASE Put(r, new)
    <3>1. pc[r] \notin Ending /\ l \in {"store", "audit", "answer"} /\ l # "store"
      BY <2>1, <2>5 DEF Ending
    <3> QED
      BY <2>1, <2>2, <2>4, <2>6, <3>1, PutKeepsTypes
  <2>7. CASE UNCHANGED write
    <3>1. TypeOK'
      BY <2>1, <2>5, <2>7 DEF TypeInv, TypeOK, Goto, locals
    <3>2. Progress'
      BY <2>1, <2>2, <2>5, DocumentsAssumption
      DEF TypeInv, TypeOK, Progress, Ending, Goto, locals
    <3> QED
      BY <2>1, <2>2, <2>5, <2>7, <3>1, <3>2, MoveKeepsTypes, DocumentsAssumption DEF locals
  <2> QED
    BY <2>1, <2>6, <2>7
<1>4. CASE SoftDelete(r)
  <2> DEFINE x == [RowOf(r, Target(r)) EXCEPT !.deleted = TRUE]
  <2>1. /\ pc[r] = "sweep" /\ Put(r, x) /\ Goto(r, "audit")
        /\ UNCHANGED <<docs, files, audited, session, committed, now, locals, outcome>>
    BY <1>4 DEF SoftDelete
  <2>2. Target(r) \in IdsOf(docs)
    BY <2>1, SweepTarget
  <2>3. RowOf(r, Target(r)) \in Doc /\ RowOf(r, Target(r)).id = Target(r)
    BY <2>2, ViewIds, RowOfSeen, ViewType DEF TypeInv
  <2>4. x \in Doc /\ x.id \in IdsOf(docs)
    BY <2>2, <2>3 DEF Doc
  <2> HIDE DEF x
  <2> QED
    BY <2>1, <2>4, PutKeepsTypes DEF Ending
<1> QED
  BY <1>1, <1>2, <1>3, <1>4

\* A retention run lists, and what follows each change.
LEMMA RetentionKeepsTypes ==
  ASSUME TypeInv, NEW r \in Requests,
         BeginRetention(r) \/ ListBatch(r) \/ EmitAudit(r)
  PROVE  TypeInv'
<1>1. CASE BeginRetention(r)
  <2>1. /\ pc[r] = "begin" /\ Goto(r, "list") /\ began' \in [Requests -> Nat]
        /\ UNCHANGED <<docs, files, write, audited, session, committed, now, call, wasLatest, sets,
                       todo, skip, outcome>>
    BY <1>1 DEF BeginRetention, TypeInv, TypeOK
  <2>2. call[r].op = Retention
    BY <2>1 DEF TypeInv, Progress
  <2>3. TypeOK'
    BY <2>1 DEF TypeInv, TypeOK, Goto, PCs
  <2>4. Progress'
    BY <2>1, <2>2, DocumentsAssumption DEF TypeInv, TypeOK, Progress, Ending, Goto
  <2>5. \A i \in 1..Len(todo[r]) : todo[r][i] \in IdsOf(docs)
    BY <2>2 DEF TypeInv, TargetsThere
  <2> QED
    BY <2>1, <2>2, <2>3, <2>4, <2>5, MoveKeepsTypes, DocumentsAssumption DEF PCs
<1>2. CASE ListBatch(r)
  <2>1. PICK s \in Listings(r) :
          /\ todo' = [todo EXCEPT ![r] = Page(s, skip[r])]
          /\ skip' = [skip EXCEPT ![r] = @ + Len(Page(s, skip[r]))]
          /\ Goto(r, IF Page(s, skip[r]) = << >> THEN "answer" ELSE "sweep")
    BY <1>2 DEF ListBatch
  <2> DEFINE p == Page(s, skip[r])
             l == IF p = << >> THEN "answer" ELSE "sweep"
  <2>2. /\ pc[r] = "list"
        /\ UNCHANGED <<docs, files, write, audited, session, committed, now, began, call,
                       wasLatest, sets, outcome>>
    BY <1>2 DEF ListBatch
  <2>3. call[r].op = Retention
    BY <2>2 DEF TypeInv, Progress
  <2>4. p \in Seq(IdsOf(View(r))) /\ p \in Seq(Ids)
    BY PageType DEF TypeInv, TypeOK
  <2>5. IdsOf(View(r)) \subseteq IdsOf(docs)
    <3>1. \A x \in write[r] : x.id \in IdsOf(docs)
      BY <2>3, DocumentsAssumption DEF TypeInv, TargetsThere
    <3> QED
      BY <3>1, ViewIds DEF IdsOf
  <2>6. \A i \in 1..Len(p) : p[i] \in IdsOf(docs)
    BY <2>4, <2>5
  <2>7. Len(p) \in Nat /\ (p # << >> => Len(p) > 0)
    BY <2>4, EmptySeq
  <2>8. /\ todo' = [todo EXCEPT ![r] = p] /\ skip' = [skip EXCEPT ![r] = @ + Len(p)]
        /\ Goto(r, l) /\ l \in {"answer", "sweep"} /\ (l = "sweep" => Len(p) > 0)
    BY <2>1, <2>7
  <2> HIDE DEF p, l
  <2>9. TypeOK'
    BY <2>2, <2>4, <2>7, <2>8 DEF TypeInv, TypeOK, Goto, PCs
  <2>10. Progress'
    BY <2>2, <2>3, <2>8, DocumentsAssumption DEF TypeInv, TypeOK, Progress, Ending, Goto
  <2>11. todo'[r] = p /\ \A q \in Requests : q # r => todo'[q] = todo[q]
    BY <2>8 DEF TypeInv, TypeOK
  <2> QED
    BY <2>2, <2>3, <2>6, <2>8, <2>9, <2>10, <2>11, MoveKeepsTypes, DocumentsAssumption DEF PCs
<1>3. CASE EmitAudit(r)
  <2>1. CASE AuditRefused(r)
    BY <1>3, <2>1, RefusalKeepsTypes DEF EmitAudit
  <2>2. CASE ~AuditRefused(r)
    <3> DEFINE l == IF Len(todo[r]) > 1 THEN "sweep"
                    ELSE IF call[r].op = Retention /\ skip[r] % BATCH_SIZE = 0 THEN "list"
                    ELSE "answer"
               p == IF todo[r] = << >> THEN todo[r] ELSE Tail(todo[r])
    <3>1. /\ pc[r] = "audit" /\ Goto(r, l)
          /\ audited' = [audited EXCEPT ![r] = TRUE]
          /\ todo' = [todo EXCEPT ![r] = p]
          /\ UNCHANGED <<docs, files, write, session, committed, now, began, call, wasLatest,
                         sets, skip, outcome>>
      BY <1>3, <2>2 DEF EmitAudit, AfterAudit
    <3>2. session[r] = "active" /\ todo[r] \in Seq(Ids) /\ call[r].op \in {Upload, Delete, Update, Retention}
      BY <3>1 DEF TypeInv, TypeOK, Progress, Ending, Call
    <3>3. CASE todo[r] = << >>
      <4>1. p = << >> /\ l \in {"list", "answer"} /\ (l = "list" => call[r].op = Retention)
        BY <3>3
      <4>2. call[r].op # Delete
        <5>1. call[r].op = Delete => todo[r] = <<call[r].doc>>
          BY <3>1 DEF TypeInv, Progress, Ending
        <5>2. call[r].op = Delete => Len(todo[r]) = 1
          BY <5>1
        <5> QED
          BY <3>3, <5>2
      <4> HIDE DEF l, p
      <4>3. TypeOK'
        BY <3>1, <3>2, <4>1 DEF TypeInv, TypeOK, Goto, PCs
      <4>4. Progress'
        BY <3>1, <3>2, <4>1, <4>2, DocumentsAssumption
        DEF TypeInv, TypeOK, Progress, Ending, Goto
      <4>5. todo'[r] = << >> /\ \A q \in Requests : q # r => todo'[q] = todo[q]
        BY <3>1, <4>1 DEF TypeInv, TypeOK
      <4>6. l \in PCs /\ l \notin {"store", "insert", "reread", "write", "sweep"}
        BY <4>1 DEF PCs
      <4> QED
        BY <3>1, <4>3, <4>4, <4>5, <4>6, MoveKeepsTypes
    <3>4. CASE todo[r] # << >>
      <4>1. /\ p = Tail(todo[r]) /\ p \in Seq(Ids) /\ Len(p) = Len(todo[r]) - 1
            /\ \A i \in 1..Len(p) : p[i] = todo[r][i + 1] /\ i + 1 \in 1..Len(todo[r])
            /\ Len(todo[r]) \in Nat
        BY <3>2, <3>4, HeadTailProperties
      <4>2. call[r].op \in {Delete, Retention}
        BY <3>2, <3>4 DEF TypeInv, Progress
      <4>3. call[r].op = Delete => Len(todo[r]) = 1
        <5>1. call[r].op = Delete => todo[r] = <<call[r].doc>>
          BY <3>1 DEF TypeInv, Progress, Ending
        <5> QED
          BY <5>1
      <4>4. /\ l \in {"sweep", "list", "answer"}
            /\ l = "sweep" => Len(p) > 0 /\ call[r].op = Retention
            /\ l = "list" => call[r].op = Retention
        BY <4>1, <4>2, <4>3
      <4> HIDE DEF l, p
      <4>5. TypeOK'
        BY <3>1, <3>2, <4>1, <4>4 DEF TypeInv, TypeOK, Goto, PCs
      <4>6. Progress'
        BY <3>1, <3>2, <4>1, <4>2, <4>4, DocumentsAssumption
        DEF TypeInv, TypeOK, Progress, Ending, Goto
      <4>7. todo'[r] = p /\ \A q \in Requests : q # r => todo'[q] = todo[q]
        BY <3>1 DEF TypeInv, TypeOK
      <4>8. call[r].op = Retention => \A i \in 1..Len(p) : p[i] \in IdsOf(docs)
        BY <4>1 DEF TypeInv, TargetsThere
      <4>9. /\ l \in PCs /\ l \notin {"store", "insert", "reread", "write"}
            /\ l = "sweep" => call[r].op # Delete
        BY <4>4, DocumentsAssumption DEF PCs
      <4> QED
        BY <3>1, <4>5, <4>6, <4>7, <4>8, <4>9, MoveKeepsTypes
    <3> QED
      BY <3>3, <3>4
  <2> QED
    BY <2>1, <2>2
<1> QED
  BY <1>1, <1>2, <1>3

\* What a commit leaves in the table.
LEMMA CommitType ==
  ASSUME TypeInv, NEW r \in Requests
  PROVE  View(r) \in SUBSET Doc /\ IsFiniteSet(View(r)) /\ IdsOf(docs) \subseteq IdsOf(View(r))
<1>1. IsFiniteSet(docs \cup write[r])
  BY FS_Union DEF TypeInv, Finite
<1>2. View(r) \subseteq docs \cup write[r]
  BY DEF View, Overlay
<1> QED
  BY <1>1, <1>2, FS_Subset, ViewType, ViewIds DEF TypeInv

\* The end of a request.
LEMMA EndKeepsTypes ==
  ASSUME TypeInv, NEW r \in Requests,
         \/ Answer(r) \/ CommitOrClose(r) \/ DeadlockAbort(r)
         \/ AuditStale(r) \/ Abort(r)
  PROVE  TypeInv'
<1>1. CASE Answer(r)
  <2>1. /\ pc[r] = "answer" /\ Goto(r, "commit")
        /\ outcome' \in [Requests -> Outcomes]
        /\ UNCHANGED <<docs, files, write, audited, session, committed, now, locals>>
    BY <1>1 DEF Answer, TypeInv, TypeOK, Outcomes
  <2>2. TypeOK'
    BY <2>1 DEF TypeInv, TypeOK, Goto, PCs, locals
  <2>3. Progress'
    BY <2>1 DEF TypeInv, TypeOK, Progress, Ending, Goto, locals
  <2>4. call[r].op = Retention => \A i \in 1..Len(todo[r]) : todo[r][i] \in IdsOf(docs)
    BY DEF TypeInv, TargetsThere
  <2> QED
    BY <2>1, <2>2, <2>3, <2>4, MoveKeepsTypes DEF PCs, locals
<1>2. CASE CommitOrClose(r)
  <2>1. /\ pc[r] = "commit" /\ Goto(r, "done")
        /\ write' = [write EXCEPT ![r] = {}]
        /\ audited' = [audited EXCEPT ![r] = FALSE]
        /\ session' = [session EXCEPT ![r] = "closed"]
        /\ docs' \in {docs, View(r)}
        /\ committed' \in {committed, committed \cup {r}}
        /\ UNCHANGED <<files, now, locals, outcome>>
    BY <1>2 DEF CommitOrClose
  <2>2. docs' \in SUBSET Doc /\ IsFiniteSet(docs') /\ IdsOf(docs) \subseteq IdsOf(docs')
    BY <2>1, CommitType DEF TypeInv, TypeOK, Finite
  <2>3. TypeOK'
    BY <2>1, <2>2 DEF TypeInv, TypeOK, Goto, PCs, locals
  <2>4. Progress'
    BY <2>1 DEF TypeInv, TypeOK, Progress, Ending, Goto, locals
  <2>5. TargetsThere'
    <3>1. /\ \A q \in Requests : q # r => pc'[q] = pc[q] /\ write'[q] = write[q]
          /\ pc'[r] = "done" /\ write'[r] = {} /\ UNCHANGED <<call, todo>>
      BY <2>1 DEF TypeInv, TypeOK, Goto, locals
    <3>2. IdsOf(docs') = IdsOf(docs)'
      BY DEF IdsOf
    <3> QED
      BY <2>2, <3>1, <3>2 DEF TypeInv, TargetsThere
  <2>6. Finite'
    BY <2>1, <2>2, FS_EmptySet DEF TypeInv, TypeOK, Finite
  <2> QED
    BY <2>3, <2>4, <2>5, <2>6 DEF TypeInv
<1>3. CASE DeadlockAbort(r)
  BY <1>3, RefusalKeepsTypes, FailKeepsTypes DEF DeadlockAbort, Outcomes, TypeInv, TypeOK
<1>4. CASE AuditStale(r)
  BY <1>4, RefusalKeepsTypes DEF AuditStale
<1>5. CASE Abort(r)
  <2> DEFINE e == IF outcome[r] = "none" THEN "aborted" ELSE outcome[r]
  <2>1. e \in Outcomes /\ Fail(r, e) /\ files' \in SUBSET Ids
    BY <1>5 DEF Abort, Outcomes, TypeInv, TypeOK
  <2> HIDE DEF e
  <2> QED
    BY <2>1, FailKeepsTypes
<1> QED
  BY <1>1, <1>2, <1>3, <1>4, <1>5

LEMMA TypeInvNext == TypeInv /\ [Next]_vars => TypeInv'
<1> SUFFICES ASSUME TypeInv, [Next]_vars PROVE TypeInv'
  OBVIOUS
<1>1. ASSUME NEW r \in Requests, Step(r) \/ AuditStale(r) \/ Abort(r)
      PROVE  TypeInv'
  BY <1>1, UploadKeepsTypes, UpdateKeepsTypes, RetentionKeepsTypes, EndKeepsTypes DEF Step
<1>2. CASE Tick
  <2>1. UNCHANGED <<docs, write, call, pc, todo, session, committed>>
    BY <1>2 DEF Tick
  <2>2. TypeOK'
    BY <1>2 DEF Tick, TypeInv, TypeOK
  <2>3. Progress'
    BY <2>1 DEF TypeInv, Progress
  <2>4. TargetsThere'
    BY <2>1 DEF TypeInv, TargetsThere, IdsOf
  <2>5. Finite'
    BY <2>1 DEF TypeInv, Finite
  <2> QED
    BY <2>2, <2>3, <2>4, <2>5 DEF TypeInv
<1>3. CASE UNCHANGED vars
  BY <1>3 DEF vars, TypeInv, TypeOK, Progress, TargetsThere, Finite, IdsOf
<1> QED
  BY <1>1, <1>2, <1>3 DEF Next, AllAnswered

\* The types hold in every reachable state, and each request is where its kind of call takes
\* it: whatever it is about to write, it finds.
THEOREM TypeCorrect == Spec => []TypeInv
<1>1. Init => TypeInv
  BY TypeInvInit
<1>2. TypeInv /\ [Next]_vars => TypeInv'
  BY TypeInvNext
<1> QED
  BY <1>1, <1>2, PTL DEF Spec

-----------------------------------------------------------------------------
(***************************************************************************)
(* Versions form chains.                                                   *)
(***************************************************************************)

\* The document of an upload that is still running is not there.
LEMMA NotYetThere ==
  ASSUME TypeInv, Committed, NEW r \in Requests, pc[r] # "done"
  PROVE  /\ r \notin IdsOf(docs)
         /\ \A x : IsChanged(r, x) => x.id # r
<1>1. r \notin IdsOf(docs)
  BY DEF TypeInv, Progress, Committed
<1> QED
  BY <1>1 DEF IsChanged, IdsOf

\* A step that puts a row into the transaction: the new one of an upload that holds the parent,
\* or what the request makes of a row that no one else holds.
LEMMA PutKeepsChains ==
  ASSUME TypeInv, ChainInv, NEW r \in Requests, pc[r] \notin Ending, NEW x \in Doc, Put(r, x),
         \/ IsNew(r, x) /\ (call[r].doc = NoDoc \/ HoldsParent(r))
         \/ IsChanged(r, x),
         \A q \in Requests : q # r => x.id \notin IdsOf(write[q]),
         NEW l \in {"store", "audit", "answer"}, Goto(r, l),
         l = "store" => call[r].op = Upload,
         l # "store" /\ call[r].op = Upload => x.id = r,
         UNCHANGED <<docs, committed, session, call>>
  PROVE  ChainInv'
<1>0. pc[r] # "done" /\ session[r] = "active"
  BY DEF TypeInv, Progress, Ending
<1>1. /\ write'[r] = {y \in write[r] : y.id # x.id} \cup {x}
      /\ \A q \in Requests : q # r => write'[q] = write[q]
  BY <1>0, PutType DEF TypeInv, TypeOK
<1>2. pc'[r] = l /\ \A q \in Requests : q # r => pc'[q] = pc[q]
  BY DEF TypeInv, TypeOK, Goto
<1>3. Committed'
  BY DEF ChainInv, Committed, OneRow, IdsOf
<1>4. IdsOf(write'[r]) \subseteq IdsOf(write[r]) \cup {x.id} /\ IdsOf(docs)' = IdsOf(docs)
  BY <1>1 DEF IdsOf
<1>5. \A q, y : (IsNew(q, y)' <=> IsNew(q, y)) /\ (IsChanged(q, y)' <=> IsChanged(q, y))
  BY DEF IsNew, IsChanged, IsMarked, IsRewritten, Updated
<1>6. OneRow(write'[r])
  BY <1>1 DEF ChainInv, Written, OneRow
<1>7. \A y \in write'[r] : IsNew(r, y) \/ IsChanged(r, y)
  BY <1>1 DEF ChainInv, Written
<1>8. pc'[r] = "store" \/ r \in IdsOf(write'[r]) => call[r].doc = NoDoc \/ HoldsParent(r)'
  <2> SUFFICES ASSUME pc'[r] = "store" \/ r \in IdsOf(write'[r]), call[r].doc # NoDoc
               PROVE  HoldsParent(r)'
    OBVIOUS
  <2>1. CASE IsNew(r, x) /\ HoldsParent(r)
    <3>1. PICK p \in write[r] : p.id = call[r].doc /\ ~p.latest
      BY <2>1 DEF HoldsParent
    <3>2. p.id # r
      BY <1>0, <3>1, NotYetThere DEF ChainInv, Written, IsNew
    <3>3. p \in write'[r]
      BY <1>1, <2>1, <3>2 DEF IsNew
    <3> QED
      BY <3>1, <3>3 DEF HoldsParent
  <2>2. CASE IsChanged(r, x)
    <3>1. x.id # r
      BY <1>0, <2>2, NotYetThere DEF ChainInv
    <3>2. call[r].op = Upload
      <4>1. CASE l = "store"
        BY <4>1
      <4>2. CASE r \in IdsOf(write'[r])
        <5>1. PICK y \in write'[r] : y.id = r
          BY <4>2 DEF IdsOf
        <5>2. ~IsChanged(r, y)
          BY <1>0, <5>1, NotYetThere DEF ChainInv
        <5> QED
          BY <1>7, <5>1, <5>2 DEF IsNew
      <4> QED
        BY <1>2, <4>1, <4>2
    <3>3. x.id = call[r].doc /\ ~x.latest
      BY <2>2, <3>2 DEF IsChanged, IsMarked, IsRewritten
    <3> QED
      BY <1>1, <3>3 DEF HoldsParent
  <2> QED
    BY <2>1, <2>2
<1>9. pc'[r] \in {"audit", "answer", "commit"} /\ call[r].op = Upload => r \in IdsOf(write'[r])
  BY <1>1, <1>2 DEF IdsOf
<1>10. Written'
  <2> SUFFICES ASSUME NEW q \in Requests
               PROVE  /\ OneRow(write'[q])
                      /\ \A y \in write'[q] : IsNew(q, y)' \/ IsChanged(q, y)'
                      /\ pc'[q] \in {"store", "insert"} \/ q \in IdsOf(write'[q]) =>
                           call[q].doc = NoDoc \/ HoldsParent(q)'
                      /\ pc'[q] \in {"audit", "answer", "commit"} /\ session[q] = "active"
                           /\ call[q].op = Upload => q \in IdsOf(write'[q])
    BY DEF Written, OneRow, IdsOf
  <2>1. CASE q = r
    BY <1>2, <1>5, <1>6, <1>7, <1>8, <1>9, <2>1
  <2>2. CASE q # r
    <3>1. HoldsParent(q)' <=> HoldsParent(q)
      BY <1>1, <2>2 DEF HoldsParent
    <3> QED
      BY <1>1, <1>2, <1>5, <2>2, <3>1 DEF ChainInv, Written
  <2> QED
    BY <2>1, <2>2
<1>11. Locked'
  <2> SUFFICES ASSUME NEW p \in Requests, NEW q \in Requests, p # q
               PROVE  IdsOf(write'[p]) \cap IdsOf(write'[q]) = {}
    BY DEF Locked, IdsOf
  <2>1. IdsOf(write[p]) \cap IdsOf(write[q]) = {}
    BY DEF ChainInv, Locked
  <2> QED
    BY <1>1, <1>4, <2>1
<1> QED
  BY <1>3, <1>10, <1>11 DEF ChainInv

\* A rollback, of a request that is over or has only its answer left to give.
LEMMA RollbackKeepsChains ==
  ASSUME TypeInv, ChainInv, NEW r \in Requests, write' = [write EXCEPT ![r] = {}],
         NEW l \in {"answer", "done"}, Goto(r, l),
         NEW s \in {"inactive", "closed"}, session' = [session EXCEPT ![r] = s],
         UNCHANGED <<docs, committed, call>>
  PROVE  ChainInv'
<1>1. write'[r] = {} /\ \A q \in Requests : q # r => write'[q] = write[q]
  BY DEF TypeInv, TypeOK
<1>2. /\ pc'[r] = l /\ session'[r] = s
      /\ \A q \in Requests : q # r => pc'[q] = pc[q] /\ session'[q] = session[q]
  BY DEF TypeInv, TypeOK, Goto
<1>3. Committed'
  BY DEF ChainInv, Committed, OneRow, IdsOf
<1>4. \A q, y : (IsNew(q, y)' <=> IsNew(q, y)) /\ (IsChanged(q, y)' <=> IsChanged(q, y))
  BY DEF IsNew, IsChanged, IsMarked, IsRewritten, Updated
<1>5. Written'
  <2> SUFFICES ASSUME NEW q \in Requests
               PROVE  /\ OneRow(write'[q])
                      /\ \A y \in write'[q] : IsNew(q, y)' \/ IsChanged(q, y)'
                      /\ pc'[q] \in {"store", "insert"} \/ q \in IdsOf(write'[q]) =>
                           call[q].doc = NoDoc \/ HoldsParent(q)'
                      /\ pc'[q] \in {"audit", "answer", "commit"} /\ session'[q] = "active"
                           /\ call[q].op = Upload => q \in IdsOf(write'[q])
    BY DEF Written, OneRow, IdsOf
  <2>1. CASE q = r
    BY <1>1, <1>2, <2>1 DEF OneRow, IdsOf
  <2>2. CASE q # r
    <3>1. HoldsParent(q)' <=> HoldsParent(q)
      BY <1>1, <2>2 DEF HoldsParent
    <3> QED
      BY <1>1, <1>2, <1>4, <2>2, <3>1 DEF ChainInv, Written
  <2> QED
    BY <2>1, <2>2
<1>6. Locked'
  <2> SUFFICES ASSUME NEW p \in Requests, NEW q \in Requests, p # q
               PROVE  IdsOf(write'[p]) \cap IdsOf(write'[q]) = {}
    BY DEF Locked, IdsOf
  <2>1. IdsOf(write[p]) \cap IdsOf(write[q]) = {} /\ IdsOf({}) = {}
    BY DEF ChainInv, Locked, IdsOf
  <2> QED
    BY <1>1, <2>1
<1> QED
  BY <1>3, <1>5, <1>6 DEF ChainInv

\* A step that leaves the tables alone.
LEMMA MoveKeepsChains ==
  ASSUME TypeInv, ChainInv, NEW r \in Requests,
         NEW l \in PCs, Goto(r, l),
         l \in {"store", "insert"} => pc[r] = "store" \/ call[r].doc = NoDoc,
         l \in {"audit", "answer", "commit"} =>
           pc[r] \in {"audit", "answer", "commit"} \/ call[r].op # Upload,
         UNCHANGED <<docs, write, session, committed, call>>
  PROVE  ChainInv'
<1>1. pc'[r] = l /\ \A q \in Requests : q # r => pc'[q] = pc[q]
  BY DEF TypeInv, TypeOK, Goto
<1>2. Committed'
  BY DEF ChainInv, Committed, OneRow, IdsOf
<1>3. \A q, y : (IsNew(q, y)' <=> IsNew(q, y)) /\ (IsChanged(q, y)' <=> IsChanged(q, y))
  BY DEF IsNew, IsChanged, IsMarked, IsRewritten, Updated
<1>4. Written'
  <2> SUFFICES ASSUME NEW q \in Requests
               PROVE  /\ OneRow(write[q])
                      /\ \A y \in write[q] : IsNew(q, y)' \/ IsChanged(q, y)'
                      /\ pc'[q] \in {"store", "insert"} \/ q \in IdsOf(write[q]) =>
                           call[q].doc = NoDoc \/ HoldsParent(q)
                      /\ pc'[q] \in {"audit", "answer", "commit"} /\ session[q] = "active"
                           /\ call[q].op = Upload => q \in IdsOf(write[q])
    BY DEF Written, OneRow, IdsOf, HoldsParent
  <2>1. CASE q = r
    BY <1>1, <1>3, <2>1 DEF ChainInv, Written
  <2>2. CASE q # r
    BY <1>1, <1>3, <2>2 DEF ChainInv, Written
  <2> QED
    BY <2>1, <2>2
<1>5. Locked'
  BY DEF ChainInv, Locked, IdsOf
<1> QED
  BY <1>2, <1>4, <1>5 DEF ChainInv

\* A commit adds the new document to the end of its chain, and nothing to another.
LEMMA CommitKeepsChains ==
  ASSUME TypeInv, ChainInv, VersionsFormChains, NEW r \in Requests,
         pc[r] = "commit", session[r] = "active",
         docs' = View(r), committed' = committed \cup {r},
         write' = [write EXCEPT ![r] = {}],
         Goto(r, "done"), session' = [session EXCEPT ![r] = "closed"],
         UNCHANGED call
  PROVE  ChainInv' /\ VersionsFormChains'
<1> DEFINE IsNewRow(x) == x \in write[r] /\ IsNew(r, x)
<1>1. write'[r] = {} /\ \A q \in Requests : q # r => write'[q] = write[q]
  BY DEF TypeInv, TypeOK
<1>2. /\ pc'[r] = "done" /\ session'[r] = "closed"
      /\ \A q \in Requests : q # r => pc'[q] = pc[q] /\ session'[q] = session[q]
  BY DEF TypeInv, TypeOK, Goto
<1>3. docs' = {x \in docs : x.id \notin IdsOf(write[r])} \cup write[r]
  BY DEF View, Overlay
<1>4. IdsOf(docs') = IdsOf(docs) \cup IdsOf(write[r]) /\ IdsOf(docs)' = IdsOf(docs')
  BY ViewIds DEF IdsOf
<1>5. r \notin IdsOf(docs) /\ \A x \in write[r] : IsChanged(r, x) => x.id # r
  BY NotYetThere DEF ChainInv
<1>6. /\ OneRow(docs) /\ OneRow(write[r])
      /\ \A x \in write[r] : IsNew(r, x) \/ IsChanged(r, x)
      /\ r \in IdsOf(write[r]) => call[r].doc = NoDoc \/ HoldsParent(r)
      /\ call[r].op = Upload => r \in IdsOf(write[r])
  BY DEF ChainInv, Committed, Written
<1>7. OneRow(docs')
  BY <1>3, <1>6 DEF OneRow, IdsOf
<1>8. \A x \in docs' : IsNewRow(x) \/ \E y \in docs : y.id = x.id /\ y.parent = x.parent
  BY <1>3, <1>6 DEF IsChanged
<1>9. \A y \in docs : \E x \in docs' : x.id = y.id /\ x.parent = y.parent
  <2> TAKE y \in docs
  <2>1. CASE y.id \notin IdsOf(write[r])
    BY <1>3, <2>1
  <2>2. CASE y.id \in IdsOf(write[r])
    <3>1. PICK x \in write[r] : x.id = y.id
      BY <2>2 DEF IdsOf
    <3>2. x.id \in IdsOf(docs)
      BY <3>1 DEF IdsOf
    <3>3. IsChanged(r, x)
      BY <1>5, <1>6, <3>2 DEF IsNew
    <3>4. x.parent = y.parent
      BY <1>6, <3>1, <3>3 DEF IsChanged, OneRow
    <3> QED
      BY <1>3, <3>1, <3>4
  <2> QED
    BY <2>1, <2>2
<1>10. \A n : IsNewRow(n) => call[r].doc = NoDoc \/ HoldsParent(r)
  BY <1>6 DEF IsNew, IdsOf
<1>11. Committed'
  <2>1. \A x \in docs' : x.parent \in IdsOf(docs') \cup {NoDoc}
    <3> TAKE x \in docs'
    <3>1. CASE IsNewRow(x)
      <4>1. call[r].doc \in IdsOf(write[r]) \cup {NoDoc}
        BY <1>10, <3>1 DEF HoldsParent, IdsOf
      <4> QED
        BY <1>4, <3>1, <4>1 DEF IsNew
    <3>2. CASE ~IsNewRow(x)
      BY <1>4, <1>8, <3>2 DEF ChainInv, Committed
    <3> QED
      BY <3>1, <3>2
  <2>2. \A q \in Requests : q \in IdsOf(docs') => q \in committed'
    <3> TAKE q \in Requests
    <3>1. q \in IdsOf(docs') => q \in IdsOf(docs) \/ q = r
      <4>1. \A x \in docs' : x.id = q => q \in IdsOf(docs) \/ q = r
        BY <1>8 DEF IsNew, IdsOf
      <4> QED
        BY <4>1 DEF IdsOf
    <3> QED
      BY <3>1 DEF ChainInv, Committed
  <2>3. OneRow(docs)'
    BY <1>7 DEF OneRow
  <2> QED
    BY <1>4, <2>1, <2>2, <2>3 DEF Committed
<1>12. Written'
  <2> SUFFICES ASSUME NEW q \in Requests, q # r
               PROVE  /\ OneRow(write[q])
                      /\ \A y \in write[q] : IsNew(q, y)' \/ IsChanged(q, y)'
                      /\ pc[q] \in {"store", "insert"} \/ q \in IdsOf(write[q]) =>
                           call[q].doc = NoDoc \/ HoldsParent(q)
                      /\ pc[q] \in {"audit", "answer", "commit"} /\ session[q] = "active"
                           /\ call[q].op = Upload => q \in IdsOf(write[q])
    BY <1>1, <1>2 DEF Written, OneRow, IdsOf, HoldsParent
  <2>1. \A y \in write[q] : IsChanged(q, y) => IsChanged(q, y)'
    <3> SUFFICES ASSUME NEW y \in write[q], NEW z \in docs, z.id = y.id, z.parent = y.parent,
                        IsMarked(q, y, z) \/ IsRewritten(q, y, z)
                 PROVE  IsChanged(q, y)'
      BY DEF IsChanged
    <3>1. z.id \notin IdsOf(write[r])
      BY DEF ChainInv, Locked, IdsOf
    <3>2. z \in docs'
      BY <1>3, <3>1
    <3>3. IsMarked(q, y, z)' \/ IsRewritten(q, y, z)'
      BY DEF IsMarked, IsRewritten, Updated
    <3> QED
      BY <3>2, <3>3 DEF IsChanged
  <2>2. \A y : IsNew(q, y)' <=> IsNew(q, y)
    BY DEF IsNew
  <2> QED
    BY <2>1, <2>2 DEF ChainInv, Written
<1>13. Locked'
  <2> SUFFICES ASSUME NEW p \in Requests, NEW q \in Requests, p # q
               PROVE  IdsOf(write'[p]) \cap IdsOf(write'[q]) = {}
    BY DEF Locked, IdsOf
  <2>1. IdsOf(write[p]) \cap IdsOf(write[q]) = {} /\ IdsOf({}) = {}
    BY DEF ChainInv, Locked, IdsOf
  <2> QED
    BY <1>1, <2>1
<1>14. \A d : Updated(d)' <=> Updated(d)
  BY DEF Updated
<1>15. ASSUME NEW n, IsNewRow(n), call[r].doc # NoDoc, ~Updated(call[r].doc), NEW y \in docs
       PROVE  y.parent # call[r].doc
  <2>1. PICK p \in write[r] : p.id = call[r].doc /\ ~p.latest
    BY <1>10, <1>15 DEF HoldsParent
  <2>2. PICK z \in docs : z.id = p.id /\ (IsMarked(r, p, z) \/ IsRewritten(r, p, z))
    BY <1>6, <2>1 DEF IsNew, IsChanged
  <2>3. z.latest
    BY <1>15, <2>1, <2>2 DEF IsNew, IsMarked, IsRewritten
  <2> QED
    BY <1>15, <2>1, <2>2, <2>3 DEF VersionsFormChains
<1>16. ASSUME NEW n, IsNewRow(n), NEW y \in docs'
       PROVE  y.parent # r
  <2>1. r # NoDoc
    BY DocumentsAssumption DEF Ids
  <2>2. CASE IsNewRow(y)
    <3>1. CASE call[r].doc = NoDoc
      BY <2>1, <2>2, <3>1 DEF IsNew
    <3>2. CASE HoldsParent(r)
      <4>1. PICK p \in write[r] : p.id = call[r].doc /\ ~p.latest
        BY <3>2 DEF HoldsParent
      <4>2. IsChanged(r, p)
        BY <1>6, <4>1 DEF IsNew
      <4> QED
        BY <1>5, <2>2, <4>1, <4>2 DEF IsNew
    <3> QED
      BY <1>10, <2>2, <3>1, <3>2
  <2>3. CASE ~IsNewRow(y)
    BY <1>5, <1>8, <2>1, <2>3 DEF ChainInv, Committed
  <2> QED
    BY <2>2, <2>3
<1>17. ASSUME NEW x \in docs', NEW y \in docs', x.parent = y.parent, x.parent # NoDoc,
              ~Updated(x.parent)
       PROVE  x = y
  <2>1. CASE IsNewRow(x) /\ IsNewRow(y)
    BY <1>6, <2>1 DEF IsNew, OneRow
  <2>2. CASE IsNewRow(x) /\ ~IsNewRow(y)
    <3>1. PICK z \in docs : z.parent = y.parent
      BY <1>8, <2>2
    <3> QED
      BY <1>15, <1>17, <2>2, <3>1 DEF IsNew
  <2>3. CASE ~IsNewRow(x) /\ IsNewRow(y)
    <3>1. PICK z \in docs : z.parent = x.parent
      BY <1>8, <2>3
    <3> QED
      BY <1>15, <1>17, <2>3, <3>1 DEF IsNew
  <2>4. CASE ~IsNewRow(x) /\ ~IsNewRow(y)
    <3>1. PICK a \in docs : a.id = x.id /\ a.parent = x.parent
      BY <1>8, <2>4
    <3>2. PICK b \in docs : b.id = y.id /\ b.parent = y.parent
      BY <1>8, <2>4
    <3>3. a = b
      BY <1>17, <3>1, <3>2 DEF VersionsFormChains
    <3> QED
      BY <1>7, <3>1, <3>2, <3>3 DEF OneRow
  <2> QED
    BY <2>1, <2>2, <2>3, <2>4
<1>18. ASSUME NEW x \in docs', ~Updated(x.id)
       PROVE  x.latest <=> \A y \in docs' : y.parent # x.id
  <2>1. CASE IsNewRow(x)
    BY <1>16, <2>1 DEF IsNew
  <2>2. CASE x \in write[r] /\ ~IsNewRow(x)
    <3>1. PICK z \in docs : z.id = x.id /\ (IsMarked(r, x, z) \/ IsRewritten(r, x, z))
      BY <1>6, <2>2 DEF IsChanged
    <3>2. CASE IsMarked(r, x, z)
      <4>1. PICK n \in write[r] : n.id = r
        BY <1>6, <3>2 DEF IsMarked, IdsOf
      <4>2. IsNew(r, n)
        BY <1>5, <1>6, <4>1
      <4>3. n \in docs' /\ n.parent = x.id
        BY <1>3, <3>2, <4>1, <4>2 DEF IsNew, IsMarked
      <4> QED
        BY <3>2, <4>3 DEF IsMarked
    <3>3. CASE IsRewritten(r, x, z)
      <4>1. \A y : ~IsNewRow(y)
        BY <3>3 DEF IsRewritten, IsNew
      <4>2. x.latest = z.latest
        BY <1>18, <3>1, <3>3 DEF IsRewritten
      <4>3. z.latest <=> \A y \in docs : y.parent # x.id
        BY <1>18, <3>1 DEF VersionsFormChains
      <4>4. (\A y \in docs : y.parent # x.id) <=> \A y \in docs' : y.parent # x.id
        BY <1>8, <1>9, <4>1
      <4> QED
        BY <4>2, <4>3, <4>4
    <3> QED
      BY <3>1, <3>2, <3>3
  <2>3. CASE x \notin write[r]
    <3>1. x \in docs /\ x.id \notin IdsOf(write[r])
      BY <1>3, <2>3
    <3>2. x.latest <=> \A y \in docs : y.parent # x.id
      BY <1>18, <3>1 DEF VersionsFormChains
    <3>3. x.id # NoDoc
      BY <3>1, DocumentsAssumption DEF TypeInv, TypeOK, Doc
    <3>4. \A y \in docs' : IsNewRow(y) => y.parent # x.id
      BY <1>10, <3>1, <3>3 DEF IsNew, HoldsParent, IdsOf
    <3>5. (\A y \in docs : y.parent # x.id) <=> \A y \in docs' : y.parent # x.id
      BY <1>8, <1>9, <3>4
    <3> QED
      BY <3>2, <3>5
  <2> QED
    BY <2>1, <2>2, <2>3
<1>19. VersionsFormChains'
  BY <1>14, <1>17, <1>18 DEF VersionsFormChains
<1> QED
  BY <1>11, <1>12, <1>13, <1>19 DEF ChainInv

\* What a request other than an upload sees of a committed document is that row, or what it has
\* made of it, and it may write it again.
LEMMA RewriteIsChange ==
  ASSUME TypeInv, ChainInv, NEW r \in Requests, call[r].op # Upload,
         NEW d \in IdsOf(docs), NEW x, x.id = d, x.parent = RowOf(r, d).parent,
         Updated(d) \/ x.latest = RowOf(r, d).latest
  PROVE  IsChanged(r, x)
<1> DEFINE old == RowOf(r, d)
<1>1. old \in View(r) /\ old.id = d
  BY ViewIds, RowOfSeen
<1>2. old \in docs \/ old \in write[r]
  BY <1>1 DEF View, Overlay
<1>3. PICK y \in docs : y.id = d /\ y.parent = old.parent /\ (Updated(d) \/ old.latest = y.latest)
  <2>1. CASE old \in docs
    BY <1>1, <2>1
  <2>2. CASE old \in write[r]
    <3>1. IsChanged(r, old)
      BY <2>2 DEF ChainInv, Written, IsNew
    <3> QED
      BY <1>1, <3>1 DEF IsChanged, IsMarked, IsRewritten
  <2> QED
    BY <1>2, <2>1, <2>2
<1> QED
  BY <1>3 DEF IsChanged, IsRewritten

LEMMA FailKeepsChains ==
  ASSUME TypeInv, ChainInv, VersionsFormChains, NEW r \in Requests, NEW e, Fail(r, e)
  PROVE  ChainInv' /\ VersionsFormChains'
<1>1. ChainInv'
  BY RollbackKeepsChains DEF Fail, locals
<1> QED
  BY <1>1 DEF Fail, locals, VersionsFormChains, Updated

LEMMA RefusalKeepsChains ==
  ASSUME TypeInv, ChainInv, VersionsFormChains, NEW r \in Requests, AuditRefused(r)
  PROVE  ChainInv' /\ VersionsFormChains'
<1>1. CASE call[r].op = Upload
  <2>1. /\ session' = [session EXCEPT ![r] = "inactive"]
        /\ write' = [write EXCEPT ![r] = {}]
        /\ Goto(r, "answer")
        /\ UNCHANGED <<docs, committed, call>>
    BY <1>1 DEF AuditRefused, locals
  <2>2. ChainInv'
    BY <2>1, RollbackKeepsChains
  <2> QED
    BY <2>1, <2>2 DEF VersionsFormChains, Updated
<1>2. CASE call[r].op # Upload
  BY <1>2, FailKeepsChains DEF AuditRefused
<1> QED
  BY <1>1, <1>2

\* Uploads.
LEMMA UploadKeepsChains ==
  ASSUME TypeInv, ChainInv, VersionsFormChains, NEW r \in Requests,
         CheckUpload(r) \/ MarkParent(r) \/ StoreFile(r) \/ InsertDoc(r),
         \A e : ~Fail(r, e)
  PROVE  ChainInv' /\ UNCHANGED <<docs, call>>
<1>1. CASE CheckUpload(r)
  <2> DEFINE l == IF call[r].doc = NoDoc THEN "store" ELSE "mark"
  <2>1. /\ Goto(r, l) /\ l \in PCs /\ (l = "store" => call[r].doc = NoDoc)
        /\ l \in {"store", "mark"}
        /\ UNCHANGED <<docs, write, session, committed, call>>
    BY <1>1 DEF CheckUpload, PCs
  <2> HIDE DEF l
  <2> QED
    BY <2>1, MoveKeepsChains
<1>2. CASE MarkParent(r)
  <2> DEFINE old == RowOf(r, call[r].doc)
             x == [old EXCEPT !.latest = FALSE]
  <2>1. /\ pc[r] = "mark" /\ call[r].doc \in IdsOf(docs) /\ RowHolders(r) = {} /\ old.latest
        /\ Put(r, x) /\ Goto(r, "store")
        /\ UNCHANGED <<docs, files, audited, session, committed, now, locals, outcome>>
    BY <1>2 DEF MarkParent
  <2>2. old \in Doc /\ old \in View(r) /\ old.id = call[r].doc
    BY <2>1, ViewIds, RowOfSeen, ViewType DEF TypeInv
  <2>3. x \in Doc /\ x.id = call[r].doc /\ x.parent = old.parent /\ ~x.latest
    BY <2>2 DEF Doc
  <2>4. call[r].op = Upload
    BY <2>1 DEF TypeInv, Progress
  <2>5. old \in docs
    <3>1. CASE old \in write[r]
      <4>1. r \notin IdsOf(docs)
        BY <2>1, NotYetThere DEF ChainInv
      <4>2. IsChanged(r, old)
        BY <2>1, <2>2, <3>1, <4>1 DEF ChainInv, Written, IsNew
      <4> QED
        BY <2>1, <2>4, <4>2 DEF IsChanged, IsMarked, IsRewritten
    <3> QED
      BY <2>2, <3>1 DEF View, Overlay
  <2>6. IsChanged(r, x)
    <3> HIDE DEF old, x
    <3> QED
      BY <2>1, <2>2, <2>3, <2>4, <2>5 DEF IsChanged, IsMarked
  <2>7. \A q \in Requests : q # r => x.id \notin IdsOf(write[q])
    BY <2>1, <2>3 DEF RowHolders, Target
  <2>8. pc[r] \notin Ending
    BY <2>1 DEF Ending
  <2> HIDE DEF x
  <2> QED
    BY <2>1, <2>3, <2>4, <2>6, <2>7, <2>8, PutKeepsChains DEF locals
<1>3. CASE StoreFile(r)
  BY <1>3, MoveKeepsChains DEF StoreFile, locals, PCs
<1>4. CASE InsertDoc(r)
  <2>1. /\ pc[r] = "insert" /\ Put(r, NewDoc(r)) /\ Goto(r, "audit")
        /\ UNCHANGED <<docs, files, audited, session, committed, now, locals, outcome>>
    BY <1>4 DEF InsertDoc
  <2>2. call[r].op = Upload /\ pc[r] \notin Ending /\ pc[r] # "done"
    BY <2>1 DEF TypeInv, Progress, Ending
  <2>3. NewDoc(r) \in Doc
    BY <2>1, NewDocType
  <2>4. IsNew(r, NewDoc(r)) /\ NewDoc(r).id = r
    BY <2>2 DEF IsNew, NewDoc
  <2>5. call[r].doc = NoDoc \/ HoldsParent(r)
    BY <2>1 DEF ChainInv, Written
  <2>6. \A q \in Requests : q # r => r \notin IdsOf(write[q])
    <3>1. r \notin IdsOf(docs)
      BY <2>2, NotYetThere DEF ChainInv
    <3> QED
      BY <3>1 DEF ChainInv, Written, IsNew, IsChanged, IdsOf
  <2> QED
    BY <2>1, <2>2, <2>3, <2>4, <2>5, <2>6, PutKeepsChains DEF locals
<1> QED
  BY <1>1, <1>2, <1>3, <1>4 DEF CheckUpload, MarkParent, StoreFile, InsertDoc, locals

\* Changes and deletions.
LEMMA UpdateKeepsChains ==
  ASSUME TypeInv, ChainInv, VersionsFormChains, NEW r \in Requests,
         ReadDocument(r) \/ RereadDocument(r) \/ WriteDocument(r) \/ SoftDelete(r),
         \A e : ~Fail(r, e)
  PROVE  ChainInv' /\ UNCHANGED <<docs, call>>
<1>1. CASE ReadDocument(r)
  <2> DEFINE l == IF call[r].op = Update THEN "reread" ELSE "sweep"
  <2>1. /\ Goto(r, l) /\ l \in PCs /\ l \in {"reread", "sweep"}
        /\ UNCHANGED <<docs, write, session, committed, call>>
    BY <1>1 DEF ReadDocument, PCs
  <2> HIDE DEF l
  <2> QED
    BY <2>1, MoveKeepsChains
<1>2. CASE RereadDocument(r)
  BY <1>2, MoveKeepsChains DEF RereadDocument, PCs
<1>3. CASE WriteDocument(r)
  <2> DEFINE old == RowOf(r, call[r].doc)
             new == [old EXCEPT !.type    = IF "type" \in sets[r] THEN call[r].type ELSE @,
                                !.latest  = IF "latest" \in sets[r] THEN wasLatest[r] ELSE @,
                                !.deleted = @ /\ "deleted" \notin sets[r]]
             l == IF new.deleted THEN "answer" ELSE "audit"
  <2>1. /\ pc[r] = "write" /\ Goto(r, l)
        /\ UNCHANGED write \/ (RowHolders(r) = {} /\ Put(r, new))
        /\ UNCHANGED <<docs, files, audited, session, committed, now, locals, outcome>>
    BY <1>3 DEF WriteDocument
  <2>2. call[r].op = Update /\ call[r].doc \in IdsOf(docs) /\ call[r].op # Upload
    BY <2>1, DocumentsAssumption DEF TypeInv, Progress, TargetsThere
  <2>3. old \in Doc /\ old.id = call[r].doc
    BY <2>2, ViewIds, RowOfSeen, ViewType DEF TypeInv
  <2>4. new \in Doc /\ new.id = call[r].doc /\ new.parent = old.parent
    BY <2>3 DEF Doc, TypeInv, TypeOK, Call
  <2>5. l \in {"audit", "answer"} /\ l \in PCs
    BY DEF PCs
  <2> HIDE DEF new, l
  <2>6. IsChanged(r, new)
    BY <2>2, <2>4, RewriteIsChange DEF Updated
  <2>7. CASE UNCHANGED write
    BY <2>1, <2>2, <2>5, <2>7, MoveKeepsChains DEF locals
  <2>8. CASE RowHolders(r) = {} /\ Put(r, new)
    <3>1. \A q \in Requests : q # r => new.id \notin IdsOf(write[q])
      BY <2>1, <2>2, <2>4, <2>8 DEF RowHolders, Target
    <3>2. pc[r] \notin Ending /\ l # "store"
      BY <2>1, <2>5 DEF Ending
    <3> QED
      BY <2>1, <2>2, <2>4, <2>5, <2>6, <2>8, <3>1, <3>2, PutKeepsChains DEF locals
  <2> QED
    BY <2>1, <2>7, <2>8
<1>4. CASE SoftDelete(r)
  <2> DEFINE x == [RowOf(r, Target(r)) EXCEPT !.deleted = TRUE]
  <2>1. /\ pc[r] = "sweep" /\ RowHolders(r) = {} /\ Put(r, x) /\ Goto(r, "audit")
        /\ UNCHANGED <<docs, files, audited, session, committed, now, locals, outcome>>
    BY <1>4 DEF SoftDelete
  <2>2. Target(r) \in IdsOf(docs) /\ call[r].op # Upload
    BY <2>1, SweepTarget
  <2>3. RowOf(r, Target(r)) \in Doc /\ RowOf(r, Target(r)).id = Target(r)
    BY <2>2, ViewIds, RowOfSeen, ViewType DEF TypeInv
  <2>4. /\ x \in Doc /\ x.id = Target(r) /\ x.parent = RowOf(r, Target(r)).parent
        /\ x.latest = RowOf(r, Target(r)).latest
    BY <2>3 DEF Doc
  <2>5. \A q \in Requests : q # r => x.id \notin IdsOf(write[q])
    BY <2>1, <2>2, <2>4 DEF RowHolders
  <2>6. pc[r] \notin Ending
    BY <2>1 DEF Ending
  <2> HIDE DEF x
  <2>7. IsChanged(r, x)
    BY <2>2, <2>4, RewriteIsChange
  <2> QED
    BY <2>1, <2>2, <2>4, <2>5, <2>6, <2>7, PutKeepsChains DEF locals
<1> QED
  BY <1>1, <1>2, <1>3, <1>4 DEF ReadDocument, RereadDocument, WriteDocument, SoftDelete, locals

\* What follows a change, and the end of a request.
LEMMA EndKeepsChains ==
  ASSUME TypeInv, ChainInv, VersionsFormChains, NEW r \in Requests,
         \/ BeginRetention(r) \/ ListBatch(r) \/ EmitAudit(r) \/ Answer(r) \/ CommitOrClose(r),
         \A e : ~Fail(r, e), ~AuditRefused(r)
  PROVE  ChainInv' /\ VersionsFormChains'
<1> DEFINE Moves(l) ==
      /\ Goto(r, l) /\ l \in PCs /\ l \notin {"store", "insert"}
      /\ l \in {"audit", "answer", "commit"} =>
           pc[r] \in {"audit", "answer", "commit"} \/ call[r].op # Upload
      /\ UNCHANGED <<docs, write, session, committed, call>>
<1>1. ASSUME NEW l, Moves(l)
      PROVE  ChainInv' /\ VersionsFormChains'
  <2>1. ChainInv'
    BY <1>1, MoveKeepsChains
  <2> QED
    BY <1>1, <2>1 DEF VersionsFormChains, Updated
<1>2. CASE BeginRetention(r)
  <2>1. Moves("list")
    BY <1>2 DEF BeginRetention, PCs
  <2> QED
    BY <1>1, <2>1
<1>3. CASE ListBatch(r)
  <2>1. call[r].op # Upload
    BY <1>3, DocumentsAssumption DEF ListBatch, TypeInv, Progress
  <2>2. Goto(r, "answer") \/ Goto(r, "sweep")
    BY <1>3 DEF ListBatch
  <2>3. Moves("answer") \/ Moves("sweep")
    BY <1>3, <2>1, <2>2 DEF ListBatch, PCs
  <2> QED
    BY <1>1, <2>3
<1>4. CASE EmitAudit(r)
  <2>1. pc[r] = "audit" /\ UNCHANGED <<docs, write, session, committed, call>>
    BY <1>4 DEF EmitAudit
  <2>2. Goto(r, "sweep") \/ Goto(r, "list") \/ Goto(r, "answer")
    BY <1>4 DEF EmitAudit, AfterAudit
  <2>3. Moves("sweep") \/ Moves("list") \/ Moves("answer")
    BY <2>1, <2>2 DEF PCs
  <2> QED
    BY <1>1, <2>3
<1>5. CASE Answer(r)
  <2>1. Moves("commit")
    BY <1>5 DEF Answer, locals, PCs
  <2> QED
    BY <1>1, <2>1
<1>6. CASE CommitOrClose(r)
  <2>1. CASE session[r] = "active" /\ docs' = View(r) /\ committed' = committed \cup {r}
    BY <1>6, <2>1, CommitKeepsChains DEF CommitOrClose, locals
  <2>2. CASE UNCHANGED <<docs, committed>>
    <3>1. ChainInv'
      BY <1>6, <2>2, RollbackKeepsChains DEF CommitOrClose, locals
    <3> QED
      BY <1>6, <2>2, <3>1 DEF CommitOrClose, locals, VersionsFormChains, Updated
  <2> QED
    BY <1>6, <2>1, <2>2 DEF CommitOrClose
<1> QED
  BY <1>2, <1>3, <1>4, <1>5, <1>6

LEMMA ChainsInit == Init => ChainInv /\ VersionsFormChains
<1> SUFFICES ASSUME Init PROVE ChainInv /\ VersionsFormChains
  OBVIOUS
<1>1. \A x \in docs : \E d \in Stored : x = StoredRow[d] /\ x.id = d
  BY DocumentsAssumption DEF Init
<1>2. Committed
  BY <1>1, DocumentsAssumption DEF Init, Committed, OneRow, IdsOf
<1>3. TypeInv
  BY TypeInvInit
<1>4. \A r \in Requests : write[r] = {} /\ pc[r] \in {"check", "begin", "read"}
  <2>1. \A r \in Requests : call[r].op \in {Upload, Delete, Update, Retention}
    BY <1>3 DEF TypeInv, TypeOK, Call
  <2> QED
    BY <2>1 DEF Init, FirstStep
<1>5. Written /\ Locked
  BY <1>4 DEF Written, Locked, OneRow, IdsOf
<1>6. VersionsFormChains
  <2>1. \A x \in docs : x.parent = NoDoc /\ x.latest /\ x.id # NoDoc
    BY <1>1, DocumentsAssumption DEF Ids
  <2> QED
    BY <2>1 DEF VersionsFormChains
<1> QED
  BY <1>2, <1>5, <1>6 DEF ChainInv

LEMMA ChainsNext ==
  TypeInv /\ ChainInv /\ VersionsFormChains /\ [Next]_vars => ChainInv' /\ VersionsFormChains'
<1> SUFFICES ASSUME TypeInv, ChainInv, VersionsFormChains, [Next]_vars
             PROVE  ChainInv' /\ VersionsFormChains'
  OBVIOUS
<1>1. ASSUME NEW r \in Requests, Step(r) \/ AuditStale(r) \/ Abort(r)
      PROVE  ChainInv' /\ VersionsFormChains'
  <2>1. CASE \E e : Fail(r, e)
    BY <2>1, FailKeepsChains
  <2>2. CASE AuditRefused(r)
    BY <2>2, RefusalKeepsChains
  <2>3. CASE ~AuditRefused(r) /\ \A e : ~Fail(r, e)
    <3>1. CASE CheckUpload(r) \/ MarkParent(r) \/ StoreFile(r) \/ InsertDoc(r)
      <4>1. ChainInv' /\ UNCHANGED <<docs, call>>
        BY <2>3, <3>1, UploadKeepsChains
      <4> QED
        BY <4>1 DEF VersionsFormChains, Updated
    <3>2. CASE ReadDocument(r) \/ RereadDocument(r) \/ WriteDocument(r) \/ SoftDelete(r)
      <4>1. ChainInv' /\ UNCHANGED <<docs, call>>
        BY <2>3, <3>2, UpdateKeepsChains
      <4> QED
        BY <4>1 DEF VersionsFormChains, Updated
    <3>3. CASE BeginRetention(r) \/ ListBatch(r) \/ EmitAudit(r) \/ Answer(r) \/ CommitOrClose(r)
      BY <2>3, <3>3, EndKeepsChains
    <3>4. ~(DeadlockAbort(r) \/ AuditStale(r) \/ Abort(r))
      BY <2>3 DEF DeadlockAbort, AuditStale, Abort
    <3> QED
      BY <1>1, <3>1, <3>2, <3>3, <3>4 DEF Step
  <2> QED
    BY <2>1, <2>2, <2>3
<1>2. CASE UNCHANGED <<docs, write, call, pc, session, committed>>
  <2>1. Committed' /\ Locked'
    BY <1>2 DEF ChainInv, Committed, Locked, OneRow, IdsOf
  <2>2. Written'
    <3>1. \A q, y : (IsNew(q, y)' <=> IsNew(q, y)) /\ (IsChanged(q, y)' <=> IsChanged(q, y))
      BY <1>2 DEF IsNew, IsChanged, IsMarked, IsRewritten, Updated
    <3>2. \A q : HoldsParent(q)' <=> HoldsParent(q)
      BY <1>2 DEF HoldsParent
    <3> QED
      BY <1>2, <3>1, <3>2 DEF ChainInv, Written, OneRow, IdsOf
  <2>3. VersionsFormChains'
    BY <1>2 DEF VersionsFormChains, Updated
  <2> QED
    BY <2>1, <2>2, <2>3 DEF ChainInv
<1> QED
  BY <1>1, <1>2 DEF Next, Tick, AllAnswered, vars

\* Versions form chains in every reachable state, for any number of uploads, deletions, changes
\* and retention runs: two uploads of a new version of one document never both succeed, and the
\* flag says which version is the latest.
THEOREM UploadsFormChains == Spec => []VersionsFormChains
<1>1. Init => TypeInv /\ ChainInv /\ VersionsFormChains
  BY TypeInvInit, ChainsInit
<1>2. TypeInv /\ ChainInv /\ VersionsFormChains /\ [Next]_vars =>
        (TypeInv /\ ChainInv /\ VersionsFormChains)'
  BY TypeInvNext, ChainsNext
<1> QED
  BY <1>1, <1>2, PTL DEF Spec

-----------------------------------------------------------------------------
(***************************************************************************)
(* Files.                                                                  *)
(***************************************************************************)

\* A step that writes rows of documents that are there, or drops what it has written.
LEMMA StepKeepsFiles ==
  ASSUME TypeInv, FilesInv, NEW r \in Requests, files \subseteq files',
         docs' = docs \/ docs' = View(r),
         NEW W, write' = [write EXCEPT ![r] = W],
         \A x \in W : x \in write[r] \/ x.id \in files,
         NEW l \in PCs, Goto(r, l), l = "insert" => r \in files'
  PROVE  FilesInv'
<1>1. write'[r] = W /\ \A q \in Requests : q # r => write'[q] = write[q]
  BY DEF TypeInv, TypeOK
<1>2. pc'[r] = l /\ \A q \in Requests : q # r => pc'[q] = pc[q]
  BY DEF TypeInv, TypeOK, Goto
<1>3. IdsOf(write[r]) \subseteq files
  BY DEF TypeInv, TargetsThere, FilesInv, IdsOf
<1>4. IdsOf(docs') \subseteq files'
  BY <1>3, ViewIds DEF FilesInv
<1>5. ASSUME NEW q \in Requests, pc'[q] = "insert" \/ q \in IdsOf(write'[q])
      PROVE  q \in files'
  <2>1. CASE q = r
    BY <1>1, <1>2, <1>3, <1>5, <2>1 DEF IdsOf
  <2>2. CASE q # r
    BY <1>1, <1>2, <1>5, <2>2 DEF FilesInv
  <2> QED
    BY <2>1, <2>2
<1> QED
  BY <1>4, <1>5 DEF FilesInv, IdsOf

LEMMA FilesNext == TypeInv /\ FilesInv /\ [Next]_vars => FilesInv'
<1> SUFFICES ASSUME TypeInv, FilesInv, [Next]_vars PROVE FilesInv'
  OBVIOUS
<1>1. ASSUME NEW r \in Requests, Step(r) \/ AuditStale(r) \/ Abort(r)
      PROVE  FilesInv'
  <2>0. files \subseteq files'
    <3>1. CASE StoreFile(r)
      BY <3>1 DEF StoreFile
    <3>2. CASE ~StoreFile(r)
      BY <1>1, <3>2 DEF Step, AuditStale, Abort, CheckUpload, MarkParent, InsertDoc,
         ReadDocument, RereadDocument, WriteDocument, BeginRetention, ListBatch, SoftDelete,
         EmitAudit, Answer, CommitOrClose, DeadlockAbort, AuditRefused
    <3> QED
      BY <3>1, <3>2
  <2> DEFINE Quiet(l) == Goto(r, l) /\ l \in PCs /\ l # "insert"
  <2>1. ASSUME docs' = docs \/ docs' = View(r), write' = [write EXCEPT ![r] = {}],
               NEW l, Quiet(l)
        PROVE  FilesInv'
    <3> DEFINE W == {}
    <3>1. write' = [write EXCEPT ![r] = W] /\ \A x \in W : x \in write[r] \/ x.id \in files
      BY <2>1
    <3> HIDE DEF W
    <3> QED
      BY <2>0, <2>1, <3>1, StepKeepsFiles
  <2>2. ASSUME docs' = docs, write' = write, NEW l \in PCs, Goto(r, l), l = "insert" => r \in files'
        PROVE  FilesInv'
    <3>1. write' = [write EXCEPT ![r] = write[r]]
      BY <2>2 DEF TypeInv, TypeOK
    <3> QED
      BY <2>0, <2>2, <3>1, StepKeepsFiles
  <2>3. ASSUME docs' = docs, NEW x, Put(r, x), x.id \in files, NEW l, Quiet(l)
        PROVE  FilesInv'
    <3> DEFINE W == Overlay(write[r], {x})
    <3>1. write' = [write EXCEPT ![r] = W]
      BY <2>3 DEF Put
    <3>2. \A y \in W : y \in write[r] \/ y.id \in files
      BY <2>3 DEF Overlay
    <3> HIDE DEF W
    <3> QED
      BY <2>0, <2>3, <3>1, <3>2, StepKeepsFiles
  <2>4. ASSUME NEW e, Fail(r, e)
        PROVE  FilesInv'
    <3>1. Quiet("done")
      BY <2>4 DEF Fail, PCs
    <3> QED
      BY <2>1, <2>4, <3>1 DEF Fail
  <2>5. CASE AuditRefused(r)
    <3>1. Quiet("answer") \/ \E e : Fail(r, e)
      BY <2>5 DEF AuditRefused, PCs
    <3> QED
      BY <2>1, <2>4, <2>5, <3>1 DEF AuditRefused
  <2>6. IdsOf(docs) \subseteq files
    BY DEF FilesInv
  <2>7. CASE \A e : ~Fail(r, e)
    <3>1. CASE CheckUpload(r)
      <4>1. Quiet("store") \/ Quiet("mark")
        BY <2>7, <3>1 DEF CheckUpload, PCs
      <4> QED
        BY <2>2, <2>7, <3>1, <4>1 DEF CheckUpload
    <3>2. CASE MarkParent(r)
      <4> DEFINE x == [RowOf(r, call[r].doc) EXCEPT !.latest = FALSE]
      <4>1. /\ call[r].doc \in IdsOf(docs) /\ Put(r, x) /\ Quiet("store") /\ docs' = docs
        BY <2>7, <3>2 DEF MarkParent, PCs
      <4>2. x.id \in files
        BY <2>6, <4>1, ViewIds, RowOfSeen, ViewType DEF TypeInv, Doc
      <4> HIDE DEF x
      <4> QED
        BY <2>3, <4>1, <4>2
    <3>3. CASE StoreFile(r)
      BY <2>2, <2>7, <3>3 DEF StoreFile, PCs
    <3>4. CASE InsertDoc(r)
      <4>1. pc[r] = "insert" /\ Put(r, NewDoc(r)) /\ Quiet("audit") /\ docs' = docs
        BY <2>7, <3>4 DEF InsertDoc, PCs
      <4>2. NewDoc(r).id \in files
        BY <4>1, NewDocType DEF FilesInv
      <4> QED
        BY <2>3, <4>1, <4>2
    <3>5. CASE ReadDocument(r) \/ RereadDocument(r)
      <4>1. Quiet("reread") \/ Quiet("sweep") \/ Quiet("write")
        BY <2>7, <3>5 DEF ReadDocument, RereadDocument, PCs
      <4> QED
        BY <2>2, <2>7, <3>5, <4>1 DEF ReadDocument, RereadDocument
    <3>6. CASE WriteDocument(r)
      <4> DEFINE old == RowOf(r, call[r].doc)
                 new == [old EXCEPT !.type    = IF "type" \in sets[r] THEN call[r].type ELSE @,
                                    !.latest  = IF "latest" \in sets[r] THEN wasLatest[r] ELSE @,
                                    !.deleted = @ /\ "deleted" \notin sets[r]]
      <4>1. /\ pc[r] = "write" /\ docs' = docs /\ (UNCHANGED write \/ Put(r, new))
            /\ Quiet("answer") \/ Quiet("audit")
        BY <3>6 DEF WriteDocument, PCs
      <4>2. call[r].doc \in IdsOf(docs)
        BY <4>1 DEF TypeInv, TargetsThere
      <4>3. new.id \in files
        BY <2>6, <4>2, ViewIds, RowOfSeen, ViewType DEF TypeInv, Doc
      <4> HIDE DEF new
      <4> QED
        BY <2>2, <2>3, <4>1, <4>3
    <3>7. CASE SoftDelete(r)
      <4> DEFINE x == [RowOf(r, Target(r)) EXCEPT !.deleted = TRUE]
      <4>1. pc[r] = "sweep" /\ docs' = docs /\ Put(r, x) /\ Quiet("audit")
        BY <3>7 DEF SoftDelete, PCs
      <4>2. x.id \in files
        BY <2>6, <4>1, SweepTarget, ViewIds, RowOfSeen, ViewType DEF TypeInv, Doc
      <4> HIDE DEF x
      <4> QED
        BY <2>3, <4>1, <4>2
    <3>8. CASE BeginRetention(r) \/ ListBatch(r) \/ Answer(r) \/ (EmitAudit(r) /\ ~AuditRefused(r))
      <4>1. docs' = docs /\ write' = write
        BY <3>8 DEF BeginRetention, ListBatch, Answer, EmitAudit
      <4>2. Quiet("list") \/ Quiet("answer") \/ Quiet("sweep") \/ Quiet("commit")
        BY <3>8 DEF BeginRetention, ListBatch, Answer, EmitAudit, AfterAudit, PCs
      <4> QED
        BY <2>2, <4>1, <4>2
    <3>9. CASE CommitOrClose(r)
      <4>1. Quiet("done") /\ write' = [write EXCEPT ![r] = {}] /\ (docs' = docs \/ docs' = View(r))
        BY <3>9 DEF CommitOrClose, PCs
      <4> QED
        BY <2>1, <4>1
    <3>10. ~Abort(r) /\ (DeadlockAbort(r) \/ AuditStale(r) => AuditRefused(r))
      BY <2>7 DEF DeadlockAbort, AuditStale, Abort
    <3> QED
      BY <1>1, <2>5, <3>1, <3>2, <3>3, <3>4, <3>5, <3>6, <3>7, <3>8, <3>9, <3>10 DEF Step
  <2> QED
    BY <2>4, <2>7
<1>2. CASE UNCHANGED <<docs, files, write, pc>>
  BY <1>2 DEF FilesInv, IdsOf
<1> QED
  BY <1>1, <1>2 DEF Next, Tick, AllAnswered, vars

\* A committed document has its file in every reachable state, whichever uploads fail, are cut
\* off or roll back, before or after the file is there.
THEOREM DocumentsHaveTheirFiles == Spec => []EveryDocumentHasItsFile
<1>1. Init => TypeInv /\ FilesInv
  <2> SUFFICES ASSUME Init PROVE FilesInv
    BY TypeInvInit
  <2>1. IdsOf(docs) \subseteq files
    BY DocumentsAssumption DEF Init, IdsOf
  <2>2. \A r \in Requests : write[r] = {} /\ pc[r] # "insert"
    <3>1. \A r \in Requests : call[r].op \in {Upload, Delete, Update, Retention}
      BY TypeInvInit DEF TypeInv, TypeOK, Call
    <3> QED
      BY <3>1 DEF Init, FirstStep
  <2> QED
    BY <2>1, <2>2 DEF FilesInv, IdsOf
<1>2. TypeInv /\ FilesInv /\ [Next]_vars => (TypeInv /\ FilesInv)'
  BY TypeInvNext, FilesNext
<1>3. FilesInv => EveryDocumentHasItsFile
  BY DEF FilesInv, EveryDocumentHasItsFile
<1> QED
  BY <1>1, <1>2, <1>3, PTL DEF Spec

===============================================================================
