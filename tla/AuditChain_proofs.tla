--------------------------- MODULE AuditChain_proofs ---------------------------
(***************************************************************************)
(* Proofs about AuditChain, for every number of requests, whatever they do   *)
(* to their entities, however often they are cut off.                        *)
(***************************************************************************)
EXTENDS AuditChain, SequenceTheorems, TLAPS

-----------------------------------------------------------------------------
(***************************************************************************)
(* The inductive invariants.                                               *)
(***************************************************************************)

\* Labels before the audit event is inserted, and after it.
Before == {"change", "subject", "latest", "emit"}
After == {"after", "answer", "log", "commit"}

\* What a request at a label has done so far, and what its client has been told.
Progress ==
  \A r \in Requests :
    /\ pc[r] \in Before => session[r] = "active" /\ pending[r] = {}
    /\ pc[r] \in Before \cup {"after", "answer"} => answer[r] = "none"
    /\ pc[r] \in {"log", "commit"} => answer[r] = "success"
    /\ pc[r] = "commit" /\ session[r] = "active" => logged[r]
    /\ r \in changed => pc[r] = "done" /\ answer[r] # "error"

\* A usable session holds the audit event exactly when the tenant has an audit subject.
Audited ==
  \A r \in Requests :
    /\ pc[r] \in {"latest", "emit"} => auditSubject
    /\ pc[r] \in After /\ session[r] = "active" => (auditSubject <=> pending[r] # {})
    /\ \A x \in pending[r] : x.content.payload = r

\* What is committed, is committed together.
Together ==
  /\ \A r \in Requests : r \in changed <=> r \in audit_log
  /\ \A r \in Requests :
       r \in changed /\ auditSubject => \E x \in events : x.content.payload = r
  /\ \A x \in events : auditSubject /\ x.content.payload \in changed

TogetherInv == Audited /\ Together

\* A row with the predecessor h is committed.
Taken(h) == \E y \in events : y.prev = h

\* The chain may be extended after h, as far as a reader of the latest hash can tell.
Extensible(h) ==
  \/ h = NoHash /\ events = {}
  \/ \E x \in events : IsLatest(x, events) /\ x.hash = h

\* The committed rows are one chain: only its last row has no successor.
OneEnd ==
  /\ events # {} => Taken(NoHash)
  /\ \A x, y \in events : ~Taken(x.hash) /\ ~Taken(y.hash) => x = y

\* A hash read as the latest one is still that, or will be refused.
ReadsTheEnd == \A r \in Requests : pc[r] = "emit" => Taken(previous[r]) \/ Extensible(previous[r])

\* An uncommitted row extends the chain at its end, so there is no second one.
PendingExtends ==
  /\ \A r \in Requests : \A p \in pending[r] : ~Taken(p.prev) /\ Extensible(p.prev)
  /\ \A r, q \in Requests :
       r # q => \A p \in pending[r], x \in pending[q] : ~Collides(p, x)
  /\ \A r \in Requests : \A p, x \in pending[r] : p = x

ChainInv == OneEnd /\ ReadsTheEnd /\ PendingExtends

-----------------------------------------------------------------------------
(***************************************************************************)
(* Types, and what a request has done when it is at a label.                *)
(***************************************************************************)

TypeInv == TypeOK /\ Progress

\* The audit event a request inserts is a row of the table.
LEMMA AuditRowType ==
  ASSUME TypeOK, NEW r \in Requests
  PROVE  /\ AuditRow(r) \in Row
         /\ AuditRow(r).content = AuditContent(r)
         /\ AuditRow(r).content.subject = AuditSubject
         /\ AuditRow(r).content.payload = r
         /\ AuditRow(r).prev = previous[r]
<1>1. AuditContent(r) \in Content
  BY AuditAssumption DEF AuditContent, Content, TypeOK
<1>2. previous[r] \in Seq(Content) /\ nextSeq \in Nat
  BY DEF TypeOK, Hashes
<1>3. compute_hash(AuditContent(r), previous[r]) \in Hashes
  BY <1>1, <1>2, AppendProperties DEF compute_hash, Hashes
<1>4. AuditContent(r).subject = AuditSubject /\ AuditContent(r).payload = r
  BY DEF AuditContent
<1>5. <<r, 1>> \in Requests \X Nat
  OBVIOUS
<1> HIDE DEF AuditContent
<1> QED
  BY <1>1, <1>2, <1>3, <1>4, <1>5 DEF AuditRow, Row, Hashes

LEMMA LatestHashType ==
  ASSUME NEW rows \in SUBSET Row, NEW h \in LatestHashes(rows)
  PROVE  h \in Hashes
<1>1. NoHash \in Hashes
  BY DEF NoHash, Hashes
<1> QED
  BY <1>1 DEF LatestHashes, Row

\* A transaction that is rolled back leaves nothing behind.
LEMMA FailKeepsTypes ==
  ASSUME TypeInv, NEW r \in Requests, pc[r] # "done", Fail(r)
  PROVE  TypeInv'
<1>1. TypeOK'
  BY DEF TypeInv, TypeOK, Fail, Goto, PCs
<1>2. Progress'
  BY DEF TypeInv, TypeOK, Progress, Fail, Goto, Before
<1> QED
  BY <1>1, <1>2 DEF TypeInv

LEMMA TypeInvInit == Init => TypeInv
<1> SUFFICES ASSUME Init PROVE TypeInv
  OBVIOUS
<1>1. NoHash \in Hashes
  BY DEF NoHash, Hashes
<1>2. TypeOK
  BY <1>1 DEF Init, TypeOK, PCs
<1>3. Progress
  BY DEF Init, Progress, Before
<1> QED
  BY <1>2, <1>3 DEF TypeInv

LEMMA TypeInvStep ==
  ASSUME TypeInv, NEW r \in Requests, Step(r)
  PROVE  TypeInv'
<1>1. CASE Change(r)
  <2>1. CASE Fail(r)
    BY <1>1, <2>1, FailKeepsTypes DEF Change
  <2>2. CASE ~Fail(r)
    BY <1>1, <2>2 DEF Change, Goto, TypeInv, TypeOK, Progress, Before, PCs
  <2> QED
    BY <2>1, <2>2
<1>2. CASE FindAuditSubject(r)
  BY <1>2 DEF FindAuditSubject, Goto, TypeInv, TypeOK, Progress, Before, PCs
<1>3. CASE GetLatestHash(r)
  <2>1. PICK h \in LatestHashes(events) : previous' = [previous EXCEPT ![r] = h]
    BY <1>3 DEF GetLatestHash
  <2>2. h \in Hashes
    BY LatestHashType DEF TypeInv, TypeOK
  <2> QED
    BY <1>3, <2>1, <2>2 DEF GetLatestHash, Goto, TypeInv, TypeOK, Progress, Before, PCs
<1>4. CASE EmitAuditEvent(r)
  <2>1. CASE EmitRefused(r)
    BY <1>4, <2>1 DEF EmitAuditEvent, EmitRefused, FlushFails, Goto, TypeInv, TypeOK, Progress,
                     Before, PCs
  <2>2. CASE ~EmitRefused(r)
    <3>1. AuditRow(r) \in Row
      BY AuditRowType DEF TypeInv
    <3> HIDE DEF AuditRow
    <3> QED
      BY <1>4, <2>2, <3>1 DEF EmitAuditEvent, Goto, TypeInv, TypeOK, Progress, Before, PCs
  <2> QED
    BY <2>1, <2>2
<1>5. CASE FinishRoute(r)
  <2>1. CASE Fail(r)
    BY <1>5, <2>1, FailKeepsTypes DEF FinishRoute
  <2>2. CASE ~Fail(r)
    BY <1>5, <2>2 DEF FinishRoute, Goto, TypeInv, TypeOK, Progress, Before, PCs
  <2> QED
    BY <2>1, <2>2
<1>6. CASE Answer(r)
  BY <1>6 DEF Answer, Goto, TypeInv, TypeOK, Progress, Before, PCs
<1>7. CASE LogAction(r)
  <2>1. pc[r] = "log" /\ pc' = [pc EXCEPT ![r] = "commit"]
    BY <1>7 DEF LogAction, Goto
  <2>2. /\ UNCHANGED <<events, changed, audit_log, auditSubject, nextSeq, now, op, stamp,
                       previous, answer>>
        /\ \/ session[r] = "active" /\ logged' = [logged EXCEPT ![r] = TRUE]
              /\ UNCHANGED <<session, pending>>
           \/ FlushFails(r)
    BY <1>7 DEF LogAction
  <2>3. TypeOK'
    BY <2>1, <2>2 DEF FlushFails, TypeInv, TypeOK, PCs
  <2>4. Progress'
    BY <2>1, <2>2 DEF FlushFails, TypeInv, TypeOK, Progress, Before
  <2> QED
    BY <2>3, <2>4 DEF TypeInv
<1>8. CASE CommitOrClose(r)
  BY <1>8 DEF CommitOrClose, Goto, TypeInv, TypeOK, Progress, Before, PCs
<1> QED
  BY <1>1, <1>2, <1>3, <1>4, <1>5, <1>6, <1>7, <1>8 DEF Step

\* The rows, sessions and answers of AuditChain keep their types, and a request has changed
\* nothing that others see before it commits.
THEOREM TypeCorrect == Spec => []TypeInv
<1>1. Init => TypeInv
  BY TypeInvInit
<1>2. TypeInv /\ [Next]_vars => TypeInv'
  <2> SUFFICES ASSUME TypeInv, [Next]_vars PROVE TypeInv'
    OBVIOUS
  <2>1. ASSUME NEW r \in Requests, Step(r) PROVE TypeInv'
    BY <2>1, TypeInvStep
  <2>2. ASSUME NEW r \in Requests, Abort(r) PROVE TypeInv'
    BY <2>2, FailKeepsTypes DEF Abort
  <2>3. CASE Tick
    BY <2>3 DEF Tick, TypeInv, TypeOK, Progress
  <2>4. CASE UNCHANGED vars
    BY <2>4 DEF vars, TypeInv, TypeOK, Progress
  <2> QED
    BY <2>1, <2>2, <2>3, <2>4 DEF Next, AllAnswered
<1> QED
  BY <1>1, <1>2, PTL DEF Spec

-----------------------------------------------------------------------------
(***************************************************************************)
(* A change and its two audit records.                                     *)
(***************************************************************************)

LEMMA TogetherKept ==
  ASSUME Together, UNCHANGED <<events, changed, audit_log, auditSubject>>
  PROVE  Together'
BY DEF Together

\* A session that is given up holds no audit event, the others keep theirs.
LEMMA FailKeepsAudited ==
  ASSUME TypeInv, TogetherInv, NEW r \in Requests, Fail(r)
  PROVE  TogetherInv'
<1>1. Together'
  BY TogetherKept DEF Fail, TogetherInv
<1>2. Audited'
  BY DEF Fail, Goto, TypeInv, TypeOK, TogetherInv, Audited, After
<1> QED
  BY <1>1, <1>2 DEF TogetherInv

\* A refused audit event leaves an inactive session, which commits nothing.
LEMMA FlushFailsKeepsAudited ==
  ASSUME TypeInv, TogetherInv, NEW r \in Requests, NEW l \in {"after", "commit"},
         Goto(r, l), FlushFails(r), UNCHANGED auditSubject
  PROVE  Audited'
BY DEF FlushFails, Goto, TypeInv, TypeOK, TogetherInv, Audited, After

\* The commit of a usable session.
LEMMA CommitTogether ==
  ASSUME TypeInv, TogetherInv, NEW r \in Requests, CommitOrClose(r)
  PROVE  TogetherInv'
<1> USE DEF TypeInv, TypeOK, TogetherInv
<1>1. /\ pc[r] = "commit" /\ pc' = [pc EXCEPT ![r] = "done"]
      /\ pending' = [pending EXCEPT ![r] = {}]
      /\ UNCHANGED auditSubject
  BY DEF CommitOrClose, Goto
<1>2. Audited'
  BY <1>1 DEF CommitOrClose, Audited, After
<1>3. CASE session[r] = "inactive"
  <2>1. UNCHANGED <<events, changed, audit_log, auditSubject>>
    BY <1>1, <1>3 DEF CommitOrClose
  <2> QED
    BY <2>1, <1>2, TogetherKept
<1>4. CASE session[r] = "active"
  <2>1. /\ events' = events \cup pending[r]
        /\ changed' = changed \cup {r}
        /\ audit_log' = audit_log \cup {r}
    BY <1>1, <1>4 DEF CommitOrClose, Progress
  <2>2. auditSubject <=> pending[r] # {}
    BY <1>1, <1>4 DEF Audited, After
  <2>3. \A x \in pending[r] : x.content.payload = r
    BY DEF Audited
  <2>4. \A q \in Requests : q \in changed' <=> q \in audit_log'
    BY <2>1 DEF Together
  <2>5. \A q \in Requests :
          q \in changed' /\ auditSubject' => \E x \in events' : x.content.payload = q
    BY <1>1, <2>1, <2>2, <2>3 DEF Together
  <2>6. \A x \in events' : auditSubject' /\ x.content.payload \in changed'
    BY <1>1, <2>1, <2>2, <2>3 DEF Together
  <2> QED
    BY <1>2, <2>4, <2>5, <2>6 DEF Together
<1> QED
  BY <1>3, <1>4 DEF CommitOrClose

LEMMA TogetherStep ==
  ASSUME TypeInv, TogetherInv, NEW r \in Requests, Step(r)
  PROVE  TogetherInv'
<1> USE DEF TypeInv, TypeOK, TogetherInv
<1>1. CASE Change(r)
  <2>1. CASE Fail(r)
    BY <2>1, FailKeepsAudited
  <2>2. CASE ~Fail(r)
    <3>1. Together'
      BY <1>1, <2>2, TogetherKept DEF Change
    <3>2. Audited'
      BY <1>1, <2>2 DEF Change, Goto, Audited, After
    <3> QED
      BY <3>1, <3>2
  <2> QED
    BY <2>1, <2>2
<1>2. CASE FindAuditSubject(r)
  <2>1. Together'
    BY <1>2, TogetherKept DEF FindAuditSubject
  <2>2. session[r] = "active" /\ pending[r] = {}
    BY <1>2 DEF FindAuditSubject, Progress, Before
  <2>3. Audited'
    BY <1>2, <2>2 DEF FindAuditSubject, Goto, Audited, After
  <2> QED
    BY <2>1, <2>3
<1>3. CASE GetLatestHash(r)
  <2>1. Together'
    BY <1>3, TogetherKept DEF GetLatestHash
  <2>2. Audited'
    BY <1>3 DEF GetLatestHash, Goto, Audited, After
  <2> QED
    BY <2>1, <2>2
<1>4. CASE EmitAuditEvent(r)
  <2>1. Together'
    BY <1>4, TogetherKept DEF EmitAuditEvent, EmitRefused
  <2>2. CASE EmitRefused(r)
    BY <2>1, <2>2, FlushFailsKeepsAudited DEF EmitRefused
  <2>3. CASE ~EmitRefused(r)
    <3>1. pc[r] = "emit" /\ pc' = [pc EXCEPT ![r] = "after"]
      BY <1>4, <2>3 DEF EmitAuditEvent, Goto
    <3>2. /\ pending' = [pending EXCEPT ![r] = {AuditRow(r)}]
          /\ UNCHANGED <<session, auditSubject>>
      BY <1>4, <2>3 DEF EmitAuditEvent
    <3>3. AuditRow(r).content.payload = r
      BY AuditRowType
    <3> HIDE DEF AuditRow
    <3>4. Audited'
      BY <3>1, <3>2, <3>3 DEF Audited, After
    <3> QED
      BY <2>1, <3>4
  <2> QED
    BY <2>2, <2>3
<1>5. CASE FinishRoute(r)
  <2>1. CASE Fail(r)
    BY <2>1, FailKeepsAudited
  <2>2. CASE ~Fail(r)
    <3>1. Together'
      BY <1>5, <2>2, TogetherKept DEF FinishRoute
    <3>2. Audited'
      BY <1>5, <2>2 DEF FinishRoute, Goto, Audited, After
    <3> QED
      BY <3>1, <3>2
  <2> QED
    BY <2>1, <2>2
<1>6. CASE Answer(r)
  <2>1. Together'
    BY <1>6, TogetherKept DEF Answer
  <2>2. Audited'
    BY <1>6 DEF Answer, Goto, Audited, After
  <2> QED
    BY <2>1, <2>2
<1>7. CASE LogAction(r)
  <2>1. Together'
    BY <1>7, TogetherKept DEF LogAction
  <2>2. CASE FlushFails(r)
    <3>1. Goto(r, "commit") /\ UNCHANGED auditSubject
      BY <1>7 DEF LogAction
    <3> QED
      BY <2>1, <2>2, <3>1, FlushFailsKeepsAudited
  <2>3. CASE ~FlushFails(r)
    <3>1. Audited'
      BY <1>7, <2>3 DEF LogAction, Goto, Audited, After
    <3> QED
      BY <2>1, <3>1
  <2> QED
    BY <2>2, <2>3
<1>8. CASE CommitOrClose(r)
  BY <1>8, CommitTogether
<1> QED
  BY <1>1, <1>2, <1>3, <1>4, <1>5, <1>6, <1>7, <1>8 DEF Step

\* However their transactions end, a change is committed exactly when both its audit records
\* are, and never for a client that was told of an error.
THEOREM ChangeAndAuditStayTogether == Spec => []ChangeAndAuditTogether
<1>1. Init => TogetherInv
  BY DEF Init, TogetherInv, Audited, Together, After
<1>2. TypeInv /\ TogetherInv /\ [Next]_vars => TogetherInv'
  <2> SUFFICES ASSUME TypeInv, TogetherInv, [Next]_vars PROVE TogetherInv'
    OBVIOUS
  <2>1. ASSUME NEW r \in Requests, Step(r) PROVE TogetherInv'
    BY <2>1, TogetherStep
  <2>2. ASSUME NEW r \in Requests, Abort(r) PROVE TogetherInv'
    BY <2>2, FailKeepsAudited DEF Abort
  <2>3. CASE Tick
    BY <2>3 DEF Tick, TogetherInv, Audited, Together
  <2>4. CASE UNCHANGED vars
    BY <2>4 DEF vars, TogetherInv, Audited, Together
  <2> QED
    BY <2>1, <2>2, <2>3, <2>4 DEF Next, AllAnswered
<1>3. TypeInv /\ TogetherInv => ChangeAndAuditTogether
  <2> SUFFICES ASSUME TypeInv, TogetherInv, NEW r \in Requests
               PROVE  /\ r \in changed <=> r \in audit_log
                      /\ r \in changed /\ auditSubject <=> \E x \in events : x.content.payload = r
                      /\ answer[r] = "error" => r \notin changed
    BY DEF ChangeAndAuditTogether
  <2> QED
    BY DEF TypeInv, Progress, TogetherInv, Together
<1> QED
  BY <1>1, <1>2, <1>3, TypeCorrect, PTL DEF Spec

-----------------------------------------------------------------------------
(***************************************************************************)
(* The chain of the audit subject.                                         *)
(***************************************************************************)

\* All rows belong to the audit subject, so two with one predecessor collide.
LEMMA SamePredecessorCollides ==
  ASSUME NEW x \in Row, NEW y \in Row, x.prev = y.prev
  PROVE  Collides(x, y)
BY AuditAssumption DEF Collides, Row, Content

\* A request that inserts nothing and leaves the committed rows alone keeps the chain's
\* invariant, if it does not come to the insert.
LEMMA ChainKept ==
  ASSUME TypeInv, ChainInv, UNCHANGED events,
         \A q \in Requests : pending'[q] \subseteq pending[q],
         \A q \in Requests : pc'[q] = "emit" => pc[q] = "emit" /\ previous'[q] = previous[q]
  PROVE  ChainInv'
<1>1. OneEnd'
  BY DEF ChainInv, OneEnd, Taken
<1>2. ReadsTheEnd'
  BY DEF ChainInv, ReadsTheEnd, Taken, Extensible, IsLatest
<1>3. PendingExtends'
  <2>1. \A r \in Requests : \A p \in pending'[r] : ~Taken(p.prev)' /\ Extensible(p.prev)'
    BY DEF ChainInv, PendingExtends, Taken, Extensible, IsLatest
  <2>2. \A r, q \in Requests :
          r # q => \A p \in pending'[r], x \in pending'[q] : ~Collides(p, x)
    BY DEF ChainInv, PendingExtends
  <2>3. \A r \in Requests : \A p, x \in pending'[r] : p = x
    BY DEF ChainInv, PendingExtends
  <2> QED
    BY <2>1, <2>2, <2>3 DEF PendingExtends
<1> QED
  BY <1>1, <1>2, <1>3 DEF ChainInv

LEMMA FailKeepsChain ==
  ASSUME TypeInv, ChainInv, NEW r \in Requests, Fail(r)
  PROVE  ChainInv'
<1>1. UNCHANGED <<events, previous>> /\ \A q \in Requests : pending'[q] \subseteq pending[q]
  BY DEF Fail, TypeInv, TypeOK
<1>2. \A q \in Requests : pc'[q] = "emit" => pc[q] = "emit"
  BY DEF Fail, Goto, TypeInv, TypeOK
<1> QED
  BY <1>1, <1>2, ChainKept

\* What is read as the latest hash is the hash of a latest row.
LEMMA ReadKeepsChain ==
  ASSUME TypeInv, ChainInv, NEW r \in Requests, GetLatestHash(r)
  PROVE  ChainInv'
<1>1. PICK h \in LatestHashes(events) : previous' = [previous EXCEPT ![r] = h]
  BY DEF GetLatestHash
<1>2. UNCHANGED <<events, pending>> /\ pc' = [pc EXCEPT ![r] = "emit"]
  BY DEF GetLatestHash, Goto
<1>3. Extensible(h)
  BY <1>1 DEF LatestHashes, Extensible
<1>4. OneEnd' /\ PendingExtends'
  BY <1>2 DEF ChainInv, OneEnd, PendingExtends, Taken, Extensible, IsLatest
<1>5. ReadsTheEnd'
  <2> SUFFICES ASSUME NEW q \in Requests, pc'[q] = "emit"
               PROVE  Taken(previous'[q]) \/ Extensible(previous'[q])
    BY <1>2 DEF ReadsTheEnd, Taken, Extensible, IsLatest
  <2>1. CASE q = r
    BY <1>1, <1>3, <2>1 DEF TypeInv, TypeOK
  <2>2. CASE q # r
    BY <1>1, <1>2, <2>2 DEF ChainInv, ReadsTheEnd, TypeInv, TypeOK
  <2> QED
    BY <2>1, <2>2
<1> QED
  BY <1>4, <1>5 DEF ChainInv

\* An accepted insert extends the chain at its end, and alone.
LEMMA InsertKeepsChain ==
  ASSUME TypeInv, ChainInv, NEW r \in Requests,
         pc[r] = "emit", Goto(r, "after"), ~MustWait(r),
         ~ \E x \in events : Collides(AuditRow(r), x),
         pending' = [pending EXCEPT ![r] = {AuditRow(r)}],
         UNCHANGED <<events, previous>>
  PROVE  ChainInv'
<1> DEFINE a == AuditRow(r)
<1>1. a \in Row /\ a.prev = previous[r]
  BY AuditRowType DEF TypeInv
<1>2. \A q \in Requests \ {r} : \A x \in pending[q] : ~Collides(a, x)
  BY DEF MustWait
<1>3. \A x \in events : ~Collides(a, x)
  OBVIOUS
<1>4. pending' = [pending EXCEPT ![r] = {a}]
  OBVIOUS
<1> HIDE DEF a
<1>5. \A x \in events : x \in Row
  BY DEF TypeInv, TypeOK
<1>6. ~Taken(a.prev) /\ Extensible(a.prev)
  BY <1>1, <1>3, <1>5, SamePredecessorCollides DEF Taken, ChainInv, ReadsTheEnd
<1>7. OneEnd'
  BY DEF ChainInv, OneEnd, Taken
<1>8. ReadsTheEnd'
  BY DEF ChainInv, ReadsTheEnd, Goto, Taken, Extensible, IsLatest, TypeInv, TypeOK
<1>9. \A q \in Requests : pending'[q] = IF q = r THEN {a} ELSE pending[q]
  BY <1>4 DEF TypeInv, TypeOK
<1>10. \A q \in Requests : \A p \in pending'[q] : ~Taken(p.prev) /\ Extensible(p.prev)
  BY <1>6, <1>9 DEF ChainInv, PendingExtends
<1>11. \A p, x \in Row : Collides(p, x) => Collides(x, p)
  BY DEF Collides
<1>12. \A q, t \in Requests :
         q # t => \A p \in pending'[q], x \in pending'[t] : ~Collides(p, x)
  <2> SUFFICES ASSUME NEW q \in Requests, NEW t \in Requests, q # t,
                      NEW p \in pending'[q], NEW x \in pending'[t]
               PROVE  ~Collides(p, x)
    OBVIOUS
  <2>1. p \in Row /\ x \in Row
    BY <1>1, <1>9 DEF TypeInv, TypeOK
  <2>2. CASE q = r
    BY <1>2, <1>9, <2>2
  <2>3. CASE t = r
    BY <1>2, <1>9, <1>11, <2>1, <2>3
  <2>4. CASE q # r /\ t # r
    BY <1>9, <2>4 DEF ChainInv, PendingExtends
  <2> QED
    BY <2>2, <2>3, <2>4
<1>13. \A q \in Requests : \A p, x \in pending'[q] : p = x
  BY <1>9 DEF ChainInv, PendingExtends
<1>14. PendingExtends'
  BY <1>10, <1>12, <1>13 DEF PendingExtends, Taken, Extensible, IsLatest
<1> QED
  BY <1>7, <1>8, <1>14 DEF ChainInv

\* Two uncommitted rows of different requests would both follow the chain's end.
LEMMA OneUncommitted ==
  ASSUME TypeInv, ChainInv, NEW r \in Requests, NEW q \in Requests, q # r,
         NEW p \in pending[r]
  PROVE  pending[q] = {}
<1> SUFFICES ASSUME NEW x \in pending[q] PROVE FALSE
  OBVIOUS
<1>1. /\ p \in Row /\ x \in Row /\ ~Collides(p, x)
      /\ ~Taken(p.prev) /\ Extensible(p.prev)
      /\ ~Taken(x.prev) /\ Extensible(x.prev)
  BY DEF TypeInv, TypeOK, ChainInv, PendingExtends
<1>2. CASE events = {}
  <2>1. p.prev = x.prev
    BY <1>1, <1>2 DEF Extensible
  <2> QED
    BY <1>1, <2>1, SamePredecessorCollides
<1>3. CASE events # {}
  <2>1. PICK u \in events : u.hash = p.prev
    BY <1>1, <1>3 DEF Extensible
  <2>2. PICK v \in events : v.hash = x.prev
    BY <1>1, <1>3 DEF Extensible
  <2>3. u = v
    BY <1>1, <2>1, <2>2 DEF ChainInv, OneEnd
  <2> QED
    BY <1>1, <2>1, <2>2, <2>3, SamePredecessorCollides
<1> QED
  BY <1>2, <1>3

\* A commit that adds a row adds it at the end.
LEMMA CommitKeepsChain ==
  ASSUME TypeInv, ChainInv, NEW r \in Requests, CommitOrClose(r)
  PROVE  ChainInv'
<1>1. /\ pc' = [pc EXCEPT ![r] = "done"]
      /\ pending' = [pending EXCEPT ![r] = {}]
      /\ UNCHANGED previous
      /\ events' \in {events, events \cup pending[r]}
  BY DEF CommitOrClose, Goto
<1>2. CASE events' = events
  <2>1. \A q \in Requests : pending'[q] \subseteq pending[q]
    BY <1>1 DEF TypeInv, TypeOK
  <2>2. \A q \in Requests : pc'[q] = "emit" => pc[q] = "emit"
    BY <1>1 DEF TypeInv, TypeOK
  <2> QED
    BY <1>1, <1>2, <2>1, <2>2, ChainKept
<1>3. CASE events' # events
  <2>1. PICK p \in pending[r] : events' = events \cup {p}
    <3>1. events' = events \cup pending[r]
      BY <1>1, <1>3
    <3>2. PICK p : p \in pending[r]
      BY <1>3, <3>1
    <3>3. pending[r] = {p}
      BY <3>2 DEF ChainInv, PendingExtends
    <3> QED
      BY <3>1, <3>2, <3>3
  <2>2. ~Taken(p.prev) /\ Extensible(p.prev)
    BY DEF ChainInv, PendingExtends
  <2>3. \A h : Taken(h) => Taken(h)'
    BY <2>1 DEF Taken
  <2>4. Taken(p.prev)'
    BY <2>1 DEF Taken
  <2>5. events = {} => p.prev = NoHash
    BY <2>2 DEF Extensible
  <2>6. \A x \in events : Taken(x.hash)'
    <3> SUFFICES ASSUME NEW x \in events, ~Taken(x.hash) PROVE Taken(x.hash)'
      BY <2>3
    <3>1. PICK u \in events : u.hash = p.prev
      BY <2>2 DEF Extensible
    <3>2. u = x
      BY <2>2, <3>1 DEF ChainInv, OneEnd
    <3> QED
      BY <2>4, <3>1, <3>2
  <2>7. OneEnd'
    <3>1. Taken(NoHash)'
      BY <2>3, <2>4, <2>5 DEF ChainInv, OneEnd
    <3>2. \A x \in events' : x # p => Taken(x.hash)'
      BY <2>1, <2>6
    <3> QED
      BY <3>1, <3>2 DEF OneEnd, Taken
  <2>8. ReadsTheEnd'
    <3> SUFFICES ASSUME NEW q \in Requests, pc'[q] = "emit"
                 PROVE  Taken(previous[q])'
      BY <1>1 DEF ReadsTheEnd, Taken
    <3>1. pc[q] = "emit"
      BY <1>1 DEF TypeInv, TypeOK
    <3>2. Taken(previous[q]) \/ Extensible(previous[q])
      BY <3>1 DEF ChainInv, ReadsTheEnd
    <3>3. CASE Taken(previous[q])
      BY <1>1, <3>3, <2>3 DEF Taken
    <3>4. CASE previous[q] = NoHash /\ events = {}
      BY <1>1, <2>4, <2>5, <3>4 DEF Taken
    <3>5. CASE \E x \in events : x.hash = previous[q]
      BY <1>1, <2>6, <3>5 DEF Taken
    <3> QED
      BY <3>2, <3>3, <3>4, <3>5 DEF Extensible
  <2>9. \A q \in Requests : pending'[q] = {}
    <3>1. \A q \in Requests : q # r => pending[q] = {}
      BY OneUncommitted
    <3> QED
      BY <1>1, <3>1 DEF TypeInv, TypeOK
  <2>10. PendingExtends'
    BY <2>9 DEF PendingExtends
  <2> QED
    BY <2>7, <2>8, <2>10 DEF ChainInv
<1> QED
  BY <1>2, <1>3

LEMMA ChainStep ==
  ASSUME TypeInv, ChainInv, NEW r \in Requests, Step(r)
  PROVE  ChainInv'
<1> USE DEF TypeInv, TypeOK
<1>1. CASE Fail(r)
  BY <1>1, FailKeepsChain
<1>2. CASE GetLatestHash(r)
  BY <1>2, ReadKeepsChain
<1>3. CASE EmitAuditEvent(r)
  <2>1. CASE EmitRefused(r)
    BY <2>1, ChainKept DEF EmitRefused, FlushFails, Goto
  <2>2. CASE ~EmitRefused(r)
    BY <1>3, <2>2, InsertKeepsChain DEF EmitAuditEvent
  <2> QED
    BY <2>1, <2>2
<1>4. CASE CommitOrClose(r)
  BY <1>4, CommitKeepsChain
<1>5. CASE Change(r) /\ ~Fail(r)
  BY <1>5, ChainKept DEF Change, Goto
<1>6. CASE FindAuditSubject(r)
  BY <1>6, ChainKept DEF FindAuditSubject, Goto
<1>7. CASE FinishRoute(r) /\ ~Fail(r)
  BY <1>7, ChainKept DEF FinishRoute, Goto
<1>8. CASE Answer(r)
  BY <1>8, ChainKept DEF Answer, Goto
<1>9. CASE LogAction(r)
  BY <1>9, ChainKept DEF LogAction, FlushFails, Goto
<1> QED
  BY <1>1, <1>2, <1>3, <1>4, <1>5, <1>6, <1>7, <1>8, <1>9 DEF Step

\* The committed audit events are one chain, and whoever may still add to it adds to its end.
THEOREM AuditEventsFormOneChain == Spec => []ChainInv
<1>1. Init => ChainInv
  BY DEF Init, ChainInv, OneEnd, ReadsTheEnd, PendingExtends
<1>2. TypeInv /\ ChainInv /\ [Next]_vars => ChainInv'
  <2> SUFFICES ASSUME TypeInv, ChainInv, [Next]_vars PROVE ChainInv'
    OBVIOUS
  <2>1. ASSUME NEW r \in Requests, Step(r) PROVE ChainInv'
    BY <2>1, ChainStep
  <2>2. ASSUME NEW r \in Requests, Abort(r) PROVE ChainInv'
    BY <2>2, FailKeepsChain DEF Abort
  <2>3. CASE Tick
    BY <2>3, ChainKept DEF Tick
  <2>4. CASE UNCHANGED vars
    BY <2>4, ChainKept DEF vars
  <2> QED
    BY <2>1, <2>2, <2>3, <2>4 DEF Next, AllAnswered
<1> QED
  BY <1>1, <1>2, TypeCorrect, PTL DEF Spec

\* A chain whose latest rows all have a successor never grows again: every later audited
\* change is refused by the unique index.
THEOREM StuckChainStaysStuck == Spec => StuckForGood
<1>1. TypeInv /\ ChainInv /\ [Next]_vars => [Stuck => events' = events]_vars
  <2> SUFFICES ASSUME TypeInv, ChainInv, Next, Stuck PROVE events' = events
    OBVIOUS
  <2>1. ASSUME NEW r \in Requests, CommitOrClose(r) PROVE events' = events
    <3>1. ASSUME NEW p \in pending[r] PROVE FALSE
      <4>1. ~Taken(p.prev) /\ Extensible(p.prev)
        BY <3>1 DEF ChainInv, PendingExtends
      <4>2. PICK x \in events : IsLatest(x, events) /\ x.hash = p.prev
        BY <4>1 DEF Extensible, Stuck
      <4> QED
        BY <4>1, <4>2 DEF Stuck, Taken
    <3> QED
      BY <2>1, <3>1 DEF CommitOrClose, TypeInv, TypeOK
  <2>2. ASSUME NEW r \in Requests, Fail(r) PROVE events' = events
    BY <2>2 DEF Fail
  <2>3. ASSUME NEW r \in Requests, Step(r) PROVE events' = events
    BY <2>1, <2>2, <2>3 DEF Step, Change, FindAuditSubject, GetLatestHash, EmitAuditEvent,
                           EmitRefused, FinishRoute, Answer, LogAction
  <2> QED
    BY <2>2, <2>3 DEF Next, Abort, Tick, AllAnswered, vars
<1> QED
  BY <1>1, TypeCorrect, AuditEventsFormOneChain, PTL DEF Spec, StuckForGood

===============================================================================
