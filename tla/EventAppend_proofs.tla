-------------------------- MODULE EventAppend_proofs --------------------------
(***************************************************************************)
(* Proofs about EventAppend, for every number of subjects, requests, inputs  *)
(* and retries, and whether or not the session autobegins.                  *)
(***************************************************************************)
EXTENDS EventAppend, SequenceTheorems, FiniteSetTheorems, TLAPS

CreatePCs == {"find", "transition", "lock", "read", "insert", "commit", "respond", "done"}
BulkPCs == {"find", "bulk_read", "bulk_compute", "bulk_insert", "bulk_fk", "bulk_respond",
            "bulk_commit", "done"}

\* Requests stay on their own labels; one that inserts has rows to insert, and one that
\* may try again has an attempt left.
ControlOK ==
  /\ \A r \in Creates : pc[r] \in CreatePCs /\ Len(input[r]) = 1
  /\ \A r \in Bulks : pc[r] \in BulkPCs
  /\ \A r \in Requests : pc[r] \in {"insert", "bulk_insert"} => built[r] # << >>
  /\ \A r \in Requests : pc[r] # "done" => attempt[r] < MAX_RETRIES

\* TypeOK is not inductive by itself: attempt is bounded because of ControlOK.
TypeInv == TypeOK /\ ControlOK

-----------------------------------------------------------------------------
LEMMA HashType ==
  ASSUME NEW c \in Content, NEW h \in Hashes
  PROVE  /\ compute_hash(c, h) \in Hashes
         /\ Len(compute_hash(c, h)) = Len(h) + 1
         /\ compute_hash(c, h) # NoHash
<1>1. /\ Append(h, c) \in Seq(Content)
      /\ Append(h, c) # << >>
      /\ Len(Append(h, c)) = Len(h) + 1
  BY AppendProperties DEF Hashes
<1> QED
  BY <1>1 DEF compute_hash, Hashes, NoHash

LEMMA NoTipType == NoTip \in Tip
BY DEF NoTip, Tip, NoHash, Hashes

\* The first of the rows a request has prepared becomes a row of the table, the others
\* stay prepared.
LEMMA NextRowType ==
  ASSUME TypeOK, NEW r \in Requests, built[r] # << >>
  PROVE  /\ Head(built[r]) \in Prepared
         /\ Tail(built[r]) \in Seq(Prepared)
         /\ NextRow(r) \in Row
<1>1. built[r] \in Seq(Prepared) /\ nextSeq \in Nat
  BY DEF TypeOK
<1>2. Head(built[r]) \in Prepared /\ Tail(built[r]) \in Seq(Prepared)
  BY <1>1, HeadTailProperties
<1> QED
  BY <1>1, <1>2 DEF NextRow, Row, Prepared

\* One accepted row keeps the types, whatever the label it leads to.
LEMMA InsertAcceptedType ==
  ASSUME TypeOK, NEW r \in Requests, built[r] # << >>, NEW label \in PCs,
         InsertAccepted(r, label)
  PROVE  /\ TypeOK'
         /\ built'[r] = Tail(built[r])
         /\ \A q \in Requests \ {r} : built'[q] = built[q]
<1>1. NextRow(r) \in Row /\ Tail(built[r]) \in Seq(Prepared)
  BY NextRowType
<1>2. /\ pending' = [pending EXCEPT ![r] = @ \cup {NextRow(r)}]
      /\ built' = [built EXCEPT ![r] = Tail(@)]
      /\ nextSeq' = nextSeq + 1
      /\ pc' = [pc EXCEPT ![r] = label]
      /\ UNCHANGED <<events, subjects, lock, now, tx, input, tip, attempt, outcome>>
  BY DEF InsertAccepted, Goto
<1> HIDE DEF NextRow
<1> QED
  BY <1>1, <1>2 DEF TypeOK

LEMMA PrepareType ==
  ASSUME NEW c \in Content, NEW t \in Tip
  PROVE  Prepare(c, t) \in Prepared
BY HashType DEF Prepare, Prepared, Tip

LEMMA LastEventType ==
  ASSUME NEW rows \in SUBSET Row, NEW t \in LastEvent(rows)
  PROVE  t \in Tip
BY NoTipType DEF LastEvent, Row, Tip, Content, IsLastEvent

LEMMA EndTransactionType ==
  ASSUME TypeOK, NEW r \in Requests, EndTransaction(r)
  PROVE  /\ pending' \in [Requests -> SUBSET Row]
         /\ lock' \in [Subjects -> Requests \cup {NoOne}]
         /\ tx' \in [Requests -> {"none", "autobegun", "begun"}]
BY DEF TypeOK, EndTransaction, Release

LEMMA FailType ==
  ASSUME TypeInv, NEW r \in Requests, NEW error \in Outcomes, Fail(r, error)
  PROVE  TypeInv'
<1>1. TypeOK'
  BY EndTransactionType DEF TypeInv, TypeOK, Fail, Goto, PCs
<1>2. ControlOK'
  BY RequestsAssumption DEF TypeInv, TypeOK, ControlOK, Fail, Goto, CreatePCs, BulkPCs, Bulks
<1> QED
  BY <1>1, <1>2 DEF TypeInv

LEMMA InputType ==
  ASSUME TypeInv, NEW r \in Requests
  PROVE  /\ Len(input[r]) \in Nat
         /\ \A i \in DOMAIN input[r] : i \in 1..Len(input[r]) /\ input[r][i] \in Content
         /\ SubjectsOf(r) \subseteq Subjects
         /\ r \in Creates => input[r][1] \in Content /\ Subject(r) \in Subjects
<1>1. input[r] \in Seq(Content)
  BY DEF TypeInv, TypeOK
<1>2. /\ Len(input[r]) \in Nat
      /\ \A i \in DOMAIN input[r] : i \in 1..Len(input[r]) /\ input[r][i] \in Content
  BY <1>1
<1>3. SubjectsOf(r) \subseteq Subjects
  BY <1>2 DEF SubjectsOf, Content
<1>4. ASSUME r \in Creates
      PROVE  input[r][1] \in Content /\ Subject(r) \in Subjects
  <2>1. 1 \in DOMAIN input[r]
    BY <1>1, <1>4 DEF TypeInv, ControlOK
  <2> QED
    BY <1>2, <2>1 DEF Subject, Content
<1> QED
  BY <1>2, <1>3, <1>4

LEMMA InitType == Init => TypeInv
<1> SUFFICES ASSUME Init PROVE TypeInv
  OBVIOUS
<1>1. \A r \in Requests : input[r] \in Seq(Content) /\ (r \in Creates => Len(input[r]) = 1)
  <2> SUFFICES ASSUME NEW r \in Requests
               PROVE  input[r] \in Seq(Content) /\ (r \in Creates => Len(input[r]) = 1)
    OBVIOUS
  <2>1. CASE r \in Creates
    <3>1. PICK c \in CreateInputs : input[r] = <<c>>
      BY <2>1 DEF Init
    <3> QED
      BY <3>1, RequestsAssumption
  <2>2. CASE r \notin Creates
    BY <2>2, RequestsAssumption DEF Init
  <2> QED
    BY <2>1, <2>2
<1>2. input \in [Requests -> Seq(Content)]
  BY <1>1 DEF Init
<1>3. built \in [Requests -> Seq(Prepared)]
  BY DEF Init
<1>4. tx \in [Requests -> {"none", "autobegun", "begun"}]
  BY RequestsAssumption DEF Init
<1>5. tip \in [Requests -> [Subjects -> Tip]]
  BY NoTipType DEF Init
<1>6. TypeOK
  BY <1>2, <1>3, <1>4, <1>5, BoundsAssumption, RequestsAssumption
  DEF Init, TypeOK, PCs, Outcomes
<1>7. ControlOK
  BY <1>1, BoundsAssumption, RequestsAssumption DEF Init, ControlOK, CreatePCs, BulkPCs, Bulks
<1> QED
  BY <1>6, <1>7 DEF TypeInv

\* The steps of create_event keep the types.
LEMMA CreateStepType ==
  ASSUME TypeInv, NEW r \in Requests, CreateStep(r)
  PROVE  TypeInv'
<1> USE RequestsAssumption, BoundsAssumption DEF TypeInv, TypeOK
<1>1. CASE FindSubject(r)
  <2>1. CASE \E error \in Outcomes : Fail(r, error)
    BY <2>1, FailType
  <2>2. CASE ~\E error \in Outcomes : Fail(r, error)
    BY <1>1, <2>2 DEF FindSubject, Goto, ReadSession, PCs, Outcomes, ControlOK, CreatePCs,
                      BulkPCs, Bulks
  <2> QED
    BY <2>1, <2>2
<1>2. CASE ValidateTransition(r)
  <2>1. CASE \E error \in Outcomes : Fail(r, error)
    BY <2>1, FailType
  <2>2. CASE ~\E error \in Outcomes : Fail(r, error)
    BY <1>2, <2>2 DEF ValidateTransition, Goto, ReadSession, PCs, Outcomes, ControlOK,
                      CreatePCs, BulkPCs, Bulks
  <2> QED
    BY <2>1, <2>2
<1>3. CASE LockSubject(r)
  <2>1. CASE \E error \in Outcomes : Fail(r, error)
    BY <2>1, FailType
  <2>2. CASE ~\E error \in Outcomes : Fail(r, error)
    <3>1. /\ pc[r] = "lock"
          /\ lock' = [s \in Subjects |-> IF s = Subject(r) /\ s \in subjects THEN r
                                                                            ELSE lock[s]]
          /\ tx' = [tx EXCEPT ![r] = "begun"]
          /\ Goto(r, "read")
          /\ UNCHANGED <<events, pending, subjects, nextSeq, now, input, tip, built,
                         attempt, outcome>>
      BY <1>3, <2>2 DEF LockSubject, Outcomes
    <3>2. lock' \in [Subjects -> Requests \cup {NoOne}]
      BY <3>1
    <3>3. pc' \in [Requests -> PCs] /\ ControlOK'
      BY <3>1 DEF Goto, PCs, ControlOK, CreatePCs, BulkPCs, Bulks
    <3> QED
      BY <3>1, <3>2, <3>3
  <2> QED
    BY <2>1, <2>2
<1>4. CASE ReadTip(r)
  <2>1. CASE \E error \in Outcomes : Fail(r, error)
    BY <2>1, FailType
  <2>2. CASE ~\E error \in Outcomes : Fail(r, error)
    <3>1. r \in Creates /\ input[r][1] \in Content
      BY <1>4, InputType DEF ReadTip, ControlOK, BulkPCs, Bulks
    <3>2. PICK t \in LastEvent(RowsOf(events, Subject(r))) :
            /\ built' = [built EXCEPT ![r] = <<Prepare(input[r][1], t)>>]
            /\ Goto(r, "insert")
            /\ UNCHANGED <<events, pending, subjects, lock, nextSeq, now, tx, input, tip,
                           attempt, outcome>>
      BY <1>4, <2>2 DEF ReadTip, Outcomes
    <3>3. Prepare(input[r][1], t) \in Prepared
      BY <3>1, LastEventType, PrepareType DEF RowsOf
    <3> QED
      BY <1>4, <3>1, <3>2, <3>3 DEF ReadTip, Goto, PCs, ControlOK, CreatePCs, BulkPCs, Bulks
  <2> QED
    BY <2>1, <2>2
<1>5. CASE InsertRow(r)
  <2>1. CASE InsertRefused(r)
    <3>1. pc[r] = "insert" /\ attempt[r] \in Nat /\ attempt[r] < MAX_RETRIES
      BY <1>5 DEF InsertRow, ControlOK
    <3>2. attempt' \in [Requests -> 0..MAX_RETRIES]
      BY <2>1, <3>1 DEF InsertRefused
    <3>3. pc' \in [Requests -> PCs] /\ outcome' \in [Requests -> Outcomes]
      BY <2>1 DEF InsertRefused, Goto, PCs, Outcomes
    <3>4. built' \in [Requests -> Seq(Prepared)]
      BY <2>1 DEF InsertRefused
    <3>5. ControlOK'
      <4>1. r \in Creates
        BY <3>1 DEF ControlOK, BulkPCs, Bulks
      <4>2. \A q \in Requests : q # r => /\ pc'[q] = pc[q] /\ attempt'[q] = attempt[q]
                                         /\ built'[q] = built[q]
        BY <2>1 DEF InsertRefused, Goto
      <4>3. CASE attempt[r] = MAX_RETRIES - 1
        <5>1. pc'[r] = "done" /\ input' = input
          BY <2>1, <4>3 DEF InsertRefused, Goto
        <5> QED
          BY <4>1, <4>2, <5>1 DEF ControlOK, CreatePCs, Bulks
      <4>4. CASE attempt[r] # MAX_RETRIES - 1
        <5>1. pc'[r] = "lock" /\ attempt'[r] = attempt[r] + 1 /\ input' = input
          BY <2>1, <4>4 DEF InsertRefused, Goto
        <5>2. attempt'[r] < MAX_RETRIES
          <6>1. MAX_RETRIES \in Int /\ attempt[r] \in Int /\ attempt[r] < MAX_RETRIES
            BY <3>1
          <6> QED
            BY ONLY <6>1, <4>4, <5>1
        <5>3. \A q \in Creates : pc'[q] \in CreatePCs /\ Len(input'[q]) = 1
          BY <4>2, <5>1 DEF ControlOK, CreatePCs
        <5>4. \A q \in Bulks : pc'[q] \in BulkPCs
          BY <4>1, <4>2 DEF ControlOK, Bulks
        <5>5. \A q \in Requests : pc'[q] # "done" => attempt'[q] < MAX_RETRIES
          BY <4>2, <5>1, <5>2 DEF ControlOK
        <5>6. \A q \in Requests : pc'[q] \in {"insert", "bulk_insert"} => built'[q] # << >>
          BY <4>2, <5>1 DEF ControlOK
        <5> QED
          BY <5>3, <5>4, <5>5, <5>6 DEF ControlOK
      <4> QED
        BY <4>3, <4>4
    <3> QED
      BY <2>1, <3>2, <3>3, <3>4, <3>5, EndTransactionType DEF InsertRefused
  <2>2. CASE InsertAccepted(r, "commit")
    <3>1. pc[r] = "insert" /\ r \in Creates /\ built[r] # << >>
      BY <1>5 DEF InsertRow, ControlOK, BulkPCs, Bulks
    <3>2. TypeOK' /\ \A q \in Requests \ {r} : built'[q] = built[q]
      BY <2>2, <3>1, InsertAcceptedType DEF PCs
    <3>3. ControlOK'
      BY <2>2, <3>1, <3>2
      DEF InsertAccepted, Goto, ControlOK, CreatePCs, BulkPCs, Bulks
    <3> QED
      BY <3>2, <3>3
  <2> QED
    BY <1>5, <2>1, <2>2 DEF InsertRow
<1>6. CASE Commit(r)
  BY <1>6, EndTransactionType
  DEF Commit, Goto, PCs, ControlOK, CreatePCs, BulkPCs, Bulks
<1>7. CASE Respond(r)
  BY <1>7 DEF Respond, Goto, PCs, Outcomes, ControlOK, CreatePCs, BulkPCs, Bulks
<1> QED
  BY <1>1, <1>2, <1>3, <1>4, <1>5, <1>6, <1>7 DEF CreateStep

\* The steps of create_events_bulk keep the types.
LEMMA BulkStepType ==
  ASSUME TypeInv, NEW r \in Requests, BulkStep(r)
  PROVE  TypeInv'
<1> USE RequestsAssumption, BoundsAssumption DEF TypeInv, TypeOK
<1>0. CASE \E error \in Outcomes : Fail(r, error)
  BY <1>0, FailType
<1> SUFFICES ASSUME ~\E error \in Outcomes : Fail(r, error)
             PROVE  TypeInv'
  BY <1>0
<1>1. CASE BulkFindSubjects(r)
  BY <1>1 DEF BulkFindSubjects, Goto, PCs, Outcomes, ControlOK, CreatePCs, BulkPCs, Bulks
<1>2. CASE BulkReadTips(r)
  <2>1. tip' \in [Requests -> [Subjects -> Tip]]
    <3>1. PICK t \in [SubjectsOf(r) ->
                        UNION {LastEvent(RowsOf(events, s)) : s \in SubjectsOf(r)}] :
            /\ \A s \in SubjectsOf(r) : t[s] \in LastEvent(RowsOf(events, s))
            /\ tip' = [tip EXCEPT ![r] = [s \in Subjects |-> IF s \in SubjectsOf(r) THEN t[s]
                                                                                 ELSE NoTip]]
      BY <1>2 DEF BulkReadTips
    <3>2. \A s \in SubjectsOf(r) : t[s] \in Tip
      BY <3>1, LastEventType DEF RowsOf
    <3>3. [s \in Subjects |-> IF s \in SubjectsOf(r) THEN t[s] ELSE NoTip] \in [Subjects -> Tip]
      BY <3>2, NoTipType
    <3> QED
      BY <3>1, <3>3
  <2> QED
    BY <1>2, <2>1 DEF BulkReadTips, Goto, PCs, ControlOK, CreatePCs, BulkPCs, Bulks
<1>3. CASE BulkCompute(r)
  <2> DEFINE c == input[r][Len(built[r]) + 1]
             t == tip[r][c.subject]
  <2>1. /\ pc[r] = "bulk_compute"
        /\ Len(built[r]) + 1 <= Len(input[r])
        /\ built' = [built EXCEPT ![r] = Append(@, Prepare(c, t))]
        /\ tip' = [tip EXCEPT ![r][c.subject] =
                     [hash |-> compute_hash(c, t.hash), time |-> c.time]]
        /\ Goto(r, IF Len(built[r]) + 1 = Len(input[r]) THEN "bulk_insert" ELSE "bulk_compute")
        /\ UNCHANGED <<events, pending, subjects, lock, nextSeq, now, tx, input, attempt,
                       outcome>>
    BY <1>3 DEF BulkCompute, Outcomes
  <2>2. c \in Content /\ c.subject \in Subjects /\ t \in Tip
    <3>1. Len(built[r]) + 1 \in DOMAIN input[r]
      <4>1. input[r] \in Seq(Content) /\ Len(built[r]) \in Nat
        OBVIOUS
      <4> QED
        BY <2>1, <4>1
    <3>2. c \in Content
      BY <3>1, InputType
    <3>3. c.subject \in Subjects
      BY <3>2 DEF Content
    <3> QED
      BY <3>2, <3>3
  <2> HIDE DEF c, t
  <2>3. Prepare(c, t) \in Prepared
    BY <2>2, PrepareType
  <2>4. built' \in [Requests -> Seq(Prepared)]
    BY <2>1, <2>3
  <2>5. [hash |-> compute_hash(c, t.hash), time |-> c.time] \in Tip
    BY <2>2, HashType DEF Tip, Content
  <2>6. tip' \in [Requests -> [Subjects -> Tip]]
    BY <2>1, <2>2, <2>5
  <2>a. built'[r] # << >> /\ \A q \in Requests \ {r} : built'[q] = built[q]
    BY <2>1, <2>3, AppendProperties
  <2>7. pc' \in [Requests -> PCs] /\ ControlOK'
    BY <2>1, <2>a DEF Goto, PCs, ControlOK, CreatePCs, BulkPCs, Bulks
  <2> QED
    BY <2>1, <2>4, <2>6, <2>7
<1>4. CASE BulkInsert(r)
  <2> DEFINE label == IF Len(built[r]) = 1 THEN "bulk_fk" ELSE "bulk_insert"
  <2>1. InsertAccepted(r, label) /\ pc[r] = "bulk_insert"
    BY <1>4 DEF BulkInsert, Outcomes
  <2>2. built[r] # << >> /\ built[r] \in Seq(Prepared) /\ r \notin Creates
    BY <2>1 DEF ControlOK, CreatePCs
  <2>3. Tail(built[r]) = << >> => Len(built[r]) = 1
    <3>1. Len(Tail(built[r])) = Len(built[r]) - 1 /\ Len(built[r]) \in Nat
      BY <2>2, HeadTailProperties
    <3>2. Tail(built[r]) = << >> => Len(Tail(built[r])) = Len(<< >>)
      OBVIOUS
    <3>3. Len(<< >>) = 0
      OBVIOUS
    <3> QED
      BY ONLY <3>1, <3>2, <3>3
  <2>4. /\ TypeOK'
        /\ built'[r] = Tail(built[r])
        /\ \A q \in Requests \ {r} : built'[q] = built[q]
    BY <2>1, <2>2, InsertAcceptedType DEF PCs
  <2>5. /\ pc' = [pc EXCEPT ![r] = label]
        /\ UNCHANGED <<input, attempt>>
    BY <2>1 DEF InsertAccepted, Goto
  <2>6. pc'[r] = "bulk_insert" => built'[r] # << >>
    BY <2>3, <2>4, <2>5
  <2>7. pc'[r] \in {"bulk_fk", "bulk_insert"}
    BY <2>5
  <2>8. \A q \in Requests \ {r} : pc'[q] = pc[q]
    BY <2>5
  <2>9. ControlOK'
    BY <2>1, <2>2, <2>4, <2>5, <2>6, <2>7, <2>8 DEF ControlOK, CreatePCs, BulkPCs, Bulks
  <2> QED
    BY <2>4, <2>9
<1>5. CASE BulkForeignKeys(r)
  BY <1>5 DEF BulkForeignKeys, Goto, PCs, Outcomes, ControlOK, CreatePCs, BulkPCs, Bulks
<1>6. CASE BulkRespond(r)
  BY <1>6 DEF BulkRespond, Goto, PCs, Outcomes, ControlOK, CreatePCs, BulkPCs, Bulks
<1>7. CASE BulkCommit(r)
  BY <1>7, EndTransactionType
  DEF BulkCommit, Goto, PCs, Outcomes, ControlOK, CreatePCs, BulkPCs, Bulks
<1> QED
  BY <1>1, <1>2, <1>3, <1>4, <1>5, <1>6, <1>7 DEF BulkStep

LEMMA NextType == TypeInv /\ [Next]_vars => TypeInv'
<1> SUFFICES ASSUME TypeInv, [Next]_vars PROVE TypeInv'
  OBVIOUS
<1>1. ASSUME NEW r \in Requests, Step(r)
      PROVE  TypeInv'
  <2>1. CASE DeadlockAbort(r)
    BY <2>1, FailType DEF DeadlockAbort, Outcomes
  <2> QED
    BY <1>1, <2>1, CreateStepType, BulkStepType DEF Step
<1>2. ASSUME NEW r \in Requests, Abort(r)
      PROVE  TypeInv'
  BY <1>2, FailType DEF Abort, Outcomes
<1>3. ASSUME NEW s \in Subjects, DeleteSubject(s)
      PROVE  TypeInv'
  BY <1>3 DEF DeleteSubject, TypeInv, TypeOK, ControlOK
<1>4. CASE Tick
  BY <1>4 DEF Tick, TypeInv, TypeOK, ControlOK
<1>5. CASE UNCHANGED vars
  BY <1>5 DEF vars, TypeInv, TypeOK, ControlOK
<1> QED
  BY <1>1, <1>2, <1>3, <1>4, <1>5 DEF Next, AllAnswered

\* Every variable keeps its type; in particular no create_event makes more than
\* MAX_RETRIES attempts.
THEOREM TypeCorrect == Spec => []TypeOK
<1>1. TypeInv => TypeOK
  BY DEF TypeInv
<1> QED
  BY <1>1, InitType, NextType, PTL DEF Spec

-----------------------------------------------------------------------------
(***************************************************************************)
(* ChainIntegrity is about committed rows, but two transactions meet before  *)
(* either has committed, and a batch is linked in memory before it reaches   *)
(* the table.  The invariant that is inductive covers all three places.      *)
(***************************************************************************)

AllRows == events \cup UNION {pending[q] : q \in Requests}

\* Committed and uncommitted rows together are chains that do not fork.
StoreInv ==
  /\ HashesRecompute(AllRows)
  /\ NoFork(AllRows)
  /\ \A x \in AllRows : x.seq < nextSeq
  /\ LinkedToParent(events)
  /\ \A r \in Requests : \A x \in pending[r] :
       x.prev # NoHash => \E y \in events \cup pending[r] : IsParent(y, x)

\* h is the hash of an event of s at time t, among rows or the first k of prep.
IsEnd(rows, prep, k, s, h, t) ==
  \/ \E e \in rows : e.content.subject = s /\ e.hash = h /\ e.content.time = t
  \/ \E j \in 1..k : /\ j \in DOMAIN prep
                     /\ prep[j].content.subject = s
                     /\ prep[j].hash = h
                     /\ prep[j].content.time = t

\* What a request has prepared is linked to the rows, or to what it has prepared before.
LinkedInMemory(rows, prep) ==
  \A i \in DOMAIN prep :
    /\ prep[i].hash = compute_hash(prep[i].content, prep[i].prev)
    /\ prep[i].prev # NoHash =>
         \E t \in 0..(prep[i].content.time - 1) :
           IsEnd(rows, prep, i - 1, prep[i].content.subject, prep[i].prev, t)

\* The tips a batch keeps are the ends of what it has read and prepared.
TipsAreEnds(rows, prep, tips) ==
  \A s \in Subjects :
    tips[s].hash # NoHash => IsEnd(rows, prep, Len(prep), s, tips[s].hash, tips[s].time)

\* The rows r sees.
Seen(r) == events \cup pending[r]

BuiltInv ==
  \A r \in Requests :
    /\ pc[r] # "done" => LinkedInMemory(Seen(r), built[r])
    /\ pc[r] = "bulk_compute" => TipsAreEnds(Seen(r), built[r], tip[r])
    /\ pc[r] \in {"find", "bulk_read"} => built[r] = << >>

ChainInv == TypeInv /\ StoreInv /\ BuiltInv

LEMMA AllRowsElements ==
  \A x : x \in AllRows <=> x \in events \/ \E q \in Requests : x \in pending[q]
BY DEF AllRows

\* What a rolled back or idle step does to the table.
StoreShrinks(r) ==
  /\ UNCHANGED <<events, nextSeq>>
  /\ pending' = pending \/ pending' = [pending EXCEPT ![r] = {}]

LEMMA StoreShrinksInv ==
  ASSUME TypeInv, StoreInv, NEW r \in Requests, StoreShrinks(r)
  PROVE  StoreInv'
<1> USE DEF TypeInv, TypeOK
<1>1. \A q \in Requests : pending'[q] \in {pending[q], {}}
  BY DEF StoreShrinks
<1>2. \A x : x \in AllRows' => x \in AllRows
  BY <1>1 DEF StoreShrinks, AllRows
<1>3. /\ HashesRecompute(AllRows') /\ NoFork(AllRows')
      /\ \A x \in AllRows' : x.seq < nextSeq'
  BY <1>2 DEF StoreInv, StoreShrinks, HashesRecompute, NoFork
<1>4. LinkedToParent(events')
  BY DEF StoreInv, StoreShrinks
<1>5. ASSUME NEW q \in Requests, NEW x \in pending'[q], x.prev # NoHash
      PROVE  \E y \in events' \cup pending'[q] : IsParent(y, x)
  BY <1>1, <1>5 DEF StoreInv, StoreShrinks
<1> QED
  BY <1>3, <1>4, <1>5 DEF StoreInv, HashesRecompute, NoFork, LinkedToParent

\* What a commit does to the table.
StoreCommits(r) ==
  /\ events' = events \cup pending[r]
  /\ pending' = [pending EXCEPT ![r] = {}]
  /\ UNCHANGED nextSeq

LEMMA StoreCommitsInv ==
  ASSUME TypeInv, StoreInv, NEW r \in Requests, StoreCommits(r)
  PROVE  StoreInv'
<1> USE DEF TypeInv, TypeOK
<1>1. \A q \in Requests : pending'[q] = IF q = r THEN {} ELSE pending[q]
  BY DEF StoreCommits
<1>2. \A x : x \in AllRows' => x \in AllRows
  BY <1>1 DEF StoreCommits, AllRows
<1>3. /\ HashesRecompute(AllRows') /\ NoFork(AllRows')
      /\ \A x \in AllRows' : x.seq < nextSeq'
  BY <1>2 DEF StoreInv, StoreCommits, HashesRecompute, NoFork
<1>4. LinkedToParent(events')
  BY DEF StoreInv, StoreCommits, LinkedToParent
<1>5. ASSUME NEW q \in Requests, NEW x \in pending'[q], x.prev # NoHash
      PROVE  \E y \in events' \cup pending'[q] : IsParent(y, x)
  BY <1>1, <1>5 DEF StoreInv, StoreCommits
<1> QED
  BY <1>3, <1>4, <1>5 DEF StoreInv, HashesRecompute, NoFork, LinkedToParent

\* A row inserted past the unique indexes does not fork a chain: they hold the committed
\* rows, those of other transactions, and those of the batch itself.
LEMMA StoreInsertsInv ==
  ASSUME TypeInv, StoreInv, NEW r \in Requests, built[r] # << >>,
         LinkedInMemory(Seen(r), built[r]), NEW label, InsertAccepted(r, label),
         WaitsForIndex(r) = {}, ~UniqueViolation(r)
  PROVE  StoreInv'
<1> DEFINE new == NextRow(r)
           h == Head(built[r])
<1> USE DEF TypeInv, TypeOK
<1>1. /\ events' = events
      /\ nextSeq' = nextSeq + 1
      /\ \A q \in Requests :
           pending'[q] = IF q = r THEN pending[r] \cup {new} ELSE pending[q]
  BY DEF InsertAccepted
<1>2. /\ new.content = h.content /\ new.prev = h.prev /\ new.hash = h.hash
      /\ new.seq = nextSeq
  BY DEF NextRow
<1>3. h = built[r][1] /\ 1 \in DOMAIN built[r] /\ h \in Prepared
  <2>1. built[r] \in Seq(Prepared)
    OBVIOUS
  <2> QED
    BY <2>1, NextRowType, EmptySeq
<1>4. /\ h.hash = compute_hash(h.content, h.prev)
      /\ h.prev # NoHash =>
           \E t \in 0..(h.content.time - 1) :
             IsEnd(Seen(r), built[r], 0, h.content.subject, h.prev, t)
  <2>1. 1 - 1 = 0
    OBVIOUS
  <2> QED
    BY <1>3, <2>1 DEF LinkedInMemory
<1>5. \A x \in AllRows : ~Collides(new, x)
  <2> SUFFICES ASSUME NEW x \in AllRows PROVE ~Collides(new, x)
    OBVIOUS
  <2>1. CASE x \in events \cup pending[r]
    BY <2>1 DEF UniqueViolation
  <2>2. CASE x \notin events \cup pending[r]
    <3>1. PICK q \in Requests : q # r /\ x \in pending[q]
      BY <2>2, AllRowsElements
    <3> QED
      BY <3>1 DEF WaitsForIndex
  <2> QED
    BY <2>1, <2>2
<1> HIDE DEF new, h
<1>6. \A x \in AllRows' : x \in AllRows \/ x = new
  <2>1. \A x : x \in AllRows' <=> x \in events' \/ \E q \in Requests : x \in pending'[q]
    BY DEF AllRows
  <2> QED
    BY <1>1, <2>1, AllRowsElements
<1>7. HashesRecompute(AllRows')
  BY <1>2, <1>4, <1>6 DEF StoreInv, HashesRecompute
<1>8. NoFork(AllRows')
  BY <1>5, <1>6 DEF StoreInv, NoFork, Collides
<1>9. \A x \in AllRows : x.seq \in Nat /\ x.seq < nextSeq
  BY DEF AllRows, StoreInv, Row
<1>10. ASSUME NEW x \in AllRows'
       PROVE  x.seq < nextSeq'
  <2>1. nextSeq \in Nat /\ nextSeq' = nextSeq + 1
    BY <1>1
  <2>2. CASE x \in AllRows
    BY ONLY <1>9, <2>1, <2>2
  <2>3. CASE x = new
    BY ONLY <1>2, <2>1, <2>3
  <2> QED
    BY <1>6, <2>2, <2>3
<1>11. LinkedToParent(events')
  BY <1>1 DEF StoreInv
<1>12. ASSUME NEW q \in Requests, NEW x \in pending'[q], x.prev # NoHash
       PROVE  \E y \in events' \cup pending'[q] : IsParent(y, x)
  <2>1. CASE q # r \/ x # new
    <3>1. x \in pending[q] /\ events \cup pending[q] \subseteq events' \cup pending'[q]
      BY <1>1, <2>1, <1>12
    <3> QED
      BY <1>12, <3>1 DEF StoreInv
  <2>2. CASE q = r /\ x = new
    <3>1. PICK t \in 0..(h.content.time - 1) :
            IsEnd(Seen(r), built[r], 0, h.content.subject, h.prev, t)
      BY <1>2, <1>4, <1>12, <2>2
    <3>2. PICK e \in Seen(r) : /\ e.content.subject = h.content.subject
                               /\ e.hash = h.prev
                               /\ e.content.time = t
      BY <3>1 DEF IsEnd
    <3>3. t < h.content.time /\ e.seq < nextSeq
      <4>1. h.content.time \in Nat
        BY <1>3 DEF Prepared, Content
      <4>2. e \in AllRows
        BY <3>2, AllRowsElements DEF Seen
      <4> QED
        BY <1>9, <3>1, <4>1, <4>2
    <3> QED
      BY <1>1, <1>2, <2>2, <3>2, <3>3 DEF IsParent, Seen
  <2> QED
    BY <2>1, <2>2
<1> QED
  BY <1>7, <1>8, <1>10, <1>11, <1>12 DEF StoreInv, HashesRecompute, NoFork, LinkedToParent

\* What is left to insert stays linked when its first event has become the row x.
LEMMA TailStaysLinked ==
  ASSUME NEW rows, NEW prep \in Seq(Prepared), prep # << >>, LinkedInMemory(rows, prep),
         NEW x, x.content = Head(prep).content, x.hash = Head(prep).hash
  PROVE  LinkedInMemory(rows \cup {x}, Tail(prep))
<1> DEFINE tail == Tail(prep)
           more == rows \cup {x}
<1>1. /\ tail \in Seq(Prepared) /\ Len(prep) \in Nat /\ Len(tail) = Len(prep) - 1
      /\ DOMAIN prep = 1..Len(prep) /\ DOMAIN tail = 1..Len(tail)
      /\ \A i \in 1..Len(tail) : tail[i] = prep[i + 1]
  BY HeadTailProperties
<1>2. prep[1] = Head(prep)
  OBVIOUS
<1> HIDE DEF tail, more
<1> SUFFICES ASSUME NEW i \in DOMAIN tail
             PROVE  /\ tail[i].hash = compute_hash(tail[i].content, tail[i].prev)
                    /\ tail[i].prev # NoHash =>
                         \E t \in 0..(tail[i].content.time - 1) :
                           IsEnd(more, tail, i - 1, tail[i].content.subject, tail[i].prev, t)
  BY DEF LinkedInMemory, tail, more
<1>3. i \in 1..Len(tail) /\ i + 1 \in DOMAIN prep /\ tail[i] = prep[i + 1]
  BY <1>1
<1>4. tail[i].hash = compute_hash(tail[i].content, tail[i].prev)
  BY <1>3 DEF LinkedInMemory
<1>5. ASSUME tail[i].prev # NoHash
      PROVE  \E t \in 0..(tail[i].content.time - 1) :
               IsEnd(more, tail, i - 1, tail[i].content.subject, tail[i].prev, t)
  <2> DEFINE s == tail[i].content.subject
             g == tail[i].prev
  <2>1. PICK t \in 0..(tail[i].content.time - 1) : IsEnd(rows, prep, (i + 1) - 1, s, g, t)
    BY <1>3, <1>5 DEF LinkedInMemory
  <2>2. (i + 1) - 1 = i
    BY <1>1, <1>3
  <2> HIDE DEF s, g
  <2>3. CASE \E e \in rows : e.content.subject = s /\ e.hash = g /\ e.content.time = t
    BY <2>3 DEF IsEnd, more, s, g
  <2>4. CASE \E j \in 1..i : /\ j \in DOMAIN prep
                            /\ prep[j].content.subject = s
                            /\ prep[j].hash = g
                            /\ prep[j].content.time = t
    <3>1. PICK j \in 1..i : /\ j \in DOMAIN prep
                            /\ prep[j].content.subject = s
                            /\ prep[j].hash = g
                            /\ prep[j].content.time = t
      BY <2>4
    <3>2. CASE j = 1
      <4>1. x \in more /\ x.content.subject = s /\ x.hash = g /\ x.content.time = t
        BY <1>2, <3>1, <3>2 DEF more
      <4> QED
        BY <4>1 DEF IsEnd, s, g
    <3>3. CASE j # 1
      <4>1. j - 1 \in 1..(i - 1) /\ j - 1 \in DOMAIN tail /\ tail[j - 1] = prep[j]
        BY <1>1, <1>3, <3>1, <3>3
      <4>2. IsEnd(more, tail, i - 1, s, g, t)
        BY <3>1, <4>1 DEF IsEnd
      <4> QED
        BY <4>2 DEF s, g
    <3> QED
      BY <3>2, <3>3
  <2> QED
    BY <2>1, <2>2, <2>3, <2>4 DEF IsEnd
<1> QED
  BY <1>4, <1>5

\* More rows, or more prepared events, do not undo a link.
LEMMA LinksStay ==
  ASSUME NEW rows, NEW more, rows \subseteq more, NEW prep, NEW tips
  PROVE  /\ LinkedInMemory(rows, prep) => LinkedInMemory(more, prep)
         /\ TipsAreEnds(rows, prep, tips) => TipsAreEnds(more, prep, tips)
<1>1. \A k, s, h, t : IsEnd(rows, prep, k, s, h, t) => IsEnd(more, prep, k, s, h, t)
  BY DEF IsEnd
<1>2. LinkedInMemory(rows, prep) => LinkedInMemory(more, prep)
  BY <1>1 DEF LinkedInMemory
<1>3. TipsAreEnds(rows, prep, tips) => TipsAreEnds(more, prep, tips)
  BY <1>1 DEF TipsAreEnds
<1> QED
  BY <1>2, <1>3

LEMMA NothingPrepared ==
  ASSUME NEW rows
  PROVE  LinkedInMemory(rows, << >>)
BY DEF LinkedInMemory

\* What get_last_event returns is an event of the subject.
LEMMA LastEventIsEnd ==
  ASSUME NEW rows, NEW s, NEW t \in LastEvent(RowsOf(rows, s)), t.hash # NoHash, NEW prep
  PROVE  IsEnd(rows, prep, 0, s, t.hash, t.time)
<1>1. RowsOf(rows, s) # {}
  BY DEF LastEvent, NoTip
<1>2. PICK e \in RowsOf(rows, s) : t = [hash |-> e.hash, time |-> e.content.time]
  BY <1>1 DEF LastEvent
<1> QED
  BY <1>2 DEF RowsOf, IsEnd

\* A single event prepared on the tip is linked.
LEMMA PrepareFirst ==
  ASSUME NEW rows, NEW c \in Content, NEW t \in Tip,
         t.hash # NoHash => IsEnd(rows, << >>, 0, c.subject, t.hash, t.time),
         TimeAfterPrevious(c, t)
  PROVE  LinkedInMemory(rows, <<Prepare(c, t)>>)
<1> DEFINE prep == <<Prepare(c, t)>>
<1>1. DOMAIN prep = {1} /\ prep[1] = Prepare(c, t)
  OBVIOUS
<1>2. ASSUME t.hash # NoHash
      PROVE  \E u \in 0..(c.time - 1) : IsEnd(rows, prep, 0, c.subject, t.hash, u)
  <2>1. t.time \in 0..(c.time - 1)
    BY <1>2 DEF TimeAfterPrevious, Tip, Content
  <2>2. IsEnd(rows, prep, 0, c.subject, t.hash, t.time)
    BY <1>2 DEF IsEnd
  <2> QED
    BY <2>1, <2>2
<1>3. /\ prep[1].content = c
      /\ prep[1].prev = t.hash
      /\ prep[1].hash = compute_hash(prep[1].content, prep[1].prev)
  BY <1>1 DEF Prepare
<1> HIDE DEF prep
<1>4. 1 - 1 = 0
  OBVIOUS
<1>5. LinkedInMemory(rows, prep)
  BY <1>1, <1>2, <1>3, <1>4 DEF LinkedInMemory
<1> QED
  BY <1>5 DEF prep

\* One turn of the loop of create_events_bulk: the event goes onto the tip kept in
\* memory, which becomes its hash.
LEMMA PrepareNext ==
  ASSUME NEW rows, NEW prep \in Seq(Prepared), NEW tips \in [Subjects -> Tip],
         NEW c \in Content, TimeAfterPrevious(c, tips[c.subject]),
         LinkedInMemory(rows, prep), TipsAreEnds(rows, prep, tips)
  PROVE  LET t == tips[c.subject]
             more == Append(prep, Prepare(c, t))
             next == [tips EXCEPT ![c.subject] =
                        [hash |-> compute_hash(c, t.hash), time |-> c.time]]
         IN  LinkedInMemory(rows, more) /\ TipsAreEnds(rows, more, next)
<1> DEFINE t == tips[c.subject]
           n == Len(prep) + 1
           more == Append(prep, Prepare(c, t))
           next == [tips EXCEPT ![c.subject] =
                      [hash |-> compute_hash(c, t.hash), time |-> c.time]]
<1>1. c.subject \in Subjects /\ c.time \in Nat /\ t \in Tip
  BY DEF Content
<1>2. Prepare(c, t) \in Prepared
  BY <1>1, PrepareType
<1>3. /\ n \in Nat /\ Len(more) = n /\ DOMAIN more = 1..n
      /\ DOMAIN prep = 1..(n - 1) /\ Len(prep) = n - 1
      /\ \A i \in 1..(n - 1) : more[i] = prep[i]
      /\ more[n] = Prepare(c, t)
  BY <1>2
<1>4. /\ more[n].content = c
      /\ more[n].prev = t.hash
      /\ more[n].hash = compute_hash(c, t.hash)
  BY <1>3 DEF Prepare
<1>5. t.time \in Nat
  BY <1>1 DEF Tip
<1>6. /\ next[c.subject].hash = compute_hash(c, t.hash)
      /\ next[c.subject].time = c.time
      /\ \A s \in Subjects : s # c.subject => next[s] = tips[s]
  <2> DEFINE new == [hash |-> compute_hash(c, t.hash), time |-> c.time]
  <2>1. next = [tips EXCEPT ![c.subject] = new]
    OBVIOUS
  <2>2. new.hash = compute_hash(c, t.hash) /\ new.time = c.time
    OBVIOUS
  <2> HIDE DEF new, next
  <2> QED
    BY <1>1, <2>1, <2>2
<1> HIDE DEF t, n, more, next
<1>8. \A k \in 0..n : \A j \in 0..n : \A s, h, u :
        j <= k /\ IsEnd(rows, prep, j, s, h, u) => IsEnd(rows, more, k, s, h, u)
  <2> SUFFICES ASSUME NEW k \in 0..n, NEW j \in 0..n, NEW s, NEW h, NEW u, j <= k,
                      IsEnd(rows, prep, j, s, h, u)
               PROVE  IsEnd(rows, more, k, s, h, u)
    OBVIOUS
  <2>1. CASE \E e \in rows : e.content.subject = s /\ e.hash = h /\ e.content.time = u
    BY <2>1 DEF IsEnd
  <2>2. CASE \E i \in 1..j : /\ i \in DOMAIN prep
                             /\ prep[i].content.subject = s
                             /\ prep[i].hash = h
                             /\ prep[i].content.time = u
    BY <1>3, <2>2 DEF IsEnd
  <2> QED
    BY <2>1, <2>2 DEF IsEnd
<1>9. LinkedInMemory(rows, more)
  <2> SUFFICES ASSUME NEW i \in 1..n
               PROVE  /\ more[i].hash = compute_hash(more[i].content, more[i].prev)
                      /\ more[i].prev # NoHash =>
                           \E u \in 0..(more[i].content.time - 1) :
                             IsEnd(rows, more, i - 1, more[i].content.subject,
                                   more[i].prev, u)
    BY <1>3 DEF LinkedInMemory
  <2>1. CASE i # n
    <3>1. i \in 1..(n - 1) /\ i - 1 \in 0..n
      BY <1>3, <2>1
    <3>2. more[i].hash = compute_hash(more[i].content, more[i].prev)
      BY <1>3, <3>1 DEF LinkedInMemory
    <3>3. ASSUME more[i].prev # NoHash
          PROVE  \E u \in 0..(more[i].content.time - 1) :
                   IsEnd(rows, more, i - 1, more[i].content.subject, more[i].prev, u)
      <4>1. PICK u \in 0..(prep[i].content.time - 1) :
              IsEnd(rows, prep, i - 1, prep[i].content.subject, prep[i].prev, u)
        BY <1>3, <3>1, <3>3 DEF LinkedInMemory
      <4>2. IsEnd(rows, more, i - 1, prep[i].content.subject, prep[i].prev, u)
        BY <1>8, <3>1, <4>1
      <4> QED
        BY <1>3, <3>1, <4>1, <4>2
    <3> QED
      BY <3>2, <3>3
  <2>2. CASE i = n
    <3>1. ASSUME t.hash # NoHash
          PROVE  \E u \in 0..(c.time - 1) : IsEnd(rows, more, n - 1, c.subject, t.hash, u)
      <4>1. t.time \in 0..(c.time - 1)
        BY <1>1, <1>5, <3>1 DEF TimeAfterPrevious, t
      <4>2. IsEnd(rows, prep, n - 1, c.subject, t.hash, t.time)
        BY <1>1, <1>3, <3>1 DEF TipsAreEnds, t
      <4>3. IsEnd(rows, more, n - 1, c.subject, t.hash, t.time)
        BY <1>3, <1>8, <4>2
      <4> QED
        BY <4>1, <4>3
    <3> QED
      BY <1>4, <2>2, <3>1
  <2> QED
    BY <2>1, <2>2
<1>10. ASSUME NEW s \in Subjects, next[s].hash # NoHash
       PROVE  IsEnd(rows, more, n, s, next[s].hash, next[s].time)
  <2>1. CASE s = c.subject
    <3>1. n \in 1..n
      BY <1>3
    <3> QED
      BY <1>3, <1>4, <1>6, <2>1, <3>1 DEF IsEnd
  <2>2. CASE s # c.subject
    <3>1. IsEnd(rows, prep, n - 1, s, tips[s].hash, tips[s].time)
      BY <1>3, <1>6, <1>10, <2>2 DEF TipsAreEnds
    <3>2. n - 1 \in 0..n /\ n \in 0..n /\ n - 1 <= n
      BY <1>3
    <3> QED
      BY <1>6, <1>8, <2>2, <3>1, <3>2
  <2> QED
    BY <2>1, <2>2
<1>11. TipsAreEnds(rows, more, next)
  BY <1>3, <1>10 DEF TipsAreEnds
<1> QED
  BY <1>9, <1>11 DEF t, more, next

LEMMA InitChain == Init => ChainInv
<1> SUFFICES ASSUME Init PROVE ChainInv
  OBVIOUS
<1>1. AllRows = {}
  BY DEF Init, AllRows
<1>2. StoreInv
  BY <1>1 DEF Init, StoreInv, HashesRecompute, NoFork, LinkedToParent
<1>3. BuiltInv
  BY NothingPrepared DEF Init, BuiltInv
<1> QED
  BY <1>2, <1>3, InitType DEF ChainInv

\* Labels at which a request has prepared nothing yet.
Early == {"find", "bulk_read"}

\* What r sees stays visible to it, and what others see to them.
LEMMA SeenStays ==
  ASSUME TypeInv, NEW r \in Requests,
         StoreCommits(r) \/ (StoreShrinks(r) /\ pending' = pending)
  PROVE  \A q \in Requests : Seen(q) \subseteq Seen(q)'
BY DEF StoreCommits, StoreShrinks, Seen, TypeInv, TypeOK

\* A step that prepares nothing and inserts nothing.
LEMMA QuietStep ==
  ASSUME ChainInv, NEW r \in Requests, NEW label, Goto(r, label),
         label # "bulk_compute", label \in Early => pc[r] \in Early,
         label = "done" \/ pc[r] # "done",
         \/ StoreCommits(r)
         \/ StoreShrinks(r) /\ (pending' = pending \/ label = "done"),
         UNCHANGED <<tip, built>>
  PROVE  StoreInv' /\ BuiltInv'
<1>1. StoreInv'
  BY StoreShrinksInv, StoreCommitsInv DEF ChainInv
<1>2. /\ pc'[r] = label
      /\ \A q \in Requests \ {r} : pc'[q] = pc[q]
  BY DEF Goto, ChainInv, TypeInv, TypeOK
<1>3. \A q \in Requests : q # r \/ label # "done" => Seen(q) \subseteq Seen(q)'
  <2>1. CASE StoreCommits(r) \/ (StoreShrinks(r) /\ pending' = pending)
    BY <2>1, SeenStays DEF ChainInv
  <2>2. CASE StoreShrinks(r) /\ label = "done"
    BY <2>2 DEF StoreShrinks, Seen, ChainInv, TypeInv, TypeOK
  <2> QED
    BY <2>1, <2>2
<1>4. ASSUME NEW q \in Requests
      PROVE  /\ pc'[q] # "done" => LinkedInMemory(Seen(q)', built'[q])
             /\ pc'[q] = "bulk_compute" => TipsAreEnds(Seen(q)', built'[q], tip'[q])
             /\ pc'[q] \in {"find", "bulk_read"} => built'[q] = << >>
  <2>1. CASE q = r
    BY <1>2, <1>3, <2>1, LinksStay DEF ChainInv, BuiltInv, Early
  <2>2. CASE q # r
    BY <1>2, <1>3, <2>2, LinksStay DEF ChainInv, BuiltInv
  <2> QED
    BY <2>1, <2>2
<1> QED
  BY <1>1, <1>4 DEF BuiltInv, Seen

LEMMA EndTransactionShrinks ==
  ASSUME TypeInv, NEW r \in Requests, EndTransaction(r), UNCHANGED <<events, nextSeq>>
  PROVE  StoreShrinks(r)
BY DEF EndTransaction, StoreShrinks

LEMMA FailChain ==
  ASSUME ChainInv, NEW r \in Requests, NEW error \in Outcomes, Fail(r, error)
  PROVE  StoreInv' /\ BuiltInv'
<1>1. StoreShrinks(r) /\ UNCHANGED <<tip, built>> /\ Goto(r, "done")
  BY EndTransactionShrinks DEF Fail, ChainInv
<1> QED
  BY <1>1, QuietStep DEF Early

\* A step of r that changes what r has prepared, and inserts nothing.
LEMMA PreparingStep ==
  ASSUME ChainInv, NEW r \in Requests, StoreShrinks(r),
         \A q \in Requests \ {r} : built'[q] = built[q] /\ tip'[q] = tip[q] /\ pc'[q] = pc[q],
         LinkedInMemory(Seen(r)', built'[r]),
         pc'[r] = "bulk_compute" => TipsAreEnds(Seen(r)', built'[r], tip'[r]),
         pc'[r] \notin Early
  PROVE  StoreInv' /\ BuiltInv'
<1>1. StoreInv'
  BY StoreShrinksInv DEF ChainInv
<1>2. \A q \in Requests \ {r} : Seen(q)' = Seen(q)
  BY DEF StoreShrinks, Seen, ChainInv, TypeInv, TypeOK
<1>3. ASSUME NEW q \in Requests
      PROVE  /\ pc'[q] # "done" => LinkedInMemory(Seen(q)', built'[q])
             /\ pc'[q] = "bulk_compute" => TipsAreEnds(Seen(q)', built'[q], tip'[q])
             /\ pc'[q] \in {"find", "bulk_read"} => built'[q] = << >>
  <2>1. CASE q = r
    BY <2>1 DEF Early
  <2>2. CASE q # r
    BY <1>2, <2>2 DEF ChainInv, BuiltInv
  <2> QED
    BY <2>1, <2>2
<1> QED
  BY <1>1, <1>3 DEF BuiltInv, Seen

\* One row of the INSERT of r.
LEMMA InsertingStep ==
  ASSUME ChainInv, NEW r \in Requests, NEW label, label \notin Early,
         label # "bulk_compute", pc[r] \in {"insert", "bulk_insert"},
         InsertAccepted(r, label), WaitsForIndex(r) = {}, ~UniqueViolation(r)
  PROVE  StoreInv' /\ BuiltInv'
<1> DEFINE new == NextRow(r)
<1>1. built[r] # << >> /\ LinkedInMemory(Seen(r), built[r])
  BY DEF ChainInv, BuiltInv, TypeInv, ControlOK
<1>2. StoreInv'
  BY <1>1, StoreInsertsInv DEF ChainInv
<1>3. /\ pending' = [pending EXCEPT ![r] = @ \cup {new}]
      /\ built' = [built EXCEPT ![r] = Tail(@)]
      /\ pc' = [pc EXCEPT ![r] = label]
      /\ UNCHANGED <<events, tip>>
  BY DEF InsertAccepted, Goto
<1>4. new.content = Head(built[r]).content /\ new.hash = Head(built[r]).hash
  BY DEF NextRow
<1> HIDE DEF new
<1>5. /\ pc'[r] = label /\ built'[r] = Tail(built[r]) /\ Seen(r)' = Seen(r) \cup {new}
      /\ \A q \in Requests \ {r} : /\ pc'[q] = pc[q] /\ built'[q] = built[q]
                                  /\ Seen(q)' = Seen(q)
  BY <1>3 DEF Seen, ChainInv, TypeInv, TypeOK
<1>6. LinkedInMemory(Seen(r)', built'[r])
  <2>1. built[r] \in Seq(Prepared)
    BY DEF ChainInv, TypeInv, TypeOK
  <2> QED
    BY <1>1, <1>4, <1>5, <2>1, TailStaysLinked
<1>7. ASSUME NEW q \in Requests
      PROVE  /\ pc'[q] # "done" => LinkedInMemory(Seen(q)', built'[q])
             /\ pc'[q] = "bulk_compute" => TipsAreEnds(Seen(q)', built'[q], tip'[q])
             /\ pc'[q] \in {"find", "bulk_read"} => built'[q] = << >>
  <2>1. CASE q = r
    BY <1>5, <1>6, <2>1 DEF Early
  <2>2. CASE q # r
    BY <1>3, <1>5, <2>2 DEF ChainInv, BuiltInv
  <2> QED
    BY <2>1, <2>2
<1> QED
  BY <1>2, <1>7 DEF BuiltInv, Seen

LEMMA CreateStepChain ==
  ASSUME ChainInv, NEW r \in Requests, CreateStep(r)
  PROVE  StoreInv' /\ BuiltInv'
<1> USE DEF ChainInv, TypeInv, TypeOK
<1>0. CASE \E error \in Outcomes : Fail(r, error)
  BY <1>0, FailChain
<1> SUFFICES ASSUME ~\E error \in Outcomes : Fail(r, error)
             PROVE  StoreInv' /\ BuiltInv'
  BY <1>0
<1>1. CASE FindSubject(r)
  BY <1>1, QuietStep DEF FindSubject, Early, StoreShrinks, Outcomes
<1>2. CASE ValidateTransition(r)
  BY <1>2, QuietStep DEF ValidateTransition, Early, StoreShrinks, Outcomes
<1>3. CASE LockSubject(r)
  BY <1>3, QuietStep DEF LockSubject, Early, StoreShrinks, Outcomes
<1>4. CASE ReadTip(r)
  <2>1. PICK t \in LastEvent(RowsOf(events, Subject(r))) :
          /\ TimeAfterPrevious(input[r][1], t)
          /\ built' = [built EXCEPT ![r] = <<Prepare(input[r][1], t)>>]
          /\ Goto(r, "insert")
          /\ UNCHANGED <<events, pending, subjects, lock, nextSeq, now, tx, input, tip,
                         attempt, outcome>>
    BY <1>4 DEF ReadTip, Outcomes
  <2>2. r \in Creates /\ r \notin Bulks
    BY <1>4, RequestsAssumption DEF ReadTip, ControlOK, BulkPCs, Bulks
  <2>3. input[r][1] \in Content /\ t \in Tip
    BY <2>1, <2>2, InputType, LastEventType DEF RowsOf
  <2>4. LinkedInMemory(Seen(r), <<Prepare(input[r][1], t)>>)
    <3>1. t.hash # NoHash => IsEnd(events, << >>, 0, input[r][1].subject, t.hash, t.time)
      BY <2>1, LastEventIsEnd DEF Subject
    <3>2. LinkedInMemory(events, <<Prepare(input[r][1], t)>>)
      BY <2>1, <2>3, <3>1, PrepareFirst
    <3>3. events \subseteq Seen(r)
      BY DEF Seen
    <3> QED
      BY ONLY <3>2, <3>3, LinksStay
  <2>5. StoreShrinks(r)
    BY <2>1 DEF StoreShrinks
  <2>6. /\ built'[r] = <<Prepare(input[r][1], t)>>
        /\ pc'[r] = "insert" /\ Seen(r)' = Seen(r)
        /\ \A q \in Requests \ {r} : built'[q] = built[q] /\ tip'[q] = tip[q] /\ pc'[q] = pc[q]
    BY <2>1 DEF Goto, Seen
  <2> QED
    BY <2>4, <2>5, <2>6, PreparingStep DEF Early
<1>5. CASE InsertRow(r)
  <2>1. CASE InsertRefused(r)
    <3>1. StoreShrinks(r)
      BY <2>1, EndTransactionShrinks DEF InsertRefused
    <3>2. /\ built'[r] = << >>
          /\ pc'[r] \in {"done", "lock"}
          /\ \A q \in Requests \ {r} : built'[q] = built[q] /\ tip'[q] = tip[q]
                                       /\ pc'[q] = pc[q]
      BY <2>1 DEF InsertRefused, Goto
    <3>3. LinkedInMemory(Seen(r)', built'[r])
      BY <3>2, NothingPrepared
    <3> QED
      BY <3>1, <3>2, <3>3, PreparingStep DEF Early
  <2>2. CASE InsertAccepted(r, "commit") /\ ~InsertRefused(r)
    <3>1. WaitsForIndex(r) = {} /\ ~UniqueViolation(r) /\ pc[r] = "insert"
      BY <1>5, <2>2 DEF InsertRow
    <3> QED
      BY <2>2, <3>1, InsertingStep DEF Early
  <2> QED
    BY <1>5, <2>1, <2>2 DEF InsertRow
<1>6. CASE Commit(r)
  <2>1. /\ StoreCommits(r) /\ UNCHANGED <<tip, built>>
        /\ Goto(r, "respond") /\ pc[r] # "done"
    BY <1>6 DEF Commit, EndTransaction, StoreCommits
  <2> QED
    BY <2>1, QuietStep DEF Early
<1>7. CASE Respond(r)
  BY <1>7, QuietStep DEF Respond, Early, StoreShrinks
<1> QED
  BY <1>1, <1>2, <1>3, <1>4, <1>5, <1>6, <1>7 DEF CreateStep

LEMMA BulkStepChain ==
  ASSUME ChainInv, NEW r \in Requests, BulkStep(r)
  PROVE  StoreInv' /\ BuiltInv'
<1> USE DEF ChainInv, TypeInv, TypeOK
<1>0. CASE \E error \in Outcomes : Fail(r, error)
  BY <1>0, FailChain
<1> SUFFICES ASSUME ~\E error \in Outcomes : Fail(r, error)
             PROVE  StoreInv' /\ BuiltInv'
  BY <1>0
<1>1. CASE BulkFindSubjects(r)
  BY <1>1, QuietStep DEF BulkFindSubjects, Early, StoreShrinks, Outcomes
<1>2. CASE BulkReadTips(r)
  <2>1. PICK t \in [SubjectsOf(r) ->
                      UNION {LastEvent(RowsOf(events, s)) : s \in SubjectsOf(r)}] :
          /\ \A s \in SubjectsOf(r) : t[s] \in LastEvent(RowsOf(events, s))
          /\ tip' = [tip EXCEPT ![r] = [s \in Subjects |-> IF s \in SubjectsOf(r) THEN t[s]
                                                                               ELSE NoTip]]
    BY <1>2 DEF BulkReadTips
  <2>2. /\ pc[r] = "bulk_read" /\ Goto(r, "bulk_compute")
        /\ UNCHANGED <<events, pending, nextSeq, built>>
    BY <1>2 DEF BulkReadTips
  <2>3. built[r] = << >>
    BY <2>2 DEF BuiltInv
  <2>4. ASSUME NEW s \in Subjects, tip'[r][s].hash # NoHash
        PROVE  IsEnd(events, << >>, 0, s, tip'[r][s].hash, tip'[r][s].time)
    <3>1. s \in SubjectsOf(r) /\ tip'[r][s] = t[s]
      BY <2>1, <2>4 DEF NoTip
    <3> QED
      BY <2>1, <2>4, <3>1, LastEventIsEnd
  <2>5. TipsAreEnds(Seen(r), << >>, tip'[r])
    <3>1. TipsAreEnds(events, << >>, tip'[r])
      BY <2>4 DEF TipsAreEnds
    <3> QED
      BY <3>1, LinksStay DEF Seen
  <2>6. StoreShrinks(r)
    BY <2>2 DEF StoreShrinks
  <2>7. /\ built'[r] = << >>
        /\ pc'[r] = "bulk_compute" /\ Seen(r)' = Seen(r)
        /\ \A q \in Requests \ {r} : built'[q] = built[q] /\ tip'[q] = tip[q] /\ pc'[q] = pc[q]
    BY <2>1, <2>2, <2>3 DEF Goto, Seen
  <2> QED
    BY <2>5, <2>6, <2>7, NothingPrepared, PreparingStep DEF Early
<1>3. CASE BulkCompute(r)
  <2> DEFINE c == input[r][Len(built[r]) + 1]
             t == tip[r][c.subject]
             next == [tip[r] EXCEPT ![c.subject] =
                        [hash |-> compute_hash(c, t.hash), time |-> c.time]]
  <2>1. /\ pc[r] = "bulk_compute"
        /\ Len(built[r]) + 1 <= Len(input[r])
        /\ TimeAfterPrevious(c, t)
        /\ built' = [built EXCEPT ![r] = Append(@, Prepare(c, t))]
        /\ tip' = [tip EXCEPT ![r][c.subject] =
                     [hash |-> compute_hash(c, t.hash), time |-> c.time]]
        /\ Goto(r, IF Len(built[r]) + 1 = Len(input[r]) THEN "bulk_insert" ELSE "bulk_compute")
        /\ UNCHANGED <<events, pending, subjects, lock, nextSeq, now, tx, input, attempt,
                       outcome>>
    BY <1>3 DEF BulkCompute, Outcomes
  <2>2. c \in Content
    <3>1. input[r] \in Seq(Content) /\ Len(built[r]) \in Nat
      OBVIOUS
    <3>2. Len(built[r]) + 1 \in DOMAIN input[r]
      BY <2>1, <3>1
    <3> QED
      BY <3>2, InputType
  <2>4. LinkedInMemory(Seen(r), built[r]) /\ TipsAreEnds(Seen(r), built[r], tip[r])
    BY <2>1 DEF BuiltInv
  <2>5. built[r] \in Seq(Prepared) /\ tip[r] \in [Subjects -> Tip]
    OBVIOUS
  <2>6. tip'[r] = next
    BY <2>1
  <2> HIDE DEF c
  <2>7. /\ LinkedInMemory(Seen(r), Append(built[r], Prepare(c, t)))
        /\ TipsAreEnds(Seen(r), Append(built[r], Prepare(c, t)), next)
    BY <2>1, <2>2, <2>4, <2>5, PrepareNext
  <2>8. StoreShrinks(r)
    BY <2>1 DEF StoreShrinks
  <2>9. /\ built'[r] = Append(built[r], Prepare(c, t))
        /\ pc'[r] \in {"bulk_insert", "bulk_compute"} /\ Seen(r)' = Seen(r)
        /\ \A q \in Requests \ {r} : built'[q] = built[q] /\ tip'[q] = tip[q] /\ pc'[q] = pc[q]
    BY <2>1 DEF Goto, Seen
  <2> QED
    BY <2>6, <2>7, <2>8, <2>9, PreparingStep DEF Early
<1>4. CASE BulkInsert(r)
  <2>1. /\ InsertAccepted(r, IF Len(built[r]) = 1 THEN "bulk_fk" ELSE "bulk_insert")
        /\ pc[r] = "bulk_insert" /\ WaitsForIndex(r) = {} /\ ~UniqueViolation(r)
    BY <1>4 DEF BulkInsert, Outcomes
  <2> QED
    BY <2>1, InsertingStep DEF Early
<1>5. CASE BulkForeignKeys(r)
  BY <1>5, QuietStep DEF BulkForeignKeys, Early, StoreShrinks, Outcomes
<1>6. CASE BulkRespond(r)
  BY <1>6, QuietStep DEF BulkRespond, Early, StoreShrinks, Outcomes
<1>7. CASE BulkCommit(r)
  <2>1. /\ StoreCommits(r) /\ UNCHANGED <<tip, built>>
        /\ Goto(r, "done") /\ pc[r] # "done"
    BY <1>7 DEF BulkCommit, EndTransaction, StoreCommits
  <2> QED
    BY <2>1, QuietStep DEF Early
<1> QED
  BY <1>1, <1>2, <1>3, <1>4, <1>5, <1>6, <1>7 DEF BulkStep

LEMMA NextChain == ChainInv /\ [Next]_vars => ChainInv'
<1> SUFFICES ASSUME ChainInv, [Next]_vars PROVE ChainInv'
  OBVIOUS
<1>1. TypeInv'
  BY NextType DEF ChainInv
<1>2. CASE UNCHANGED <<events, pending, nextSeq, tip, built, pc>>
  <2>1. AllRows' = AllRows
    BY <1>2 DEF AllRows
  <2>2. StoreInv'
    BY <1>2, <2>1 DEF ChainInv, StoreInv
  <2>3. BuiltInv'
    BY <1>2 DEF ChainInv, BuiltInv, Seen
  <2> QED
    BY <1>1, <2>2, <2>3 DEF ChainInv
<1>3. ASSUME NEW r \in Requests, Step(r)
      PROVE  StoreInv' /\ BuiltInv'
  <2>1. CASE DeadlockAbort(r)
    BY <2>1, FailChain DEF DeadlockAbort, Outcomes
  <2> QED
    BY <1>3, <2>1, CreateStepChain, BulkStepChain DEF Step
<1>4. ASSUME NEW r \in Requests, Abort(r)
      PROVE  StoreInv' /\ BuiltInv'
  BY <1>4, FailChain DEF Abort, Outcomes
<1>5. CASE \E s \in Subjects : DeleteSubject(s)
  BY <1>2, <1>5 DEF DeleteSubject
<1>6. CASE Tick
  BY <1>2, <1>6 DEF Tick
<1>7. CASE UNCHANGED vars
  BY <1>2, <1>7 DEF vars
<1> QED
  BY <1>1, <1>3, <1>4, <1>5, <1>6, <1>7 DEF Next, AllAnswered, ChainInv

\* The chains of every subject stay well formed under every interleaving, whatever the
\* number of requests, the batches they carry and the way their sessions begin.
THEOREM ChainsStayWellFormed == Spec => []ChainIntegrity
<1>1. ChainInv => ChainIntegrity
  BY AllRowsElements
  DEF ChainInv, StoreInv, ChainIntegrity, HashesRecompute, NoFork, LinkedToParent
<1> QED
  BY <1>1, InitChain, NextChain, PTL DEF Spec

-----------------------------------------------------------------------------
(***************************************************************************)
(* From here on, what rests on ChainInv: the rows of a subject are one      *)
(* chain, in the same order by event_seq, by event_time and by their hash    *)
(* links, and the store implements AppendLog.                              *)
(***************************************************************************)

(***************************************************************************)
(* Hashes are histories: what StrictPrefix says of them.                    *)
(***************************************************************************)

LEMMA PrefixByElements ==
  ASSUME NEW g \in Hashes, NEW h \in Hashes
  PROVE  StrictPrefix(g, h) <=> Len(g) < Len(h) /\ \A i \in 1..Len(g) : h[i] = g[i]
<1>1. g \in Seq(Content) /\ h \in Seq(Content) /\ Len(g) \in Nat /\ Len(h) \in Nat
  BY DEF Hashes
<1>2. ASSUME Len(g) < Len(h)
      PROVE  SubSeq(h, 1, Len(g)) = g <=> \A i \in 1..Len(g) : h[i] = g[i]
  <2> DEFINE u == SubSeq(h, 1, Len(g))
  <2>1. 1 \in 1..Len(h) + 1 /\ Len(g) \in 0..Len(h)
    BY <1>1, <1>2
  <2>2. /\ u \in Seq(Content)
        /\ Len(u) = IF 1 <= Len(g) THEN Len(g) - 1 + 1 ELSE 0
        /\ \A i \in 1 .. Len(g) - 1 + 1 : u[i] = h[1 + i - 1]
    BY <1>1, <2>1, SubSeqProperties
  <2>3. Len(u) = Len(g) /\ \A i \in 1..Len(g) : u[i] = h[i]
    BY <1>1, <2>2
  <2> HIDE DEF u
  <2>4. (\A i \in 1..Len(g) : h[i] = g[i]) => u = g
    BY <1>1, <2>2, <2>3, SeqEqual
  <2> QED
    BY <2>3, <2>4 DEF u
<1> QED
  BY <1>2 DEF StrictPrefix

\* A hash extends the hash it was computed from, whatever that one extends, and nothing else.
LEMMA PrefixOfNext ==
  ASSUME NEW g \in Hashes, NEW h \in Hashes, NEW c \in Content
  PROVE  /\ StrictPrefix(h, compute_hash(c, h))
         /\ StrictPrefix(g, h) => StrictPrefix(g, compute_hash(c, h))
         /\ g = h \/ StrictPrefix(g, h) => ~StrictPrefix(compute_hash(c, h), g)
         /\ ~StrictPrefix(g, g)
<1> DEFINE n == compute_hash(c, h)
<1>1. /\ n \in Hashes /\ Len(n) = Len(h) + 1 /\ Len(h) \in Nat /\ Len(g) \in Nat
      /\ \A i \in 1..Len(h) : n[i] = h[i]
  BY HashType DEF compute_hash, Hashes
<1> HIDE DEF n
<1>2. StrictPrefix(h, n)
  BY <1>1, PrefixByElements
<1>3. ASSUME StrictPrefix(g, h) PROVE StrictPrefix(g, n)
  <2>1. Len(g) < Len(h) /\ \A i \in 1..Len(g) : h[i] = g[i]
    BY <1>3, PrefixByElements
  <2>2. Len(g) < Len(n) /\ \A i \in 1..Len(g) : n[i] = g[i]
    BY <1>1, <2>1
  <2> QED
    BY <1>1, <2>2, PrefixByElements
<1>4. ASSUME g = h \/ StrictPrefix(g, h) PROVE ~StrictPrefix(n, g)
  BY <1>1, <1>4 DEF StrictPrefix
<1>5. ~StrictPrefix(g, g)
  BY <1>1 DEF StrictPrefix
<1> QED
  BY <1>2, <1>3, <1>4, <1>5 DEF n

-----------------------------------------------------------------------------
(***************************************************************************)
(* One timeline.                                                           *)
(***************************************************************************)

\* z is the last of the rows of a subject, and the only one that has no successor.
IsEndOf(z, rows) ==
  /\ IsLastEvent(z, rows)
  /\ \A p \in rows : p # z => \E y \in rows : y.prev = p.hash
  /\ \E y \in rows : y.prev = NoHash

\* The rows of one subject are a timeline.
Linear(rows) ==
  /\ \A p, q \in rows :
       /\ p.seq < q.seq <=> StrictPrefix(p.hash, q.hash)
       /\ p.seq < q.seq <=> p.content.time < q.content.time
       /\ p.seq = q.seq => p = q
  /\ rows # {} => \E z \in rows : IsEndOf(z, rows)

\* A row that continues a timeline and is refused by no index is its new end.
LEMMA LinearGrows ==
  ASSUME NEW rows \in SUBSET Row, NEW x \in Row, Linear(rows),
         x.hash = compute_hash(x.content, x.prev),
         \A y \in rows : y.seq < x.seq /\ y.prev # x.prev,
         x.prev = NoHash \/ \E e \in rows : e.hash = x.prev /\ e.content.time < x.content.time
  PROVE  /\ Linear(rows \cup {x})
         /\ IsEndOf(x, rows \cup {x})
         /\ x.prev = NoHash => rows = {}
         /\ \A z \in rows : IsEndOf(z, rows) => x.prev = z.hash
<1> DEFINE more == rows \cup {x}
<1>1. /\ x.seq \in Nat /\ x.content \in Content /\ x.prev \in Hashes /\ x.hash \in Hashes
      /\ x.content.time \in Nat
      /\ \A y \in rows : /\ y.seq \in Nat /\ y.hash \in Hashes /\ y.prev \in Hashes
                         /\ y.content.time \in Nat
  BY DEF Row, Content
<1>2. x.prev = NoHash => rows = {}
  BY DEF Linear, IsEndOf
<1>3. ASSUME NEW z \in rows, IsEndOf(z, rows) PROVE x.prev = z.hash
  BY <1>2, <1>3 DEF IsEndOf
<1>4. ASSUME NEW y \in rows
      PROVE  /\ StrictPrefix(y.hash, x.hash) /\ ~StrictPrefix(x.hash, y.hash)
             /\ y.content.time < x.content.time
  <2>1. PICK z \in rows : IsEndOf(z, rows)
    BY <1>4 DEF Linear
  <2>2. x.prev = z.hash /\ z.content.time < x.content.time
    <3>1. x.prev = z.hash
      BY <1>3, <2>1
    <3>2. PICK e \in rows : e.hash = x.prev /\ e.content.time < x.content.time
      BY <1>2, <1>4
    <3>3. e = z
      BY <2>1, <3>1, <3>2 DEF IsEndOf
    <3> QED
      BY <3>1, <3>2, <3>3
  <2>3. CASE y = z
    BY <1>1, <2>2, <2>3, PrefixOfNext
  <2>4. CASE y # z
    <3>0. y.seq <= z.seq /\ y.seq # z.seq
      BY <2>1, <2>4 DEF IsEndOf, IsLastEvent, Linear
    <3>1. y.seq < z.seq
      BY <1>1, <3>0
    <3>2. StrictPrefix(y.hash, z.hash) /\ y.content.time < z.content.time
      BY <3>1 DEF Linear
    <3>3. y.content.time < x.content.time
      BY <1>1, <2>2, <3>2
    <3> QED
      BY <1>1, <2>2, <3>2, <3>3, PrefixOfNext
  <2> QED
    BY <2>3, <2>4
<1>5. ASSUME NEW p \in more, NEW q \in more
      PROVE  /\ p.seq < q.seq <=> StrictPrefix(p.hash, q.hash)
             /\ p.seq < q.seq <=> p.content.time < q.content.time
             /\ p.seq = q.seq => p = q
  <2>1. CASE p \in rows /\ q \in rows
    BY <2>1 DEF Linear
  <2>2. CASE p \in rows /\ q = x
    BY <1>1, <1>4, <2>2
  <2>3. CASE p = x /\ q \in rows
    <3>1. q.seq < x.seq
      BY <2>3
    <3>2. ~(p.seq < q.seq) /\ p.seq # q.seq
      BY <1>1, <2>3, <3>1
    <3>3. ~(p.content.time < q.content.time) /\ ~StrictPrefix(p.hash, q.hash)
      BY <1>1, <1>4, <2>3
    <3> QED
      BY <3>2, <3>3
  <2>4. CASE p = x /\ q = x
    BY <1>1, <2>4, PrefixOfNext
  <2> QED
    BY <1>5, <2>1, <2>2, <2>3, <2>4
<1>6. IsEndOf(x, more)
  <2>1. IsLastEvent(x, more)
    BY <1>1 DEF IsLastEvent
  <2>2. ASSUME NEW p \in rows PROVE \E y \in more : y.prev = p.hash
    <3>1. PICK z \in rows : IsEndOf(z, rows)
      BY <2>2 DEF Linear
    <3>2. CASE p = z
      BY <1>3, <3>1, <3>2
    <3>3. CASE p # z
      BY <3>1, <3>3 DEF IsEndOf
    <3> QED
      BY <3>2, <3>3
  <2>3. \E y \in more : y.prev = NoHash
    <3>1. CASE rows = {}
      BY <3>1
    <3>2. CASE rows # {}
      BY <3>2 DEF Linear, IsEndOf
    <3> QED
      BY <3>1, <3>2
  <2> QED
    BY <2>1, <2>2, <2>3 DEF IsEndOf
<1>7. Linear(more)
  BY <1>5, <1>6 DEF Linear
<1> QED
  BY <1>2, <1>3, <1>6, <1>7

-----------------------------------------------------------------------------
(***************************************************************************)
(* The timelines under concurrent transactions.                            *)
(***************************************************************************)

\* The rows of s that are committed, and those r has inserted.
Committed(s) == RowsOf(events, s)
Uncommitted(r, s) == RowsOf(pending[r], s)

\* g is what a row needs as its predecessor to continue these rows.
Continues(g, rows) ==
  IF rows = {} THEN g = NoHash ELSE \E z \in rows : IsEndOf(z, rows) /\ z.hash = g

\* Everybody sees a timeline; a transaction that holds rows of a subject has continued the
\* committed ones, so no other can hold rows of that subject.
TimelineInv(s) ==
  /\ Linear(Committed(s))
  /\ \A r \in Requests : Linear(Committed(s) \cup Uncommitted(r, s))
  /\ \A r, q \in Requests : r # q => Uncommitted(r, s) = {} \/ Uncommitted(q, s) = {}
  /\ \A r \in Requests :
       Uncommitted(r, s) # {} => \E y \in Uncommitted(r, s) : Continues(y.prev, Committed(s))

OrderInv == \A s \in Subjects : TimelineInv(s)

\* What an INSERT that no index refuses does to the table.
StoreInserts(r) ==
  /\ pc[r] \in {"insert", "bulk_insert"}
  /\ UNCHANGED events
  /\ pending' = [pending EXCEPT ![r] = @ \cup {NextRow(r)}]
  /\ nextSeq' = nextSeq + 1
  /\ WaitsForIndex(r) = {} /\ ~UniqueViolation(r)

\* A step does one of three things to the table, or nothing.
LEMMA StoreSteps ==
  ASSUME ChainInv, [Next]_vars
  PROVE  \/ UNCHANGED <<events, pending, nextSeq>>
         \/ \E r \in Requests :
              \/ StoreShrinks(r)
              \/ StoreCommits(r) /\ pc[r] \in {"commit", "bulk_commit"}
              \/ StoreInserts(r)
<1>1. ASSUME NEW r \in Requests, NEW error, Fail(r, error)
      PROVE  StoreShrinks(r)
  BY <1>1, EndTransactionShrinks DEF Fail, ChainInv
<1>2. ASSUME NEW r \in Requests, CreateStep(r)
      PROVE  StoreShrinks(r) \/ (StoreCommits(r) /\ pc[r] = "commit") \/ StoreInserts(r)
  <2>1. CASE InsertRow(r)
    <3>1. CASE InsertRefused(r)
      BY <3>1, EndTransactionShrinks DEF InsertRefused, ChainInv
    <3>2. CASE ~InsertRefused(r)
      BY <2>1, <3>2 DEF InsertRow, InsertAccepted, StoreInserts
    <3> QED
      BY <3>1, <3>2
  <2>2. CASE Commit(r)
    BY <2>2 DEF Commit, EndTransaction, StoreCommits
  <2>3. CASE FindSubject(r) \/ ValidateTransition(r) \/ LockSubject(r) \/ ReadTip(r) \/ Respond(r)
    BY <1>1, <2>3
    DEF FindSubject, ValidateTransition, LockSubject, ReadTip, Respond, StoreShrinks
  <2> QED
    BY <1>2, <2>1, <2>2, <2>3 DEF CreateStep
<1>3. ASSUME NEW r \in Requests, BulkStep(r)
      PROVE  StoreShrinks(r) \/ (StoreCommits(r) /\ pc[r] = "bulk_commit") \/ StoreInserts(r)
  <2>1. CASE BulkInsert(r)
    BY <1>1, <2>1 DEF BulkInsert, InsertAccepted, StoreInserts
  <2>2. CASE BulkCommit(r)
    BY <2>2 DEF BulkCommit, EndTransaction, StoreCommits
  <2>3. CASE \/ BulkFindSubjects(r) \/ BulkReadTips(r) \/ BulkCompute(r) \/ BulkForeignKeys(r)
             \/ BulkRespond(r)
    BY <1>1, <2>3
    DEF BulkFindSubjects, BulkReadTips, BulkCompute, BulkForeignKeys, BulkRespond, StoreShrinks
  <2> QED
    BY <1>3, <2>1, <2>2, <2>3 DEF BulkStep
<1>4. ASSUME NEW r \in Requests, DeadlockAbort(r) \/ Abort(r)
      PROVE  StoreShrinks(r)
  BY <1>1, <1>4 DEF DeadlockAbort, Abort
<1>5. CASE UNCHANGED vars \/ Tick \/ \E s \in Subjects : DeleteSubject(s)
  BY <1>5 DEF vars, Tick, DeleteSubject
<1> QED
  BY <1>2, <1>3, <1>4, <1>5 DEF Next, Step, AllAnswered

\* What is known of the row an INSERT adds.
LEMMA NewRow ==
  ASSUME ChainInv, ChainInv', NEW r \in Requests, StoreInserts(r)
  PROVE  LET x == NextRow(r) IN
         /\ x \in Row
         /\ x.hash = compute_hash(x.content, x.prev)
         /\ x.seq = nextSeq
         /\ \A y \in AllRows : y.seq < x.seq /\ ~Collides(x, y)
         /\ x.prev # NoHash => \E e \in Seen(r) : IsParent(e, x)
<1> USE DEF ChainInv, TypeInv, TypeOK
<1> DEFINE x == NextRow(r)
<1>1. x \in Row
  BY NextRowType DEF StoreInserts, ControlOK
<1>2. x.seq = nextSeq
  BY DEF NextRow
<1>3. \A y \in AllRows : ~Collides(x, y)
  <2> SUFFICES ASSUME NEW y \in AllRows PROVE ~Collides(x, y)
    OBVIOUS
  <2>1. CASE y \in events \cup pending[r]
    BY <2>1 DEF UniqueViolation, StoreInserts
  <2>2. CASE y \notin events \cup pending[r]
    <3>1. PICK q \in Requests : q # r /\ y \in pending[q]
      BY <2>2, AllRowsElements
    <3> QED
      BY <3>1 DEF WaitsForIndex, StoreInserts
  <2> QED
    BY <2>1, <2>2
<1>4. pending'[r] = pending[r] \cup {x} /\ events' = events
  BY DEF StoreInserts
<1> HIDE DEF x
<1>5. x \in AllRows'
  BY <1>4 DEF AllRows
<1>6. x.hash = compute_hash(x.content, x.prev)
  BY <1>5 DEF StoreInv, HashesRecompute
<1>7. ASSUME x.prev # NoHash PROVE \E e \in Seen(r) : IsParent(e, x)
  <2>1. PICK e \in events' \cup pending'[r] : IsParent(e, x)
    BY <1>4, <1>7 DEF StoreInv
  <2>2. e # x
    BY <1>1, <2>1 DEF IsParent, Row
  <2> QED
    BY <1>4, <2>1, <2>2 DEF Seen
<1>8. \A y \in AllRows : y.seq < x.seq
  BY <1>2 DEF StoreInv
<1> QED
  BY <1>1, <1>2, <1>3, <1>6, <1>7, <1>8 DEF x

LEMMA OneEnd ==
  ASSUME NEW rows \in SUBSET Row, Linear(rows), NEW y \in rows, NEW z \in rows,
         IsEndOf(y, rows), IsEndOf(z, rows)
  PROVE  y = z
<1>1. y.seq <= z.seq /\ z.seq <= y.seq /\ y.seq \in Nat /\ z.seq \in Nat
  BY DEF IsEndOf, IsLastEvent, Row
<1>2. y.seq = z.seq
  BY <1>1
<1> QED
  BY <1>2 DEF Linear

\* The rows of s that everybody sees, after an INSERT of one of them.
LEMMA InsertKeepsTimeline ==
  ASSUME ChainInv, ChainInv', OrderInv, NEW r \in Requests, StoreInserts(r), NEW s \in Subjects
  PROVE  TimelineInv(s)'
<1> DEFINE x == NextRow(r)
           E == Committed(s)
           P == Uncommitted(r, s)
<1>1. /\ x \in Row
      /\ x.hash = compute_hash(x.content, x.prev)
      /\ \A y \in AllRows : y.seq < x.seq /\ ~Collides(x, y)
      /\ x.prev # NoHash => \E e \in Seen(r) : IsParent(e, x)
  BY NewRow
<1>2. /\ events' = events
      /\ \A q \in Requests :
           pending'[q] = IF q = r THEN pending[r] \cup {x} ELSE pending[q]
  BY DEF StoreInserts, ChainInv, TypeInv, TypeOK
<1> HIDE DEF x
<1>3. /\ Committed(s)' = E
      /\ \A q \in Requests \ {r} : Uncommitted(q, s)' = Uncommitted(q, s)
      /\ Uncommitted(r, s)' = IF x.content.subject = s THEN P \cup {x} ELSE P
  BY <1>2 DEF Committed, Uncommitted, RowsOf
<1>4. TimelineInv(s)
  BY DEF OrderInv
<1>5. CASE x.content.subject # s
  BY <1>3, <1>4, <1>5 DEF TimelineInv
<1>6. CASE x.content.subject = s
  <2>1. /\ E \in SUBSET Row /\ P \in SUBSET Row
        /\ \A y \in E \cup P : y \in AllRows /\ y.content.subject = s
    BY AllRowsElements DEF Committed, Uncommitted, RowsOf, ChainInv, TypeInv, TypeOK
  <2>2. \A y \in E \cup P : y.seq < x.seq /\ y.prev # x.prev
    BY <1>1, <1>6, <2>1 DEF Collides
  <2>3. x.prev = NoHash \/ \E e \in E \cup P : e.hash = x.prev /\ e.content.time < x.content.time
    BY <1>1, <1>6 DEF IsParent, Seen, Committed, Uncommitted, RowsOf
  <2>4. Linear(E \cup P \cup {x})
    BY <1>1, <1>4, <2>1, <2>2, <2>3, LinearGrows DEF TimelineInv
  <2>5. ASSUME P = {} PROVE Continues(x.prev, E)
    <3>1. Linear(E) /\ E \cup P = E
      BY <1>4, <2>5 DEF TimelineInv
    <3>2. CASE E = {}
      BY <2>3, <3>1, <3>2 DEF Continues
    <3>3. CASE E # {}
      <4>1. PICK z \in E : IsEndOf(z, E)
        BY <3>1, <3>3 DEF Linear
      <4>2. /\ \A y \in E : y.seq < x.seq /\ y.prev # x.prev
            /\ x.prev = NoHash \/ \E e \in E : e.hash = x.prev
                                             /\ e.content.time < x.content.time
        BY <2>2, <2>3, <3>1
      <4>3. /\ E \in SUBSET Row /\ x \in Row /\ Linear(E)
            /\ x.hash = compute_hash(x.content, x.prev)
        BY <1>1, <2>1, <3>1
      <4>4. \A y \in E : IsEndOf(y, E) => x.prev = y.hash
        BY ONLY <4>2, <4>3, LinearGrows
      <4>5. x.prev = z.hash
        BY <4>1, <4>4
      <4> QED
        BY <3>3, <4>1, <4>5 DEF Continues
    <3> QED
      BY <3>2, <3>3
  <2>6. ASSUME NEW q \in Requests \ {r} PROVE Uncommitted(q, s) = {}
    <3>1. CASE P # {}
      BY <1>4, <3>1 DEF TimelineInv
    <3>2. CASE P = {}
      <4> SUFFICES ASSUME Uncommitted(q, s) # {} PROVE FALSE
        OBVIOUS
      <4>1. PICK y \in Uncommitted(q, s) : Continues(y.prev, E)
        BY <1>4 DEF TimelineInv
      <4>2. Continues(x.prev, E) /\ Linear(E)
        BY <1>4, <2>5, <3>2 DEF TimelineInv
      <4>3. x.prev = y.prev
        BY <2>1, <4>1, <4>2, OneEnd DEF Continues
      <4>4. y \in AllRows /\ y.content.subject = s
        BY AllRowsElements DEF Uncommitted, RowsOf
      <4> QED
        BY <1>1, <1>6, <4>3, <4>4 DEF Collides
    <3> QED
      BY <3>1, <3>2
  <2>7. Linear(Committed(s))' /\ \A q \in Requests : Linear(Committed(s) \cup Uncommitted(q, s))'
    <3>1. Linear(Committed(s)')
      BY <1>3, <1>4 DEF TimelineInv
    <3>2. ASSUME NEW q \in Requests PROVE Linear(Committed(s)' \cup Uncommitted(q, s)')
      <4>1. CASE q = r
        <5>1. Committed(s)' \cup Uncommitted(q, s)' = E \cup P \cup {x}
          BY <1>3, <1>6, <4>1
        <5> QED
          BY <2>4, <5>1
      <4>2. CASE q # r
        BY <1>3, <1>4, <4>2 DEF TimelineInv
      <4> QED
        BY <4>1, <4>2
    <3> QED
      BY <3>1, <3>2
  <2>8. \A p, q \in Requests : p # q => Uncommitted(p, s)' = {} \/ Uncommitted(q, s)' = {}
    BY <1>3, <2>6
  <2>9. ASSUME NEW q \in Requests, Uncommitted(q, s)' # {}
        PROVE  \E y \in Uncommitted(q, s)' : Continues(y.prev, E)
    <3>1. CASE q = r /\ P = {}
      BY <1>3, <1>6, <2>5, <3>1
    <3>2. CASE q = r /\ P # {}
      BY <1>3, <1>4, <1>6, <3>2 DEF TimelineInv
    <3>3. CASE q # r
      BY <1>3, <2>6, <2>9, <3>3
    <3> QED
      BY <3>1, <3>2, <3>3
  <2> QED
    BY <1>3, <2>7, <2>8, <2>9 DEF TimelineInv
<1> QED
  BY <1>5, <1>6

LEMMA CommitKeepsTimeline ==
  ASSUME ChainInv, OrderInv, NEW r \in Requests, StoreCommits(r), NEW s \in Subjects
  PROVE  TimelineInv(s)'
<1>1. /\ Committed(s)' = Committed(s) \cup Uncommitted(r, s)
      /\ \A q \in Requests : Uncommitted(q, s)' = IF q = r THEN {} ELSE Uncommitted(q, s)
  BY DEF StoreCommits, Committed, Uncommitted, RowsOf, ChainInv, TypeInv, TypeOK
<1>2. TimelineInv(s)
  BY DEF OrderInv
<1>3. CASE Uncommitted(r, s) = {}
  BY <1>1, <1>2, <1>3 DEF TimelineInv
<1>4. CASE Uncommitted(r, s) # {}
  <2>1. \A q \in Requests : Uncommitted(q, s)' = {}
    BY <1>1, <1>2, <1>4 DEF TimelineInv
  <2>2. Linear(Committed(s)')
    BY <1>1, <1>2 DEF TimelineInv
  <2>3. \A q \in Requests : Committed(s)' \cup Uncommitted(q, s)' = Committed(s)'
    BY <2>1
  <2> QED
    BY <2>1, <2>2, <2>3 DEF TimelineInv
<1> QED
  BY <1>3, <1>4

LEMMA ShrinkKeepsTimeline ==
  ASSUME ChainInv, OrderInv, NEW r \in Requests, StoreShrinks(r), NEW s \in Subjects
  PROVE  TimelineInv(s)'
<1>1. /\ Committed(s)' = Committed(s)
      /\ \A q \in Requests : Uncommitted(q, s)' \in {{}, Uncommitted(q, s)}
  BY DEF StoreShrinks, Committed, Uncommitted, RowsOf, ChainInv, TypeInv, TypeOK
<1>2. TimelineInv(s)
  BY DEF OrderInv
<1>3. ASSUME NEW q \in Requests PROVE Linear(Committed(s)' \cup Uncommitted(q, s)')
  <2>1. CASE Uncommitted(q, s)' = {}
    <3>1. Committed(s)' \cup Uncommitted(q, s)' = Committed(s)
      BY <1>1, <2>1
    <3> QED
      BY <1>2, <3>1 DEF TimelineInv
  <2>2. CASE Uncommitted(q, s)' = Uncommitted(q, s)
    BY <1>1, <1>2, <2>2 DEF TimelineInv
  <2> QED
    BY <1>1, <2>1, <2>2
<1>4. \A p, q \in Requests : p # q => Uncommitted(p, s)' = {} \/ Uncommitted(q, s)' = {}
  BY <1>1, <1>2 DEF TimelineInv
<1>5. ASSUME NEW q \in Requests, Uncommitted(q, s)' # {}
      PROVE  \E y \in Uncommitted(q, s)' : Continues(y.prev, Committed(s)')
  <2>1. Uncommitted(q, s)' = Uncommitted(q, s)
    BY <1>1, <1>5
  <2> QED
    BY <1>1, <1>2, <1>5, <2>1 DEF TimelineInv
<1> QED
  BY <1>1, <1>2, <1>3, <1>4, <1>5 DEF TimelineInv

LEMMA OrderInit == Init => OrderInv
<1> SUFFICES ASSUME Init, NEW s \in Subjects PROVE TimelineInv(s)
  BY DEF OrderInv
<1>1. Committed(s) = {} /\ \A r \in Requests : Uncommitted(r, s) = {}
  BY DEF Init, Committed, Uncommitted, RowsOf
<1>2. Linear({})
  BY DEF Linear
<1>3. \A r \in Requests : Committed(s) \cup Uncommitted(r, s) = {}
  BY <1>1
<1> QED
  BY <1>1, <1>2, <1>3 DEF TimelineInv

LEMMA OrderNext == ChainInv /\ ChainInv' /\ OrderInv /\ [Next]_vars => OrderInv'
<1> SUFFICES ASSUME ChainInv, ChainInv', OrderInv, [Next]_vars, NEW s \in Subjects
             PROVE  TimelineInv(s)'
  BY DEF OrderInv
<1>1. CASE UNCHANGED <<events, pending, nextSeq>>
  BY <1>1 DEF OrderInv, TimelineInv, Committed, Uncommitted
<1>2. CASE \E r \in Requests : StoreShrinks(r)
  BY <1>2, ShrinkKeepsTimeline
<1>3. CASE \E r \in Requests : StoreCommits(r)
  BY <1>3, CommitKeepsTimeline
<1>4. CASE \E r \in Requests : StoreInserts(r)
  BY <1>4, InsertKeepsTimeline
<1> QED
  BY <1>1, <1>2, <1>3, <1>4, StoreSteps

THEOREM TimelinesStayLinear == Spec => [](ChainInv /\ OrderInv)
<1>1. ChainInv /\ OrderInv /\ [Next]_vars => ChainInv' /\ OrderInv'
  BY NextChain, OrderNext
<1> QED
  BY <1>1, InitChain, OrderInit, PTL DEF Spec

\* The three orders the code takes for the timeline are one.
THEOREM OrdersStayOne == Spec => []OrdersAgree
<1>1. ChainInv /\ OrderInv => OrdersAgree
  <2> SUFFICES ASSUME ChainInv, OrderInv, NEW p \in events, NEW q \in events,
                      p.content.subject = q.content.subject
               PROVE  /\ p.seq < q.seq <=> StrictPrefix(p.hash, q.hash)
                      /\ p.seq < q.seq <=> p.content.time < q.content.time
    BY DEF OrdersAgree
  <2>1. p.content.subject \in Subjects
    BY DEF ChainInv, TypeInv, TypeOK, Row, Content
  <2>2. p \in Committed(p.content.subject) /\ q \in Committed(p.content.subject)
    BY DEF Committed, RowsOf
  <2> QED
    BY <2>1, <2>2 DEF OrderInv, TimelineInv, Linear
<1> QED
  BY <1>1, TimelinesStayLinear, PTL

\* A content sent again is stored at most once.
THEOREM ResubmissionsStayStoredOnce == Spec => []ResubmissionStoredOnce
<1>1. ChainInv /\ OrderInv => ResubmissionStoredOnce
  <2> SUFFICES ASSUME ChainInv, OrderInv, NEW p \in events, NEW q \in events,
                      p.content = q.content
               PROVE  p = q
    BY DEF ResubmissionStoredOnce
  <2>1. /\ p.content.subject \in Subjects /\ p.content.time \in Nat
        /\ p.seq \in Nat /\ q.seq \in Nat
    BY DEF ChainInv, TypeInv, TypeOK, Row, Content
  <2>2. p \in Committed(p.content.subject) /\ q \in Committed(p.content.subject)
    BY DEF Committed, RowsOf
  <2>3. ~(p.content.time < q.content.time) /\ ~(q.content.time < p.content.time)
    BY <2>1
  <2>4. ~(p.seq < q.seq) /\ ~(q.seq < p.seq)
    BY <2>1, <2>2, <2>3 DEF OrderInv, TimelineInv, Linear
  <2>5. p.seq = q.seq
    BY <2>1, <2>4
  <2> QED
    BY <2>1, <2>2, <2>5 DEF OrderInv, TimelineInv, Linear
<1> QED
  BY <1>1, TimelinesStayLinear, PTL

-----------------------------------------------------------------------------
(***************************************************************************)
(* The store implements AppendLog.                                         *)
(***************************************************************************)

\* A hash is the timeline that ends in its row: contents of one subject, in time order.
History(h, s) ==
  /\ \A i \in 1..Len(h) : h[i] \in Content /\ h[i].subject = s
  /\ Log!TimesIncrease(h)

HistoryInv == \A x \in AllRows : History(x.hash, x.content.subject)

LEMMA HistoryGrows ==
  ASSUME NEW h \in Hashes, NEW c \in Content, History(h, c.subject),
         h = NoHash \/ h[Len(h)].time < c.time
  PROVE  History(compute_hash(c, h), c.subject)
<1> DEFINE n == compute_hash(c, h)
<1>1. /\ Len(h) \in Nat /\ Len(n) = Len(h) + 1
      /\ \A i \in 1..Len(h) : n[i] = h[i]
      /\ n[Len(h) + 1] = c
  BY DEF compute_hash, Hashes
<1>2. h # NoHash => Len(h) # 0
  BY EmptySeq DEF Hashes, NoHash
<1> HIDE DEF n
<1>3. \A i \in 1..Len(n) : n[i] \in Content /\ n[i].subject = c.subject
  BY <1>1 DEF History
<1>4. ASSUME NEW i \in 1..(Len(n) - 1) PROVE n[i].time < n[i + 1].time
  <2>1. CASE i = Len(h)
    <3>1. Len(h) # 0 /\ i \in 1..Len(h)
      BY <1>1, <2>1
    <3>2. h[Len(h)].time < c.time
      BY <3>1 DEF NoHash
    <3>3. n[i] = h[Len(h)] /\ n[i + 1] = c
      BY <1>1, <2>1, <3>1
    <3> QED
      BY <3>2, <3>3
  <2>2. CASE i # Len(h)
    <3>1. i \in 1..(Len(h) - 1) /\ i \in 1..Len(h) /\ i + 1 \in 1..Len(h)
      BY <1>1, <2>2
    <3>2. h[i].time < h[i + 1].time
      BY <3>1 DEF History, Log!TimesIncrease
    <3> QED
      BY <1>1, <3>1, <3>2
  <2> QED
    BY <2>1, <2>2
<1> QED
  BY <1>3, <1>4 DEF n, History, Log!TimesIncrease

LEMMA HistoryInit == Init => HistoryInv
BY AllRowsElements DEF Init, HistoryInv

LEMMA HistoryInsert ==
  ASSUME ChainInv, ChainInv', HistoryInv, NEW r \in Requests, StoreInserts(r)
  PROVE  HistoryInv'
<1> DEFINE x == NextRow(r)
<1>1. /\ x \in Row
      /\ x.hash = compute_hash(x.content, x.prev)
      /\ x.prev # NoHash => \E e \in Seen(r) : IsParent(e, x)
  BY NewRow
<1>2. /\ events' = events
      /\ \A q \in Requests :
           pending'[q] = IF q = r THEN pending[r] \cup {x} ELSE pending[q]
  BY DEF StoreInserts, ChainInv, TypeInv, TypeOK
<1> HIDE DEF x
<1>3. \A y \in AllRows' : y \in AllRows \/ y = x
  <2>1. \A y : y \in AllRows' <=> y \in events' \/ \E q \in Requests : y \in pending'[q]
    BY DEF AllRows
  <2> QED
    BY <1>2, <2>1, AllRowsElements
<1>4. x.content \in Content /\ x.prev \in Hashes
  BY <1>1 DEF Row
<1>5. History(x.hash, x.content.subject)
  <2>1. CASE x.prev = NoHash
    <3>1. History(NoHash, x.content.subject)
      BY DEF History, NoHash, Log!TimesIncrease
    <3> QED
      BY <1>1, <1>4, <2>1, <3>1, HistoryGrows
  <2>2. CASE x.prev # NoHash
    <3>1. PICK e \in Seen(r) : IsParent(e, x)
      BY <1>1, <2>2
    <3>2. e \in AllRows /\ e \in Row
      BY <3>1, AllRowsElements DEF Seen, ChainInv, TypeInv, TypeOK
    <3>3. History(x.prev, x.content.subject)
      BY <3>1, <3>2 DEF HistoryInv, IsParent
    <3>4. x.prev[Len(x.prev)] = e.content
      <4>1. x.prev = Append(e.prev, e.content) /\ e.prev \in Seq(Content) /\ e.content \in Content
        BY <3>1, <3>2
        DEF ChainInv, StoreInv, HashesRecompute, IsParent, compute_hash, Row, Hashes
      <4> QED
        BY <4>1
    <3>5. x.prev[Len(x.prev)].time < x.content.time
      BY <3>1, <3>4 DEF IsParent
    <3> QED
      BY <1>1, <1>4, <3>3, <3>5, HistoryGrows
  <2> QED
    BY <2>1, <2>2
<1> QED
  BY <1>3, <1>5 DEF HistoryInv

LEMMA HistoryNext == ChainInv /\ ChainInv' /\ HistoryInv /\ [Next]_vars => HistoryInv'
<1> SUFFICES ASSUME ChainInv, ChainInv', HistoryInv, [Next]_vars PROVE HistoryInv'
  OBVIOUS
<1>1. CASE UNCHANGED <<events, pending, nextSeq>>
  BY <1>1 DEF HistoryInv, AllRows
<1>2. ASSUME NEW r \in Requests, StoreShrinks(r) \/ StoreCommits(r)
      PROVE  HistoryInv'
  <2>1. \A y : y \in AllRows' <=> y \in events' \/ \E q \in Requests : y \in pending'[q]
    BY DEF AllRows
  <2>2. \A y \in AllRows' : y \in AllRows
    BY <1>2, <2>1, AllRowsElements DEF StoreShrinks, StoreCommits, ChainInv, TypeInv, TypeOK
  <2> QED
    BY <2>2 DEF HistoryInv
<1>3. ASSUME NEW r \in Requests, StoreInserts(r) PROVE HistoryInv'
  BY <1>3, HistoryInsert
<1> QED
  BY <1>1, <1>2, <1>3, StoreSteps

\* What Timeline reads off the table is the history of the subject's last row.
LEMMA TimelineOfEnd ==
  ASSUME ChainInv, OrderInv, NEW s \in Subjects, Committed(s) # {}
  PROVE  \E z \in Committed(s) : IsEndOf(z, Committed(s)) /\ Timeline(s) = z.hash
<1> DEFINE E == Committed(s)
           y == CHOOSE r \in E : IsLastEvent(r, E)
<1>1. E \in SUBSET Row /\ Linear(E)
  BY DEF ChainInv, TypeInv, TypeOK, OrderInv, TimelineInv, Committed, RowsOf
<1>2. PICK z \in E : IsEndOf(z, E)
  BY <1>1 DEF Linear
<1>3. y \in E /\ IsLastEvent(y, E)
  BY <1>2 DEF IsEndOf
<1>4. y = z
  <2>1. y.seq <= z.seq /\ z.seq <= y.seq /\ y.seq \in Nat /\ z.seq \in Nat
    BY <1>1, <1>2, <1>3 DEF IsEndOf, IsLastEvent, Row
  <2>2. y.seq = z.seq
    BY <2>1
  <2> QED
    BY <1>1, <1>2, <1>3, <2>2 DEF Linear
<1>5. Timeline(s) = y.hash
  BY DEF Timeline, Committed
<1> QED
  BY <1>2, <1>4, <1>5

\* The committed rows of a subject only grow, and their end moves forward.
LEMMA CommittedGrows ==
  ASSUME ChainInv, ChainInv', OrderInv, OrderInv', [Next]_vars, NEW s \in Subjects
  PROVE  Committed(s) \subseteq Committed(s)'
<1>1. events \subseteq events'
  BY StoreSteps DEF StoreShrinks, StoreCommits, StoreInserts
<1> QED
  BY <1>1 DEF Committed, RowsOf

\* The end of a timeline is its longest hash.
LEMMA EndIsLongest ==
  ASSUME NEW rows \in SUBSET Row, Linear(rows), NEW z \in rows, IsEndOf(z, rows), NEW y \in rows
  PROVE  y.hash = z.hash \/ StrictPrefix(y.hash, z.hash)
<1>1. y.seq <= z.seq /\ y.seq \in Nat /\ z.seq \in Nat
  BY DEF IsEndOf, IsLastEvent, Row
<1>2. CASE y.seq = z.seq
  BY <1>2 DEF Linear
<1>3. CASE y.seq < z.seq
  BY <1>3 DEF Linear
<1> QED
  BY <1>1, <1>2, <1>3

\* Every timeline is a sequence of contents of its subject in time order, and it is the
\* history of the subject's last committed row.
TimelineFacts ==
  \A s \in Subjects :
    /\ Timeline(s) \in Hashes /\ History(Timeline(s), s)
    /\ Committed(s) = {} => Timeline(s) = << >>
    /\ Committed(s) # {} => \E z \in Committed(s) : IsEndOf(z, Committed(s)) /\ Timeline(s) = z.hash

LEMMA TimelinesAreHistories == ChainInv /\ OrderInv /\ HistoryInv => TimelineFacts
<1> SUFFICES ASSUME ChainInv, OrderInv, HistoryInv, NEW s \in Subjects
             PROVE  /\ Timeline(s) \in Hashes /\ History(Timeline(s), s)
                    /\ Committed(s) = {} => Timeline(s) = << >>
  BY TimelineOfEnd DEF TimelineFacts
<1>1. CASE Committed(s) = {}
  <2>1. Timeline(s) = << >>
    BY <1>1 DEF Timeline, Committed
  <2> QED
    BY <2>1 DEF History, Hashes, Log!TimesIncrease
<1>2. CASE Committed(s) # {}
  <2>1. PICK z \in Committed(s) : Timeline(s) = z.hash
    BY <1>2, TimelineOfEnd
  <2>2. z \in events /\ z \in Row /\ z.content.subject = s
    BY <2>1 DEF Committed, RowsOf, ChainInv, TypeInv, TypeOK
  <2> QED
    BY <1>2, <2>1, <2>2, AllRowsElements DEF HistoryInv, Row
<1> QED
  BY <1>1, <1>2

LEMMA NextTimelinesAreHistories == (ChainInv /\ OrderInv /\ HistoryInv)' => TimelineFacts'
BY TimelinesAreHistories, PTL

LEMMA ExtendsItself ==
  ASSUME NEW g \in Hashes, NEW h \in Hashes, g = h \/ StrictPrefix(g, h) \/ g = << >>
  PROVE  Log!Extends(g, h)
<1>1. g \in Seq(Content) /\ h \in Seq(Content) /\ Len(g) \in Nat /\ Len(h) \in Nat
  BY DEF Hashes
<1>2. CASE g = h
  <2>1. SubSeq(g, 1, Len(g)) = g
    BY <1>1
  <2> QED
    BY <1>1, <1>2, <2>1 DEF Log!Extends
<1>3. CASE StrictPrefix(g, h)
  BY <1>1, <1>3 DEF Log!Extends, StrictPrefix
<1>4. CASE g = << >>
  <2>1. Len(g) = 0
    BY <1>4
  <2>2. SubSeq(h, 1, 0) = << >>
    BY <1>1
  <2> QED
    BY <1>1, <1>4, <2>1, <2>2 DEF Log!Extends
<1> QED
  BY <1>2, <1>3, <1>4

\* What a commit, or any other step, does to a timeline: it extends it.
LEMMA TimelineExtends ==
  ASSUME ChainInv, ChainInv', OrderInv, OrderInv', HistoryInv, HistoryInv', [Next]_vars,
         NEW s \in Subjects
  PROVE  /\ Log!Extends(Timeline(s), Timeline(s)')
         /\ History(Timeline(s)', s)
<1> DEFINE E == Committed(s)
           F == Committed(s)'
           g == Timeline(s)
           h == Timeline(s)'
<1>1. /\ g \in Hashes /\ (E = {} => g = << >>)
      /\ E # {} => \E z \in E : g = z.hash
  BY TimelinesAreHistories DEF TimelineFacts
<1>2. /\ h \in Hashes /\ History(h, s)
      /\ F # {} => \E z \in F : IsEndOf(z, F) /\ h = z.hash
  BY NextTimelinesAreHistories DEF TimelineFacts, History
<1>3. E \subseteq F
  BY CommittedGrows
<1>4. F \in SUBSET Row /\ Linear(F)
  BY DEF ChainInv, TypeInv, TypeOK, OrderInv, TimelineInv, Committed, RowsOf
<1> HIDE DEF E, F, g, h
<1>5. ASSUME E # {} PROVE g = h \/ StrictPrefix(g, h)
  <2>1. PICK z \in E : g = z.hash
    BY <1>1, <1>5
  <2>2. PICK y \in F : IsEndOf(y, F) /\ h = y.hash
    BY <1>2, <1>3, <2>1
  <2>3. z \in F
    BY <1>3, <2>1
  <2>4. z.hash = y.hash \/ StrictPrefix(z.hash, y.hash)
    BY ONLY <1>4, <2>2, <2>3, EndIsLongest
  <2> QED
    BY <2>1, <2>2, <2>4
<1>6. Log!Extends(g, h)
  BY <1>1, <1>2, <1>5, ExtendsItself
<1> QED
  BY <1>2, <1>6 DEF g, h

LEMMA LogInit == Init => Log!Init
BY DEF Init, Log!Init, Timeline, RowsOf

LEMMA LogNext ==
  ASSUME ChainInv, ChainInv', OrderInv, OrderInv', HistoryInv, HistoryInv', [Next]_vars
  PROVE  Log!Commit
BY TimelineExtends DEF Log!Commit, History

\* The store, with its locks, retries, deadlocks and cut off calls, implements one growing,
\* time ordered log per subject.
THEOREM StoreImplementsAppendLog == Spec => ImplementsAppendLog
<1> DEFINE Inv == ChainInv /\ OrderInv /\ HistoryInv
<1>1. Init => Inv
  BY InitChain, OrderInit, HistoryInit
<1>2. Inv /\ [Next]_vars => Inv'
  BY NextChain, OrderNext, HistoryNext
<1>3. Inv /\ Inv' /\ [Next]_vars => Log!Commit
  BY LogNext
<1>4. Log!Commit => [Log!Commit]_[s \in Subjects |-> Timeline(s)]
  OBVIOUS
<1> QED
  BY <1>1, <1>2, <1>3, <1>4, LogInit, PTL DEF Spec, ImplementsAppendLog, Log!Spec


-----------------------------------------------------------------------------
(***************************************************************************)
(* One call: the rows it has prepared and inserted.                         *)
(***************************************************************************)

\* Rows a call has inserted or prepared are its own, for the subjects it was called with.
OwnRows(r) ==
  /\ \A x \in pending[r] : x.id[1] = r /\ x.content.subject \in SubjectsOf(r)
  /\ \A i \in DOMAIN built[r] : built[r][i].content.subject \in SubjectsOf(r)

\* Labels at which the transaction of a call has inserted nothing, or all of its rows.
Before == {"find", "transition", "lock", "read", "insert", "bulk_read", "bulk_compute"}
Whole == {"commit", "bulk_fk", "bulk_respond", "bulk_commit"}

Counted(r) ==
  /\ IsFiniteSet(pending[r])
  /\ pc[r] \in Before \cup {"respond", "done"} => pending[r] = {}
  /\ pc[r] = "insert" => Len(built[r]) = 1
  /\ pc[r] = "bulk_insert" => Cardinality(pending[r]) + Len(built[r]) = Len(input[r])
  /\ pc[r] \in Whole => Cardinality(pending[r]) = Len(input[r])
  /\ pc[r] # "done" => outcome[r] = "none"

CallInv == \A r \in Requests : OwnRows(r) /\ Counted(r)

\* Everything of a call but its session and the tips it has read.
Untouched(q) ==
  /\ pc'[q] = pc[q] /\ input'[q] = input[q] /\ built'[q] = built[q]
  /\ attempt'[q] = attempt[q] /\ outcome'[q] = outcome[q] /\ pending'[q] = pending[q]

LEMMA InputFixed == [Next]_vars => input' = input
BY DEF Next, vars, Step, CreateStep, BulkStep, FindSubject, ValidateTransition, LockSubject,
       ReadTip, InsertRow, InsertRefused, InsertAccepted, Commit, Respond, BulkFindSubjects,
       BulkReadTips, BulkCompute, BulkInsert, BulkForeignKeys, BulkRespond, BulkCommit,
       DeadlockAbort, Abort, Fail, DeleteSubject, Tick, AllAnswered

\* A call changes nothing of another one.
LEMMA OthersUntouched ==
  ASSUME TypeInv, NEW r \in Requests, Step(r) \/ Abort(r), NEW q \in Requests, q # r
  PROVE  Untouched(q)
<1> USE DEF TypeInv, TypeOK, Untouched, Goto
<1>1. ASSUME NEW error, Fail(r, error) PROVE Untouched(q)
  BY <1>1 DEF Fail, EndTransaction
<1>2. ASSUME NEW label, InsertAccepted(r, label) PROVE Untouched(q)
  BY <1>2 DEF InsertAccepted
<1>3. ASSUME InsertRefused(r) PROVE Untouched(q)
  BY <1>3 DEF InsertRefused, EndTransaction
<1>4. ASSUME CreateStep(r) PROVE Untouched(q)
  <2>1. CASE FindSubject(r) \/ ValidateTransition(r) \/ LockSubject(r) \/ ReadTip(r)
    BY <1>1, <2>1 DEF FindSubject, ValidateTransition, LockSubject, ReadTip
  <2>2. CASE InsertRow(r)
    BY <1>2, <1>3, <2>2 DEF InsertRow
  <2>3. CASE Commit(r) \/ Respond(r)
    BY <2>3 DEF Commit, Respond, EndTransaction
  <2> QED
    BY <1>4, <2>1, <2>2, <2>3 DEF CreateStep
<1>5. ASSUME BulkStep(r) PROVE Untouched(q)
  <2>1. CASE BulkFindSubjects(r) \/ BulkReadTips(r) \/ BulkCompute(r)
    BY <1>1, <2>1 DEF BulkFindSubjects, BulkReadTips, BulkCompute
  <2>2. CASE BulkInsert(r) \/ BulkForeignKeys(r) \/ BulkRespond(r)
    BY <1>1, <1>2, <2>2 DEF BulkInsert, BulkForeignKeys, BulkRespond
  <2>3. CASE BulkCommit(r)
    BY <2>3 DEF BulkCommit, EndTransaction
  <2> QED
    BY <1>5, <2>1, <2>2, <2>3 DEF BulkStep
<1> QED
  BY <1>1, <1>4, <1>5 DEF Step, DeadlockAbort, Abort

LEMMA CallInit == Init => CallInv
<1> SUFFICES ASSUME Init, NEW r \in Requests PROVE OwnRows(r) /\ Counted(r)
  BY DEF CallInv
<1>1. pending[r] = {} /\ built[r] = << >> /\ pc[r] = "find" /\ outcome[r] = "none"
  BY DEF Init
<1> QED
  BY <1>1, FS_EmptySet DEF OwnRows, Counted, Before, Whole

LEMMA FailCall ==
  ASSUME TypeInv, NEW r \in Requests, OwnRows(r), NEW error, Fail(r, error)
  PROVE  OwnRows(r)' /\ Counted(r)'
<1>1. /\ pc'[r] = "done" /\ pending'[r] = {} /\ built'[r] = built[r] /\ input'[r] = input[r]
  BY DEF Fail, Goto, EndTransaction, TypeInv, TypeOK
<1> QED
  BY <1>1, FS_EmptySet DEF OwnRows, Counted, Before, Whole, SubjectsOf

\* A step that leaves the rows of the call alone.
LEMMA QuietCall ==
  ASSUME TypeInv, NEW r \in Requests, OwnRows(r), Counted(r), NEW label, Goto(r, label),
         label # "done",
         \/ label \in Before \ {"insert"} /\ pc[r] \in Before
         \/ label \in Whole /\ pc[r] \in Whole,
         UNCHANGED <<pending, input, built, outcome>>
  PROVE  OwnRows(r)' /\ Counted(r)'
<1>1. pc'[r] = label
  BY DEF Goto, TypeInv, TypeOK
<1> QED
  BY <1>1 DEF OwnRows, Counted, Before, Whole, SubjectsOf

\* One row of the INSERT.
LEMMA InsertCall ==
  ASSUME ChainInv, NEW r \in Requests, OwnRows(r), Counted(r), NEW label,
         pc[r] \in {"insert", "bulk_insert"}, InsertAccepted(r, label),
         label = IF pc[r] = "insert" THEN "commit"
                 ELSE IF Len(built[r]) = 1 THEN "bulk_fk" ELSE "bulk_insert",
         Len(input[r]) = 1 \/ r \notin Creates
  PROVE  OwnRows(r)' /\ Counted(r)'
<1> USE DEF ChainInv, TypeInv, TypeOK
<1> DEFINE x == NextRow(r)
<1>1. built[r] # << >> /\ built[r] \in Seq(Prepared)
  BY DEF ControlOK
<1>2. /\ Len(built[r]) \in Nat /\ Len(built[r]) >= 1
      /\ Tail(built[r]) \in Seq(Prepared) /\ Len(Tail(built[r])) = Len(built[r]) - 1
      /\ \A i \in 1..Len(Tail(built[r])) : Tail(built[r])[i] = built[r][i + 1]
      /\ Head(built[r]) = built[r][1]
  BY <1>1, HeadTailProperties, EmptySeq
<1>3. /\ x.id[1] = r /\ x.content = built[r][1].content /\ x.seq = nextSeq
  BY <1>2 DEF NextRow
<1>4. /\ pending' = [pending EXCEPT ![r] = @ \cup {x}]
      /\ built' = [built EXCEPT ![r] = Tail(@)]
      /\ pc' = [pc EXCEPT ![r] = label]
      /\ UNCHANGED <<input, outcome>>
  BY DEF InsertAccepted, Goto
<1> HIDE DEF x
<1>5. /\ pending'[r] = pending[r] \cup {x} /\ built'[r] = Tail(built[r])
      /\ pc'[r] = label /\ input'[r] = input[r] /\ outcome'[r] = outcome[r]
  BY <1>4
<1>6. x \notin pending[r]
  <2> SUFFICES ASSUME x \in pending[r] PROVE FALSE
    OBVIOUS
  <2>1. x \in AllRows /\ x.seq \in Nat /\ nextSeq \in Nat
    BY AllRowsElements DEF Row
  <2>2. x.seq < nextSeq
    BY <2>1 DEF StoreInv
  <2> QED
    BY <1>3, <2>1, <2>2
<1>7. /\ IsFiniteSet(pending'[r]) /\ Cardinality(pending[r]) \in Nat
      /\ Cardinality(pending'[r]) = Cardinality(pending[r]) + 1
  BY <1>5, <1>6, FS_AddElement, FS_CardinalityType DEF Counted
<1>8. OwnRows(r)'
  <2>1. \A i \in 1..Len(built[r]) : built[r][i].content.subject \in SubjectsOf(r)
    BY <1>1 DEF OwnRows
  <2>2. x.id[1] = r /\ x.content.subject \in SubjectsOf(r)
    BY <1>2, <1>3, <2>1
  <2>3. \A i \in DOMAIN built'[r] : built'[r][i].content.subject \in SubjectsOf(r)
    BY <1>2, <1>5, <2>1
  <2>4. SubjectsOf(r)' = SubjectsOf(r)
    BY <1>5 DEF SubjectsOf
  <2> QED
    BY <1>5, <2>2, <2>3, <2>4 DEF OwnRows
<1>9. Counted(r)'
  <2>1. CASE pc[r] = "insert"
    <3>1. Len(built[r]) = 1 /\ pending[r] = {} /\ label = "commit" /\ Len(input[r]) = 1
      BY <2>1, RequestsAssumption DEF Counted, Before, ControlOK, Bulks, BulkPCs
    <3>2. Cardinality(pending'[r]) = Len(input[r])
      BY <1>7, <3>1, FS_EmptySet
    <3> QED
      BY <1>5, <1>7, <2>1, <3>1, <3>2 DEF Counted, Before, Whole
  <2>2. CASE pc[r] = "bulk_insert" /\ Len(built[r]) = 1
    <3>1. label = "bulk_fk" /\ Cardinality(pending'[r]) = Len(input[r])
      BY <1>7, <2>2 DEF Counted
    <3> QED
      BY <1>5, <1>7, <2>2, <3>1 DEF Counted, Before, Whole
  <2>3. CASE pc[r] = "bulk_insert" /\ Len(built[r]) # 1
    <3>1. label = "bulk_insert"
      BY <2>3
    <3>2. Cardinality(pending'[r]) + Len(built'[r]) = Len(input[r])
      BY <1>2, <1>5, <1>7, <2>3 DEF Counted
    <3> QED
      BY <1>5, <1>7, <2>3, <3>1, <3>2 DEF Counted, Before, Whole
  <2> QED
    BY <2>1, <2>2, <2>3
<1> QED
  BY <1>8, <1>9

LEMMA CallNext == ChainInv /\ CallInv /\ [Next]_vars => CallInv'
<1> SUFFICES ASSUME ChainInv, CallInv, [Next]_vars, NEW r \in Requests
             PROVE  OwnRows(r)' /\ Counted(r)'
  BY DEF CallInv
<1> USE DEF ChainInv, TypeInv, TypeOK
<1>1. OwnRows(r) /\ Counted(r)
  BY DEF CallInv
<1>2. ASSUME NEW error, Fail(r, error) PROVE OwnRows(r)' /\ Counted(r)'
  BY <1>1, <1>2, FailCall
<1>3. CASE Untouched(r)
  BY <1>1, <1>3 DEF Untouched, OwnRows, Counted, SubjectsOf
<1>4. CASE CreateStep(r)
  <2>1. CASE FindSubject(r) \/ ValidateTransition(r) \/ LockSubject(r)
    BY <1>1, <1>2, <2>1, QuietCall
    DEF FindSubject, ValidateTransition, LockSubject, Before
  <2>2. CASE ReadTip(r) /\ ~\E error : Fail(r, error)
    <3>1. PICK t \in LastEvent(RowsOf(events, Subject(r))) :
            /\ built' = [built EXCEPT ![r] = <<Prepare(input[r][1], t)>>]
            /\ Goto(r, "insert")
            /\ UNCHANGED <<pending, input, outcome>>
      BY <2>2 DEF ReadTip
    <3>2. pc[r] = "read" /\ r \in Creates
      BY <2>2, RequestsAssumption DEF ReadTip, ControlOK, Bulks, BulkPCs
    <3>3. /\ pc'[r] = "insert" /\ built'[r] = <<Prepare(input[r][1], t)>>
          /\ pending'[r] = pending[r] /\ input'[r] = input[r] /\ outcome'[r] = outcome[r]
      BY <3>1 DEF Goto
    <3>4. Subject(r) \in SubjectsOf(r)
      BY <3>2 DEF ControlOK, Subject, SubjectsOf
    <3>5. OwnRows(r)'
      BY <1>1, <3>3, <3>4 DEF OwnRows, SubjectsOf, Subject, Prepare
    <3>6. Len(built'[r]) = 1
      BY <3>3
    <3> QED
      BY <1>1, <3>2, <3>3, <3>5, <3>6 DEF Counted, Before, Whole
  <2>3. CASE InsertRow(r)
    <3>1. CASE InsertRefused(r)
      <4>1. /\ pc'[r] \in {"lock", "done"} /\ pending'[r] = {} /\ built'[r] = << >>
            /\ input'[r] = input[r] /\ (pc'[r] = "lock" => outcome'[r] = outcome[r])
        BY <3>1 DEF InsertRefused, Goto, EndTransaction
      <4>2. pc[r] = "insert"
        BY <2>3 DEF InsertRow
      <4> QED
        BY <1>1, <4>1, <4>2, FS_EmptySet DEF OwnRows, Counted, Before, Whole
    <3>2. CASE InsertAccepted(r, "commit")
      <4>1. pc[r] = "insert" /\ r \in Creates
        BY <2>3, RequestsAssumption DEF InsertRow, ControlOK, Bulks, BulkPCs
      <4>2. Len(input[r]) = 1
        BY <4>1 DEF ControlOK
      <4> QED
        BY <1>1, <3>2, <4>1, <4>2, InsertCall
    <3> QED
      BY <2>3, <3>1, <3>2 DEF InsertRow
  <2>4. CASE Commit(r)
    <3>1. /\ pc'[r] = "respond" /\ pending'[r] = {} /\ built'[r] = built[r]
          /\ input'[r] = input[r] /\ outcome'[r] = outcome[r] /\ pc[r] = "commit"
      BY <2>4 DEF Commit, Goto, EndTransaction
    <3> QED
      BY <1>1, <3>1, FS_EmptySet DEF OwnRows, Counted, Before, Whole, SubjectsOf
  <2>5. CASE Respond(r)
    <3>1. /\ pc'[r] = "done" /\ pending'[r] = pending[r] /\ built'[r] = built[r]
          /\ input'[r] = input[r] /\ pc[r] = "respond"
      BY <2>5 DEF Respond, Goto
    <3> QED
      BY <1>1, <3>1 DEF OwnRows, Counted, Before, Whole, SubjectsOf
  <2> QED
    BY <1>2, <1>4, <2>1, <2>2, <2>3, <2>4, <2>5 DEF CreateStep
<1>5. CASE BulkStep(r)
  <2>1. CASE BulkFindSubjects(r) \/ BulkReadTips(r)
    BY <1>1, <1>2, <2>1, QuietCall DEF BulkFindSubjects, BulkReadTips, Before
  <2>2. CASE BulkCompute(r) /\ ~\E error : Fail(r, error)
    <3> DEFINE i == Len(built[r]) + 1
               next == input[r][i]
               new == Prepare(next, tip[r][next.subject])
    <3>1. /\ pc[r] = "bulk_compute" /\ i <= Len(input[r])
          /\ built' = [built EXCEPT ![r] = Append(@, new)]
          /\ Goto(r, IF i = Len(input[r]) THEN "bulk_insert" ELSE "bulk_compute")
          /\ UNCHANGED <<pending, input, outcome>>
      BY <2>2 DEF BulkCompute
    <3>2. /\ input[r] \in Seq(Content) /\ built[r] \in Seq(Prepared) /\ Len(built[r]) \in Nat
          /\ pending[r] = {}
      BY <1>1, <3>1 DEF Counted, Before
    <3>3. i \in DOMAIN input[r] /\ new.content = next
      <4>1. i \in DOMAIN input[r]
        BY <3>1, <3>2
      <4> QED
        BY <4>1 DEF Prepare
    <3>4. next.subject \in SubjectsOf(r)
      BY <3>3 DEF SubjectsOf
    <3> HIDE DEF new, next
    <3>5. /\ built'[r] = Append(built[r], new) /\ Len(built'[r]) = i
          /\ \A j \in DOMAIN built'[r] : built'[r][j] = IF j = i THEN new ELSE built[r][j]
          /\ \A j \in DOMAIN built'[r] : j # i => j \in DOMAIN built[r]
      BY <3>1, <3>2
    <3>6. /\ pc'[r] = (IF i = Len(input[r]) THEN "bulk_insert" ELSE "bulk_compute")
          /\ pending'[r] = pending[r] /\ input'[r] = input[r] /\ outcome'[r] = outcome[r]
      BY <3>1 DEF Goto
    <3>7. OwnRows(r)'
      <4>1. SubjectsOf(r)' = SubjectsOf(r)
        BY <3>6 DEF SubjectsOf
      <4>2. \A j \in DOMAIN built'[r] : built'[r][j].content.subject \in SubjectsOf(r)
        BY <1>1, <3>3, <3>4, <3>5 DEF OwnRows
      <4> QED
        BY <1>1, <3>6, <4>1, <4>2 DEF OwnRows
    <3>8. Counted(r)'
      <4>1. Cardinality(pending'[r]) = 0
        BY <3>2, <3>6, FS_EmptySet
      <4>2. pc'[r] = "bulk_insert" => Len(built'[r]) = Len(input'[r]) /\ i \in Nat
        BY <3>2, <3>5, <3>6
      <4>3. pc'[r] = "bulk_insert" => Cardinality(pending'[r]) + Len(built'[r]) = Len(input'[r])
        BY <3>5, <4>1, <4>2
      <4> QED
        BY <1>1, <3>1, <3>2, <3>6, <4>3 DEF Counted, Before, Whole
    <3> QED
      BY <3>7, <3>8
  <2>3. CASE BulkInsert(r) /\ ~\E error : Fail(r, error)
    <3>1. /\ pc[r] = "bulk_insert"
          /\ InsertAccepted(r, IF Len(built[r]) = 1 THEN "bulk_fk" ELSE "bulk_insert")
      BY <2>3 DEF BulkInsert
    <3>2. r \notin Creates
      BY <3>1 DEF ControlOK, CreatePCs
    <3>3. PICK label \in PCs : /\ label = IF Len(built[r]) = 1 THEN "bulk_fk" ELSE "bulk_insert"
                              /\ InsertAccepted(r, label)
      BY <3>1 DEF PCs
    <3>4. label = IF pc[r] = "insert" THEN "commit"
                  ELSE IF Len(built[r]) = 1 THEN "bulk_fk" ELSE "bulk_insert"
      BY <3>1, <3>3
    <3>5. InsertAccepted(r, label) /\ pc[r] \in {"insert", "bulk_insert"} /\ r \in Requests
      BY <3>1, <3>3
    <3> QED
      BY ONLY ChainInv, <1>1, <3>2, <3>4, <3>5, InsertCall
  <2>4. CASE BulkForeignKeys(r) \/ BulkRespond(r)
    BY <1>1, <1>2, <2>4, QuietCall DEF BulkForeignKeys, BulkRespond, Whole
  <2>5. CASE BulkCommit(r)
    <3>1. /\ pc'[r] = "done" /\ pending'[r] = {} /\ built'[r] = built[r]
          /\ input'[r] = input[r]
      BY <2>5 DEF BulkCommit, Goto, EndTransaction
    <3> QED
      BY <1>1, <3>1, FS_EmptySet DEF OwnRows, Counted, Before, Whole, SubjectsOf
  <2> QED
    BY <1>2, <1>5, <2>1, <2>2, <2>3, <2>4, <2>5 DEF BulkStep
<1>6. CASE DeadlockAbort(r) \/ Abort(r)
  BY <1>2, <1>6 DEF DeadlockAbort, Abort
<1>7. CASE UNCHANGED vars \/ Tick \/ \E s \in Subjects : DeleteSubject(s)
  <2>1. Untouched(r)
    BY <1>7 DEF vars, Tick, DeleteSubject, Untouched
  <2> QED
    BY <1>3, <2>1
<1>8. CASE \E q \in Requests : q # r /\ (Step(q) \/ Abort(q))
  BY <1>3, <1>8, OthersUntouched
<1> QED
  BY <1>4, <1>5, <1>6, <1>7, <1>8 DEF Next, Step, AllAnswered

-----------------------------------------------------------------------------
(***************************************************************************)
(* What the caller is told.                                                *)
(***************************************************************************)

\* What OutcomeMatchesStore says of one call.
Truthful(r) ==
  /\ Cardinality(StoredOf(r)) \in {0, Len(input[r])}
  /\ outcome[r] = "created" => Cardinality(StoredOf(r)) = Len(input[r])
  /\ outcome[r] \notin {"none", "created", "validation_error", "aborted"} => StoredOf(r) = {}
  /\ outcome[r] = "validation_error" /\ r \in Bulks => StoredOf(r) = {}

\* Nothing is stored before the commit; all of the call after the one of create_event,
\* which is told so in a step of its own.
StoredWhole(r) ==
  /\ pc[r] \notin {"respond", "done"} => StoredOf(r) = {}
  /\ pc[r] = "respond" => Cardinality(StoredOf(r)) = Len(input[r])
  /\ pc[r] = "done" => Truthful(r)

StoredInv == \A r \in Requests : StoredWhole(r)

\* The rows of a call change by its own commit only.
LEMMA StoredSteps ==
  ASSUME ChainInv, CallInv, [Next]_vars, NEW r \in Requests
  PROVE  \/ StoredOf(r)' = StoredOf(r)
         \/ /\ StoreCommits(r) /\ pc[r] \in {"commit", "bulk_commit"}
            /\ StoredOf(r)' = StoredOf(r) \cup pending[r]
<1>1. CASE UNCHANGED events
  BY <1>1 DEF StoredOf
<1>2. ASSUME NEW q \in Requests, StoreCommits(q), pc[q] \in {"commit", "bulk_commit"}
      PROVE  \/ StoredOf(r)' = StoredOf(r)
             \/ /\ StoreCommits(r) /\ pc[r] \in {"commit", "bulk_commit"}
                /\ StoredOf(r)' = StoredOf(r) \cup pending[r]
  <2>1. events' = events \cup pending[q] /\ \A x \in pending[q] : x.id[1] = q
    BY <1>2 DEF StoreCommits, CallInv, OwnRows
  <2>2. CASE q = r
    BY <1>2, <2>1, <2>2 DEF StoredOf
  <2>3. CASE q # r
    BY <2>1, <2>3 DEF StoredOf
  <2> QED
    BY <2>2, <2>3
<1> QED
  BY <1>1, <1>2, StoreSteps DEF StoreShrinks, StoreInserts

LEMMA FailStored ==
  ASSUME TypeInv, NEW r \in Requests, StoredWhole(r), NEW error \in Outcomes \ {"none", "created"},
         Fail(r, error),
         pc[r] \notin {"respond", "done"} \/ (error = "aborted" /\ pc[r] # "done")
  PROVE  StoredWhole(r)'
<1>1. /\ pc'[r] = "done" /\ outcome'[r] = error /\ StoredOf(r)' = StoredOf(r)
      /\ input' = input
  BY DEF Fail, Goto, StoredOf, TypeInv, TypeOK
<1>2. Cardinality(StoredOf(r)) \in {0, Len(input[r])}
  BY FS_EmptySet DEF StoredWhole
<1>3. error # "aborted" => StoredOf(r) = {}
  BY DEF StoredWhole
<1> QED
  BY <1>1, <1>2, <1>3 DEF StoredWhole, Truthful

LEMMA StoredInit == Init => StoredInv
BY DEF Init, StoredInv, StoredWhole, StoredOf

LEMMA StoredNext == ChainInv /\ CallInv /\ StoredInv /\ [Next]_vars => StoredInv'
<1> SUFFICES ASSUME ChainInv, CallInv, StoredInv, [Next]_vars, NEW r \in Requests
             PROVE  StoredWhole(r)'
  BY DEF StoredInv
<1>1. StoredWhole(r) /\ Counted(r) /\ OwnRows(r)
  BY DEF StoredInv, CallInv
<1>2. input' = input
  BY InputFixed
<1>3. CASE Untouched(r) /\ StoredOf(r)' = StoredOf(r)
  BY <1>1, <1>3 DEF Untouched, StoredWhole, Truthful
<1>4. CASE \E error \in Outcomes \ {"none", "created"} :
             Fail(r, error) /\ pc[r] \notin {"respond", "done"}
  BY <1>1, <1>4, FailStored DEF ChainInv
<1>5. ASSUME NEW label \in PCs \ {"respond", "done"}, Goto(r, label),
             pc[r] \notin {"respond", "done"}, UNCHANGED events
      PROVE  StoredWhole(r)'
  <2>1. pc'[r] = label /\ StoredOf(r)' = StoredOf(r)
    BY <1>5 DEF Goto, StoredOf, ChainInv, TypeInv, TypeOK
  <2> QED
    BY <1>1, <1>5, <2>1 DEF StoredWhole
<1>6. ASSUME StoreCommits(r), pc[r] \in {"commit", "bulk_commit"}
      PROVE  Cardinality(StoredOf(r)') = Len(input[r])
  <2>1. StoredOf(r) = {} /\ Cardinality(pending[r]) = Len(input[r])
    BY <1>1, <1>6 DEF StoredWhole, Counted, Whole
  <2>2. StoredOf(r)' = pending[r]
    BY <1>1, <1>6, <2>1 DEF StoredOf, StoreCommits, OwnRows
  <2> QED
    BY <2>1, <2>2
<1>7. CASE CreateStep(r)
  <2>1. CASE FindSubject(r)
    BY <1>4, <1>5, <2>1 DEF FindSubject, Outcomes, PCs
  <2>2. CASE ValidateTransition(r)
    BY <1>4, <1>5, <2>2 DEF ValidateTransition, Outcomes, PCs
  <2>3. CASE LockSubject(r)
    BY <1>4, <1>5, <2>3 DEF LockSubject, Outcomes, PCs
  <2>4. CASE ReadTip(r)
    BY <1>4, <1>5, <2>4 DEF ReadTip, Outcomes, PCs
  <2>5. CASE InsertRow(r)
    <3>1. CASE InsertRefused(r)
      <4>1. pc[r] = "insert" /\ UNCHANGED events
        BY <2>5, <3>1 DEF InsertRow, InsertRefused
      <4>2. CASE attempt[r] = MAX_RETRIES - 1
        <5>1. pc'[r] = "done" /\ outcome'[r] = "chain_fork" /\ StoredOf(r)' = {}
          BY <1>1, <3>1, <4>1, <4>2
          DEF InsertRefused, Goto, StoredWhole, StoredOf, ChainInv, TypeInv, TypeOK
        <5> QED
          BY <5>1, FS_EmptySet DEF StoredWhole, Truthful
      <4>3. CASE attempt[r] # MAX_RETRIES - 1
        BY <1>5, <3>1, <4>1, <4>3 DEF InsertRefused, PCs
      <4> QED
        BY <4>2, <4>3
    <3>2. CASE InsertAccepted(r, "commit")
      BY <1>5, <2>5, <3>2 DEF InsertRow, InsertAccepted, PCs
    <3> QED
      BY <2>5, <3>1, <3>2 DEF InsertRow
  <2>6. CASE Commit(r)
    <3>1. StoreCommits(r) /\ pc[r] = "commit" /\ pc'[r] = "respond"
      BY <2>6 DEF Commit, Goto, EndTransaction, StoreCommits, ChainInv, TypeInv, TypeOK
    <3> QED
      BY <1>2, <1>6, <3>1 DEF StoredWhole
  <2>7. CASE Respond(r)
    <3>1. /\ pc[r] = "respond" /\ pc'[r] = "done" /\ UNCHANGED events
          /\ outcome'[r] \in {"created", "validation_error"}
      BY <2>7 DEF Respond, Goto, ChainInv, TypeInv, TypeOK
    <3>2. r \notin Bulks
      BY <3>1 DEF ChainInv, TypeInv, ControlOK, BulkPCs
    <3>3. StoredOf(r)' = StoredOf(r) /\ Cardinality(StoredOf(r)) = Len(input[r])
      BY <1>1, <3>1 DEF StoredOf, StoredWhole
    <3> QED
      BY <1>2, <3>1, <3>2, <3>3 DEF StoredWhole, Truthful
  <2> QED
    BY <1>7, <2>1, <2>2, <2>3, <2>4, <2>5, <2>6, <2>7 DEF CreateStep
<1>8. CASE BulkStep(r)
  <2>1. CASE BulkFindSubjects(r)
    BY <1>4, <1>5, <2>1 DEF BulkFindSubjects, Outcomes, PCs
  <2>2. CASE BulkReadTips(r)
    BY <1>5, <2>2 DEF BulkReadTips, PCs
  <2>3. CASE BulkCompute(r)
    BY <1>4, <1>5, <2>3 DEF BulkCompute, Outcomes, PCs
  <2>4. CASE BulkInsert(r)
    BY <1>4, <1>5, <2>4 DEF BulkInsert, InsertAccepted, Outcomes, PCs
  <2>5. CASE BulkForeignKeys(r)
    BY <1>4, <1>5, <2>5 DEF BulkForeignKeys, Outcomes, PCs
  <2>6. CASE BulkRespond(r)
    BY <1>4, <1>5, <2>6 DEF BulkRespond, Outcomes, PCs
  <2>7. CASE BulkCommit(r)
    <3>1. /\ StoreCommits(r) /\ pc[r] = "bulk_commit" /\ pc'[r] = "done"
          /\ outcome'[r] = "created"
      BY <2>7 DEF BulkCommit, Goto, EndTransaction, StoreCommits, ChainInv, TypeInv, TypeOK
    <3> QED
      BY <1>2, <1>6, <3>1 DEF StoredWhole, Truthful
  <2> QED
    BY <1>8, <2>1, <2>2, <2>3, <2>4, <2>5, <2>6, <2>7 DEF BulkStep
<1>9. CASE DeadlockAbort(r)
  BY <1>4, <1>9 DEF DeadlockAbort, WaitsFor, Outcomes
<1>10. CASE Abort(r)
  BY <1>1, <1>10, FailStored DEF Abort, Outcomes, ChainInv
<1>11. CASE UNCHANGED vars \/ Tick \/ \E s \in Subjects : DeleteSubject(s)
  <2>1. Untouched(r) /\ StoredOf(r)' = StoredOf(r)
    BY <1>11 DEF vars, Tick, DeleteSubject, Untouched, StoredOf
  <2> QED
    BY <1>3, <2>1
<1>12. ASSUME NEW q \in Requests, q # r, Step(q) \/ Abort(q)
       PROVE  StoredWhole(r)'
  <2>1. Untouched(r)
    BY <1>12, OthersUntouched DEF ChainInv
  <2>2. CASE StoredOf(r)' = StoredOf(r)
    BY <1>3, <2>1, <2>2
  <2>3. CASE StoreCommits(r) /\ pc[r] \in {"commit", "bulk_commit"}
    <3>1. pending'[r] = {} /\ pending'[r] = pending[r]
      BY <2>1, <2>3 DEF StoreCommits, Untouched, ChainInv, TypeInv, TypeOK
    <3>2. StoredOf(r)' = StoredOf(r)
      BY <2>3, <3>1 DEF StoreCommits, StoredOf
    <3> QED
      BY <1>3, <2>1, <3>2
  <2> QED
    BY <2>2, <2>3, StoredSteps
<1> QED
  BY <1>7, <1>8, <1>9, <1>10, <1>11, <1>12 DEF Next, Step, AllAnswered

\* No batch is ever stored in part, and no caller is told otherwise.
THEOREM CallersAreToldTheTruth == Spec => []OutcomeMatchesStore
<1>1. CallInv /\ StoredInv => OutcomeMatchesStore
  <2> SUFFICES ASSUME CallInv, StoredInv, NEW r \in Requests PROVE Truthful(r)
    BY DEF OutcomeMatchesStore, Truthful
  <2>1. StoredWhole(r) /\ (pc[r] # "done" => outcome[r] = "none")
    BY DEF CallInv, StoredInv, Counted
  <2> QED
    BY <2>1, FS_EmptySet DEF StoredWhole, Truthful
<1>2. ChainInv /\ CallInv /\ StoredInv /\ [Next]_vars => ChainInv' /\ CallInv' /\ StoredInv'
  BY NextChain, CallNext, StoredNext
<1>3. Init => ChainInv /\ CallInv /\ StoredInv
  BY InitChain, CallInit, StoredInit
<1> QED
  BY <1>1, <1>2, <1>3, PTL DEF Spec

-----------------------------------------------------------------------------
(***************************************************************************)
(* What the lock on the subject row is worth.                              *)
(***************************************************************************)

\* Labels at which create_event is inside its transaction, and at which a batch has passed
\* its foreign key check.
Inside == {"read", "insert", "commit"}
Checked == {"bulk_respond", "bulk_commit"}

\* As long as the subject exists, create_event holds its row from the lock to the commit, and
\* a batch that has passed its foreign key check keeps every other transaction from locking.
LockInv ==
  /\ \A s \in Subjects : lock[s] \in Creates \cup {NoOne}
  /\ \A r \in Creates : pc[r] \in Inside /\ Subject(r) \in subjects => lock[Subject(r)] = r
  /\ \A q \in Requests : pc[q] \in Checked =>
       \A s \in SubjectsOf(q) : s \in subjects /\ lock[s] = NoOne

\* What a step of r does to the locks.
LockSteps(r) ==
  \/ /\ lock' = Release(r)
     /\ pc'[r] \notin Inside \cup Checked
  \/ /\ UNCHANGED lock
     /\ pc'[r] \in Inside => pc[r] \in Inside
     /\ pc'[r] \in Checked => pc[r] \in Checked
  \/ /\ pc[r] = "lock" /\ pc'[r] = "read" /\ WaitsForLock(r) = {}
     /\ lock' = [s \in Subjects |-> IF s = Subject(r) /\ s \in subjects THEN r ELSE lock[s]]
  \/ /\ pc[r] = "bulk_fk" /\ pc'[r] = "bulk_respond" /\ WaitsForKeyShare(r) = {}
     /\ SubjectsOf(r) \subseteq subjects
     /\ UNCHANGED lock

LEMMA EveryLockStep ==
  ASSUME TypeInv, NEW r \in Requests, Step(r) \/ Abort(r)
  PROVE  LockSteps(r) /\ UNCHANGED subjects
<1> USE DEF TypeInv, TypeOK, Goto
<1>1. ASSUME NEW error, Fail(r, error) PROVE LockSteps(r) /\ UNCHANGED subjects
  BY <1>1 DEF Fail, EndTransaction, LockSteps, Inside, Checked
<1>2. CASE CreateStep(r)
  <2>1. CASE FindSubject(r) \/ ValidateTransition(r)
    BY <1>1, <2>1 DEF FindSubject, ValidateTransition, LockSteps, Inside, Checked
  <2>2. CASE LockSubject(r)
    BY <1>1, <2>2 DEF LockSubject, LockSteps
  <2>3. CASE ReadTip(r)
    BY <1>1, <2>3 DEF ReadTip, LockSteps, Inside, Checked
  <2>4. CASE InsertRow(r)
    BY <2>4
    DEF InsertRow, InsertRefused, InsertAccepted, EndTransaction, LockSteps, Inside, Checked
  <2>5. CASE Commit(r) \/ Respond(r)
    BY <2>5 DEF Commit, Respond, EndTransaction, LockSteps, Inside, Checked
  <2> QED
    BY <1>2, <2>1, <2>2, <2>3, <2>4, <2>5 DEF CreateStep
<1>3. CASE BulkStep(r)
  <2>1. CASE BulkFindSubjects(r) \/ BulkReadTips(r) \/ BulkCompute(r)
    BY <1>1, <2>1 DEF BulkFindSubjects, BulkReadTips, BulkCompute, LockSteps, Inside, Checked
  <2>2. CASE BulkInsert(r)
    BY <1>1, <2>2 DEF BulkInsert, InsertAccepted, LockSteps, Inside, Checked
  <2>3. CASE BulkForeignKeys(r)
    BY <1>1, <2>3 DEF BulkForeignKeys, LockSteps
  <2>4. CASE BulkRespond(r)
    BY <1>1, <2>4 DEF BulkRespond, LockSteps, Inside, Checked
  <2>5. CASE BulkCommit(r)
    BY <2>5 DEF BulkCommit, EndTransaction, LockSteps, Inside, Checked
  <2> QED
    BY <1>3, <2>1, <2>2, <2>3, <2>4, <2>5 DEF BulkStep
<1> QED
  BY <1>1, <1>2, <1>3 DEF Step, DeadlockAbort, Abort

LEMMA LockInit == Init => LockInv
<1> SUFFICES ASSUME Init PROVE LockInv
  OBVIOUS
<1>1. \A s \in Subjects : lock[s] = NoOne
  BY DEF Init
<1>2. \A r \in Requests : pc[r] = "find"
  BY DEF Init
<1>3. Creates \subseteq Requests
  BY RequestsAssumption
<1> QED
  BY <1>1, <1>2, <1>3 DEF LockInv, Inside, Checked

LEMMA LockStep ==
  ASSUME TypeInv, LockInv, NEW r \in Requests, LockSteps(r), UNCHANGED <<subjects, input>>,
         \A q \in Requests \ {r} : pc'[q] = pc[q]
  PROVE  LockInv'
<1> USE DEF TypeInv, TypeOK
<1>1. /\ \A q \in Creates : q \in Requests /\ Subject(q) \in Subjects /\ q # NoOne
                            /\ Subject(q)' = Subject(q)
      /\ \A q \in Requests : SubjectsOf(q) \subseteq Subjects /\ SubjectsOf(q)' = SubjectsOf(q)
  BY InputType, RequestsAssumption DEF Subject, SubjectsOf
<1>2. CASE lock' = Release(r) /\ pc'[r] \notin Inside \cup Checked
  <2>1. \A s \in Subjects : lock'[s] = IF lock[s] = r THEN NoOne ELSE lock[s]
    BY <1>2 DEF Release
  <2>2. \A q \in Creates : pc'[q] \in Inside => pc[q] \in Inside /\ q # r
    BY <1>1, <1>2
  <2>3. \A q \in Requests : pc'[q] \in Checked => pc[q] \in Checked
    BY <1>2
  <2>4. \A s \in Subjects : lock'[s] \in Creates \cup {NoOne}
    BY <2>1 DEF LockInv
  <2>5. ASSUME NEW q \in Creates, pc'[q] \in Inside, Subject(q) \in subjects
        PROVE  lock'[Subject(q)] = q
    <3>1. lock[Subject(q)] = q /\ q # r
      BY <2>2, <2>5 DEF LockInv
    <3> QED
      BY <1>1, <2>1, <3>1
  <2>6. ASSUME NEW q \in Requests, pc'[q] \in Checked, NEW s \in SubjectsOf(q)
        PROVE  s \in subjects /\ lock'[s] = NoOne
    BY <1>1, <2>1, <2>3, <2>6 DEF LockInv
  <2> QED
    BY <1>1, <2>4, <2>5, <2>6 DEF LockInv
<1>3. CASE /\ UNCHANGED lock
           /\ pc'[r] \in Inside => pc[r] \in Inside
           /\ pc'[r] \in Checked => pc[r] \in Checked
  <2>1. \A q \in Requests : /\ pc'[q] \in Inside => pc[q] \in Inside
                            /\ pc'[q] \in Checked => pc[q] \in Checked
    BY <1>3
  <2> HIDE DEF TypeInv, TypeOK
  <2> QED
    BY <1>1, <1>3, <2>1 DEF LockInv
<1>4. CASE /\ pc[r] = "lock" /\ pc'[r] = "read" /\ WaitsForLock(r) = {}
           /\ lock' = [s \in Subjects |-> IF s = Subject(r) /\ s \in subjects THEN r
                                                                            ELSE lock[s]]
  <2>1. r \in Creates
    BY <1>4, RequestsAssumption DEF ControlOK, Bulks, BulkPCs
  <2>2. \A s \in Subjects : lock'[s] = IF s = Subject(r) /\ s \in subjects THEN r ELSE lock[s]
    BY <1>4
  <2>3. ASSUME Subject(r) \in subjects, NEW q \in Requests, q # r
        PROVE  lock[Subject(r)] # q /\ (pc[q] \in Checked => Subject(r) \notin SubjectsOf(q))
    BY <1>4, <2>3 DEF WaitsForLock, KeySharers, Checked
  <2>4. \A s \in Subjects : lock'[s] \in Creates \cup {NoOne}
    BY <2>1, <2>2 DEF LockInv
  <2>5. ASSUME NEW q \in Creates, pc'[q] \in Inside, Subject(q) \in subjects
        PROVE  lock'[Subject(q)] = q
    <3>1. CASE q = r
      BY <1>1, <2>2, <2>5, <3>1
    <3>2. CASE q # r
      <4>1. lock[Subject(q)] = q
        BY <1>1, <2>5, <3>2 DEF LockInv
      <4> QED
        BY <1>1, <2>2, <2>3, <2>5, <3>2, <4>1
    <3> QED
      BY <3>1, <3>2
  <2>6. ASSUME NEW q \in Requests, pc'[q] \in Checked, NEW s \in SubjectsOf(q)
        PROVE  s \in subjects /\ lock'[s] = NoOne
    <3>1. q # r /\ pc[q] \in Checked
      BY <1>4, <2>6 DEF Checked
    <3> QED
      BY <1>1, <2>2, <2>3, <2>6, <3>1 DEF LockInv
  <2> QED
    BY <1>1, <2>4, <2>5, <2>6 DEF LockInv
<1>5. CASE /\ pc[r] = "bulk_fk" /\ pc'[r] = "bulk_respond" /\ WaitsForKeyShare(r) = {}
           /\ SubjectsOf(r) \subseteq subjects
           /\ UNCHANGED lock
  <2>1. \A s \in SubjectsOf(r) : lock[s] \in Creates \cup {NoOne}
    BY <1>1 DEF LockInv
  <2>2. r \notin Creates
    BY <1>5 DEF ControlOK, CreatePCs
  <2>3. \A s \in SubjectsOf(r) : lock[s] = NoOne
    BY <1>1, <1>5, <2>1, <2>2 DEF WaitsForKeyShare
  <2>4. \A q \in Creates : pc'[q] = pc[q]
    BY <1>1, <2>2
  <2>5. ASSUME NEW q \in Requests, pc'[q] \in Checked, NEW s \in SubjectsOf(q)
        PROVE  s \in subjects /\ lock[s] = NoOne
    BY <1>5, <2>3, <2>5 DEF LockInv
  <2> HIDE DEF TypeInv, TypeOK
  <2> QED
    BY <1>1, <1>5, <2>4, <2>5 DEF LockInv
<1> QED
  BY <1>2, <1>3, <1>4, <1>5 DEF LockSteps

LEMMA LockNext == TypeInv /\ LockInv /\ [Next]_vars => LockInv'
<1> SUFFICES ASSUME TypeInv, LockInv, [Next]_vars PROVE LockInv'
  OBVIOUS
<1>1. ASSUME NEW r \in Requests, Step(r) \/ Abort(r) PROVE LockInv'
  <2>1. \A q \in Requests \ {r} : pc'[q] = pc[q]
    BY <1>1, OthersUntouched DEF Untouched
  <2> QED
    BY <1>1, <2>1, EveryLockStep, InputFixed, LockStep
<1>2. CASE UNCHANGED vars \/ Tick
  BY <1>2 DEF vars, Tick, LockInv, Subject, SubjectsOf
<1>3. ASSUME NEW s \in Subjects, DeleteSubject(s) PROVE LockInv'
  <2>1. UNCHANGED <<lock, pc, input>> /\ subjects' = subjects \ {s} /\ KeySharers(s) = {}
    BY <1>3 DEF DeleteSubject
  <2>2. \A q \in Requests : pc[q] \in Checked => s \notin SubjectsOf(q)
    BY <2>1 DEF KeySharers, Checked
  <2> QED
    BY <2>1, <2>2 DEF LockInv, Subject, SubjectsOf
<1> QED
  BY <1>1, <1>2, <1>3 DEF Next, AllAnswered

\* No other call commits rows of the subject while create_event holds its row.
LEMMA OthersDoNotCommit ==
  ASSUME ChainInv, CallInv, LockInv, NEW r \in Creates, pc[r] \in Inside, Subject(r) \in subjects,
         NEW q \in Requests, q # r, pc[q] \in {"commit", "bulk_commit"}
  PROVE  RowsOf(pending[q], Subject(r)) = {}
<1>1. r \in Requests /\ r # NoOne /\ lock[Subject(r)] = r
  BY RequestsAssumption DEF LockInv
<1>2. Subject(r) \notin SubjectsOf(q)
  <2>1. CASE pc[q] = "commit"
    <3>1. q \in Creates /\ SubjectsOf(q) = {Subject(q)}
      <4>1. q \in Creates
        BY <2>1, RequestsAssumption DEF ChainInv, TypeInv, ControlOK, Bulks, BulkPCs
      <4>2. DOMAIN input[q] = {1}
        BY <4>1 DEF ChainInv, TypeInv, TypeOK, ControlOK
      <4> QED
        BY <4>1, <4>2 DEF SubjectsOf, Subject
    <3> QED
      BY <1>1, <2>1, <3>1 DEF LockInv, Inside
  <2>2. CASE pc[q] = "bulk_commit"
    BY <1>1, <2>2 DEF LockInv, Checked
  <2> QED
    BY <2>1, <2>2
<1> QED
  BY <1>2 DEF CallInv, OwnRows, RowsOf

\* The row create_event is about to insert continues the timeline as it is now.
TipIsCurrent(r) ==
  \E t \in LastEvent(RowsOf(events, Subject(r))) : built[r] = <<Prepare(input[r][1], t)>>

\* It gives up an attempt only when its subject is gone.
GoneIfRepeated(r) == attempt[r] > 0 => Subject(r) \notin subjects

TipInv ==
  \A r \in Creates :
    /\ pc[r] = "insert" /\ Subject(r) \in subjects => TipIsCurrent(r)
    /\ GoneIfRepeated(r)

\* Two rows of a subject with one hash have one predecessor.
LEMMA SameHashSamePrevious ==
  ASSUME NEW x \in Row, NEW y \in Row,
         x.hash = compute_hash(x.content, x.prev), y.hash = compute_hash(y.content, y.prev),
         x.hash = y.hash
  PROVE  x.prev = y.prev /\ x.content = y.content
<1>1. /\ x.prev \in Seq(Content) /\ y.prev \in Seq(Content)
      /\ x.content \in Content /\ y.content \in Content
      /\ Append(x.prev, x.content) = Append(y.prev, y.content)
  BY DEF Row, Hashes, compute_hash
<1>2. /\ Len(x.prev) = Len(y.prev) /\ x.content = y.content
      /\ \A i \in 1..Len(x.prev) : x.prev[i] = y.prev[i]
  <2> DEFINE u == Append(x.prev, x.content)
  <2>1. /\ Len(x.prev) = Len(y.prev) /\ Len(x.prev) \in Nat
        /\ u[Len(x.prev) + 1] = x.content /\ u[Len(x.prev) + 1] = y.content
    BY <1>1, AppendProperties
  <2>2. /\ \A i \in 1..Len(x.prev) : u[i] = x.prev[i]
        /\ \A i \in 1..Len(x.prev) : u[i] = y.prev[i]
    BY <1>1, <2>1, AppendProperties
  <2> QED
    BY <2>1, <2>2
<1> QED
  BY <1>1, <1>2, SeqEqual

\* No index refuses a row that continues the timeline.
LEMMA CurrentTipIsAccepted ==
  ASSUME ChainInv, OrderInv, CallInv, NEW r \in Creates, pc[r] = "insert", TipIsCurrent(r)
  PROVE  ~UniqueViolation(r)
<1> DEFINE s == Subject(r)
           E == Committed(s)
           c == input[r][1]
           x == NextRow(r)
<1>1. r \in Requests /\ c \in Content /\ s \in Subjects /\ c.subject = s
  BY InputType, RequestsAssumption DEF ChainInv, Subject
<1>2. PICK t \in LastEvent(E) : built[r] = <<Prepare(c, t)>>
  BY DEF TipIsCurrent, Committed
<1>3. E \in SUBSET Row /\ Linear(E) /\ E \subseteq events /\ \A y \in E : y.content.subject = s
  BY <1>1 DEF OrderInv, TimelineInv, ChainInv, TypeInv, TypeOK, Committed, RowsOf
<1>4. t \in Tip
  BY <1>2, <1>3, LastEventType
<1>5. x.content = c /\ x.prev = t.hash /\ x.hash = compute_hash(c, t.hash)
  BY <1>2 DEF NextRow, Prepare
<1>6. pending[r] = {}
  BY <1>1 DEF CallInv, Counted, Before
<1>7. x \in Row
  BY <1>1, NextRowType DEF ChainInv, TypeInv, ControlOK
<1> HIDE DEF x
<1>8. SUFFICES ASSUME NEW y \in events, Collides(x, y) PROVE FALSE
  BY <1>6 DEF UniqueViolation, x
<1>9. y \in Row /\ y.hash = compute_hash(y.content, y.prev)
  BY <1>8, AllRowsElements DEF ChainInv, TypeInv, TypeOK, StoreInv, HashesRecompute
<1>10. y.content.subject = s /\ y.prev = t.hash
  <2>1. CASE x.content.subject = y.content.subject /\ x.prev = y.prev
    BY <1>1, <1>5, <2>1
  <2>2. CASE x.hash = y.hash
    BY <1>1, <1>5, <1>7, <1>9, <2>2, SameHashSamePrevious
  <2> QED
    BY <1>8, <2>1, <2>2 DEF Collides
<1>11. y \in E
  BY <1>10 DEF Committed, RowsOf
<1>12. PICK z \in E : IsLastEvent(z, E) /\ t.hash = z.hash
  BY <1>2, <1>11 DEF LastEvent
<1>13. StrictPrefix(z.hash, y.hash)
  BY <1>3, <1>9, <1>10, <1>12, PrefixOfNext DEF Row
<1>14. z.seq < y.seq
  BY <1>3, <1>11, <1>13 DEF Linear
<1> QED
  BY <1>3, <1>11, <1>12, <1>14 DEF IsLastEvent, Row

LEMMA TipInit == Init => TipInv
<1> SUFFICES ASSUME Init, NEW r \in Creates PROVE pc[r] = "find" /\ attempt[r] = 0
  BY DEF TipInv, GoneIfRepeated
<1> QED
  BY RequestsAssumption DEF Init

\* The committed rows of the subject stay the same while create_event is inside.
LEMMA TimelineHeld ==
  ASSUME ChainInv, CallInv, LockInv, [Next]_vars,
         NEW r \in Creates, pc[r] \in Inside, Subject(r) \in subjects,
         ~(StoreCommits(r) /\ pc[r] \in {"commit", "bulk_commit"})
  PROVE  RowsOf(events', Subject(r)) = RowsOf(events, Subject(r))
<1>1. CASE UNCHANGED events
  BY <1>1
<1>2. ASSUME NEW q \in Requests, StoreCommits(q), pc[q] \in {"commit", "bulk_commit"}
      PROVE  RowsOf(events', Subject(r)) = RowsOf(events, Subject(r))
  <2>1. q # r
    BY <1>2
  <2>2. RowsOf(pending[q], Subject(r)) = {}
    BY <1>2, <2>1, OthersDoNotCommit
  <2> QED
    BY <1>2, <2>2 DEF StoreCommits, RowsOf
<1> QED
  BY <1>1, <1>2, StoreSteps DEF StoreShrinks, StoreInserts

LEMMA SubjectsShrink == TypeInv /\ [Next]_vars => subjects' \subseteq subjects
<1> SUFFICES ASSUME TypeInv, [Next]_vars PROVE subjects' \subseteq subjects
  OBVIOUS
<1>1. ASSUME NEW r \in Requests, Step(r) \/ Abort(r) PROVE subjects' = subjects
  BY <1>1, EveryLockStep
<1> QED
  BY <1>1 DEF Next, DeleteSubject, Tick, AllAnswered, vars

\* What a step of create_event does to the row it has prepared and to its attempts.
LEMMA PreparedSteps ==
  ASSUME TypeInv, NEW r \in Creates, Step(r) \/ Abort(r)
  PROVE  /\ pc'[r] = "insert" => ReadTip(r) /\ TipIsCurrent(r)'
         /\ attempt'[r] # attempt[r] =>
              pc[r] = "insert" /\ (UniqueViolation(r) \/ Subject(r) \notin subjects)
<1> USE DEF TypeInv, TypeOK, Goto
<1>0. r \in Requests /\ pc[r] \notin {"bulk_read", "bulk_compute", "bulk_insert", "bulk_fk",
                                     "bulk_respond", "bulk_commit"}
  BY RequestsAssumption DEF ControlOK, CreatePCs
<1>1. ASSUME NEW error, Fail(r, error) PROVE pc'[r] = "done" /\ attempt'[r] = attempt[r]
  BY <1>0, <1>1 DEF Fail
<1>2. CASE FindSubject(r) \/ ValidateTransition(r) \/ LockSubject(r)
  BY <1>0, <1>1, <1>2 DEF FindSubject, ValidateTransition, LockSubject
<1>3. CASE ReadTip(r) /\ ~\E error : Fail(r, error)
  <2>1. PICK t \in LastEvent(RowsOf(events, Subject(r))) :
          /\ built' = [built EXCEPT ![r] = <<Prepare(input[r][1], t)>>]
          /\ UNCHANGED <<events, input, attempt>>
    BY <1>3 DEF ReadTip
  <2>2. TipIsCurrent(r)'
    BY <1>0, <2>1 DEF TipIsCurrent, Subject
  <2> QED
    BY <1>3, <2>1, <2>2
<1>4. CASE InsertRow(r)
  BY <1>0, <1>4 DEF InsertRow, InsertRefused, InsertAccepted
<1>5. CASE Commit(r) \/ Respond(r)
  BY <1>0, <1>5 DEF Commit, Respond
<1>6. ASSUME BulkStep(r) PROVE pc'[r] # "insert" /\ attempt'[r] = attempt[r]
  <2>1. BulkFindSubjects(r)
    BY <1>0, <1>6
    DEF BulkStep, BulkReadTips, BulkCompute, BulkInsert, BulkForeignKeys, BulkRespond, BulkCommit
  <2> QED
    BY <1>0, <1>1, <2>1 DEF BulkFindSubjects
<1> QED
  BY <1>1, <1>2, <1>3, <1>4, <1>5, <1>6 DEF Step, CreateStep, DeadlockAbort, Abort

LEMMA TipNext ==
  ChainInv /\ OrderInv /\ CallInv /\ LockInv /\ TipInv /\ [Next]_vars => TipInv'
<1> SUFFICES ASSUME ChainInv, OrderInv, CallInv, LockInv, TipInv, [Next]_vars, NEW r \in Creates
             PROVE  /\ pc'[r] = "insert" /\ Subject(r)' \in subjects' => TipIsCurrent(r)'
                    /\ GoneIfRepeated(r)'
  BY DEF TipInv
<1>1. /\ r \in Requests /\ TypeInv
      /\ Subject(r)' = Subject(r) /\ input' = input /\ subjects' \subseteq subjects
  BY InputFixed, SubjectsShrink, RequestsAssumption DEF ChainInv, Subject
<1>2. CASE Step(r) \/ Abort(r)
  <2>1. GoneIfRepeated(r)'
    <3>1. CASE attempt'[r] = attempt[r]
      BY <1>1, <3>1 DEF TipInv, GoneIfRepeated
    <3>2. CASE attempt'[r] # attempt[r]
      <4>1. pc[r] = "insert" /\ (UniqueViolation(r) \/ Subject(r) \notin subjects)
        BY <1>1, <1>2, <3>2, PreparedSteps
      <4>2. Subject(r) \notin subjects
        BY <4>1, CurrentTipIsAccepted DEF TipInv
      <4> QED
        BY <1>1, <4>2 DEF GoneIfRepeated
    <3> QED
      BY <3>1, <3>2
  <2> QED
    BY <1>1, <1>2, <2>1, PreparedSteps
<1>3. CASE pc'[r] = pc[r] /\ attempt'[r] = attempt[r] /\ built'[r] = built[r]
  <2>1. GoneIfRepeated(r)'
    BY <1>1, <1>3 DEF TipInv, GoneIfRepeated
  <2>2. ASSUME pc[r] = "insert", Subject(r) \in subjects'
        PROVE  TipIsCurrent(r)'
    <3>1. TipIsCurrent(r) /\ Subject(r) \in subjects
      BY <1>1, <2>2 DEF TipInv
    <3>2. RowsOf(events', Subject(r)) = RowsOf(events, Subject(r))
      BY <2>2, <3>1, TimelineHeld DEF Inside
    <3> QED
      BY <1>1, <1>3, <3>1, <3>2 DEF TipIsCurrent
  <2> QED
    BY <1>1, <1>3, <2>1, <2>2
<1>4. ASSUME NEW q \in Requests, q # r, Step(q) \/ Abort(q)
      PROVE  pc'[r] = pc[r] /\ attempt'[r] = attempt[r] /\ built'[r] = built[r]
  BY <1>1, <1>4, OthersUntouched DEF Untouched
<1>5. CASE UNCHANGED vars \/ Tick \/ \E s \in Subjects : DeleteSubject(s)
  BY <1>3, <1>5 DEF vars, Tick, DeleteSubject
<1> QED
  BY <1>2, <1>3, <1>4, <1>5 DEF Next, AllAnswered

\* create_event meets an integrity error, and so gives up with ChainForkError, only because
\* its subject has been deleted under it.
THEOREM OnlyDeletionRefusesAnInsert == Spec => []IntegrityErrorMeansSubjectGone
<1> DEFINE Inv == ChainInv /\ OrderInv /\ CallInv /\ LockInv /\ TipInv
<1>1. Init => Inv
  BY InitChain, OrderInit, CallInit, LockInit, TipInit
<1>2. Inv /\ [Next]_vars => Inv'
  BY NextChain, OrderNext, CallNext, LockNext, TipNext DEF ChainInv
<1>3. Inv => IntegrityErrorMeansSubjectGone
  BY DEF TipInv, GoneIfRepeated, IntegrityErrorMeansSubjectGone
<1> QED
  BY <1>1, <1>2, <1>3, PTL DEF Spec

-----------------------------------------------------------------------------
(***************************************************************************)
(* The transition rules outlive the check.                                 *)
(***************************************************************************)

\* The required prior types of c are committed on the timeline of its subject.
HasPriors(c) ==
  \A t \in Rules[c.type].required :
    \E p \in events : p.content.subject = c.subject /\ p.content.type = t

\* Labels between the check of the transition rules and the INSERT of create_event.
Promised == {"lock", "read", "insert"}

PriorsInv ==
  /\ \A x \in AllRows : \A t \in Rules[x.content.type].required :
       \E p \in events : /\ p.content.subject = x.content.subject
                         /\ p.content.type = t
                         /\ p.seq < x.seq
  /\ \A r \in Creates : pc[r] \in Promised => HasPriors(input[r][1])
  /\ \A r \in Requests : \A i \in DOMAIN built[r] : HasPriors(built[r][i].content)

LEMMA EventsStay == ChainInv /\ [Next]_vars => events \subseteq events'
BY StoreSteps DEF StoreShrinks, StoreCommits, StoreInserts

LEMMA CheckFindsPriors ==
  ASSUME NEW c \in Content, CanEmit(RowsOf(events, c.subject), c.type)
  PROVE  HasPriors(c)
BY DEF CanEmit, PriorsSeen, OfType, RowsOf, HasPriors

\* What a step of r prepares passed the check, or was promised to.
PreparedOK(r) ==
  /\ r \in Creates /\ pc'[r] \in Promised => HasPriors(input[r][1])
  /\ \A i \in DOMAIN built'[r] : HasPriors(built'[r][i].content)

LEMMA EveryStepPrepares ==
  ASSUME ChainInv, PriorsInv, NEW r \in Requests, Step(r) \/ Abort(r)
  PROVE  PreparedOK(r)
<1> USE DEF ChainInv, TypeInv, TypeOK, Goto
<1>0. \A i \in DOMAIN built[r] : HasPriors(built[r][i].content)
  BY DEF PriorsInv
<1>1. ASSUME NEW error, Fail(r, error) PROVE PreparedOK(r)
  <2>1. pc'[r] = "done" /\ built'[r] = built[r]
    BY <1>1 DEF Fail
  <2> QED
    BY <1>0, <2>1 DEF PreparedOK, Promised
<1>2. ASSUME NEW label, pc' = [pc EXCEPT ![r] = label], UNCHANGED built,
             label \in Promised => pc[r] \in Promised
      PROVE  PreparedOK(r)
  <2>1. pc'[r] = label /\ built'[r] = built[r]
    BY <1>2
  <2> QED
    BY <1>0, <1>2, <2>1 DEF PreparedOK, PriorsInv
<1>3. ASSUME NEW label, InsertAccepted(r, label), pc[r] \in {"insert", "bulk_insert"},
             label \notin Promised
      PROVE  PreparedOK(r)
  <2>1. pc'[r] = label /\ built'[r] = Tail(built[r])
    BY <1>3 DEF InsertAccepted
  <2>2. built[r] # << >> /\ built[r] \in Seq(Prepared)
    BY <1>3 DEF ControlOK
  <2>3. \A i \in DOMAIN Tail(built[r]) : i + 1 \in DOMAIN built[r]
                                        /\ Tail(built[r])[i] = built[r][i + 1]
    BY <2>2, HeadTailProperties
  <2> QED
    BY <1>0, <1>3, <2>1, <2>3 DEF PreparedOK
<1>4. CASE CreateStep(r)
  <2>1. CASE FindSubject(r)
    BY <1>1, <1>2, <2>1 DEF FindSubject, Promised
  <2>2. CASE ValidateTransition(r) /\ ~\E error : Fail(r, error)
    <3>1. /\ pc[r] = "transition" /\ pc'[r] = "lock" /\ built'[r] = built[r]
          /\ CanEmit(RowsOf(events, Subject(r)), input[r][1].type)
      BY <2>2 DEF ValidateTransition
    <3>2. r \in Creates => input[r][1] \in Content
      BY InputType
    <3>3. r \in Creates => HasPriors(input[r][1])
      BY <3>1, <3>2, CheckFindsPriors DEF Subject
    <3> QED
      BY <1>0, <3>1, <3>3 DEF PreparedOK
  <2>3. CASE LockSubject(r)
    BY <1>1, <1>2, <2>3 DEF LockSubject, Promised
  <2>4. CASE ReadTip(r) /\ ~\E error : Fail(r, error)
    <3>1. PICK t \in LastEvent(RowsOf(events, Subject(r))) :
            /\ built' = [built EXCEPT ![r] = <<Prepare(input[r][1], t)>>]
            /\ pc' = [pc EXCEPT ![r] = "insert"]
      BY <2>4 DEF ReadTip
    <3>2. pc[r] = "read" /\ r \in Creates
      BY <2>4, RequestsAssumption DEF ReadTip, ControlOK, Bulks, BulkPCs
    <3>3. HasPriors(input[r][1])
      BY <3>2 DEF PriorsInv, Promised
    <3>4. built'[r] = <<Prepare(input[r][1], t)>>
      BY <3>1
    <3> QED
      BY <3>3, <3>4 DEF PreparedOK, Prepare
  <2>5. CASE InsertRow(r)
    <3>1. CASE InsertRefused(r)
      <4>1. built'[r] = << >> /\ pc[r] = "insert"
        BY <2>5, <3>1 DEF InsertRow, InsertRefused
      <4> QED
        BY <4>1 DEF PreparedOK, PriorsInv, Promised
    <3>2. CASE InsertAccepted(r, "commit")
      BY <1>3, <2>5, <3>2 DEF InsertRow, Promised
    <3> QED
      BY <2>5, <3>1, <3>2 DEF InsertRow
  <2>6. CASE Commit(r) \/ Respond(r)
    BY <1>2, <2>6 DEF Commit, Respond, Promised
  <2> QED
    BY <1>1, <1>4, <2>1, <2>2, <2>3, <2>4, <2>5, <2>6 DEF CreateStep
<1>5. CASE BulkStep(r)
  <2>1. CASE BulkFindSubjects(r) \/ BulkReadTips(r)
    BY <1>1, <1>2, <2>1 DEF BulkFindSubjects, BulkReadTips, Promised
  <2>2. CASE BulkCompute(r) /\ ~\E error : Fail(r, error)
    <3> DEFINE i == Len(built[r]) + 1
               next == input[r][i]
               new == Prepare(next, tip[r][next.subject])
    <3>1. /\ pc[r] = "bulk_compute" /\ i <= Len(input[r])
          /\ CanEmit(RowsOf(events, next.subject), next.type)
          /\ built' = [built EXCEPT ![r] = Append(@, new)]
          /\ Goto(r, IF i = Len(input[r]) THEN "bulk_insert" ELSE "bulk_compute")
      BY <2>2 DEF BulkCompute
    <3>2. input[r] \in Seq(Content) /\ built[r] \in Seq(Prepared) /\ Len(built[r]) \in Nat
      OBVIOUS
    <3>3. next \in Content /\ new.content = next
      <4>1. i \in DOMAIN input[r]
        BY <3>1, <3>2
      <4> QED
        BY <4>1, InputType DEF Prepare
    <3>4. HasPriors(new.content)
      BY <3>1, <3>3, CheckFindsPriors
    <3> HIDE DEF new, next
    <3>5. /\ built'[r] = Append(built[r], new)
          /\ \A j \in DOMAIN built'[r] : built'[r][j] = IF j = i THEN new ELSE built[r][j]
          /\ \A j \in DOMAIN built'[r] : j # i => j \in DOMAIN built[r]
      BY <3>1, <3>2
    <3>6. pc'[r] \notin Promised
      BY <3>1 DEF Promised
    <3> QED
      BY <1>0, <3>4, <3>5, <3>6 DEF PreparedOK
  <2>3. CASE BulkInsert(r)
    BY <1>1, <1>3, <2>3 DEF BulkInsert, Promised
  <2>4. CASE BulkForeignKeys(r) \/ BulkRespond(r) \/ BulkCommit(r)
    BY <1>1, <1>2, <2>4 DEF BulkForeignKeys, BulkRespond, BulkCommit, Promised
  <2> QED
    BY <1>1, <1>5, <2>1, <2>2, <2>3, <2>4 DEF BulkStep
<1> QED
  BY <1>1, <1>4, <1>5 DEF Step, DeadlockAbort, Abort

LEMMA PriorsInit == Init => PriorsInv
<1> SUFFICES ASSUME Init PROVE PriorsInv
  OBVIOUS
<1>1. AllRows = {} /\ \A r \in Requests : pc[r] = "find" /\ built[r] = << >>
  BY DEF Init, AllRows
<1> QED
  BY <1>1, RequestsAssumption DEF PriorsInv, Promised

LEMMA PriorsNext == ChainInv /\ ChainInv' /\ PriorsInv /\ [Next]_vars => PriorsInv'
<1> SUFFICES ASSUME ChainInv, ChainInv', PriorsInv, [Next]_vars PROVE PriorsInv'
  OBVIOUS
<1>1. events \subseteq events' /\ input' = input
  BY EventsStay, InputFixed
<1> DEFINE Later(c) == \A t \in Rules[c.type].required :
                         \E p \in events' : p.content.subject = c.subject /\ p.content.type = t
<1>2. ASSUME NEW c, HasPriors(c) PROVE Later(c)
  BY <1>1, <1>2 DEF HasPriors
<1>3. ASSUME NEW r \in Requests PROVE PreparedOK(r)
  <2>1. CASE pc'[r] = pc[r] /\ built'[r] = built[r]
    BY <2>1 DEF PreparedOK, PriorsInv
  <2>2. CASE UNCHANGED vars \/ Tick \/ \E s \in Subjects : DeleteSubject(s)
    BY <2>1, <2>2 DEF vars, Tick, DeleteSubject
  <2>3. ASSUME NEW q \in Requests, q # r, Step(q) \/ Abort(q) PROVE PreparedOK(r)
    BY <2>1, <2>3, OthersUntouched DEF Untouched, ChainInv
  <2> QED
    BY <2>2, <2>3, EveryStepPrepares DEF Next, AllAnswered
<1>4. ASSUME NEW x \in AllRows', NEW t \in Rules[x.content.type].required
      PROVE  \E p \in events' : /\ p.content.subject = x.content.subject
                                /\ p.content.type = t
                                /\ p.seq < x.seq
  <2>1. CASE x \in AllRows
    <3>1. PICK p \in events : /\ p.content.subject = x.content.subject
                              /\ p.content.type = t
                              /\ p.seq < x.seq
      BY <1>4, <2>1 DEF PriorsInv
    <3> QED
      BY <1>1, <3>1
  <2>2. ASSUME NEW r \in Requests, StoreInserts(r), x = NextRow(r) PROVE
             \E p \in events' : /\ p.content.subject = x.content.subject
                                /\ p.content.type = t
                                /\ p.seq < x.seq
    <3>1. built[r] # << >> /\ built[r] \in Seq(Prepared)
      BY <2>2 DEF StoreInserts, ChainInv, TypeInv, TypeOK, ControlOK
    <3>2. x.content = built[r][1].content /\ x.seq = nextSeq /\ 1 \in DOMAIN built[r]
      <4>1. Head(built[r]) = built[r][1] /\ 1 \in DOMAIN built[r]
        BY <3>1, EmptySeq
      <4> QED
        BY <2>2, <4>1 DEF NextRow
    <3>3. HasPriors(x.content)
      BY <3>2 DEF PriorsInv
    <3>4. PICK p \in events : p.content.subject = x.content.subject /\ p.content.type = t
      BY <1>4, <3>3 DEF HasPriors
    <3>5. p.seq < x.seq
      BY <3>2, AllRowsElements DEF ChainInv, StoreInv
    <3> QED
      BY <1>1, <3>4, <3>5
  <2>3. x \in AllRows \/ \E r \in Requests : StoreInserts(r) /\ x = NextRow(r)
    <3>1. x \in events' \/ \E q \in Requests : x \in pending'[q]
      BY <1>4 DEF AllRows
    <3>2. ASSUME NEW r \in Requests, StoreInserts(r) PROVE x \in AllRows \/ x = NextRow(r)
      <4>1. events' = events /\ \A q \in Requests : pending'[q] \subseteq pending[q] \cup {NextRow(r)}
        BY <3>2 DEF StoreInserts, ChainInv, TypeInv, TypeOK
      <4> QED
        BY <3>1, <4>1, AllRowsElements
    <3>3. ASSUME NEW r \in Requests, StoreShrinks(r) \/ StoreCommits(r) PROVE x \in AllRows
      BY <3>1, <3>3, AllRowsElements
      DEF StoreShrinks, StoreCommits, ChainInv, TypeInv, TypeOK
    <3>4. CASE UNCHANGED <<events, pending, nextSeq>>
      BY <1>4, <3>4 DEF AllRows
    <3> QED
      BY <3>2, <3>3, <3>4, StoreSteps
  <2> QED
    BY <2>1, <2>2, <2>3
<1> HIDE DEF Later
<1>5. \A r \in Creates : pc'[r] \in Promised => Later(input'[r][1])
  BY <1>1, <1>2, <1>3, RequestsAssumption DEF PreparedOK
<1>6. \A r \in Requests : \A i \in DOMAIN built'[r] : Later(built'[r][i].content)
  BY <1>2, <1>3 DEF PreparedOK
<1> QED
  BY <1>4, <1>5, <1>6 DEF PriorsInv, HasPriors, Later

\* Required priors are checked on rows that may be stale by the INSERT, and still precede
\* every stored event.
THEOREM PriorsArePreceding == Spec => []PriorsPrecede
<1>1. Init => ChainInv /\ PriorsInv
  BY InitChain, PriorsInit
<1>2. ChainInv /\ PriorsInv /\ [Next]_vars => ChainInv' /\ PriorsInv'
  BY NextChain, PriorsNext
<1>3. PriorsInv => PriorsPrecede
  BY AllRowsElements DEF PriorsInv, PriorsPrecede
<1> QED
  BY <1>1, <1>2, <1>3, PTL DEF Spec

=============================================================================
