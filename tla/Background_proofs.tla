--------------------------- MODULE Background_proofs ---------------------------
(***************************************************************************)
(* Proofs about what goes on behind the routes.                              *)
(*                                                                         *)
(* Automation, for every number of requests, every call and every seed: the   *)
(* daily limits of workflows, what can cost a batch its transaction, and the  *)
(* anchors.  Process, for every number of calls of the cache, connections,     *)
(* tenants and messages: what the cache's callers get, and what the clients   *)
(* of the connections do.  The two share no variable, and no proof is about    *)
(* both.                                                                    *)
(***************************************************************************)
EXTENDS Automation, Process, FiniteSetTheorems, SequenceTheorems, NaturalsInduction, TLAPS

LEMMA LeastElement ==
  ASSUME NEW S \in SUBSET Nat, S # {}
  PROVE  \E m \in S : \A k \in S : m <= k
<1>1. PICK m \in S : \A k \in S : <<k, m>> \notin OpToRel(<, Nat)
  BY NatLessThanWellFounded, WFMin, Zenon
<1>2. \A k \in S : ~(k < m)
  BY ONLY <1>1, S \in SUBSET Nat, Zenon DEF OpToRel
<1> QED
  BY <1>2

-----------------------------------------------------------------------------
(* What the requests hold, where they are. *)

Types ==
  /\ pc \in [Requests -> PCs] /\ session \in [Requests -> {"active", "inactive", "closed"}]
  /\ DOMAIN put = Requests /\ gone = [r \in Requests |-> {}]
  /\ DOMAIN got = Requests /\ DOMAIN held = Requests
  /\ committed \subseteq Requests /\ call \in Scenarios
  /\ IsFiniteSet(rows)
  /\ \A r \in Requests : IsFiniteSet(put[r]) /\ (session[r] # "active" => put[r] = {})

\* A workflow is one there ever was, with that one's trigger and actions.
Known(w) ==
  /\ w \in WorkflowRow
  /\ \E v \in Workflows : v.id = w.id /\ v.trigger = w.trigger /\ v.actions = w.actions

\* The limits and orders a workflow has once the updates of S are committed.
UpdatesBy(i, S) == {r \in S : call[r].op = "update_workflow" /\ call[r].target = i}
LimitsBy(i, S) ==
  {w.max : w \in {v \in Workflows : v.id = i}} \cup ({call[r].max : r \in UpdatesBy(i, S)} \ {None})
OrdersBy(i, S) ==
  {w.order : w \in {v \in Workflows : v.id = i}} \cup ({call[r].order : r \in UpdatesBy(i, S)} \ {None})
GivenBy(w, S) == Known(w) /\ w.max \in LimitsBy(w.id, S) /\ w.order \in OrdersBy(w.id, S)

WorkflowOps == {"create_workflow", "update_workflow", "delete_workflow"}
InBatch == {"trigger", "execute", "lock", "count", "insert", "act"}

\* An anchor that r has made, and one that it has confirmed.
Pending(r) == [id |-> <<"anchor", r>>, tip |-> got[r].tip, status |-> "pending", receipt |-> None]
Confirmed(r) == [id |-> <<"anchor", r>>, tip |-> got[r].tip, status |-> "confirmed", receipt |-> r]

\* What r may have written: a batch, events, tasks, and executions on a limited workflow only
\* under its lock; a workflow route, one workflow; a pass, an anchor.
PutOK(r) ==
  /\ \A x \in put[r] :
       /\ x.id[1] \in {"workflow", "event", "execution", "task", "anchor"}
       /\ x.id[1] = "workflow" => call[r].op \in WorkflowOps /\ GivenBy(x, committed \cup {r})
       /\ x.id[1] = "execution" =>
            /\ call[r].op = "bulk"
            /\ None \in Limits(x.workflow) \/ <<x.workflow, x.day>> \in held[r]
       /\ x.id[1] = "anchor" => call[r].op = "anchor"
  /\ call[r].op \in WorkflowOps => \A x, y \in put[r] : x = y

\* Where r has written nothing and taken no lock yet, and what it was called for.
PathOK(r) ==
  /\ r \in committed => pc[r] = "done"
  /\ pc[r] \in {"start", "write", "lookup", "done"} => put[r] = {}
  /\ pc[r] \in {"start", "write", "lookup"} => held[r] = {}
  /\ call[r].op \in {"update_workflow", "delete_workflow"} /\ pc[r] = "write" =>
       call[r].target[1] = "workflow"
  /\ pc[r] \in InBatch => call[r].op = "bulk"
  /\ call[r].op = "anchor" => pc[r] # "answer"

\* A pass has read its tip; it uses an anchor of its own, or one that is stored.
AnchorOK(r) ==
  call[r].op = "anchor" =>
    /\ pc[r] \in {"lookup", "write", "stamp", "confirm"} =>
         got[r] = [tip |-> got[r].tip, anchor |-> got[r].anchor]
    /\ pc[r] \in {"stamp", "confirm"} =>
         \/ put[r] = {Pending(r)} /\ got[r].anchor = <<"anchor", r>>
         \/ put[r] = {} /\ got[r].anchor \in Ids(Of(rows, "anchor"))
    /\ pc[r] = "commit" => put[r] = {} \/ (put[r] = {Confirmed(r)} /\ got[r].anchor = <<"anchor", r>>)

\* What a batch has found and has still to do; where its locks, its count and its execution are.
Left == [events : Seq(EventRow), rest : Seq(WorkflowRow), day : 1..MaxDay \cup {0}, count : Nat,
         actions : Seq(Action)]
BatchOK(r) ==
  pc[r] \in InBatch =>
    /\ got[r] \in Left
    /\ \A i \in DOMAIN got[r].events : \E k \in DOMAIN call[r].events :
         got[r].events[i].type = call[r].events[k].type
    /\ pc[r] # "trigger" =>
         /\ got[r].events # << >>
         /\ \A i \in DOMAIN got[r].rest :
              GivenBy(got[r].rest[i], committed) /\ got[r].rest[i].trigger = got[r].events[1].type
    /\ pc[r] \in {"lock", "count", "insert", "act"} => got[r].rest # << >>
    /\ pc[r] \in {"lock", "count", "insert"} => session[r] = "active"
    /\ pc[r] \in {"lock", "count"} => Current(r).max # None
    /\ pc[r] \in {"count", "insert", "act"} /\ Current(r).max # None =>
         <<Current(r).id, got[r].day>> \in held[r]
    /\ pc[r] = "insert" /\ None \notin Limits(Current(r).id) =>
         Cardinality(Spent(View(r), Current(r).id, got[r].day)) <= got[r].count
    /\ pc[r] \in {"lock", "count", "insert", "act"} =>
         \A j \in DOMAIN got[r].actions : \E k \in DOMAIN Current(r).actions :
           got[r].actions[j] = Current(r).actions[k]
    /\ pc[r] = "act" /\ session[r] = "active" => Execution(r, "running") \in put[r]

\* A batch of one event takes its locks in the order in which it finds the workflows.
OrderOK(r) ==
  pc[r] \in InBatch /\ Len(call[r].events) = 1 =>
    /\ Len(got[r].events) <= 1
    /\ pc[r] = "trigger" /\ got[r].events # << >> => held[r] = {}
    /\ pc[r] # "trigger" =>
         /\ \A i, j \in DOMAIN got[r].rest : i < j =>
              got[r].rest[i].id # got[r].rest[j].id /\ got[r].rest[i].order <= got[r].rest[j].order
         /\ \A l \in held[r] :
              /\ \E v \in Workflows : v.id = l[1] /\ v.trigger = got[r].events[1].type
              /\ \A i \in DOMAIN got[r].rest : i > 1 \/ pc[r] \in {"execute", "lock"} =>
                   l[1] # got[r].rest[i].id /\ Precedes(l[1], got[r].rest[i].id)

LossOK(r) ==
  call[r].op = "bulk" /\ pc[r] # "done" /\ session[r] # "active" =>
    RefusedAction(r) \/ MayDeadlock(r)

Own(r) == PutOK(r) /\ PathOK(r) /\ AnchorOK(r) /\ BatchOK(r) /\ OrderOK(r) /\ LossOK(r)

-----------------------------------------------------------------------------
(* What is stored. *)

RowsOK ==
  /\ \A x \in rows :
       /\ x.id[1] = "workflow" => GivenBy(x, committed)
       /\ x.id[1] = "anchor" =>
            \E q \in committed :
              call[q].op = "anchor" /\ x = Confirmed(q) /\ got[q].anchor = <<"anchor", q>>
  /\ \A x, y \in rows : x.id[1] = "workflow" /\ x.id = y.id => x = y

\* Nobody holds another's lock.
LocksOK == \A q, r \in Requests : q # r => InForce(q) \cap InForce(r) = {}

\* No more than one of the limits, where there always was one.
Bound(s, i, d) == None \notin Limits(i) => \E n \in Limits(i) : Cardinality(Spent(s, i, d)) <= n
BoundOK ==
  \A i \in Ids(Workflows), d \in 1..MaxDay :
    Bound(rows, i, d) /\ \A r \in Requests : Bound(View(r), i, d)

Inv ==
  /\ Types /\ day \in 1..MaxDay /\ seq \in Nat
  /\ RowsOK /\ LocksOK /\ BoundOK /\ \A r \in Requests : Own(r)

-----------------------------------------------------------------------------
(* What the steps of a request do, as far as the others can tell. *)

\* r goes on; the others stay where they are, and hold what they held.
Goes(r) ==
  /\ pc[r] # "done" /\ call' = call
  /\ pc' \in [Requests -> PCs] /\ DOMAIN got' = Requests /\ DOMAIN held' = Requests
  /\ \A q \in Requests \ {r} :
       pc'[q] = pc[q] /\ got'[q] = got[q] /\ held'[q] = held[q]

\* It changes nothing in the store; it loses what it has written; it writes the rows new; or it
\* commits.
Quiet(r) == Goes(r) /\ UNCHANGED <<rows, put, gone, session, committed>>
Loses(r) ==
  /\ Goes(r) /\ held' = held /\ UNCHANGED <<rows, gone, committed>>
  /\ put' = [put EXCEPT ![r] = {}]
  /\ \E as \in {"inactive", "closed"} : session' = [session EXCEPT ![r] = as]
Writes(r, new) ==
  /\ Goes(r) /\ held' = held /\ UNCHANGED <<rows, gone, session, committed>>
  /\ session[r] = "active"
  /\ put' = [put EXCEPT ![r] = new \cup {y \in put[r] : y.id \notin Ids(new)}]
Commits(r) ==
  /\ Goes(r) /\ UNCHANGED <<gone, got, held>>
  /\ pc[r] = "commit" /\ pc'[r] = "done" /\ session[r] = "active"
  /\ rows' = View(r) /\ committed' = committed \cup {r}
  /\ put' = [put EXCEPT ![r] = {}] /\ session' = [session EXCEPT ![r] = "closed"]

\* What a transaction sees.
LEMMA ViewIs ==
  ASSUME Types, NEW r \in Requests
  PROVE  View(r) = put[r] \cup {x \in rows : x.id \notin Ids(put[r])}
  BY DEF Types, View

LEMMA ViewWritten ==
  ASSUME Types, NEW r \in Requests, NEW new, Writes(r, new)
  PROVE  View(r)' = new \cup {x \in View(r) : x.id \notin Ids(new)}
<1>1. gone'[r] = {} /\ gone[r] = {} BY DEF Types, Writes
<1>2. put'[r] = new \cup {y \in put[r] : y.id \notin Ids(new)} BY DEF Types, Writes
<1>3. rows' = rows BY DEF Writes
<1>4. View(r)' = put'[r] \cup {x \in rows : x.id \notin Ids(put'[r])}
  BY <1>1, <1>3 DEF View, Ids
<1>5. View(r) = put[r] \cup {x \in rows : x.id \notin Ids(put[r])} BY <1>1 DEF View
<1>6. \A i : i \in Ids(put'[r]) <=> i \in Ids(new) \cup Ids(put[r])
  BY <1>2 DEF Ids
<1> QED BY <1>2, <1>4, <1>5, <1>6 DEF Ids

LEMMA FinitePart ==
  ASSUME NEW S, IsFiniteSet(S), NEW P, P \subseteq S
  PROVE  /\ IsFiniteSet(P) /\ Cardinality(P) \in Nat /\ Cardinality(S) \in Nat
         /\ Cardinality(P) <= Cardinality(S)
  BY FS_Subset, FS_CardinalityType

LEMMA FiniteView ==
  ASSUME Types, NEW r \in Requests
  PROVE  IsFiniteSet(View(r)) /\ IsFiniteSet(rows)
<1>1. IsFiniteSet(put[r]) /\ IsFiniteSet(rows) BY DEF Types
<1>2. IsFiniteSet(put[r] \cup rows) BY <1>1, FS_Union
<1>3. View(r) \subseteq put[r] \cup rows BY DEF View
<1> QED BY <1>1, <1>2, <1>3, FinitePart

LEMMA SpentPart ==
  ASSUME NEW s, NEW t, NEW i, NEW d, IsFiniteSet(t), Spent(s, i, d) \subseteq Spent(t, i, d)
  PROVE  /\ Cardinality(Spent(s, i, d)) \in Nat /\ Cardinality(Spent(t, i, d)) \in Nat
         /\ Cardinality(Spent(s, i, d)) <= Cardinality(Spent(t, i, d))
<1>1. Spent(t, i, d) \subseteq t BY DEF Spent, Executions, Of
<1>2. IsFiniteSet(Spent(t, i, d)) BY <1>1, FinitePart
<1> QED BY <1>2, FinitePart

Moves(r) ==
  \/ Quiet(r) \/ Loses(r) \/ Commits(r)
  \/ \E new : IsFiniteSet(new) /\ Writes(r, new)

LEMMA TypesNext ==
  ASSUME Types, NEW r \in Requests, Moves(r)
  PROVE  Types'
<1>1. /\ pc' \in [Requests -> PCs] /\ DOMAIN got' = Requests /\ DOMAIN held' = Requests
      /\ call' \in Scenarios
  BY DEF Moves, Quiet, Loses, Writes, Commits, Goes, Types
<1>2. gone' = gone BY DEF Moves, Quiet, Loses, Writes, Commits
<1>3. IsFiniteSet(rows') BY FiniteView DEF Moves, Quiet, Loses, Writes, Commits
<1>4. committed' \subseteq Requests BY DEF Moves, Quiet, Loses, Writes, Commits, Types
<1>5. session' \in [Requests -> {"active", "inactive", "closed"}] /\ DOMAIN put' = Requests
  BY DEF Moves, Quiet, Loses, Writes, Commits, Types
<1>6. ASSUME NEW q \in Requests
      PROVE  IsFiniteSet(put'[q]) /\ (session'[q] # "active" => put'[q] = {})
  <2>1. IsFiniteSet(put[q]) /\ (session[q] # "active" => put[q] = {}) BY DEF Types
  <2>2. CASE Quiet(r) BY <2>1, <2>2 DEF Quiet
  <2>3. CASE Loses(r) \/ Commits(r)
    <3>1. q # r => put'[q] = put[q] /\ session'[q] = session[q]
      BY <2>3 DEF Loses, Commits, Types
    <3>2. put'[r] = {} BY <2>3 DEF Loses, Commits, Types
    <3> QED BY <2>1, <3>1, <3>2, FS_EmptySet
  <2>4. CASE \E new : IsFiniteSet(new) /\ Writes(r, new)
    <3>1. PICK new : IsFiniteSet(new) /\ Writes(r, new) BY <2>4
    <3>2. session' = session /\ session[r] = "active"
          /\ put' = [put EXCEPT ![r] = new \cup {y \in put[r] : y.id \notin Ids(new)}]
      BY <3>1 DEF Writes
    <3>3. CASE q = r
      <4>1. put'[q] = new \cup {y \in put[q] : y.id \notin Ids(new)} BY <3>2, <3>3 DEF Types
      <4>2. IsFiniteSet(new \cup put[q]) BY <2>1, <3>1, FS_Union
      <4>3. IsFiniteSet(put'[q]) BY <4>1, <4>2, FinitePart
      <4> QED BY <3>2, <3>3, <4>3
    <3>4. CASE q # r
      <4>1. put'[q] = put[q] BY <3>2, <3>4 DEF Types
      <4> QED BY <2>1, <3>2, <4>1
    <3> QED BY <3>3, <3>4
  <2> QED BY <2>2, <2>3, <2>4 DEF Moves
<1> QED BY <1>1, <1>2, <1>3, <1>4, <1>5, <1>6 DEF Types

LEMMA CommittedGrow ==
  ASSUME Types, NEW r \in Requests, Moves(r)
  PROVE  call' = call /\ committed \subseteq committed'
  BY DEF Moves, Quiet, Loses, Writes, Commits, Goes

-----------------------------------------------------------------------------
(* The limits and orders of workflows only grow. *)

LEMMA SameLimits ==
  ASSUME call' = call, NEW i, NEW S
  PROVE  /\ Workflows' = Workflows
         /\ LimitsBy(i, S)' = LimitsBy(i, S) /\ OrdersBy(i, S)' = OrdersBy(i, S)
<1>1. Workflows' = Workflows BY DEF Workflows, NewWorkflow
<1>2. UpdatesBy(i, S)' = UpdatesBy(i, S) BY DEF UpdatesBy
<1> QED BY <1>1, <1>2 DEF LimitsBy, OrdersBy

LEMMA MoreLimits ==
  ASSUME NEW i, NEW S, NEW S2, S \subseteq S2
  PROVE  LimitsBy(i, S) \subseteq LimitsBy(i, S2) /\ OrdersBy(i, S) \subseteq OrdersBy(i, S2)
<1>1. UpdatesBy(i, S) \subseteq UpdatesBy(i, S2) BY DEF UpdatesBy
<1> QED BY <1>1 DEF LimitsBy, OrdersBy

LEMMA MoreGiven ==
  ASSUME NEW w, NEW S, NEW S2, S \subseteq S2, GivenBy(w, S)
  PROVE  GivenBy(w, S2)
  BY MoreLimits DEF GivenBy

LEMMA LimitsAre ==
  ASSUME NEW i
  PROVE  Limits(i) = LimitsBy(i, committed) /\ Orders(i) = OrdersBy(i, committed)
  BY DEF Limits, Orders, LimitsBy, OrdersBy, Updates, UpdatesBy

\* Whether one never was given is known from the start.
LEMMA NoneInLimits ==
  ASSUME NEW i
  PROVE  None \in Limits(i) <=> \E w \in Workflows : w.id = i /\ w.max = None
<1>1. None \in Limits(i) <=> None \in {w.max : w \in {v \in Workflows : v.id = i}}
  BY DEF Limits
<1> QED BY <1>1

LEMMA LimitsGrow ==
  ASSUME call' = call, committed \subseteq committed', NEW i
  PROVE  /\ Limits(i) \subseteq Limits(i)' /\ Orders(i) \subseteq Orders(i)'
         /\ None \in Limits(i)' <=> None \in Limits(i)
<1>1. /\ Limits(i) = LimitsBy(i, committed) /\ Orders(i) = OrdersBy(i, committed)
  BY LimitsAre
<1>2. Workflows' = Workflows BY SameLimits
<1>3. Updates(i) \subseteq Updates(i)' BY DEF Updates
<1>4. Limits(i) \subseteq Limits(i)' /\ Orders(i) \subseteq Orders(i)'
  BY <1>2, <1>3 DEF Limits, Orders
<1>5. None \in Limits(i) <=> \E w \in Workflows : w.id = i /\ w.max = None BY NoneInLimits
<1>6. None \in Limits(i)' <=> None \in {w.max : w \in {v \in Workflows' : v.id = i}}
  BY DEF Limits
<1>7. None \in Limits(i)' <=> \E w \in Workflows : w.id = i /\ w.max = None
  BY <1>2, <1>6
<1> QED BY <1>4, <1>5, <1>7

\* What a workflow was given stays so, for those who know of r's update too.
LEMMA GivenStays ==
  ASSUME call' = call, committed \subseteq committed', NEW w, NEW r
  PROVE  /\ GivenBy(w, committed) => GivenBy(w, committed)'
         /\ GivenBy(w, committed \cup {r}) => GivenBy(w, committed \cup {r})'
<1>1. Workflows' = Workflows BY SameLimits
<1>2. Known(w) => Known(w)' BY <1>1 DEF Known
<1>3. /\ UpdatesBy(w.id, committed) \subseteq UpdatesBy(w.id, committed)'
      /\ UpdatesBy(w.id, committed \cup {r}) \subseteq UpdatesBy(w.id, committed \cup {r})'
  BY DEF UpdatesBy
<1>4. /\ LimitsBy(w.id, committed) \subseteq LimitsBy(w.id, committed)'
      /\ OrdersBy(w.id, committed) \subseteq OrdersBy(w.id, committed)'
  BY <1>1, <1>3 DEF LimitsBy, OrdersBy
<1>5. /\ LimitsBy(w.id, committed \cup {r}) \subseteq LimitsBy(w.id, committed \cup {r})'
      /\ OrdersBy(w.id, committed \cup {r}) \subseteq OrdersBy(w.id, committed \cup {r})'
  BY <1>1, <1>3 DEF LimitsBy, OrdersBy
<1> QED BY <1>2, <1>4, <1>5 DEF GivenBy

LEMMA PrecedesGrow ==
  ASSUME call' = call, committed \subseteq committed', NEW i, NEW j, Precedes(i, j)
  PROVE  Precedes(i, j)'
<1>1. Orders(i) \subseteq Orders(i)' /\ Orders(j) \subseteq Orders(j)' BY LimitsGrow
<1> QED BY <1>1 DEF Precedes

-----------------------------------------------------------------------------
(* What r does is nothing to the others' part of the invariant. *)

Same(q) ==
  /\ pc'[q] = pc[q] /\ got'[q] = got[q] /\ held'[q] = held[q] /\ put'[q] = put[q]
  /\ session'[q] = session[q] /\ gone'[q] = gone[q] /\ call' = call

LEMMA OthersSame ==
  ASSUME Types, NEW r \in Requests, Moves(r), NEW q \in Requests \ {r}
  PROVE  /\ Same(q) /\ (q \in committed' => q \in committed)
         /\ ~Commits(r) => rows' = rows /\ committed' = committed
  BY DEF Moves, Quiet, Loses, Writes, Commits, Goes, Types, Same

LEMMA WorkflowsTyped ==
  ASSUME call \in Scenarios, NEW w \in Workflows
  PROVE  w \in WorkflowRow
<1>1. CASE w \in Of(Seed, "workflow")
  <2>1. w.id[1] = "workflow" /\ w \in Seed BY <1>1 DEF Of
  <2>2. w \in WorkflowRow \cup EventRow \cup [id : Id("user")]
    BY <2>1, AutomationAssumption
  <2>3. \A i \in EventIds \cup Id("user") : i[1] # "workflow" BY DEF EventIds, Id
  <2> QED BY <2>1, <2>2, <2>3 DEF EventRow
<1>2. CASE \E q \in Requests : call[q].op = "create_workflow" /\ w = NewWorkflow(q)
  BY <1>2, AutomationAssumption DEF CallOK, NewWorkflow
<1> QED BY <1>1, <1>2 DEF Workflows

\* A user that does not exist never will.
LEMMA UsersStay ==
  ASSUME Types, NEW r \in Requests, Moves(r), PutOK(r), NEW i \in {"user"} \X STRING,
         i \in Ids(rows')
  PROVE  i \in Ids(rows)
<1>1. PICK x \in rows' : x.id = i BY DEF Ids
<1>2. CASE x \in rows BY <1>1, <1>2 DEF Ids
<1>3. CASE x \notin rows
  <2>1. rows' = View(r) BY <1>3 DEF Moves, Quiet, Loses, Writes, Commits
  <2>2. x \in put[r] BY <1>3, <2>1, ViewIs
  <2>3. i[1] = "user" OBVIOUS
  <2> QED BY <1>1, <2>2, <2>3 DEF PutOK
<1> QED BY <1>2, <1>3

LEMMA RefusedActionStays ==
  ASSUME Types, NEW r \in Requests, Moves(r), PutOK(r), NEW q \in Requests, RefusedAction(q)
  PROVE  RefusedAction(q)'
<1>1. call' = call /\ call \in Scenarios BY CommittedGrow DEF Types
<1>2. Workflows' = Workflows BY <1>1, SameLimits
<1>0. PICK w \in Workflows : \E k \in DOMAIN w.actions :
        /\ \E i \in DOMAIN call[q].events : call[q].events[i].type = w.trigger
        /\ \/ w.actions[k].refused
           \/ w.actions[k].type = "create_task" /\ w.actions[k].user \notin Ids(rows) \cup {None}
  BY DEF RefusedAction
<1>3. PICK k \in DOMAIN w.actions :
        /\ \E i \in DOMAIN call[q].events : call[q].events[i].type = w.trigger
        /\ \/ w.actions[k].refused
           \/ w.actions[k].type = "create_task" /\ w.actions[k].user \notin Ids(rows) \cup {None}
  BY <1>0
<1>4. CASE w.actions[k].refused BY <1>1, <1>2, <1>3, <1>4 DEF RefusedAction
<1>5. CASE w.actions[k].type = "create_task" /\ w.actions[k].user \notin Ids(rows) \cup {None}
  <2>1. w \in WorkflowRow BY <1>1, WorkflowsTyped
  <2>2. w.actions \in Seq(Action) BY <2>1 DEF WorkflowRow
  <2>3. w.actions[k] \in Action BY <2>2, LenProperties
  <2>4. w.actions[k].user \in {"user"} \X STRING BY <1>5, <2>3 DEF Action
  <2>5. w.actions[k].user \notin Ids(rows') BY <1>5, <2>4, UsersStay
  <2>6. Ids(rows)' = Ids(rows') BY DEF Ids
  <2> QED BY <1>1, <1>2, <1>3, <1>5, <2>5, <2>6 DEF RefusedAction
<1> QED BY <1>3, <1>4, <1>5

LEMMA MayDeadlockStays ==
  ASSUME call' = call, committed \subseteq committed', NEW r \in Requests, MayDeadlock(r)
  PROVE  MayDeadlock(r)'
<1>1. Workflows' = Workflows BY SameLimits
<1>2. ASSUME NEW v, NEW w, Unordered(v, w) PROVE Unordered(v, w)'
  BY <1>2, PrecedesGrow DEF Unordered
<1> QED BY <1>1, <1>2 DEF MayDeadlock

LEMMA LossStays ==
  ASSUME Types, NEW r \in Requests, Moves(r), PutOK(r), NEW q \in Requests,
         RefusedAction(q) \/ MayDeadlock(q)
  PROVE  RefusedAction(q)' \/ MayDeadlock(q)'
  BY CommittedGrow, RefusedActionStays, MayDeadlockStays

\* The anchors in the store stay there.
LEMMA AnchorsStay ==
  ASSUME Types, RowsOK, NEW r \in Requests, Moves(r), PathOK(r), AnchorOK(r), PutOK(r)
  PROVE  Of(rows, "anchor") \subseteq Of(rows', "anchor")
<1>1. CASE ~Commits(r) BY <1>1 DEF Moves, Quiet, Loses, Writes, Of
<1>2. CASE Commits(r)
  <2> SUFFICES ASSUME NEW a \in rows, a.id[1] = "anchor" PROVE a \in rows'
    BY DEF Of
  <2>1. PICK q \in committed : a = Confirmed(q) BY DEF RowsOK
  <2>2. q # r BY <1>2 DEF Commits, Goes, PathOK
  <2>3. a.id = <<"anchor", q>> BY <2>1 DEF Confirmed
  <2>4. ASSUME NEW x \in put[r] PROVE x.id # a.id
    <3>1. CASE call[r].op = "anchor"
      <4>1. put[r] = {Confirmed(r)} BY <1>2, <3>1 DEF AnchorOK, Commits
      <4>2. x.id = <<"anchor", r>> BY <4>1 DEF Confirmed
      <4> QED BY <2>2, <2>3, <4>2
    <3>2. CASE call[r].op # "anchor"
      <4>1. x.id[1] # "anchor" BY <3>2 DEF PutOK
      <4> QED BY <4>1
    <3> QED BY <3>1, <3>2
  <2> QED BY <1>2, <2>4, ViewIs DEF Commits, Ids
<1> QED BY <1>1, <1>2

\* A commit adds nothing to what the holder of a lock counts.
LEMMA OthersView ==
  ASSUME Types, NEW r \in Requests, NEW q \in Requests \ {r}, Moves(r), PutOK(r), LocksOK,
         NEW i, NEW d, None \notin Limits(i), <<i, d>> \in InForce(q)
  PROVE  Spent(View(q)', i, d) \subseteq Spent(View(q), i, d)
<1>1. put'[q] = put[q] /\ gone'[q] = gone[q] BY OthersSame DEF Same
<1>2. CASE ~Commits(r)
  <2>1. rows' = rows BY <1>2, OthersSame
  <2>2. View(q)' = View(q) BY <1>1, <2>1 DEF View, Ids
  <2> QED BY <2>2
<1>3. CASE Commits(r)
  <2> SUFFICES ASSUME NEW x \in View(q)', x.id[1] = "execution", x.workflow = i, x.day = d
               PROVE  x \in View(q)
    BY DEF Spent, Executions, Of
  <2>1. View(q)' = put[q] \cup {y \in View(r) : y.id \notin Ids(put[q])}
    <3>1. rows' = View(r) /\ gone[q] = {} BY <1>3 DEF Commits, Types
    <3> QED BY <1>1, <3>1 DEF View, Ids
  <2>2. x \notin put[r]
    <3>1. SUFFICES ASSUME x \in put[r] PROVE FALSE OBVIOUS
    <3>2. None \in Limits(x.workflow) \/ <<x.workflow, x.day>> \in held[r] BY <3>1 DEF PutOK
    <3>3. <<i, d>> \in held[r] BY <3>2
    <3>4. session[r] = "active" BY <1>3 DEF Commits
    <3>5. <<i, d>> \in InForce(r) BY <3>3, <3>4 DEF InForce
    <3> QED BY <3>5 DEF LocksOK
  <2> QED BY <2>1, <2>2, ViewIs
<1> QED BY <1>2, <1>3

\* Whoever does not hold it sees what is stored.
LEMMA NoLockNoSpent ==
  ASSUME Types, NEW q \in Requests, PutOK(q), NEW i, NEW d, None \notin Limits(i),
         <<i, d>> \notin InForce(q)
  PROVE  /\ Spent(put[q], i, d) = {}
         /\ \A s : Spent(put[q] \cup {x \in s : x.id \notin Ids(put[q])}, i, d) \subseteq Spent(s, i, d)
<1>1. ASSUME NEW x \in put[q], x.id[1] = "execution" PROVE ~(x.workflow = i /\ x.day = d)
  <2>1. None \in Limits(x.workflow) \/ <<x.workflow, x.day>> \in held[q] BY <1>1 DEF PutOK
  <2>2. session[q] = "active" BY DEF Types
  <2> QED BY <2>1, <2>2 DEF InForce
<1> QED BY <1>1 DEF Spent, Executions, Of

LEMMA OthersPut ==
  ASSUME Types, NEW r \in Requests, NEW q \in Requests \ {r}, Moves(r), PutOK(q)
  PROVE  PutOK(q)'
<1>1. Same(q) /\ call' = call /\ committed \subseteq committed' BY OthersSame, CommittedGrow
<1>2. put'[q] = put[q] /\ held'[q] = held[q] /\ call'[q] = call[q] BY <1>1 DEF Same
<1>3. ASSUME NEW x \in put[q]
      PROVE  /\ x.id[1] \in {"workflow", "event", "execution", "task", "anchor"}
             /\ x.id[1] = "workflow" =>
                  call[q].op \in WorkflowOps /\ GivenBy(x, committed \cup {q})'
             /\ x.id[1] = "execution" =>
                  /\ call[q].op = "bulk"
                  /\ None \in Limits(x.workflow)' \/ <<x.workflow, x.day>> \in held[q]
             /\ x.id[1] = "anchor" => call[q].op = "anchor"
  <2>1. x.id[1] = "workflow" => GivenBy(x, committed \cup {q}) BY DEF PutOK
  <2>2. x.id[1] = "workflow" => GivenBy(x, committed \cup {q})' BY <1>1, <2>1, GivenStays
  <2>4. None \in Limits(x.workflow)' <=> None \in Limits(x.workflow) BY <1>1, LimitsGrow
  <2> QED BY <2>2, <2>4 DEF PutOK
<1>4. call[q].op \in WorkflowOps => \A x, y \in put[q] : x = y BY DEF PutOK
<1> QED BY <1>1, <1>2, <1>3, <1>4 DEF PutOK

LEMMA OthersPath ==
  ASSUME Types, NEW r \in Requests, NEW q \in Requests \ {r}, Moves(r), PathOK(q)
  PROVE  PathOK(q)'
  BY OthersSame DEF PathOK, Same

LEMMA OthersAnchor ==
  ASSUME Types, NEW r \in Requests, NEW q \in Requests \ {r}, Moves(r), AnchorOK(q),
         Of(rows, "anchor") \subseteq Of(rows', "anchor")
  PROVE  AnchorOK(q)'
<1>1. Same(q) BY OthersSame
<1>2. Pending(q)' = Pending(q) /\ Confirmed(q)' = Confirmed(q) BY <1>1 DEF Pending, Confirmed, Same
<1>3. Ids(Of(rows, "anchor")) \subseteq Ids(Of(rows, "anchor"))' BY DEF Ids, Of
<1> QED BY <1>1, <1>2, <1>3 DEF AnchorOK, Same

LEMMA OthersBatch ==
  ASSUME Types, NEW r \in Requests, NEW q \in Requests \ {r}, Moves(r), BatchOK(q), PutOK(r),
         LocksOK
  PROVE  BatchOK(q)'
<1>1. Same(q) /\ call' = call /\ committed \subseteq committed' BY OthersSame, CommittedGrow
<1>2. Current(q)' = Current(q) /\ \A status : Execution(q, status)' = Execution(q, status)
  BY <1>1 DEF Same, Current, Execution
<1>3. ASSUME pc[q] = "insert", None \notin Limits(Current(q).id)'
      PROVE  Cardinality(Spent(View(q)', Current(q).id, got[q].day)) <= got[q].count
  <2>1. None \notin Limits(Current(q).id)
    <3> DEFINE i == Current(q).id
    <3>1. \A j : None \in Limits(j)' <=> None \in Limits(j) BY <1>1, LimitsGrow
    <3>2. i' = i BY <1>2
    <3> HIDE DEF i
    <3>3. None \notin Limits(i)' BY <1>3 DEF i
    <3> QED BY <3>1, <3>2, <3>3 DEF i
  <2>2. /\ got[q] \in Left /\ session[q] = "active" /\ got[q].rest # << >>
        /\ \A i \in DOMAIN got[q].rest : GivenBy(got[q].rest[i], committed)
        /\ Cardinality(Spent(View(q), Current(q).id, got[q].day)) <= got[q].count
        /\ Current(q).max # None => <<Current(q).id, got[q].day>> \in held[q]
    BY <1>3, <2>1 DEF BatchOK, InBatch
  <2>3. Current(q).max # None
    <3>1. got[q].rest \in Seq(WorkflowRow) BY <2>2 DEF Left
    <3>2. Len(got[q].rest) \in Nat \ {0} BY <2>2, <3>1, EmptySeq
    <3>3. 1 \in DOMAIN got[q].rest BY <3>1, <3>2, LenProperties
    <3>4. GivenBy(Current(q), committed) BY <2>2, <3>1, <3>3 DEF Current
    <3> QED BY <2>1, <3>4, LimitsAre DEF GivenBy
  <2>4. <<Current(q).id, got[q].day>> \in InForce(q) BY <2>2, <2>3 DEF InForce
  <2>5. Spent(View(q)', Current(q).id, got[q].day) \subseteq Spent(View(q), Current(q).id, got[q].day)
    BY <2>1, <2>4, OthersView
  <2>6. IsFiniteSet(View(q)) BY FiniteView
  <2>7. got[q].count \in Nat BY <2>2 DEF Left
  <2> QED BY <2>2, <2>5, <2>6, <2>7, SpentPart
<1>4. ASSUME NEW i \in DOMAIN got[q].rest, GivenBy(got[q].rest[i], committed)
      PROVE  GivenBy(got[q].rest[i], committed)'
  <2> DEFINE w == got[q].rest[i]
  <2>1. GivenBy(w, committed)
    BY <1>4
  <2>2. w' = w BY <1>1 DEF Same
  <2> HIDE DEF w
  <2>3. \A x : GivenBy(x, committed) => GivenBy(x, committed)'
    BY <1>1, GivenStays
  <2> QED BY <1>1, <2>1, <2>2, <2>3 DEF w, Same
<1>5. Spent(View(q), Current(q).id, got[q].day)' = Spent(View(q)', Current(q).id, got[q].day)
  BY <1>1, <1>2 DEF Same, Spent, Executions, Of
<1> QED BY <1>1, <1>2, <1>3, <1>4, <1>5 DEF BatchOK, Same

LEMMA OthersOrder ==
  ASSUME Types, NEW r \in Requests, NEW q \in Requests \ {r}, Moves(r), OrderOK(q)
  PROVE  OrderOK(q)'
<1>1. Same(q) /\ call' = call /\ committed \subseteq committed' BY OthersSame, CommittedGrow
<1>2. Workflows' = Workflows BY <1>1, SameLimits
<1>3. \A i, j : Precedes(i, j) => Precedes(i, j)' BY <1>1, PrecedesGrow
<1> QED BY <1>1, <1>2, <1>3 DEF OrderOK, Same

LEMMA OthersLoss ==
  ASSUME Types, NEW r \in Requests, NEW q \in Requests \ {r}, Moves(r), PutOK(r), LossOK(q)
  PROVE  LossOK(q)'
<1>1. Same(q) BY OthersSame
<1>2. RefusedAction(q) \/ MayDeadlock(q) => RefusedAction(q)' \/ MayDeadlock(q)'
  BY LossStays
<1> QED BY <1>1, <1>2 DEF LossOK, Same

LEMMA OthersKeep ==
  ASSUME Types, RowsOK, LocksOK, NEW r \in Requests, NEW q \in Requests \ {r}, Moves(r),
         Own(r), Own(q)
  PROVE  Own(q)'
<1>1. PutOK(q)' BY OthersPut DEF Own
<1>2. PathOK(q)' BY OthersPath DEF Own
<1>3. Of(rows, "anchor") \subseteq Of(rows', "anchor") BY AnchorsStay DEF Own
<1>4. AnchorOK(q)' BY <1>3, OthersAnchor DEF Own
<1>5. BatchOK(q)' BY OthersBatch DEF Own
<1>6. OrderOK(q)' BY OthersOrder DEF Own
<1>7. LossOK(q)' BY OthersLoss DEF Own
<1> QED BY <1>1, <1>2, <1>4, <1>5, <1>6, <1>7 DEF Own

-----------------------------------------------------------------------------
(* What is stored, and seen, after a step. *)

LEMMA RowsNext ==
  ASSUME Types, RowsOK, NEW r \in Requests, Moves(r), Own(r)
  PROVE  RowsOK'
<1>1. call' = call /\ committed \subseteq committed' BY CommittedGrow
<1>2. \A w : GivenBy(w, committed) => GivenBy(w, committed)' BY <1>1, GivenStays
<1>3. r \notin committed BY DEF Own, PathOK, Moves, Quiet, Loses, Writes, Commits, Goes
<1>4. ASSUME NEW q \in committed
      PROVE  q \in committed' /\ got'[q] = got[q] /\ Confirmed(q)' = Confirmed(q)
  <2>1. q \in Requests \ {r} BY <1>3 DEF Types
  <2>2. Same(q) BY <2>1, OthersSame
  <2> QED BY <1>1, <2>2 DEF Same, Confirmed
<1>5. CASE ~Commits(r)
  <2>1. rows' = rows /\ committed' = committed
    BY <1>5 DEF Moves, Quiet, Loses, Writes
  <2> QED BY <1>1, <1>2, <1>4, <2>1 DEF RowsOK
<1>6. CASE Commits(r)
  <2>1. rows' = put[r] \cup {x \in rows : x.id \notin Ids(put[r])}
    BY <1>6, ViewIs DEF Commits
  <2>2. committed' = committed \cup {r} /\ got' = got BY <1>6 DEF Commits
  <2>3. ASSUME NEW x \in put[r]
        PROVE  /\ x.id[1] = "workflow" =>
                    GivenBy(x, committed)' /\ call[r].op \in WorkflowOps
               /\ x.id[1] = "anchor" =>
                    call[r].op = "anchor" /\ x = Confirmed(r)' /\ got'[r].anchor = <<"anchor", r>>
    <3>1. x.id[1] = "workflow" => GivenBy(x, committed \cup {r}) /\ call[r].op \in WorkflowOps
      BY DEF Own, PutOK
    <3>2. x.id[1] = "workflow" => GivenBy(x, committed \cup {r})' BY <1>1, <3>1, GivenStays
    <3>3. committed' \cup {r} = committed' BY <2>2
    <3>4. x.id[1] = "workflow" => GivenBy(x, committed)' BY <3>2, <3>3
    <3>5. x.id[1] = "anchor" =>
            call[r].op = "anchor" /\ x = Confirmed(r) /\ got[r].anchor = <<"anchor", r>>
      BY <1>6 DEF Own, PutOK, AnchorOK, Commits
    <3>6. Confirmed(r)' = Confirmed(r) BY <2>2 DEF Confirmed
    <3> QED BY <2>2, <3>1, <3>4, <3>5, <3>6
  <2>4. ASSUME NEW x \in rows', x.id[1] = "workflow" PROVE GivenBy(x, committed)'
    BY <1>2, <2>1, <2>3, <2>4 DEF RowsOK
  <2>5. ASSUME NEW x \in rows', x.id[1] = "anchor"
        PROVE  \E q \in committed' : call'[q].op = "anchor" /\ x = Confirmed(q)'
                                     /\ got'[q].anchor = <<"anchor", q>>
    <3>1. CASE x \in put[r] BY <1>1, <2>2, <2>3, <2>5, <3>1
    <3>2. CASE x \in rows
      <4>1. PICK q \in committed : call[q].op = "anchor" /\ x = Confirmed(q)
                                  /\ got[q].anchor = <<"anchor", q>>
        BY <2>5, <3>2 DEF RowsOK
      <4> QED BY <1>1, <1>4, <4>1
    <3> QED BY <2>1, <3>1, <3>2
  <2>6. ASSUME NEW x \in rows', NEW y \in rows', x.id[1] = "workflow", x.id = y.id PROVE x = y
    <3>1. CASE x \in put[r] /\ y \in put[r]
      BY <2>3, <2>6, <3>1 DEF Own, PutOK
    <3>2. CASE x \notin put[r] /\ y \notin put[r] BY <2>1, <2>6, <3>2 DEF RowsOK
    <3> QED BY <2>1, <2>6, <3>1, <3>2 DEF Ids
  <2> QED BY <2>4, <2>5, <2>6 DEF RowsOK
<1> QED BY <1>5, <1>6

LEMMA LocksNext ==
  ASSUME Types, LocksOK, NEW r \in Requests, Moves(r), held' = held
  PROVE  LocksOK'
<1>1. \A q \in Requests : session'[q] = "active" => session[q] = "active"
  BY DEF Moves, Quiet, Loses, Writes, Commits, Types
<1>2. \A q \in Requests : InForce(q)' \subseteq InForce(q) BY <1>1 DEF InForce
<1> QED BY <1>2 DEF LocksOK

LEMMA LimitsTyped ==
  ASSUME call \in Scenarios, committed \subseteq Requests, NEW i
  PROVE  Limits(i) \subseteq Nat \cup {None}
<1>1. \A w \in Workflows : w.max \in Nat \cup {None} BY WorkflowsTyped DEF WorkflowRow
<1>2. \A q \in Updates(i) : call[q].max \in Nat \cup {None}
  BY AutomationAssumption DEF CallOK, Updates
<1> QED BY <1>1, <1>2 DEF Limits

\* Less spent keeps the bound.
LEMMA BoundPart ==
  ASSUME Types, NEW s, NEW t, NEW i, NEW d, IsFiniteSet(t), Bound(t, i, d),
         None \notin Limits(i) => Spent(s, i, d) \subseteq Spent(t, i, d)
  PROVE  Bound(s, i, d)
<1> SUFFICES ASSUME None \notin Limits(i)
             PROVE  \E n \in Limits(i) : Cardinality(Spent(s, i, d)) <= n
  BY DEF Bound
<1>1. PICK n \in Limits(i) : Cardinality(Spent(t, i, d)) <= n BY DEF Bound
<1>2. n \in Nat BY LimitsTyped DEF Types
<1>3. /\ Cardinality(Spent(s, i, d)) \in Nat /\ Cardinality(Spent(t, i, d)) \in Nat
      /\ Cardinality(Spent(s, i, d)) <= Cardinality(Spent(t, i, d))
  BY SpentPart
<1> QED BY <1>1, <1>2, <1>3

LEMMA BoundNext ==
  ASSUME Types, LocksOK, BoundOK, \A q \in Requests : PutOK(q), NEW r \in Requests, Moves(r),
         \/ Quiet(r) \/ Loses(r) \/ Commits(r)
         \/ \A i \in Ids(Workflows), d \in 1..MaxDay : Bound(View(r)', i, d)
  PROVE  BoundOK'
<1>1. call' = call /\ committed \subseteq committed' BY CommittedGrow
<1>2. Workflows' = Workflows /\ Ids(Workflows)' = Ids(Workflows)
  BY <1>1, SameLimits DEF Ids
<1> SUFFICES ASSUME NEW i \in Ids(Workflows), NEW d \in 1..MaxDay
             PROVE  /\ Bound(rows, i, d)'
                    /\ \A q \in Requests : Bound(View(q), i, d)'
  BY <1>2 DEF BoundOK
<1>3. ASSUME NEW s, Bound(s, i, d)
      PROVE  None \notin Limits(i)' => \E n \in Limits(i)' : Cardinality(Spent(s, i, d)) <= n
  BY <1>1, <1>3, LimitsGrow DEF Bound
<1>4. Bound(rows', i, d)
  BY OthersSame DEF BoundOK, Moves, Quiet, Loses, Writes, Commits
<1>5. ASSUME NEW q \in Requests PROVE Bound(View(q)', i, d)
  <2>1. CASE q = r
    <3>1. CASE Quiet(r)
      <4>1. View(r)' = View(r) BY <3>1 DEF Quiet, View, Ids
      <4> QED BY <2>1, <4>1 DEF BoundOK
    <3>2. CASE Loses(r) \/ Commits(r)
      <4>1. put'[r] = {} /\ gone'[r] = {} BY <3>2 DEF Loses, Commits, Types
      <4>2. View(r)' = rows' BY <4>1 DEF View, Ids
      <4> QED BY <1>4, <2>1, <4>2
    <3> QED BY <2>1, <3>1, <3>2
  <2>2. CASE q # r /\ ~Commits(r)
    <3>1. rows' = rows /\ put'[q] = put[q] /\ gone'[q] = gone[q] BY <2>2, OthersSame DEF Same
    <3>2. View(q)' = View(q) BY <3>1 DEF View, Ids
    <3> QED BY <3>2 DEF BoundOK
  <2>3. CASE q # r /\ Commits(r)
    <3>1. CASE <<i, d>> \in InForce(q)
      <4>1. None \notin Limits(i) => Spent(View(q)', i, d) \subseteq Spent(View(q), i, d)
        BY <2>3, <3>1, OthersView
      <4>2. IsFiniteSet(View(q)) /\ Bound(View(q), i, d) BY FiniteView DEF BoundOK
      <4> QED BY <4>1, <4>2, BoundPart
    <3>2. CASE <<i, d>> \notin InForce(q)
      <4>1. put'[q] = put[q] /\ gone'[q] = {} BY <2>3, OthersSame DEF Same, Types
      <4>2. View(q)' = put[q] \cup {x \in rows' : x.id \notin Ids(put[q])}
        BY <4>1 DEF View, Ids
      <4>3. None \notin Limits(i) => Spent(View(q)', i, d) \subseteq Spent(rows', i, d)
        BY <3>2, <4>2, NoLockNoSpent
      <4>4. IsFiniteSet(rows') BY <2>3, FiniteView DEF Commits
      <4> QED BY <1>4, <4>3, <4>4, BoundPart
    <3> QED BY <3>1, <3>2
  <2> QED BY <2>1, <2>2, <2>3
<1> QED BY <1>3, <1>4, <1>5 DEF Bound, Spent, Executions, Of

-----------------------------------------------------------------------------
(* What the frame of the routes does. *)

LEMMA FailMoves ==
  ASSUME Types, NEW r \in Requests, NEW o, Fail(r, o), pc[r] # "done", call' = call, held' = held,
         DOMAIN got' = Requests, \A q \in Requests \ {r} : got'[q] = got[q]
  PROVE  Loses(r) /\ pc'[r] = "done"
<1>1. pc' = [pc EXCEPT ![r] = "done"] /\ Drop(r, "closed") BY DEF Fail, End
<1>2. Goes(r) /\ pc'[r] = "done" BY <1>1 DEF Goes, Types, PCs
<1>3. gone' = gone BY <1>1 DEF Drop, Types
<1> QED BY <1>1, <1>2, <1>3 DEF Loses, Drop

LEMMA GoesTo ==
  ASSUME Types, NEW r \in Requests, NEW p \in PCs, pc' = [pc EXCEPT ![r] = p], pc[r] # "done",
         call' = call, DOMAIN got' = Requests, \A q \in Requests \ {r} : got'[q] = got[q],
         DOMAIN held' = Requests, \A q \in Requests \ {r} : held'[q] = held[q]
  PROVE  Goes(r) /\ pc'[r] = p
  BY DEF Goes, Types

LEMMA LookMoves ==
  ASSUME Types, NEW r \in Requests, NEW o, NEW g, NEW p \in PCs, Look(r, o, g, p),
         pc[r] # "done", held' = held
  PROVE  \/ Loses(r) /\ pc'[r] = "done"
         \/ o = "none" /\ Quiet(r) /\ pc'[r] = p /\ got'[r] = g
<1>1. /\ call' = call /\ DOMAIN got' = Requests /\ got'[r] = g
      /\ \A q \in Requests \ {r} : got'[q] = got[q]
  BY DEF Look, Types
<1>2. DOMAIN held' = Requests BY DEF Types
<1>3. CASE o = "none"
  <2>1. pc' = [pc EXCEPT ![r] = p] /\ Untouched BY <1>3 DEF Look, Goto
  <2> QED BY <1>1, <1>2, <1>3, <2>1, GoesTo DEF Quiet, Untouched
<1>4. CASE o # "none"
  <2>1. Fail(r, o) BY <1>4 DEF Look
  <2> QED BY <1>1, <2>1, FailMoves
<1> QED BY <1>3, <1>4

LEMMA FlushMoves ==
  ASSUME Types, NEW r \in Requests, NEW new, NEW ts, Flush(r, new, {}, ts), Goes(r), held' = held
  PROVE  Writes(r, new)
<1>1. /\ session[r] = "active" /\ UNCHANGED <<rows, session, committed>>
      /\ put' = [put EXCEPT ![r] = {x \in After(r, new, {}) : x \in new \/ x \in put[r]}]
      /\ gone' = [gone EXCEPT ![r] = gone[r] \cup ({} \cap Ids(rows))]
  BY DEF Flush
<1>2. gone' = gone BY <1>1 DEF Types
<1>3. {x \in After(r, new, {}) : x \in new \/ x \in put[r]}
        = new \cup {y \in put[r] : y.id \notin Ids(new)}
  BY DEF After, View
<1> QED BY <1>1, <1>2, <1>3 DEF Writes

LEMMA SaveMoves ==
  ASSUME Types, NEW r \in Requests, NEW x, NEW o, NEW p \in PCs, Save(r, {x}, {}, o, p),
         pc[r] # "done", held' = held
  PROVE  \/ Loses(r) /\ (pc'[r] = "done" \/ pc'[r] = p)
         \/ Writes(r, {x}) /\ pc'[r] = p /\ got' = got
<1>1. call' = call /\ got' = got BY DEF Save
<1>2. DOMAIN held' = Requests /\ DOMAIN got' = Requests BY <1>1 DEF Types
<1>3. CASE Flush(r, {x}, {}, Chain(r)) /\ Goto(r, p)
  <2>1. Goes(r) /\ pc'[r] = p BY <1>1, <1>2, <1>3, GoesTo DEF Goto
  <2> QED BY <1>1, <1>3, <2>1, FlushMoves
<1>4. CASE \E u : Fail(r, u)
  BY <1>1, <1>2, <1>4, FailMoves
<1>5. CASE Drop(r, "inactive") /\ Goto(r, p)
  <2>1. Goes(r) /\ pc'[r] = p BY <1>1, <1>2, <1>5, GoesTo DEF Goto
  <2>2. gone' = gone BY <1>5 DEF Drop, Types
  <2> QED BY <1>5, <2>1, <2>2 DEF Loses, Drop
<1> QED BY <1>3, <1>4, <1>5 DEF Save

\* A request that ends without a commit.
LEMMA EndsOK ==
  ASSUME Types, NEW r \in Requests, Loses(r), pc'[r] = "done", Own(r)
  PROVE  Own(r)'
<1>1. put'[r] = {} /\ committed' = committed /\ call' = call BY DEF Loses, Goes, Types
<1>2. r \notin committed BY DEF Loses, Goes, Own, PathOK
<1>3. PutOK(r)' BY <1>1 DEF PutOK
<1>4. PathOK(r)' BY <1>1, <1>2 DEF PathOK, InBatch
<1>5. AnchorOK(r)' /\ BatchOK(r)' /\ OrderOK(r)' /\ LossOK(r)'
  BY DEF AnchorOK, BatchOK, OrderOK, LossOK, InBatch
<1> QED BY <1>3, <1>4, <1>5 DEF Own

\* A request that is no batch and no pass.
LEMMA PlainOK ==
  ASSUME NEW r \in Requests, call[r].op \notin {"bulk", "anchor"}, call' = call,
         PutOK(r)', PathOK(r)'
  PROVE  Own(r)'
<1>1. pc'[r] \notin InBatch BY DEF PathOK
<1> QED BY <1>1 DEF AnchorOK, BatchOK, OrderOK, LossOK, Own

-----------------------------------------------------------------------------
(* The workflow routes. *)

\* A step that writes no execution.
Plain(r) ==
  \/ Quiet(r) \/ Loses(r) \/ Commits(r)
  \/ \E new : IsFiniteSet(new) /\ (\A x \in new : x.id[1] # "execution") /\ Writes(r, new)

\* A workflow as it is changed: what is given, or else what it was.
LEMMA ChangedGiven ==
  ASSUME Types, NEW r \in Requests, NEW w, GivenBy(w, committed),
         w.id = call[r].target, w = Target(r),
         NEW x, \/ x = WorkflowChanged(r) /\ call[r].op = "update_workflow"
                \/ x = WorkflowDeleted(r)
  PROVE  GivenBy(x, committed \cup {r}) /\ x.id = w.id
<1>1. GivenBy(w, committed \cup {r}) BY MoreGiven
<1>2. w \in WorkflowRow BY DEF GivenBy, Known
<1>3. CASE x = WorkflowDeleted(r)
  <2>1. x = [w EXCEPT !.deleted = TRUE] BY <1>3 DEF WorkflowDeleted
  <2>2. /\ x \in WorkflowRow /\ x.id = w.id /\ x.trigger = w.trigger /\ x.actions = w.actions
        /\ x.max = w.max /\ x.order = w.order
    BY <1>2, <2>1 DEF WorkflowRow
  <2> QED BY <1>1, <2>2 DEF GivenBy, Known
<1>4. CASE x = WorkflowChanged(r) /\ call[r].op = "update_workflow"
  <2> DEFINE c == call[r]
  <2>1. CallOK(c, r) BY AutomationAssumption DEF Types
  <2>2. /\ c.active \in {None} \cup BOOLEAN /\ c.condition \in {None} \cup STRING
        /\ c.max \in {None} \cup Nat /\ c.order \in {None} \cup Nat
    BY <1>4, <2>1 DEF CallOK
  <2>3. x = [w EXCEPT !.active = Given(c.active, @), !.condition = Given(c.condition, @),
                      !.max = Given(c.max, @), !.order = Given(c.order, @)]
    BY <1>4 DEF WorkflowChanged
  <2>4. /\ w.active \in BOOLEAN /\ w.condition \in {None} \cup STRING
        /\ w.max \in {None} \cup Nat /\ w.order \in Nat
    BY <1>2 DEF WorkflowRow
  <2>5. /\ Given(c.active, w.active) \in BOOLEAN
        /\ Given(c.condition, w.condition) \in {None} \cup STRING
        /\ Given(c.max, w.max) \in {None} \cup Nat /\ Given(c.order, w.order) \in Nat
    BY <2>2, <2>4 DEF Given
  <2>6. /\ x.id = w.id /\ x.trigger = w.trigger /\ x.actions = w.actions
        /\ x.max = Given(c.max, w.max) /\ x.order = Given(c.order, w.order)
        /\ x \in WorkflowRow
    BY <1>2, <2>3, <2>5 DEF WorkflowRow
  <2>7. r \in UpdatesBy(w.id, committed \cup {r}) BY <1>4 DEF UpdatesBy
  <2>8. /\ c.max # None => c.max \in LimitsBy(w.id, committed \cup {r})
        /\ c.order # None => c.order \in OrdersBy(w.id, committed \cup {r})
    BY <2>7 DEF LimitsBy, OrdersBy
  <2>9. /\ x.max \in LimitsBy(w.id, committed \cup {r})
        /\ x.order \in OrdersBy(w.id, committed \cup {r})
    BY <1>1, <2>6, <2>8 DEF Given, GivenBy
  <2> QED BY <1>1, <2>6, <2>9 DEF GivenBy, Known
<1> QED BY <1>3, <1>4

LEMMA NewGiven ==
  ASSUME Types, NEW r \in Requests, call[r].op = "create_workflow"
  PROVE  GivenBy(NewWorkflow(r), committed \cup {r}) /\ NewWorkflow(r).id = <<"workflow", r>>
<1> DEFINE w == NewWorkflow(r)
<1>1. w \in Workflows BY DEF Workflows
<1>2. w \in WorkflowRow /\ w.id = <<"workflow", r>>
  <2>1. w \in WorkflowRow BY <1>1, WorkflowsTyped DEF Types
  <2>2. w.id = <<"workflow", r>>
    <3>1. "id" \in DOMAIN w BY <2>1 DEF WorkflowRow
    <3> QED BY <3>1 DEF NewWorkflow
  <2> QED BY <2>1, <2>2
<1>3. w.max \in LimitsBy(w.id, committed \cup {r}) /\ w.order \in OrdersBy(w.id, committed \cup {r})
  BY <1>1 DEF LimitsBy, OrdersBy
<1> QED BY <1>1, <1>2, <1>3 DEF GivenBy, Known

LEMMA RouteLooks ==
  ASSUME Types, NEW r \in Requests, call[r].op \in WorkflowOps, Own(r), pc[r] = "start", NEW o,
         o = "none" /\ call[r].op # "create_workflow" => call[r].target[1] = "workflow",
         Check(r, o), held' = held
  PROVE  Plain(r) /\ Own(r)'
<1>1. "write" \in PCs BY DEF PCs
<1>2. CASE Loses(r) /\ pc'[r] = "done" BY <1>2, EndsOK DEF Plain
<1>3. CASE o = "none" /\ Quiet(r) /\ pc'[r] = "write"
  <2>1. put'[r] = {} /\ call' = call /\ committed' = committed
    BY <1>3 DEF Quiet, Goes, Own, PathOK
  <2>2. r \notin committed BY <1>3 DEF Quiet, Goes, Own, PathOK
  <2>3. PutOK(r)' BY <2>1 DEF PutOK
  <2>4. held'[r] = {} BY DEF Own, PathOK
  <2>5. PathOK(r)' BY <1>3, <2>1, <2>2, <2>4 DEF PathOK, WorkflowOps, InBatch
  <2> QED BY <1>3, <2>1, <2>3, <2>5, PlainOK DEF Plain, WorkflowOps
<1> QED BY <1>1, <1>2, <1>3, LookMoves DEF Check

LEMMA RouteSaves ==
  ASSUME Types, NEW r \in Requests, call[r].op \in WorkflowOps, Own(r), pc[r] = "write", NEW x,
         x.id[1] = "workflow", GivenBy(x, committed \cup {r}),
         Save(r, {x}, {}, Raised, "answer"), held' = held
  PROVE  Plain(r) /\ Own(r)'
<1>0. "answer" \in PCs BY DEF PCs
<1>1. CASE Loses(r) /\ pc'[r] = "done" BY <1>1, EndsOK DEF Plain
<1>2. CASE Loses(r) /\ pc'[r] = "answer"
  <2>1. put'[r] = {} /\ call' = call /\ committed' = committed
    BY <1>2 DEF Loses, Goes, Types
  <2>2. r \notin committed BY <1>2 DEF Loses, Goes, Own, PathOK
  <2>3. PutOK(r)' BY <2>1 DEF PutOK
  <2>4. PathOK(r)' BY <1>2, <2>1, <2>2 DEF PathOK, WorkflowOps, InBatch
  <2> QED BY <1>2, <2>1, <2>3, <2>4, PlainOK DEF Plain, WorkflowOps
<1>3. CASE Writes(r, {x}) /\ pc'[r] = "answer"
  <2>1. put[r] = {} BY DEF Own, PathOK
  <2>2. put'[r] = {x} /\ call' = call /\ committed' = committed
    BY <1>3, <2>1 DEF Writes, Goes, Types
  <2>3. r \notin committed BY <1>3 DEF Writes, Goes, Own, PathOK
  <2>4. GivenBy(x, committed \cup {r})' BY <2>2, GivenStays
  <2>5. PutOK(r)' BY <2>2, <2>4 DEF PutOK
  <2>6. PathOK(r)' BY <1>3, <2>2, <2>3 DEF PathOK, WorkflowOps, InBatch
  <2>7. IsFiniteSet({x}) /\ \A y \in {x} : y.id[1] # "execution" BY FS_Singleton
  <2> QED BY <1>3, <2>2, <2>5, <2>6, <2>7, PlainOK DEF Plain, WorkflowOps
<1> QED BY <1>0, <1>1, <1>2, <1>3, SaveMoves

LEMMA RouteChanges ==
  ASSUME Types, RowsOK, NEW r \in Requests, call[r].op \in {"update_workflow", "delete_workflow"},
         Own(r), pc[r] = "write", NEW x, \/ x = WorkflowChanged(r) /\ call[r].op = "update_workflow"
                                        \/ x = WorkflowDeleted(r),
         Change(r, {x}), held' = held
  PROVE  Plain(r) /\ Own(r)'
<1>1. call[r].op \in WorkflowOps BY DEF WorkflowOps
<1>2. CASE ~Present(r)
  <2>1. Fail(r, "error") /\ UNCHANGED <<call, got, before>> BY <1>2 DEF Change, SaveIf
  <2>2. Loses(r) /\ pc'[r] = "done" BY <2>1, FailMoves DEF Types
  <2> QED BY <2>2, EndsOK DEF Plain
<1>3. CASE Present(r)
  <2>1. Save(r, {x}, {}, Raised, "answer") BY <1>3 DEF Change, SaveIf
  <2>2. put[r] = {} BY DEF Own, PathOK
  <2>3. View(r) = rows BY <2>2, ViewIs DEF Ids
  <2>4. Target(r) \in rows /\ Target(r).id = call[r].target
    BY <1>3, <2>3 DEF Present, Target, Row, Ids
  <2>5. call[r].target[1] = "workflow" BY DEF Own, PathOK
  <2>6. GivenBy(Target(r), committed) BY <2>4, <2>5 DEF RowsOK
  <2>7. GivenBy(x, committed \cup {r}) /\ x.id = Target(r).id
    BY <2>4, <2>6, ChangedGiven
  <2> QED BY <1>1, <2>1, <2>4, <2>5, <2>7, RouteSaves
<1> QED BY <1>2, <1>3

LEMMA WorkflowRouteOK ==
  ASSUME Types, RowsOK, NEW r \in Requests, WorkflowRoute(r), Own(r), held' = held
  PROVE  Plain(r) /\ Own(r)'
<1>1. CASE CreateWorkflow(r)
  <2>1. call[r].op = "create_workflow" /\ call[r].op \in WorkflowOps
    BY <1>1 DEF CreateWorkflow, At, WorkflowOps
  <2>2. CASE pc[r] = "start" /\ Check(r, "none")
    BY <2>1, <2>2, RouteLooks
  <2>3. CASE pc[r] = "write" /\ Insert(r, NewWorkflow(r), Raised, "answer")
    <3>1. GivenBy(NewWorkflow(r), committed \cup {r}) /\ NewWorkflow(r).id = <<"workflow", r>>
      BY <2>1, NewGiven
    <3>2. Save(r, {NewWorkflow(r)}, {}, Raised, "answer") BY <2>3 DEF Insert
    <3>3. NewWorkflow(r).id[1] = "workflow" BY <3>1
    <3> QED BY <2>1, <2>3, <3>1, <3>2, <3>3, RouteSaves
  <2> QED BY <1>1, <2>2, <2>3 DEF CreateWorkflow, At
<1>2. CASE UpdateWorkflow(r) \/ DeleteWorkflow(r)
  <2>1. call[r].op \in {"update_workflow", "delete_workflow"} /\ call[r].op \in WorkflowOps
    BY <1>2 DEF UpdateWorkflow, DeleteWorkflow, At, WorkflowOps
  <2>2. FoundWorkflow(r) = "none" => call[r].target[1] = "workflow"
    <3>1. "not_found" # "none" OBVIOUS
    <3> QED BY <3>1 DEF FoundWorkflow, Found, Of
  <2>3. CASE pc[r] = "start" /\ Check(r, FoundWorkflow(r))
    BY <2>1, <2>2, <2>3, RouteLooks
  <2>4. CASE call[r].op = "update_workflow" /\ pc[r] = "write" /\ Change(r, {WorkflowChanged(r)})
    BY <2>1, <2>4, RouteChanges
  <2>5. CASE pc[r] = "write" /\ Change(r, {WorkflowDeleted(r)})
    BY <2>1, <2>5, RouteChanges
  <2> QED BY <1>2, <2>3, <2>4, <2>5 DEF UpdateWorkflow, DeleteWorkflow, At
<1> QED BY <1>1, <1>2 DEF WorkflowRoute

-----------------------------------------------------------------------------
(* The anchoring job. *)

LEMMA PassOK ==
  ASSUME NEW r \in Requests, call[r].op = "anchor", call' = call, committed' = committed, Own(r),
         pc[r] # "done", pc'[r] \in {"lookup", "write", "stamp", "confirm", "commit"},
         pc'[r] \in {"lookup", "write"} => put'[r] = {} /\ held'[r] = {},
         \A x \in put'[r] : x.id[1] = "anchor" \/ x \in put[r],
         AnchorOK(r)'
  PROVE  Own(r)'
<1>1. PutOK(r)' BY DEF Own, PutOK, WorkflowOps
<1>2. PathOK(r)' BY DEF Own, PathOK, InBatch
<1>3. pc'[r] \notin InBatch BY DEF InBatch
<1> QED BY <1>1, <1>2, <1>3 DEF Own, BatchOK, OrderOK, LossOK

LEMMA NothingSeen ==
  ASSUME Types, NEW r \in Requests, put[r] = {}
  PROVE  View(r) = rows
  BY ViewIs DEF Ids

\* The passes look while they have written nothing.
LEMMA PassLooks ==
  ASSUME Types, NEW r \in Requests, call[r].op = "anchor", Own(r), NEW g, NEW p \in PCs,
         Look(r, "none", g, p), held' = held, pc[r] \in {"start", "lookup"},
         \/ p = "commit"
         \/ p = "lookup" /\ g = [tip |-> g.tip, anchor |-> g.anchor]
         \/ p = "write" /\ g = [tip |-> g.tip, anchor |-> g.anchor]
         \/ /\ p = "stamp" /\ g = [tip |-> g.tip, anchor |-> g.anchor]
            /\ g.anchor \in Ids(Of(rows, "anchor"))
  PROVE  Plain(r) /\ Own(r)'
<1>1. put[r] = {} /\ held[r] = {} BY DEF Own, PathOK
<1>2. CASE Loses(r) /\ pc'[r] = "done" BY <1>2, EndsOK DEF Plain
<1>3. CASE Quiet(r) /\ pc'[r] = p /\ got'[r] = g
  <2>1. put'[r] = {} /\ call' = call /\ committed' = committed /\ rows' = rows
    BY <1>1, <1>3 DEF Quiet, Goes
  <2>2. Ids(Of(rows, "anchor"))' = Ids(Of(rows, "anchor")) BY <2>1 DEF Ids, Of
  <2>3. AnchorOK(r)' BY <1>3, <2>1, <2>2 DEF AnchorOK
  <2>4. p \in {"lookup", "write", "stamp", "confirm", "commit"} /\ pc[r] # "done" OBVIOUS
  <2>5. held'[r] = {} BY <1>1
  <2> QED BY <1>3, <2>1, <2>3, <2>4, <2>5, PassOK DEF Plain
<1> QED BY <1>2, <1>3, LookMoves

LEMMA ReadTipOK ==
  ASSUME Types, NEW r \in Requests, call[r].op = "anchor", Own(r), ReadTip(r), held' = held
  PROVE  Plain(r) /\ Own(r)'
<1>1. "commit" \in PCs /\ "lookup" \in PCs BY DEF PCs
<1>2. CASE Look(r, "none", None, "commit") BY <1>1, <1>2, PassLooks DEF ReadTip
<1>3. CASE \E e \in Tips(View(r)) : Look(r, "none", [tip |-> e.id, anchor |-> None], "lookup")
  <2>1. PICK e : Look(r, "none", [tip |-> e.id, anchor |-> None], "lookup") BY <1>3
  <2> DEFINE g == [tip |-> e.id, anchor |-> None]
  <2>2. g = [tip |-> g.tip, anchor |-> g.anchor] OBVIOUS
  <2>3. Look(r, "none", g, "lookup") /\ pc[r] = "start" BY <2>1 DEF ReadTip
  <2> HIDE DEF g
  <2> QED BY <1>1, <2>2, <2>3, PassLooks
<1> QED BY <1>2, <1>3 DEF ReadTip

LEMMA LookupOK ==
  ASSUME Types, NEW r \in Requests, call[r].op = "anchor", Own(r), Lookup(r), held' = held
  PROVE  Plain(r) /\ Own(r)'
<1>1. "commit" \in PCs /\ "write" \in PCs /\ "stamp" \in PCs BY DEF PCs
<1>2. pc[r] = "lookup" /\ put[r] = {} BY DEF Lookup, Own, PathOK
<1>3. View(r) = rows BY <1>2, NothingSeen
<1>4. got[r] = [tip |-> got[r].tip, anchor |-> got[r].anchor] BY <1>2 DEF Own, AnchorOK
<1>6. CASE Look(r, "none", got[r], "write")
  BY <1>1, <1>2, <1>4, <1>6, PassLooks
<1>7. CASE \E a \in AnchorOf(View(r), got[r].tip) :
             Look(r, "none", [got[r] EXCEPT !.anchor = a.id],
                  IF a.status = "confirmed" THEN "commit" ELSE "stamp")
  <2>1. PICK a \in AnchorOf(View(r), got[r].tip) :
          Look(r, "none", [got[r] EXCEPT !.anchor = a.id],
               IF a.status = "confirmed" THEN "commit" ELSE "stamp")
    BY <1>7
  <2> DEFINE g == [got[r] EXCEPT !.anchor = a.id]
  <2>2. g = [tip |-> g.tip, anchor |-> g.anchor] /\ g.anchor = a.id BY <1>4
  <2>3. a.id \in Ids(Of(rows, "anchor")) BY <1>3, <2>1 DEF AnchorOf, Ids
  <2>4. Look(r, "none", g, "commit") \/ Look(r, "none", g, "stamp") BY <2>1
  <2> HIDE DEF g
  <2> QED BY <1>1, <1>2, <2>2, <2>3, <2>4, PassLooks
<1> QED BY <1>6, <1>7 DEF Lookup

\* A pass that writes no more, or its anchor: its step is complete.
LEMMA PassMoves ==
  ASSUME Types, NEW r \in Requests, call[r].op = "anchor", Own(r), NEW p,
         p \in {"stamp", "confirm", "commit"},
         pc' = [pc EXCEPT ![r] = p], call' = call, held' = held, pc[r] # "done",
         DOMAIN got' = Requests, \A q \in Requests \ {r} : got'[q] = got[q],
         NEW x, x.id = <<"anchor", r>>,
         Untouched \/ Flush(r, {x}, {}, {}),
         Untouched \/ put'[r] = {x} => AnchorOK(r)',
         put[r] = {} \/ \A y \in put[r] : y.id = x.id
  PROVE  Plain(r) /\ Own(r)'
<1>1. p \in PCs BY DEF PCs
<1>2. Goes(r) /\ pc'[r] = p BY <1>1, GoesTo DEF Types
<1>3. CASE Untouched
  <2>1. Quiet(r) BY <1>2, <1>3 DEF Quiet, Untouched
  <2>2. put'[r] = put[r] /\ committed' = committed BY <1>3 DEF Untouched
  <2>3. AnchorOK(r)' BY <1>3
  <2> QED BY <1>2, <2>1, <2>2, <2>3, PassOK DEF Plain
<1>4. CASE Flush(r, {x}, {}, {})
  <2>1. Writes(r, {x}) BY <1>2, <1>4, FlushMoves
  <2>2. put'[r] = {x} \cup {y \in put[r] : y.id # x.id}
    BY <2>1 DEF Writes, Types, Ids
  <2>3. put'[r] = {x} /\ committed' = committed BY <2>1, <2>2 DEF Writes
  <2>4. AnchorOK(r)' BY <2>3
  <2>5. x.id[1] = "anchor" OBVIOUS
  <2>6. IsFiniteSet({x}) /\ \A y \in {x} : y.id[1] # "execution" BY <2>5, FS_Singleton
  <2>7. Own(r)' BY <1>2, <2>3, <2>4, <2>5, PassOK
  <2> QED BY <2>1, <2>6, <2>7 DEF Plain
<1> QED BY <1>3, <1>4

LEMMA CreatePendingOK ==
  ASSUME Types, NEW r \in Requests, call[r].op = "anchor", Own(r), CreatePending(r), held' = held
  PROVE  Plain(r) /\ Own(r)'
<1>1. pc[r] = "write" /\ put[r] = {} /\ View(r) = rows
  BY NothingSeen DEF CreatePending, Own, PathOK
<1>2. got[r] = [tip |-> got[r].tip, anchor |-> got[r].anchor] BY <1>1 DEF Own, AnchorOK
<1>3. pc' = [pc EXCEPT ![r] = "stamp"] /\ call' = call BY DEF CreatePending, Goto
<1>4. PICK i : got' = [got EXCEPT ![r].anchor = i] BY DEF CreatePending
<1>5. /\ DOMAIN got' = Requests /\ \A q \in Requests \ {r} : got'[q] = got[q]
      /\ got'[r] = [tip |-> got[r].tip, anchor |-> i]
  BY <1>2, <1>4 DEF Types
<1>6. NewAnchor(r).id = <<"anchor", r>> BY DEF NewAnchor
<1>7. CASE Flush(r, {NewAnchor(r)}, {}, {}) /\ got' = [got EXCEPT ![r].anchor = <<"anchor", r>>]
  <2>1. got'[r] = [tip |-> got[r].tip, anchor |-> <<"anchor", r>>] BY <1>2, <1>7 DEF Types
  <2>2. NewAnchor(r) = Pending(r)' BY <2>1 DEF NewAnchor, Pending
  <2>3. pc'[r] = "stamp" /\ call' = call BY <1>3 DEF Types
  <2>4. ASSUME put'[r] = {NewAnchor(r)} PROVE AnchorOK(r)'
    BY <2>1, <2>2, <2>3, <2>4 DEF AnchorOK
  <2>5. ~Untouched
    <3>1. put'[r] = {NewAnchor(r)} \cup {y \in put[r] : y.id \notin Ids({NewAnchor(r)})}
      <4>1. Goes(r) BY <1>3, <1>5, GoesTo DEF PCs, Types, Own, PathOK, CreatePending
      <4> QED BY <1>7, <4>1, FlushMoves DEF Writes, Types
    <3> QED BY <1>1, <3>1 DEF Untouched
  <2> QED BY <1>1, <1>3, <1>5, <1>6, <1>7, <2>4, <2>5, PassMoves
<1>8. CASE /\ Untouched
           /\ \E a \in AnchorOf(View(r), got[r].tip) : got' = [got EXCEPT ![r].anchor = a.id]
  <2>1. PICK a \in AnchorOf(rows, got[r].tip) : got' = [got EXCEPT ![r].anchor = a.id]
    BY <1>1, <1>8
  <2>2. got'[r] = [tip |-> got[r].tip, anchor |-> a.id] BY <1>2, <2>1 DEF Types
  <2>3. a.id \in Ids(Of(rows, "anchor")) BY <2>1 DEF AnchorOf, Ids
  <2>4. rows' = rows /\ put'[r] = {} BY <1>1, <1>8 DEF Untouched
  <2>5. pc'[r] = "stamp" /\ call' = call BY <1>3 DEF Types
  <2>6. AnchorOK(r)' BY <2>2, <2>3, <2>4, <2>5 DEF AnchorOK, Ids, Of
  <2> QED BY <1>1, <1>3, <1>5, <1>6, <1>8, <2>6, PassMoves
<1> QED BY <1>7, <1>8 DEF CreatePending

LEMMA StampOK ==
  ASSUME Types, NEW r \in Requests, call[r].op = "anchor", Own(r), Stamp(r), held' = held
  PROVE  Plain(r) /\ Own(r)'
<1>1. pc[r] = "stamp" /\ call' = call /\ got' = got BY DEF Stamp
<1>2. CASE Fail(r, "error")
  <2>1. Loses(r) /\ pc'[r] = "done" BY <1>1, <1>2, FailMoves DEF Types
  <2> QED BY <2>1, EndsOK DEF Plain
<1>3. CASE Goto(r, "confirm") /\ Untouched
  <2>1. pc' = [pc EXCEPT ![r] = "confirm"] BY <1>3 DEF Goto
  <2>2. AnchorOK(r) BY DEF Own
  <2>3. /\ pc'[r] = "confirm" /\ put'[r] = put[r] /\ rows' = rows /\ got'[r] = got[r]
        /\ Pending(r)' = Pending(r) /\ Ids(Of(rows, "anchor"))' = Ids(Of(rows, "anchor"))
    BY <1>1, <1>3, <2>1 DEF Types, Untouched, Pending, Ids, Of
  <2>4. AnchorOK(r)' BY <1>1, <2>2, <2>3 DEF AnchorOK
  <2>5. "confirm" \in PCs /\ DOMAIN held' = Requests /\ DOMAIN got' = Requests
    BY <1>1 DEF PCs, Types
  <2>6. Goes(r) BY <1>1, <2>1, <2>5, GoesTo
  <2>7. Quiet(r) /\ committed' = committed BY <1>3, <2>6 DEF Quiet, Untouched
  <2>8. Own(r)' BY <1>1, <2>3, <2>4, <2>7, PassOK
  <2> QED BY <2>7, <2>8 DEF Plain
<1> QED BY <1>2, <1>3 DEF Stamp, Failed

\* A pass confirms its own anchor, and no other.
LEMMA ConfirmOK ==
  ASSUME Types, RowsOK, NEW r \in Requests, call[r].op = "anchor", Own(r), Confirm(r), held' = held
  PROVE  Plain(r) /\ Own(r)'
<1> DEFINE new == {[a EXCEPT !.status = "confirmed", !.receipt = r] :
                     a \in {b \in Of(View(r), "anchor") : b.id = got[r].anchor /\ Confirmable(b)}}
<1>1. pc[r] = "confirm" /\ pc' = [pc EXCEPT ![r] = "commit"] /\ call' = call /\ got' = got
  BY DEF Confirm, End
<1>2. pc'[r] = "commit" /\ Goes(r) BY <1>1, GoesTo DEF PCs, Types
<1>3. IF new = {} THEN Untouched ELSE Flush(r, new, {}, {}) BY DEF Confirm
<1>4. \/ put[r] = {Pending(r)} /\ got[r].anchor = <<"anchor", r>>
      \/ put[r] = {} /\ got[r].anchor \in Ids(Of(rows, "anchor"))
  BY <1>1 DEF Own, AnchorOK
<1>5. CASE put[r] = {} /\ got[r].anchor \in Ids(Of(rows, "anchor"))
  <2>1. View(r) = rows BY <1>5, NothingSeen
  <2>2. ASSUME NEW b \in Of(rows, "anchor") PROVE ~Confirmable(b)
    <3>1. PICK q \in committed : b = Confirmed(q) BY DEF RowsOK, Of
    <3>2. b.status = "confirmed" BY <3>1 DEF Confirmed
    <3> QED BY <3>2 DEF Confirmable
  <2>3. new = {} BY <2>1, <2>2
  <2>4. Untouched BY <1>3, <2>3
  <2>5. Quiet(r) /\ put'[r] = {} /\ committed' = committed
    BY <1>2, <1>5, <2>4 DEF Quiet, Untouched
  <2>6. AnchorOK(r)' BY <1>2, <2>5 DEF AnchorOK
  <2>7. Own(r)' BY <1>1, <1>2, <2>5, <2>6, PassOK
  <2> QED BY <2>5, <2>7 DEF Plain
<1>6. CASE put[r] = {Pending(r)} /\ got[r].anchor = <<"anchor", r>>
  <2>1. Pending(r).id = <<"anchor", r>> /\ Pending(r).status = "pending" BY DEF Pending
  <2>2. View(r) = {Pending(r)} \cup {x \in rows : x.id # <<"anchor", r>>}
    BY <1>6, <2>1, ViewIs DEF Ids
  <2>3. {b \in Of(View(r), "anchor") : b.id = got[r].anchor /\ Confirmable(b)} = {Pending(r)}
    <3>1. Pending(r) \in Of(View(r), "anchor") /\ Confirmable(Pending(r))
      BY <2>1, <2>2 DEF Of, Confirmable
    <3> QED BY <1>6, <2>1, <2>2, <3>1 DEF Of
  <2>4. new = {[Pending(r) EXCEPT !.status = "confirmed", !.receipt = r]}
    BY <2>3
  <2>5. [Pending(r) EXCEPT !.status = "confirmed", !.receipt = r] = Confirmed(r)
    <3> DEFINE p == Pending(r)
    <3> DEFINE x == [[p EXCEPT !.status = "confirmed"] EXCEPT !.receipt = r]
    <3> DEFINE S == [id : {<<"anchor", r>>}, tip : {got[r].tip},
                     status : {"pending", "confirmed"}, receipt : {None, r}]
    <3>1. p \in S /\ Confirmed(r) \in S BY DEF Pending, Confirmed
    <3>2. x \in S
      <4>1. [p EXCEPT !.status = "confirmed"] \in S BY <3>1
      <4> QED BY <4>1
    <3>3. x.id = p.id /\ x.tip = p.tip /\ x.status = "confirmed" /\ x.receipt = r BY <3>1
    <3>4. x = Confirmed(r) BY <3>1, <3>2, <3>3 DEF Pending, Confirmed
    <3>5. x = [p EXCEPT !.status = "confirmed", !.receipt = r] OBVIOUS
    <3> QED BY <3>4, <3>5
  <2>6. new = {Confirmed(r)} BY <2>4, <2>5
  <2>7. Flush(r, {Confirmed(r)}, {}, {})
    <3> HIDE DEF new
    <3> QED BY <1>3, <2>6
  <2>8. Writes(r, {Confirmed(r)}) BY <1>2, <2>7, FlushMoves
  <2>9. Confirmed(r).id = <<"anchor", r>> /\ Confirmed(r).id[1] = "anchor" BY DEF Confirmed
  <2>10. put'[r] = {Confirmed(r)} /\ committed' = committed
    <3>1. put'[r] = {Confirmed(r)} \cup {y \in put[r] : y.id # Confirmed(r).id}
      BY <2>8 DEF Writes, Types, Ids
    <3> QED BY <1>6, <2>1, <2>8, <2>9, <3>1 DEF Writes
  <2>11. Confirmed(r)' = Confirmed(r) BY <1>1 DEF Confirmed
  <2>12. AnchorOK(r)' BY <1>1, <1>2, <1>6, <2>10, <2>11 DEF AnchorOK
  <2>13. Own(r)' BY <1>1, <1>2, <2>9, <2>10, <2>12, PassOK
  <2>14. IsFiniteSet({Confirmed(r)}) /\ \A y \in {Confirmed(r)} : y.id[1] # "execution"
    BY <2>9, FS_Singleton
  <2> QED BY <2>8, <2>13, <2>14 DEF Plain
<1> QED BY <1>4, <1>5, <1>6

LEMMA AnchorActOK ==
  ASSUME Types, RowsOK, NEW r \in Requests, Own(r), Anchor(r), held' = held
  PROVE  Plain(r) /\ Own(r)'
<1>1. call[r].op = "anchor" BY DEF Anchor
<1> QED BY <1>1, ReadTipOK, LookupOK, CreatePendingOK, StampOK, ConfirmOK DEF Anchor

-----------------------------------------------------------------------------
(* The ends of every request. *)

LEMMA AnswerOK ==
  ASSUME Types, NEW r \in Requests, Own(r), Answer(r), held' = held
  PROVE  Plain(r) /\ Own(r)'
<1>1. pc[r] = "answer" /\ pc' = [pc EXCEPT ![r] = "commit"] /\ call' = call /\ got' = got
      /\ Untouched
  BY DEF Answer, End
<1>2. pc'[r] = "commit" /\ Goes(r) BY <1>1, GoesTo DEF PCs, Types
<1>3. Quiet(r) BY <1>1, <1>2 DEF Quiet, Untouched
<1>4. put'[r] = put[r] /\ committed' = committed /\ call' = call /\ session' = session
      /\ call[r].op # "anchor"
  BY <1>1 DEF Untouched, Own, PathOK
<1>5. PutOK(r)'
  <2>1. ASSUME NEW x \in put[r], x.id[1] = "workflow" PROVE GivenBy(x, committed \cup {r})'
    BY <1>4, <2>1, GivenStays DEF Own, PutOK
  <2>2. ASSUME NEW x \in put[r], x.id[1] = "execution"
        PROVE  None \in Limits(x.workflow)' \/ <<x.workflow, x.day>> \in held[r]
    BY <1>4, <2>2, LimitsGrow DEF Own, PutOK
  <2> QED BY <1>4, <2>1, <2>2 DEF Own, PutOK
<1>6. PathOK(r)' BY <1>2, <1>4 DEF Own, PathOK, InBatch, Goes
<1>7. AnchorOK(r)' /\ BatchOK(r)' /\ OrderOK(r)'
  BY <1>2, <1>4 DEF AnchorOK, BatchOK, OrderOK, InBatch
<1>8. LossOK(r)'
  <2>1. Moves(r) BY <1>3 DEF Moves
  <2>2. RefusedAction(r) \/ MayDeadlock(r) => RefusedAction(r)' \/ MayDeadlock(r)'
    BY <2>1, LossStays DEF Own
  <2> QED BY <1>1, <1>4, <2>2 DEF LossOK, Own
<1> QED BY <1>3, <1>5, <1>6, <1>7, <1>8 DEF Own, Plain

LEMMA CommitOK ==
  ASSUME Types, NEW r \in Requests, Own(r), Commit(r), held' = held
  PROVE  Plain(r) /\ Own(r)'
<1>1. pc[r] = "commit" /\ pc' = [pc EXCEPT ![r] = "done"] /\ call' = call /\ got' = got
  BY DEF Commit, Goto
<1>2. pc'[r] = "done" /\ Goes(r) BY <1>1, GoesTo DEF PCs, Types
<1>3. CASE session[r] # "active"
  <2>1. Drop(r, "closed") BY <1>3 DEF Commit, Close
  <2>2. gone' = gone BY <2>1 DEF Drop, Types
  <2>3. Loses(r) BY <1>2, <2>1, <2>2 DEF Loses, Drop
  <2> QED BY <1>2, <2>3, EndsOK DEF Plain
<1>4. CASE session[r] = "active"
  <2>1. /\ rows' = View(r) /\ committed' = committed \cup {r}
        /\ put' = [put EXCEPT ![r] = {}] /\ gone' = [gone EXCEPT ![r] = {}]
        /\ session' = [session EXCEPT ![r] = "closed"]
    BY <1>4 DEF Commit, Close
  <2>2. gone' = gone BY <2>1 DEF Types
  <2>3. Commits(r) BY <1>1, <1>2, <1>4, <2>1, <2>2 DEF Commits
  <2>4. put'[r] = {} BY <2>1 DEF Types
  <2>5. PutOK(r)' /\ PathOK(r)' BY <1>2, <2>4 DEF PutOK, PathOK, InBatch
  <2>6. AnchorOK(r)' /\ BatchOK(r)' /\ OrderOK(r)' /\ LossOK(r)'
    BY <1>2 DEF AnchorOK, BatchOK, OrderOK, LossOK, InBatch
  <2> QED BY <2>3, <2>5, <2>6 DEF Plain, Own
<1> QED BY <1>3, <1>4

LEMMA AbortOK ==
  ASSUME Types, NEW r \in Requests, Own(r), Abort(r), held' = held
  PROVE  Plain(r) /\ Own(r)'
<1>1. PICK o : Fail(r, o) /\ UNCHANGED <<call, got, before>> /\ pc[r] # "done" BY DEF Abort
<1>2. Loses(r) /\ pc'[r] = "done" BY <1>1, FailMoves DEF Types
<1> QED BY <1>2, EndsOK DEF Plain

-----------------------------------------------------------------------------
(* Batches: the events. *)

LEMMA TailOf ==
  ASSUME NEW S, NEW s \in Seq(S), s # << >>
  PROVE  /\ 1 \in DOMAIN s /\ Head(s) = s[1] /\ s[1] \in S /\ Tail(s) \in Seq(S)
         /\ Len(s) \in Nat /\ Len(Tail(s)) = Len(s) - 1
         /\ \A i \in DOMAIN Tail(s) : i + 1 \in DOMAIN s /\ Tail(s)[i] = s[i + 1]
  BY EmptySeq, LenProperties, HeadTailProperties

LEMMA FunctionSeq ==
  ASSUME NEW S, NEW n \in Nat, NEW f \in [1..n -> S]
  PROVE  f \in Seq(S) /\ Len(f) = n
  OBVIOUS

\* What has been written stays as it is, while a transaction takes locks.
LEMMA PutStays ==
  ASSUME Types, NEW r \in Requests, Quiet(r), held[r] \subseteq held'[r], PutOK(r)
  PROVE  PutOK(r)'
<1>1. put'[r] = put[r] /\ committed' = committed /\ call' = call BY DEF Quiet, Goes
<1>2. ASSUME NEW x \in put[r], x.id[1] = "workflow" PROVE GivenBy(x, committed \cup {r})'
  BY <1>1, <1>2, GivenStays DEF PutOK
<1>3. ASSUME NEW x \in put[r], x.id[1] = "execution"
      PROVE  None \in Limits(x.workflow)' \/ <<x.workflow, x.day>> \in held'[r]
  BY <1>1, <1>3, LimitsGrow DEF PutOK
<1> QED BY <1>1, <1>2, <1>3 DEF PutOK

LEMMA LossKept ==
  ASSUME Types, NEW r \in Requests, Quiet(r), Own(r)
  PROVE  LossOK(r)'
<1>1. Moves(r) BY DEF Moves
<1>2. RefusedAction(r) \/ MayDeadlock(r) => RefusedAction(r)' \/ MayDeadlock(r)'
  BY <1>1, LossStays DEF Own
<1> QED BY <1>2 DEF LossOK, Own, Quiet, Goes

LEMMA BatchPath ==
  ASSUME Types, NEW r \in Requests, Own(r), call[r].op = "bulk", call' = call,
         committed' = committed, pc[r] # "done", pc'[r] \in InBatch \cup {"answer"}
  PROVE  PathOK(r)' /\ AnchorOK(r)'
  BY DEF Own, PathOK, AnchorOK, InBatch

\* A batch that goes on, and writes nothing.
LEMMA BatchQuiet ==
  ASSUME Types, NEW r \in Requests, Own(r), call[r].op = "bulk", Quiet(r),
         held[r] \subseteq held'[r], pc'[r] \in InBatch \cup {"answer"}, BatchOK(r)', OrderOK(r)'
  PROVE  Plain(r) /\ Own(r)'
<1>1. PathOK(r)' /\ AnchorOK(r)' BY BatchPath DEF Quiet, Goes
<1>2. PutOK(r)' BY PutStays DEF Own
<1>3. LossOK(r)' BY LossKept
<1> QED BY <1>1, <1>2, <1>3 DEF Own, Plain

LEMMA AppendOK ==
  ASSUME Types, seq \in Nat, NEW r \in Requests, Own(r), AppendEvents(r)
  PROVE  Plain(r) /\ Own(r)' /\ seq' \in Nat /\ held' = held /\ day' = day
<1>1. call[r].op = "bulk" /\ pc[r] \in {"start", "write"} BY DEF AppendEvents, At
<1>2. CASE At(r, "bulk", "start") /\ Check(r, "none") /\ UNCHANGED Ours
  <2>1. held' = held /\ seq' = seq /\ day' = day BY <1>2 DEF Ours
  <2>2. (Quiet(r) /\ pc'[r] = "write") \/ (Loses(r) /\ pc'[r] = "done")
    <3>1. Look(r, "none", None, "write") /\ pc[r] # "done" BY <1>2 DEF Check, At
    <3>2. "write" \in PCs BY DEF PCs
    <3> QED BY <2>1, <3>1, <3>2, LookMoves
  <2>3. CASE Loses(r) /\ pc'[r] = "done" BY <2>1, <2>3, EndsOK DEF Plain
  <2>4. CASE Quiet(r) /\ pc'[r] = "write"
    <3>1. put'[r] = {} /\ held'[r] = {} /\ call' = call /\ r \notin committed'
      BY <1>1, <2>1, <2>4 DEF Own, PathOK, Quiet, Goes
    <3>2. PutOK(r)' BY <3>1 DEF PutOK
    <3>3. PathOK(r)' BY <1>1, <2>4, <3>1 DEF PathOK, InBatch
    <3>4. AnchorOK(r)' /\ BatchOK(r)' /\ OrderOK(r)'
      BY <1>1, <2>4, <3>1 DEF AnchorOK, BatchOK, OrderOK, InBatch
    <3>5. LossOK(r)' BY <2>4, LossKept
    <3> QED BY <2>1, <2>4, <3>2, <3>3, <3>4, <3>5 DEF Own, Plain
  <2> QED BY <2>2, <2>3, <2>4
<1>3. CASE ~(At(r, "bulk", "start") /\ Check(r, "none") /\ UNCHANGED Ours)
  <2> DEFINE batch == [k \in 1..Len(call[r].events) |-> Event(r, k)]
             new == {batch[k] : k \in DOMAIN batch}
             left == [NothingLeft EXCEPT !.events = batch]
  <2>1. /\ pc[r] = "write" /\ Flush(r, new, {}, {}) /\ seq' = seq + Len(batch)
        /\ got' = [got EXCEPT ![r] = left] /\ pc' = [pc EXCEPT ![r] = "trigger"]
        /\ UNCHANGED <<call, before, day, held>>
    BY <1>3 DEF AppendEvents, At, Goto
  <2>2. call[r].events \in Seq([type : STRING, payload : {None} \cup STRING, time : Nat])
    BY <1>1, AutomationAssumption DEF Types, CallOK
  <2>3. Len(call[r].events) \in Nat /\ DOMAIN call[r].events = 1..Len(call[r].events)
    BY <2>2, LenProperties
  <2>4. ASSUME NEW k \in 1..Len(call[r].events)
        PROVE  /\ Event(r, k) \in EventRow /\ Event(r, k).id = <<"event", r, k>>
               /\ Event(r, k).type = call[r].events[k].type
    <3>1. call[r].events[k] \in [type : STRING, payload : {None} \cup STRING, time : Nat]
      BY <2>2, <2>3, LenProperties
    <3>2. <<"event", r, k>> \in EventIds BY <2>3 DEF EventIds
    <3>3. seq + k \in Nat BY <2>3
    <3> QED BY <3>1, <3>2, <3>3 DEF Event, EventRow
  <2>5. batch \in Seq(EventRow) /\ Len(batch) = Len(call[r].events)
        /\ DOMAIN batch = 1..Len(call[r].events)
    BY <2>3, <2>4, FunctionSeq
  <2>6. seq' \in Nat BY <2>1, <2>3, <2>5
  <2>7. left = [events |-> batch, rest |-> << >>, day |-> 0, count |-> 0, actions |-> << >>]
    BY DEF NothingLeft
  <2>8. left \in Left /\ left.events = batch
    <3> HIDE DEF batch, left
    <3>1. << >> \in Seq(WorkflowRow) /\ << >> \in Seq(Action) BY EmptySeq
    <3> QED BY <2>5, <2>7, <3>1 DEF Left
  <2>9. IsFiniteSet(new)
    <3> DEFINE n == Len(call[r].events)
    <3>1. batch \in [1..n -> new] /\ \A x \in new : \E k \in 1..n : batch[k] = x BY <2>5
    <3> HIDE DEF batch, new
    <3>2. batch \in Surjection(1..n, new) BY <3>1 DEF Surjection
    <3>3. ExistsSurjection(1..n, new) BY <3>2 DEF ExistsSurjection
    <3> HIDE DEF n
    <3>4. n \in Nat BY <2>3 DEF n
    <3> QED BY <3>3, <3>4, FS_NatSurjection
  <2>10. ASSUME NEW x \in new PROVE x.id[1] = "event"
    <3>1. PICK k \in 1..Len(call[r].events) : x = batch[k] OBVIOUS
    <3>2. x = Event(r, k) BY <3>1
    <3>3. x.id = <<"event", r, k>> BY <2>4, <3>2
    <3> QED BY <3>3
  <2> HIDE DEF batch, new, left
  <2>11. DOMAIN got' = Requests /\ \A q \in Requests \ {r} : got'[q] = got[q]
    BY <2>1 DEF Types
  <2>12. Goes(r) /\ pc'[r] = "trigger" /\ got'[r] = left
    BY <1>1, <2>1, <2>11, GoesTo DEF PCs, Types
  <2>13. Writes(r, new) BY <2>1, <2>12, FlushMoves
  <2>14. put[r] = {} /\ held[r] = {} BY <1>1 DEF Own, PathOK
  <2>15. put'[r] = new BY <2>13, <2>14 DEF Writes, Types
  <2>16. PutOK(r)' BY <1>1, <2>1, <2>10, <2>15 DEF PutOK, WorkflowOps
  <2>17. PathOK(r)' /\ AnchorOK(r)'
    BY <1>1, <2>1, <2>12, <2>13, BatchPath DEF InBatch, Writes
  <2>18. BatchOK(r)'
    <3>1. \A i \in DOMAIN batch : i \in DOMAIN call[r].events
                                  /\ batch[i].type = call[r].events[i].type
      BY <2>3, <2>4, <2>5 DEF batch
    <3> QED BY <2>1, <2>8, <2>12, <3>1 DEF BatchOK
  <2>19. OrderOK(r)'
    <3>1. held'[r] = {} BY <2>1, <2>14
    <3>2. got'[r].events = batch BY <2>8, <2>12
    <3>3. Len(call[r].events) = 1 => Len(batch) <= 1 BY <2>3, <2>5
    <3>4. call' = call BY <2>1
    <3> QED BY <2>12, <3>1, <3>2, <3>3, <3>4 DEF OrderOK
  <2>20. LossOK(r)' BY <2>13 DEF LossOK, Writes
  <2> QED BY <2>1, <2>6, <2>9, <2>10, <2>13, <2>16, <2>17, <2>18, <2>19, <2>20 DEF Own, Plain
<1> QED BY <1>2, <1>3

-----------------------------------------------------------------------------
(* Batches: the workflows. *)

LEMMA ProceedMoves ==
  ASSUME Types, NEW r \in Requests, NEW left, NEW p \in PCs, Proceed(r, left, p), pc[r] # "done"
  PROVE  /\ Quiet(r) /\ pc'[r] = p /\ got'[r] = left /\ call' = call
         /\ held' = held /\ seq' = seq /\ day' = day
<1>1. /\ got' = [got EXCEPT ![r] = left] /\ pc' = [pc EXCEPT ![r] = p] /\ Untouched
      /\ call' = call /\ held' = held /\ seq' = seq /\ day' = day
  BY DEF Proceed, Goto, Ours
<1>2. /\ DOMAIN got' = Requests /\ \A q \in Requests \ {r} : got'[q] = got[q]
      /\ got'[r] = left /\ DOMAIN held' = Requests
  BY <1>1 DEF Types
<1>3. Goes(r) /\ pc'[r] = p BY <1>1, <1>2, GoesTo
<1> QED BY <1>1, <1>2, <1>3 DEF Quiet, Untouched

\* The workflows that are found for the first event.
LEMMA FindsOK ==
  ASSUME Types, NEW r \in Requests, Own(r), call[r].op = "bulk", pc[r] = "trigger",
         got[r].events # << >>, NEW found \in Seq(WorkflowRow),
         Quiet(r), held' = held, pc'[r] = "execute", got'[r] = [got[r] EXCEPT !.rest = found],
         \A i \in DOMAIN found :
           GivenBy(found[i], committed) /\ found[i].trigger = got[r].events[1].type,
         \A i, j \in DOMAIN found : i < j =>
           found[i].id # found[j].id /\ found[i].order <= found[j].order
  PROVE  Plain(r) /\ Own(r)'
<1>1. /\ got[r] \in Left
      /\ \A i \in DOMAIN got[r].events : \E k \in DOMAIN call[r].events :
           got[r].events[i].type = call[r].events[k].type
  BY DEF Own, BatchOK, InBatch
<1>2. got'[r] \in Left /\ got'[r].events = got[r].events /\ got'[r].rest = found
  BY <1>1 DEF Left
<1>3. call' = call /\ committed' = committed BY DEF Quiet, Goes
<1>4. \A i \in DOMAIN found : GivenBy(found[i], committed)' BY <1>3, GivenStays
<1>5. BatchOK(r)' BY <1>1, <1>2, <1>3, <1>4 DEF BatchOK
<1>6. OrderOK(r)'
  <2>1. Len(call[r].events) = 1 => Len(got[r].events) <= 1 /\ held[r] = {}
    BY DEF Own, OrderOK, InBatch
  <2> QED BY <1>2, <1>3, <2>1 DEF OrderOK
<1> QED BY <1>5, <1>6, BatchQuiet DEF InBatch

LEMMA TriggerOK ==
  ASSUME Types, RowsOK, NEW r \in Requests, Own(r), Trigger(r)
  PROVE  Plain(r) /\ Own(r)' /\ held' = held /\ seq' = seq /\ day' = day
<1>1. call[r].op = "bulk" /\ pc[r] = "trigger" BY DEF Trigger
<1>2. "answer" \in PCs /\ "execute" \in PCs BY DEF PCs
<1>3. got[r] \in Left BY <1>1 DEF Own, BatchOK, InBatch
<1>4. CASE got[r].events = << >>
  <2>1. Proceed(r, got[r], "answer") BY <1>4 DEF Trigger
  <2>2. Quiet(r) /\ pc'[r] = "answer" /\ held' = held /\ seq' = seq /\ day' = day
    BY <1>1, <1>2, <2>1, ProceedMoves
  <2>3. BatchOK(r)' /\ OrderOK(r)' BY <2>2 DEF BatchOK, OrderOK, InBatch
  <2> QED BY <1>1, <2>2, <2>3, BatchQuiet
<1>5. CASE got[r].events # << >> /\ session[r] # "active"
  <2>1. Proceed(r, [got[r] EXCEPT !.rest = << >>], "execute") BY <1>5 DEF Trigger
  <2>2. /\ Quiet(r) /\ pc'[r] = "execute" /\ held' = held /\ seq' = seq /\ day' = day
        /\ got'[r] = [got[r] EXCEPT !.rest = << >>]
    BY <1>1, <1>2, <2>1, ProceedMoves
  <2>3. << >> \in Seq(WorkflowRow) /\ DOMAIN << >> = {} BY EmptySeq
  <2> QED BY <1>1, <1>5, <2>2, <2>3, FindsOK
<1>6. CASE got[r].events # << >> /\ session[r] = "active"
  <2> DEFINE F == {w \in Of(View(r), "workflow") : Triggers(w, Head(got[r].events))}
  <2>1. PICK found \in Orderings(F) : Proceed(r, [got[r] EXCEPT !.rest = found], "execute")
    BY <1>6 DEF Trigger
  <2>2. /\ Quiet(r) /\ pc'[r] = "execute" /\ held' = held /\ seq' = seq /\ day' = day
        /\ got'[r] = [got[r] EXCEPT !.rest = found]
    BY <1>1, <1>2, <2>1, ProceedMoves
  <2>3. Head(got[r].events) = got[r].events[1] BY <1>3, <1>6, TailOf DEF Left
  <2>4. ASSUME NEW w \in F
        PROVE  w \in rows /\ w.id[1] = "workflow" /\ GivenBy(w, committed) /\ w \in WorkflowRow
               /\ w.trigger = got[r].events[1].type
    <3>1. w \in View(r) /\ w.id[1] = "workflow" /\ Triggers(w, Head(got[r].events)) BY DEF Of
    <3>2. w \notin put[r] BY <1>1, <3>1 DEF Own, PutOK, WorkflowOps
    <3>3. w \in rows BY <3>1, <3>2, ViewIs
    <3>4. GivenBy(w, committed) BY <3>1, <3>3 DEF RowsOK
    <3> QED BY <2>3, <3>1, <3>3, <3>4 DEF Triggers, GivenBy, Known
  <2>5. Cardinality(F) \in Nat
    <3>1. F \subseteq View(r) BY DEF Of
    <3> QED BY <3>1, FiniteView, FinitePart
  <2>6. /\ found \in [1..Cardinality(F) -> F]
        /\ \A i, j \in DOMAIN found : i < j =>
             found[i] # found[j] /\ found[i].order <= found[j].order
    BY <2>1 DEF Orderings
  <2> HIDE DEF F
  <2>7. found \in Seq(F) /\ DOMAIN found = 1..Cardinality(F) BY <2>5, <2>6, FunctionSeq
  <2>8. \A i \in DOMAIN found : found[i] \in F BY <2>6
  <2>9. found \in Seq(WorkflowRow)
    <3>1. F \subseteq WorkflowRow BY <2>4
    <3> QED BY <2>7, <3>1, SeqMonotonic
  <2>10. \A i \in DOMAIN found :
           GivenBy(found[i], committed) /\ found[i].trigger = got[r].events[1].type
    BY <2>4, <2>8
  <2>11. \A i, j \in DOMAIN found : i < j =>
           found[i].id # found[j].id /\ found[i].order <= found[j].order
    BY <2>4, <2>6, <2>8 DEF RowsOK
  <2> QED BY <1>1, <1>6, <2>2, <2>9, <2>10, <2>11, FindsOK
<1> QED BY <1>4, <1>5, <1>6

\* The workflow that is executed.
LEMMA CurrentIs ==
  ASSUME Types, NEW r \in Requests, BatchOK(r), pc[r] \in InBatch \ {"trigger"},
         got[r].rest # << >>
  PROVE  /\ Current(r) = got[r].rest[1] /\ 1 \in DOMAIN got[r].rest
         /\ GivenBy(Current(r), committed) /\ Current(r) \in WorkflowRow
         /\ Current(r).trigger = got[r].events[1].type
         /\ Current(r).max \in Limits(Current(r).id) /\ Current(r).order \in Orders(Current(r).id)
         /\ Tail(got[r].rest) \in Seq(WorkflowRow)
         /\ \A i \in DOMAIN Tail(got[r].rest) :
              i \in Nat \ {0} /\ i + 1 \in DOMAIN got[r].rest
              /\ Tail(got[r].rest)[i] = got[r].rest[i + 1]
<1>1. /\ got[r].rest \in Seq(WorkflowRow)
      /\ \A i \in DOMAIN got[r].rest :
           GivenBy(got[r].rest[i], committed) /\ got[r].rest[i].trigger = got[r].events[1].type
  BY DEF BatchOK, Left
<1>2. /\ 1 \in DOMAIN got[r].rest /\ Head(got[r].rest) = got[r].rest[1]
      /\ Tail(got[r].rest) \in Seq(WorkflowRow)
      /\ \A i \in DOMAIN Tail(got[r].rest) :
           i + 1 \in DOMAIN got[r].rest /\ Tail(got[r].rest)[i] = got[r].rest[i + 1]
  BY <1>1, TailOf
<1>3. \A i \in DOMAIN Tail(got[r].rest) : i \in Nat \ {0} BY <1>2, LenProperties
<1>4. Current(r) = got[r].rest[1] BY <1>2 DEF Current
<1>5. GivenBy(Current(r), committed) /\ Current(r).trigger = got[r].events[1].type
  BY <1>1, <1>2, <1>4
<1>6. Current(r) \in WorkflowRow /\ Current(r).max \in Limits(Current(r).id)
      /\ Current(r).order \in Orders(Current(r).id)
  BY <1>5, LimitsAre DEF GivenBy, Known
<1> QED BY <1>2, <1>3, <1>4, <1>5, <1>6

\* r's workflow is the same one after a step, and so is whether a limit was always given.
LEMMA SameNone ==
  ASSUME Types, NEW r \in Requests, Moves(r), Current(r)' = Current(r)
  PROVE  None \in Limits(Current(r).id)' <=> None \in Limits(Current(r).id)
<1> DEFINE i == Current(r).id
<1>1. \A j : None \in Limits(j)' <=> None \in Limits(j) BY CommittedGrow, LimitsGrow
<1>2. i' = i OBVIOUS
<1> HIDE DEF i
<1>3. None \in Limits(i)' <=> None \in Limits(i) BY <1>1, <1>2
<1> QED BY <1>3 DEF i

LEMMA GivenRest ==
  ASSUME Types, NEW r \in Requests, Moves(r), NEW s,
         \A i \in DOMAIN s : GivenBy(s[i], committed)
  PROVE  \A i \in DOMAIN s : GivenBy(s[i], committed)'
  BY CommittedGrow, GivenStays

LEMMA ExecuteOK ==
  ASSUME Types, day \in 1..MaxDay, NEW r \in Requests, Own(r), Execute(r)
  PROVE  Plain(r) /\ Own(r)' /\ held' = held /\ seq' = seq /\ day' = day
<1>1. call[r].op = "bulk" /\ pc[r] = "execute" BY DEF Execute
<1>2. "trigger" \in PCs /\ "insert" \in PCs /\ "lock" \in PCs BY DEF PCs
<1>3. /\ got[r] \in Left /\ got[r].events # << >>
      /\ \A i \in DOMAIN got[r].events : \E k \in DOMAIN call[r].events :
           got[r].events[i].type = call[r].events[k].type
      /\ \A i \in DOMAIN got[r].rest :
           GivenBy(got[r].rest[i], committed) /\ got[r].rest[i].trigger = got[r].events[1].type
  BY <1>1 DEF Own, BatchOK, InBatch
<1>4. CASE got[r].rest = << >> \/ session[r] # "active"
  <2> DEFINE left == [got[r] EXCEPT !.events = Tail(@), !.rest = << >>]
             rest == Tail(got[r].events)
  <2>1. Proceed(r, left, "trigger") BY <1>4 DEF Execute
  <2>2. /\ rest \in Seq(EventRow) /\ Len(got[r].events) \in Nat
        /\ Len(rest) = Len(got[r].events) - 1
        /\ \A i \in DOMAIN rest : i + 1 \in DOMAIN got[r].events /\ rest[i] = got[r].events[i + 1]
    BY <1>3, TailOf DEF Left
  <2>3. left \in Left /\ left.events = rest
    <3>1. << >> \in Seq(WorkflowRow) BY EmptySeq
    <3> HIDE DEF rest
    <3>2. left = [got[r] EXCEPT !.events = rest, !.rest = << >>] BY DEF rest
    <3> HIDE DEF left
    <3> QED BY <1>3, <2>2, <3>1, <3>2 DEF Left
  <2> HIDE DEF left
  <2>4. /\ Quiet(r) /\ pc'[r] = "trigger" /\ got'[r] = left /\ held' = held /\ seq' = seq
        /\ day' = day /\ call' = call
    BY <1>1, <1>2, <2>1, ProceedMoves
  <2> HIDE DEF rest
  <2>5. \A i \in DOMAIN rest : \E k \in DOMAIN call[r].events :
          rest[i].type = call[r].events[k].type
    BY <1>3, <2>2
  <2>6. BatchOK(r)' BY <2>3, <2>4, <2>5 DEF BatchOK
  <2>7. OrderOK(r)'
    <3>1. Len(call[r].events) = 1 => Len(got[r].events) <= 1 BY <1>1 DEF Own, OrderOK, InBatch
    <3>2. rest # << >> => Len(rest) \in Nat \ {0} BY <2>2, EmptySeq
    <3>3. Len(call[r].events) = 1 => Len(rest) <= 1 /\ rest = << >> BY <2>2, <3>1, <3>2
    <3> QED BY <2>3, <2>4, <3>3 DEF OrderOK
  <2> QED BY <1>1, <2>4, <2>6, <2>7, BatchQuiet DEF InBatch
<1>5. CASE got[r].rest # << >> /\ session[r] = "active"
  <2> DEFINE left == [got[r] EXCEPT !.day = day, !.count = 0, !.actions = Current(r).actions]
             p == IF Current(r).max = None THEN "insert" ELSE "lock"
  <2>0. Current(r).actions = Head(got[r].rest).actions /\ Current(r).max = Head(got[r].rest).max
    BY DEF Current
  <2>1. Proceed(r, left, p) BY <1>5, <2>0 DEF Execute
  <2>2. /\ Current(r) \in WorkflowRow /\ Current(r).max \in Limits(Current(r).id)
    BY <1>1, <1>5, CurrentIs DEF Own, InBatch
  <2>3. left \in Left /\ left.events = got[r].events /\ left.rest = got[r].rest
    BY <1>3, <2>2 DEF Left, WorkflowRow
  <2>4. p \in PCs /\ p \in {"insert", "lock"} BY <1>2
  <2> HIDE DEF left
  <2>5. /\ Quiet(r) /\ pc'[r] = p /\ got'[r] = left /\ held' = held /\ seq' = seq
        /\ day' = day /\ call' = call
    BY <1>1, <2>1, <2>4, ProceedMoves
  <2>6. /\ Current(r)' = Current(r) /\ Moves(r) /\ session'[r] = "active"
    BY <1>5, <2>3, <2>5 DEF Current, Moves, Quiet
  <2>7. None \in Limits(Current(r).id)' <=> None \in Limits(Current(r).id) BY <2>6, SameNone
  <2>8. PICK s : s = got[r].rest OBVIOUS
  <2>11. \A i \in DOMAIN s : GivenBy(s[i], committed)' /\ s[i].trigger = got[r].events[1].type
    BY <1>3, <2>6, <2>8, GivenRest
  <2>9. BatchOK(r)'
    <3>1. p = "insert" => None \in Limits(Current(r).id)' BY <2>2, <2>7
    <3>2. p = "lock" => Current(r)'.max # None BY <2>6
    <3>3. p = "insert" => Current(r)'.max = None BY <2>6
    <3>4. got'[r].rest = s /\ got'[r].actions = Current(r).actions
      BY <1>3, <2>2, <2>3, <2>5, <2>8 DEF left, Left
    <3> HIDE DEF p
    <3> QED BY <1>3, <1>5, <2>3, <2>4, <2>5, <2>6, <2>11, <3>1, <3>2, <3>3, <3>4 DEF BatchOK
  <2>10. OrderOK(r)'
    <3>1. \A i, j : Precedes(i, j) => Precedes(i, j)' BY <2>6, CommittedGrow, PrecedesGrow
    <3>2. Workflows' = Workflows BY <2>5, SameLimits
    <3>3. OrderOK(r) BY DEF Own
    <3> HIDE DEF p
    <3> QED BY <1>1, <2>3, <2>4, <2>5, <3>1, <3>2, <3>3 DEF OrderOK, InBatch
  <2> HIDE DEF p
  <2> QED BY <1>1, <2>4, <2>5, <2>9, <2>10, BatchQuiet DEF InBatch
<1> QED BY <1>4, <1>5

-----------------------------------------------------------------------------
(* Batches: the locks. *)

\* The events a batch was called with.
LEMMA BatchCalled ==
  ASSUME Types, NEW r \in Requests, Own(r), pc[r] \in InBatch \ {"trigger"}
  PROVE  /\ call[r].op = "bulk" /\ Len(call[r].events) \in Nat \ {0}
         /\ \E k \in DOMAIN call[r].events : call[r].events[k].type = got[r].events[1].type
<1>1. call[r].op = "bulk" BY DEF Own, PathOK
<1>2. call[r].events \in Seq([type : STRING, payload : {None} \cup STRING, time : Nat])
  BY <1>1, AutomationAssumption DEF Types, CallOK
<1>3. got[r].events \in Seq(EventRow) /\ got[r].events # << >> BY DEF Own, BatchOK, Left
<1>4. 1 \in DOMAIN got[r].events BY <1>3, TailOf
<1>5. PICK k \in DOMAIN call[r].events : got[r].events[1].type = call[r].events[k].type
  BY <1>4 DEF Own, BatchOK
<1>6. call[r].events # << >> BY <1>2, <1>5, LenProperties
<1> QED BY <1>1, <1>2, <1>5, <1>6, EmptySeq

\* In a circle of batches of one event each, two workflows are in no order: the one of the
\* least order that is waited for, and one whose lock its batch has taken before.
LEMMA CircleIs ==
  ASSUME Types, \A q \in Requests : Own(q), NEW r \in Requests, Deadlocked(r)
  PROVE  MayDeadlock(r)
<1>1. PICK circle \in SUBSET Requests :
        /\ r \in circle /\ \A p \in circle : pc[p] = "lock"
        /\ \A p \in circle : LockHolders(p) \cap circle # {} /\ \E q \in circle : p \in LockHolders(q)
  BY DEF Deadlocked
<1>2. ASSUME NEW p \in circle
      PROVE  /\ p \in Requests /\ pc[p] = "lock" /\ pc[p] \in InBatch \ {"trigger"} /\ Own(p)
             /\ call[p].op = "bulk" /\ Len(call[p].events) \in Nat \ {0}
             /\ got[p].rest # << >>
  <2>1. p \in Requests /\ pc[p] = "lock" /\ pc[p] \in InBatch \ {"trigger"} /\ Own(p)
    BY <1>1 DEF InBatch
  <2>2. got[p].rest # << >> BY <2>1 DEF Own, BatchOK
  <2> QED BY <2>1, <2>2, BatchCalled
<1>3. \E q \in Requests \ {r} : call[q].op = "bulk"
  <2>1. PICK q \in circle : q \in LockHolders(r) BY <1>1
  <2> QED BY <1>2, <2>1 DEF LockHolders
<1>4. ASSUME ~\E q \in Requests : call[q].op = "bulk" /\ Len(call[q].events) > 1
      PROVE  \E v, w \in Workflows : Unordered(v, w)
  <2>1. ASSUME NEW p \in circle
        PROVE  /\ Current(p).order \in Nat /\ Current(p).order \in Orders(Current(p).id)
               /\ Current(p) = got[p].rest[1] /\ 1 \in DOMAIN got[p].rest
               /\ Current(p).trigger = got[p].events[1].type /\ Known(Current(p))
    <3>1. BatchOK(p) /\ pc[p] \in InBatch \ {"trigger"} /\ got[p].rest # << >> /\ p \in Requests
      BY <1>2 DEF Own
    <3>2. /\ Current(p) = got[p].rest[1] /\ 1 \in DOMAIN got[p].rest
          /\ GivenBy(Current(p), committed) /\ Current(p) \in WorkflowRow
          /\ Current(p).trigger = got[p].events[1].type
          /\ Current(p).order \in Orders(Current(p).id)
      BY <3>1, CurrentIs
    <3> QED BY <3>2 DEF GivenBy, WorkflowRow
  <2>2. PICK p \in circle : \A q \in circle : Current(p).order <= Current(q).order
    <3> DEFINE U == {Current(p).order : p \in circle}
    <3>1. U \in SUBSET Nat /\ U # {} BY <1>1, <2>1
    <3>2. PICK m \in U : \A k \in U : m <= k BY <3>1, LeastElement
    <3> QED BY <3>2
  <2>3. PICK q \in circle : p \in LockHolders(q) BY <1>1
  <2> DEFINE l == <<Current(q).id, got[q].day>>
  <2>4. l \in held[p] BY <2>3 DEF LockHolders, InForce
  <2>5. Len(call[p].events) = 1
    <3>1. p \in Requests /\ call[p].op = "bulk" /\ Len(call[p].events) \in Nat \ {0} BY <1>2
    <3>2. ~(Len(call[p].events) > 1) BY <1>4, <3>1, Zenon
    <3>3. \A n \in Nat \ {0} : ~(n > 1) => n = 1 OBVIOUS
    <3> QED BY <3>1, <3>2, <3>3, Zenon
  <2>6. /\ \E v \in Workflows : v.id = l[1] /\ v.trigger = got[p].events[1].type
        /\ l[1] # got[p].rest[1].id /\ Precedes(l[1], got[p].rest[1].id)
    BY <1>2, <2>1, <2>4, <2>5 DEF Own, OrderOK, InBatch
  <2>7. PICK v \in Workflows : v.id = Current(q).id /\ v.trigger = got[p].events[1].type
    BY <2>6
  <2>8. PICK w \in Workflows : w.id = Current(p).id /\ w.trigger = Current(p).trigger
    BY <2>1 DEF Known
  <2>9. v.id # w.id /\ v.trigger = w.trigger /\ Precedes(v.id, w.id)
    BY <2>1, <2>6, <2>7, <2>8
  <2>10. Precedes(w.id, v.id)
    BY <2>1, <2>2, <2>7, <2>8 DEF Precedes
  <2> QED BY <2>9, <2>10 DEF Unordered
<1> QED BY <1>3, <1>4 DEF MayDeadlock

LEMMA CountOK ==
  ASSUME Types, NEW r \in Requests, Own(r), Count(r)
  PROVE  Plain(r) /\ Own(r)' /\ held' = held /\ seq' = seq /\ day' = day
<1>1. /\ call[r].op = "bulk" /\ pc[r] = "count" /\ pc[r] \in InBatch \ {"trigger"}
      /\ "insert" \in PCs
  BY DEF Count, InBatch, PCs
<1>2. /\ got[r] \in Left /\ got[r].events # << >> /\ got[r].rest # << >> /\ session[r] = "active"
      /\ Current(r).max # None /\ <<Current(r).id, got[r].day>> \in held[r]
      /\ \A j \in DOMAIN got[r].actions : \E k \in DOMAIN Current(r).actions :
           got[r].actions[j] = Current(r).actions[k]
      /\ \A i \in DOMAIN got[r].events : \E k \in DOMAIN call[r].events :
           got[r].events[i].type = call[r].events[k].type
      /\ \A i \in DOMAIN got[r].rest :
           GivenBy(got[r].rest[i], committed) /\ got[r].rest[i].trigger = got[r].events[1].type
  BY <1>1 DEF Own, BatchOK, InBatch
<1> DEFINE n == Cardinality(Executions(View(r), Current(r).id, got[r].day))
           left == [got[r] EXCEPT !.count = n]
<1>3. Proceed(r, left, "insert") BY DEF Count
<1>4. /\ IsFiniteSet(Executions(View(r), Current(r).id, got[r].day)) /\ n \in Nat
      /\ Cardinality(Spent(View(r), Current(r).id, got[r].day)) <= n
  <2>1. Executions(View(r), Current(r).id, got[r].day) \subseteq View(r) BY DEF Executions, Of
  <2>2. Spent(View(r), Current(r).id, got[r].day)
          \subseteq Executions(View(r), Current(r).id, got[r].day)
    BY DEF Spent
  <2> QED BY <2>1, <2>2, FiniteView, FinitePart
<1> HIDE DEF n
<1>5. /\ left \in Left /\ left.events = got[r].events /\ left.rest = got[r].rest
      /\ left.count = n /\ left.day = got[r].day /\ left.actions = got[r].actions
  BY <1>2, <1>4 DEF Left
<1> HIDE DEF left
<1>6. /\ Quiet(r) /\ pc'[r] = "insert" /\ got'[r] = left /\ held' = held /\ seq' = seq
      /\ day' = day /\ call' = call
  BY <1>1, <1>3, ProceedMoves
<1>7. /\ Current(r)' = Current(r) /\ Moves(r) /\ session'[r] = "active" /\ View(r)' = View(r)
  BY <1>2, <1>5, <1>6 DEF Current, Moves, Quiet, View, Ids
<1>8. PICK s : s = got[r].rest OBVIOUS
<1>9. \A i \in DOMAIN s : GivenBy(s[i], committed)' /\ s[i].trigger = got[r].events[1].type
  BY <1>2, <1>7, <1>8, GivenRest
<1>10. Spent(View(r), Current(r).id, got[r].day)' = Spent(View(r), Current(r).id, got[r].day)
  BY <1>5, <1>6, <1>7 DEF Spent, Executions, Of
<1>11. BatchOK(r)'
  <2>1. /\ got'[r].rest = s /\ got'[r].day = got[r].day /\ got'[r].count = n
        /\ got'[r].actions = got[r].actions
    BY <1>5, <1>6, <1>8
  <2>2. <<Current(r)'.id, got'[r].day>> \in held'[r] BY <1>2, <1>6, <1>7, <2>1
  <2> QED BY <1>2, <1>4, <1>5, <1>6, <1>7, <1>8, <1>9, <1>10, <2>1, <2>2 DEF BatchOK
<1>12. OrderOK(r)'
  <2>1. \A i, j : Precedes(i, j) => Precedes(i, j)' BY <1>7, CommittedGrow, PrecedesGrow
  <2>2. Workflows' = Workflows BY <1>6, SameLimits
  <2>3. OrderOK(r) BY DEF Own
  <2> QED BY <1>1, <1>5, <1>6, <2>1, <2>2, <2>3 DEF OrderOK, InBatch
<1> QED BY <1>1, <1>6, <1>11, <1>12, BatchQuiet DEF InBatch

\* A lock is taken: nobody else's, and in order.
LEMMA TakesOK ==
  ASSUME Types, LocksOK, NEW r \in Requests, Own(r), call[r].op = "bulk", pc[r] = "lock",
         LockHolders(r) = {}, held' = [held EXCEPT ![r] = @ \cup {<<Current(r).id, got[r].day>>}],
         Goto(r, "count"), Untouched, UNCHANGED <<call, got>>
  PROVE  Quiet(r) /\ Own(r)' /\ LocksOK'
<1> DEFINE l == <<Current(r).id, got[r].day>>
<1>1. /\ pc[r] \in InBatch \ {"trigger"} /\ "count" \in PCs BY DEF InBatch, PCs
<1>2. /\ got[r] \in Left /\ got[r].events # << >> /\ got[r].rest # << >> /\ session[r] = "active"
      /\ Current(r).max # None
      /\ \A j \in DOMAIN got[r].actions : \E k \in DOMAIN Current(r).actions :
           got[r].actions[j] = Current(r).actions[k]
      /\ \A i \in DOMAIN got[r].events : \E k \in DOMAIN call[r].events :
           got[r].events[i].type = call[r].events[k].type
      /\ \A i \in DOMAIN got[r].rest :
           GivenBy(got[r].rest[i], committed) /\ got[r].rest[i].trigger = got[r].events[1].type
  BY <1>1 DEF Own, BatchOK, InBatch
<1>3. /\ held'[r] = held[r] \cup {l} /\ DOMAIN held' = Requests
      /\ \A q \in Requests \ {r} : held'[q] = held[q]
  BY DEF Types
<1>4. Goes(r) /\ pc'[r] = "count"
  <2>1. pc' = [pc EXCEPT ![r] = "count"] /\ DOMAIN got' = Requests BY DEF Goto, Types
  <2> QED BY <1>1, <1>3, <2>1, GoesTo
<1>5. Quiet(r) BY <1>4 DEF Quiet, Untouched
<1>6. /\ Current(r)' = Current(r) /\ Moves(r) /\ session' = session
  BY <1>5 DEF Current, Moves, Quiet
<1>7. PICK s : s = got[r].rest OBVIOUS
<1>8. \A i \in DOMAIN s : GivenBy(s[i], committed)' /\ s[i].trigger = got[r].events[1].type
  BY <1>2, <1>6, <1>7, GivenRest
<1>9. BatchOK(r)'
  BY <1>2, <1>3, <1>4, <1>6, <1>7, <1>8 DEF BatchOK
<1>10. OrderOK(r)'
  <2>1. \A i, j : Precedes(i, j) => Precedes(i, j)' BY <1>6, CommittedGrow, PrecedesGrow
  <2>2. Workflows' = Workflows BY SameLimits
  <2>3. OrderOK(r) BY DEF Own
  <2>4. /\ Current(r) = s[1] /\ 1 \in DOMAIN s /\ GivenBy(Current(r), committed)
        /\ Current(r).order \in Orders(Current(r).id)
        /\ Current(r).trigger = got[r].events[1].type
    BY <1>1, <1>2, <1>7, CurrentIs DEF Own
  <2>5. \E v \in Workflows : v.id = l[1] /\ v.trigger = got[r].events[1].type
    BY <2>4 DEF GivenBy, Known
  <2>6. s \in Seq(WorkflowRow) BY <1>2, <1>7 DEF Left
  <2>7. ASSUME Len(call[r].events) = 1, NEW i \in DOMAIN s, i > 1
        PROVE  l[1] # s[i].id /\ Precedes(l[1], s[i].id)
    <3>1. \A a, b \in DOMAIN s : a < b => s[a].id # s[b].id /\ s[a].order <= s[b].order
      BY <1>1, <1>7, <2>3, <2>7 DEF OrderOK
    <3>2. s[1].id # s[i].id /\ s[1].order <= s[i].order BY <2>4, <2>6, <2>7, <3>1, LenProperties
    <3>3. GivenBy(s[i], committed) BY <1>2, <1>7
    <3>4. s[i].order \in Orders(s[i].id) BY <3>3, LimitsAre DEF GivenBy
    <3> QED BY <2>4, <3>2, <3>4 DEF Precedes
  <2>8. ASSUME Len(call[r].events) = 1, NEW k \in held'[r]
        PROVE  /\ \E v \in Workflows : v.id = k[1] /\ v.trigger = got[r].events[1].type
               /\ \A i \in DOMAIN s : i > 1 => k[1] # s[i].id /\ Precedes(k[1], s[i].id)
    <3>1. CASE k = l BY <2>5, <2>7, <2>8, <3>1
    <3>2. CASE k \in held[r]
      BY <1>1, <1>7, <2>3, <2>8, <3>2 DEF OrderOK
    <3> QED BY <1>3, <3>1, <3>2
  <2>9. \A i, j \in DOMAIN s : Len(call[r].events) = 1 /\ i < j =>
          s[i].id # s[j].id /\ s[i].order <= s[j].order
    BY <1>1, <1>7, <2>3 DEF OrderOK
  <2>10. Len(call[r].events) = 1 => Len(got[r].events) <= 1 BY <1>1, <2>3 DEF OrderOK
  <2> HIDE DEF l
  <2> QED BY <1>4, <1>7, <2>1, <2>2, <2>8, <2>9, <2>10 DEF OrderOK
<1>11. LocksOK'
  <2>1. \A q \in Requests \ {r} : InForce(q)' = InForce(q) /\ l \notin InForce(q)
    BY <1>3, <1>6 DEF InForce, LockHolders
  <2>2. InForce(r)' \subseteq InForce(r) \cup {l} BY <1>3, <1>6 DEF InForce
  <2> HIDE DEF l
  <2> QED BY <2>1, <2>2 DEF LocksOK
<1> QED BY <1>1, <1>3, <1>4, <1>5, <1>9, <1>10, <1>11, BatchQuiet DEF InBatch

LEMMA LockOK ==
  ASSUME Types, LocksOK, \A q \in Requests : Own(q), NEW r \in Requests, Lock(r)
  PROVE  Plain(r) /\ Own(r)' /\ LocksOK' /\ seq' = seq /\ day' = day
<1>1. call[r].op = "bulk" /\ pc[r] = "lock" /\ UNCHANGED <<call, got, before, day, seq>>
      /\ Own(r) /\ pc[r] \in InBatch \ {"trigger"}
  BY DEF Lock, InBatch
<1>2. CASE LockHolders(r) = {} /\ Goto(r, "count") /\ Untouched
           /\ held' = [held EXCEPT ![r] = @ \cup {<<Current(r).id, got[r].day>>}]
  BY <1>1, <1>2, TakesOK DEF Plain
<1>3. CASE Deadlocked(r) /\ Drop(r, "inactive") /\ Goto(r, "execute") /\ UNCHANGED held
  <2>1. pc' = [pc EXCEPT ![r] = "execute"] BY <1>3 DEF Goto
  <2>2. Goes(r) /\ pc'[r] = "execute"
    <3>1. "execute" \in PCs /\ DOMAIN got' = Requests /\ DOMAIN held' = Requests
      BY <1>1, <1>3 DEF PCs, Types
    <3> QED BY <1>1, <1>3, <2>1, <3>1, GoesTo
  <2>3. gone' = gone BY <1>3 DEF Drop, Types
  <2>4. Loses(r) /\ Moves(r) BY <1>3, <2>2, <2>3 DEF Loses, Drop, Moves
  <2>5. put'[r] = {} /\ committed' = committed BY <2>4 DEF Loses, Types
  <2>6. PutOK(r)' BY <2>5 DEF PutOK
  <2>7. PathOK(r)' /\ AnchorOK(r)' BY <1>1, <2>2, <2>5, BatchPath DEF InBatch
  <2>8. /\ got[r] \in Left /\ got[r].events # << >>
        /\ \A i \in DOMAIN got[r].events : \E k \in DOMAIN call[r].events :
             got[r].events[i].type = call[r].events[k].type
        /\ \A i \in DOMAIN got[r].rest :
             GivenBy(got[r].rest[i], committed) /\ got[r].rest[i].trigger = got[r].events[1].type
    BY <1>1 DEF Own, BatchOK, InBatch
  <2>9. PICK s : s = got[r].rest OBVIOUS
  <2>10. \A i \in DOMAIN s : GivenBy(s[i], committed)' /\ s[i].trigger = got[r].events[1].type
    BY <2>4, <2>8, <2>9, GivenRest
  <2>11. BatchOK(r)' BY <1>1, <2>2, <2>8, <2>9, <2>10 DEF BatchOK
  <2>12. OrderOK(r)'
    <3>1. \A i, j : Precedes(i, j) => Precedes(i, j)' BY <2>4, CommittedGrow, PrecedesGrow
    <3>2. Workflows' = Workflows BY <1>1, SameLimits
    <3>3. OrderOK(r) BY <1>1 DEF Own
    <3> QED BY <1>1, <1>3, <2>2, <3>1, <3>2, <3>3 DEF OrderOK
  <2>13. LossOK(r)'
    <3>1. MayDeadlock(r) BY <1>3, CircleIs
    <3>2. RefusedAction(r)' \/ MayDeadlock(r)' BY <1>1, <2>4, <3>1, LossStays DEF Own
    <3> QED BY <3>2 DEF LossOK
  <2>14. LocksOK' BY <1>3, <2>4, LocksNext
  <2> QED BY <1>1, <2>4, <2>6, <2>7, <2>11, <2>12, <2>13, <2>14 DEF Own, Plain
<1> QED BY <1>2, <1>3 DEF Lock

-----------------------------------------------------------------------------
(* Batches: the executions. *)

\* The next workflow is in the order found.
LEMMA NextOK ==
  ASSUME Types, NEW r \in Requests, Own(r), pc[r] \in {"insert", "act"}, Moves(r),
         got' = [got EXCEPT ![r].rest = Tail(@)], pc'[r] = "execute", held' = held
  PROVE  BatchOK(r)' /\ OrderOK(r)'
<1>1. pc[r] \in InBatch \ {"trigger"} /\ call' = call BY CommittedGrow DEF InBatch
<1>2. /\ got[r] \in Left /\ got[r].events # << >> /\ got[r].rest # << >>
      /\ \A i \in DOMAIN got[r].events : \E k \in DOMAIN call[r].events :
           got[r].events[i].type = call[r].events[k].type
      /\ \A i \in DOMAIN got[r].rest :
           GivenBy(got[r].rest[i], committed) /\ got[r].rest[i].trigger = got[r].events[1].type
  BY <1>1 DEF Own, BatchOK
<1>3. PICK s : s = Tail(got[r].rest) OBVIOUS
<1>4. /\ s \in Seq(WorkflowRow)
      /\ \A i \in DOMAIN s :
           i \in Nat \ {0} /\ i + 1 \in DOMAIN got[r].rest /\ s[i] = got[r].rest[i + 1]
  BY <1>1, <1>2, <1>3, CurrentIs DEF Own
<1>5. /\ got'[r] = [got[r] EXCEPT !.rest = s] /\ got'[r] \in Left
      /\ got'[r].events = got[r].events /\ got'[r].rest = s
  BY <1>2, <1>3, <1>4 DEF Types, Left
<1>6. \A i \in DOMAIN s : GivenBy(s[i], committed) /\ s[i].trigger = got[r].events[1].type
  BY <1>2, <1>4
<1>7. \A i \in DOMAIN s : GivenBy(s[i], committed)' BY <1>6, GivenRest
<1>8. BatchOK(r)' BY <1>1, <1>2, <1>5, <1>6, <1>7 DEF BatchOK
<1>9. OrderOK(r)'
  <2>1. \A i, j : Precedes(i, j) => Precedes(i, j)' BY <1>1, CommittedGrow, PrecedesGrow
  <2>2. Workflows' = Workflows BY <1>1, SameLimits
  <2>3. OrderOK(r) BY DEF Own
  <2>4. Len(call[r].events) = 1 => Len(got[r].events) <= 1 BY <1>1, <2>3 DEF OrderOK
  <2>5. ASSUME Len(call[r].events) = 1, NEW i \in DOMAIN s, NEW j \in DOMAIN s, i < j
        PROVE  s[i].id # s[j].id /\ s[i].order <= s[j].order
    <3>1. i + 1 \in DOMAIN got[r].rest /\ j + 1 \in DOMAIN got[r].rest /\ i + 1 < j + 1
          /\ s[i] = got[r].rest[i + 1] /\ s[j] = got[r].rest[j + 1]
      BY <1>4, <2>5
    <3> QED BY <1>1, <2>3, <2>5, <3>1 DEF OrderOK
  <2>6. ASSUME Len(call[r].events) = 1, NEW l \in held[r]
        PROVE  /\ \E v \in Workflows : v.id = l[1] /\ v.trigger = got[r].events[1].type
               /\ \A i \in DOMAIN s : l[1] # s[i].id /\ Precedes(l[1], s[i].id)
    <3>1. ASSUME NEW i \in DOMAIN s PROVE l[1] # s[i].id /\ Precedes(l[1], s[i].id)
      <4>1. i + 1 \in DOMAIN got[r].rest /\ i + 1 > 1 /\ s[i] = got[r].rest[i + 1] BY <1>4
      <4> QED BY <1>1, <2>3, <2>6, <4>1 DEF OrderOK
    <3> QED BY <1>1, <2>3, <2>6, <3>1 DEF OrderOK
  <2>7. /\ pc'[r] = "execute" /\ held'[r] = held[r] /\ call'[r] = call[r]
        /\ got'[r].events = got[r].events /\ got'[r].rest = s
    BY <1>1, <1>5
  <2>8. ASSUME Len(call[r].events) = 1, NEW l \in held[r], NEW i \in DOMAIN s
        PROVE  l[1] # s[i].id /\ Precedes(l[1], s[i].id)'
    BY <2>1, <2>6, <2>8
  <2>9. ASSUME Len(call[r].events) = 1, NEW l \in held[r]
        PROVE  \E v \in Workflows' : v.id = l[1] /\ v.trigger = got[r].events[1].type
    BY <2>2, <2>6, <2>9
  <2> QED BY ONLY <2>4, <2>5, <2>7, <2>8, <2>9 DEF OrderOK
<1> QED BY <1>8, <1>9

\* A batch that writes rows of its own goes on.
LEMMA BatchWrites ==
  ASSUME Types, NEW r \in Requests, Own(r), call[r].op = "bulk", NEW new, IsFiniteSet(new),
         Writes(r, new), pc'[r] \in InBatch, BatchOK(r)', OrderOK(r)',
         \A x \in new :
           \/ x.id[1] = "task"
           \/ /\ x.id[1] = "execution"
              /\ None \in Limits(x.workflow) \/ <<x.workflow, x.day>> \in held[r]
  PROVE  Own(r)'
<1>1. put'[r] = new \cup {y \in put[r] : y.id \notin Ids(new)} BY DEF Writes, Types
<1>2. /\ call' = call /\ committed' = committed /\ held' = held /\ session'[r] = "active"
  BY DEF Writes, Goes
<1>3. PathOK(r)' /\ AnchorOK(r)' BY <1>2, BatchPath DEF Writes, Goes
<1>4. PutOK(r)'
  <2>1. ASSUME NEW x \in put[r], x.id[1] = "workflow" PROVE FALSE
    BY <2>1 DEF Own, PutOK, WorkflowOps
  <2>2. ASSUME NEW x \in put'[r], x.id[1] = "execution"
        PROVE  None \in Limits(x.workflow)' \/ <<x.workflow, x.day>> \in held[r]
    BY <1>1, <1>2, <2>2, LimitsGrow DEF Own, PutOK
  <2>3. \A x \in put'[r] : x.id[1] \in {"event", "execution", "task"}
    BY <1>1, <2>1 DEF Own, PutOK
  <2> QED BY <1>2, <2>2, <2>3 DEF PutOK, WorkflowOps
<1>5. LossOK(r)' BY <1>2 DEF LossOK
<1> QED BY <1>3, <1>4, <1>5 DEF Own

\* The store after it is within the limits.
Keeps(r) ==
  /\ Moves(r)
  /\ \/ Quiet(r) \/ Loses(r) \/ Commits(r)
     \/ \A i \in Ids(Workflows), d \in 1..MaxDay : Bound(View(r)', i, d)

LEMMA SpentAfter ==
  ASSUME Types, NEW r \in Requests, NEW new, Writes(r, new), NEW i, NEW d
  PROVE  /\ \A y \in Spent(View(r)', i, d) :
              y \in new \/ (y \in Spent(View(r), i, d) /\ y.id \notin Ids(new))
         /\ Spent(new, i, d) = {} => Spent(View(r)', i, d) \subseteq Spent(View(r), i, d)
<1>1. View(r)' = new \cup {x \in View(r) : x.id \notin Ids(new)} BY ViewWritten
<1> QED BY <1>1 DEF Spent, Executions, Of

LEMMA NoneSpent ==
  ASSUME Types, BoundOK, NEW r \in Requests, NEW new, Writes(r, new),
         NEW i \in Ids(Workflows), NEW d \in 1..MaxDay, Spent(new, i, d) = {}
  PROVE  Bound(View(r)', i, d)
<1>1. Spent(View(r)', i, d) \subseteq Spent(View(r), i, d) BY SpentAfter
<1>2. IsFiniteSet(View(r)) /\ Bound(View(r), i, d) BY FiniteView DEF BoundOK
<1> QED BY <1>1, <1>2, BoundPart

LEMMA PlainKeeps ==
  ASSUME Types, BoundOK, NEW r \in Requests, Plain(r)
  PROVE  Keeps(r)
<1>1. CASE Quiet(r) \/ Loses(r) \/ Commits(r) BY <1>1 DEF Keeps, Moves
<1>2. CASE \E new : IsFiniteSet(new) /\ (\A x \in new : x.id[1] # "execution") /\ Writes(r, new)
  <2>1. PICK new :
          IsFiniteSet(new) /\ (\A x \in new : x.id[1] # "execution") /\ Writes(r, new)
    BY <1>2
  <2>2. \A i, d : Spent(new, i, d) = {} BY <2>1 DEF Spent, Executions, Of
  <2>3. \A i \in Ids(Workflows), d \in 1..MaxDay : Bound(View(r)', i, d)
    BY <2>1, <2>2, NoneSpent
  <2> QED BY <2>1, <2>3 DEF Keeps, Moves
<1> QED BY <1>1, <1>2 DEF Plain

LEMMA ExecutionIs ==
  ASSUME NEW r \in Requests, NEW status
  PROVE  LET x == Execution(r, status) IN
         /\ x.id = <<"execution", Head(got[r].events).id, Current(r).id>> /\ x.id[1] = "execution"
         /\ x.workflow = Current(r).id /\ x.day = got[r].day /\ x.status = status
  BY DEF Execution

LEMMA PlusOne ==
  ASSUME NEW S, IsFiniteSet(S), NEW x
  PROVE  /\ IsFiniteSet(S \cup {x}) /\ Cardinality(S \cup {x}) \in Nat /\ Cardinality(S) \in Nat
         /\ Cardinality(S \cup {x}) <= Cardinality(S) + 1
<1>1. IsFiniteSet(S \cup {x}) /\ (Cardinality(S \cup {x}) = Cardinality(S)
                                  \/ Cardinality(S \cup {x}) = Cardinality(S) + 1)
  BY FS_AddElement
<1>2. Cardinality(S) \in Nat /\ Cardinality(S \cup {x}) \in Nat BY <1>1, FS_CardinalityType
<1> QED BY <1>1, <1>2

LEMMA MinusOne ==
  ASSUME NEW S, IsFiniteSet(S), NEW y \in S
  PROVE  /\ IsFiniteSet(S \ {y}) /\ Cardinality(S \ {y}) \in Nat /\ Cardinality(S) \in Nat
         /\ Cardinality(S \ {y}) = Cardinality(S) - 1
<1>1. IsFiniteSet(S \ {y}) /\ Cardinality(S \ {y}) = Cardinality(S) - 1 BY FS_RemoveElement
<1> QED BY <1>1, FS_CardinalityType

\* One more execution, where fewer than the limit were counted.
LEMMA OneMore ==
  ASSUME Types, BoundOK, NEW r \in Requests, Own(r), pc[r] = "insert", ~Limited(r),
         Writes(r, {Execution(r, "running")}), NEW i \in Ids(Workflows), NEW d \in 1..MaxDay
  PROVE  Bound(View(r)', i, d)
<1> DEFINE x == Execution(r, "running")
<1>1. /\ x.id[1] = "execution" /\ x.workflow = Current(r).id /\ x.day = got[r].day
  BY ExecutionIs
<1>2. CASE ~(x.workflow = i /\ x.day = d)
  <2>1. Spent({x}, i, d) = {} BY <1>2 DEF Spent, Executions, Of
  <2> QED BY <2>1, NoneSpent
<1>3. CASE x.workflow = i /\ x.day = d
  <2> SUFFICES ASSUME None \notin Limits(i)
               PROVE  \E n \in Limits(i) : Cardinality(Spent(View(r)', i, d)) <= n
    BY DEF Bound
  <2>1. /\ got[r] \in Left /\ got[r].rest # << >> /\ got[r].count \in Nat
        /\ Cardinality(Spent(View(r), i, d)) <= got[r].count
    BY <1>1, <1>3 DEF Own, BatchOK, InBatch, Left
  <2>2. Current(r).max \in Limits(i)
    <3>1. BatchOK(r) /\ pc[r] \in InBatch \ {"trigger"} BY DEF Own, InBatch
    <3>2. Current(r).max \in Limits(Current(r).id) BY <2>1, <3>1, CurrentIs
    <3>3. Current(r).id = i BY <1>1, <1>3
    <3> QED BY <3>2, <3>3
  <2>3. Current(r).max \in Nat BY <2>2, LimitsTyped DEF Types
  <2>4. ~(got[r].count >= Current(r).max) BY <2>2 DEF Limited
  <2>5. Spent(View(r), i, d) \subseteq View(r) BY DEF Spent, Executions, Of
  <2>6. IsFiniteSet(Spent(View(r), i, d)) BY <2>5, FiniteView, FinitePart
  <2>7. /\ IsFiniteSet(Spent(View(r), i, d) \cup {x})
        /\ Cardinality(Spent(View(r), i, d) \cup {x}) <= Cardinality(Spent(View(r), i, d)) + 1
    BY <2>6, PlusOne
  <2>8. Spent(View(r)', i, d) \subseteq Spent(View(r), i, d) \cup {x} BY SpentAfter
  <2>9. /\ Cardinality(Spent(View(r)', i, d)) \in Nat
        /\ Cardinality(Spent(View(r), i, d) \cup {x}) \in Nat
        /\ Cardinality(Spent(View(r)', i, d)) <= Cardinality(Spent(View(r), i, d) \cup {x})
    BY <2>7, <2>8, FinitePart
  <2>10. Cardinality(Spent(View(r), i, d)) \in Nat BY <2>6, FS_CardinalityType
  <2>11. Cardinality(Spent(View(r)', i, d)) <= Current(r).max
    BY <2>1, <2>3, <2>4, <2>7, <2>9, <2>10
  <2> QED BY <2>2, <2>11
<1> QED BY <1>2, <1>3

\* An execution that is completed is one that has been counted.
LEMMA OneDone ==
  ASSUME Types, BoundOK, NEW r \in Requests, Execution(r, "running") \in put[r],
         Writes(r, {Execution(r, "completed")}), NEW i \in Ids(Workflows), NEW d \in 1..MaxDay
  PROVE  Bound(View(r)', i, d)
<1> DEFINE x == Execution(r, "completed")
           y == Execution(r, "running")
<1>1. /\ x.id[1] = "execution" /\ x.workflow = Current(r).id /\ x.day = got[r].day
      /\ y.id = x.id /\ y.workflow = x.workflow /\ y.day = x.day /\ y.status = "running"
  BY ExecutionIs
<1>2. CASE ~(x.workflow = i /\ x.day = d)
  <2>1. Spent({x}, i, d) = {} BY <1>2 DEF Spent, Executions, Of
  <2> QED BY <2>1, NoneSpent
<1>3. CASE x.workflow = i /\ x.day = d
  <2> SUFFICES ASSUME None \notin Limits(i)
               PROVE  \E n \in Limits(i) : Cardinality(Spent(View(r)', i, d)) <= n
    BY DEF Bound
  <2> DEFINE S == Spent(View(r), i, d)
  <2>1. y \in S
    <3>1. y \in View(r) BY ViewIs
    <3>2. "running" # "limited" OBVIOUS
    <3> QED BY <1>1, <1>3, <3>1, <3>2 DEF Spent, Executions, Of
  <2>2. Spent(View(r)', i, d) \subseteq (S \ {y}) \cup {x}
    <3>1. \A z \in Spent(View(r)', i, d) : z \in {x} \/ (z \in S /\ z.id \notin Ids({x}))
      BY SpentAfter
    <3>2. ASSUME NEW z \in Spent(View(r)', i, d) PROVE z \in (S \ {y}) \cup {x}
      <4>1. z \in S /\ z.id \notin Ids({x}) => z # y BY <1>1 DEF Ids
      <4> QED BY <3>1, <4>1
    <3> QED BY <3>2
  <2>3. S \subseteq View(r) BY DEF Spent, Executions, Of
  <2> HIDE DEF S, x, y
  <2>4. IsFiniteSet(S) BY <2>3, FiniteView, FinitePart
  <2>5. IsFiniteSet(S \ {y}) /\ Cardinality(S \ {y}) = Cardinality(S) - 1
        /\ Cardinality(S) \in Nat /\ Cardinality(S \ {y}) \in Nat
    BY <2>1, <2>4, MinusOne
  <2>6. /\ IsFiniteSet((S \ {y}) \cup {x})
        /\ Cardinality((S \ {y}) \cup {x}) <= Cardinality(S \ {y}) + 1
        /\ Cardinality((S \ {y}) \cup {x}) \in Nat
    BY <2>5, PlusOne
  <2>7. /\ Cardinality(Spent(View(r)', i, d)) \in Nat
        /\ Cardinality(Spent(View(r)', i, d)) <= Cardinality((S \ {y}) \cup {x})
    BY <2>2, <2>6, FinitePart
  <2>8. Cardinality(Spent(View(r)', i, d)) <= Cardinality(S) BY <2>5, <2>6, <2>7
  <2>9. PICK n \in Limits(i) : Cardinality(S) <= n BY DEF BoundOK, Bound, S
  <2>10. n \in Nat BY <2>9, LimitsTyped DEF Types
  <2> QED BY <2>5, <2>7, <2>8, <2>9, <2>10
<1> QED BY <1>2, <1>3

\* An execution is written under the lock of its workflow, where that is limited.
LEMMA ExecutionPut ==
  ASSUME Types, NEW r \in Requests, Own(r), pc[r] \in {"insert", "act"}, NEW status
  PROVE  LET x == Execution(r, status) IN
         /\ x.id[1] = "execution"
         /\ None \in Limits(x.workflow) \/ <<x.workflow, x.day>> \in held[r]
<1> DEFINE x == Execution(r, status)
<1>1. x.id[1] = "execution" /\ x.workflow = Current(r).id /\ x.day = got[r].day BY ExecutionIs
<1> HIDE DEF x
<1>2. BatchOK(r) /\ pc[r] \in InBatch \ {"trigger"} /\ got[r].rest # << >>
  BY DEF Own, BatchOK, InBatch
<1>3. Current(r).max \in Limits(Current(r).id) BY <1>2, CurrentIs
<1>4. Current(r).max # None => <<Current(r).id, got[r].day>> \in held[r] BY <1>2 DEF BatchOK
<1> QED BY <1>1, <1>3, <1>4 DEF x

LEMMA StartOK ==
  ASSUME Types, BoundOK, NEW r \in Requests, Own(r), Start(r)
  PROVE  Keeps(r) /\ Own(r)' /\ held' = held /\ seq' = seq /\ day' = day
<1>1. /\ call[r].op = "bulk" /\ pc[r] = "insert" /\ pc[r] \in InBatch \ {"trigger"}
      /\ call' = call /\ held' = held /\ seq' = seq /\ day' = day
      /\ "act" \in PCs /\ "execute" \in PCs
  BY DEF Start, InBatch, PCs, Ours
<1>2. DOMAIN held' = Requests BY <1>1 DEF Types
<1>3. CASE Limited(r)
  <2> DEFINE x == Execution(r, "limited")
  <2>1. Flush(r, {x}, {}, {}) /\ NextWorkflow(r) BY <1>3 DEF Start
  <2>2. /\ got' = [got EXCEPT ![r].rest = Tail(@)] /\ pc' = [pc EXCEPT ![r] = "execute"]
        /\ DOMAIN got' = Requests /\ \A q \in Requests \ {r} : got'[q] = got[q]
    BY <2>1 DEF NextWorkflow, Goto, Types
  <2>3. Goes(r) /\ pc'[r] = "execute" BY <1>1, <1>2, <2>2, GoesTo
  <2>4. Writes(r, {x}) BY <1>1, <2>1, <2>3, FlushMoves
  <2>5. IsFiniteSet({x}) BY FS_Singleton
  <2>6. Moves(r) BY <2>4, <2>5 DEF Moves
  <2>7. BatchOK(r)' /\ OrderOK(r)' BY <1>1, <2>2, <2>3, <2>6, NextOK
  <2>8. x.id[1] = "execution" /\ (None \in Limits(x.workflow) \/ <<x.workflow, x.day>> \in held[r])
    BY <1>1, ExecutionPut
  <2>9. x.status = "limited" BY ExecutionIs
  <2>10. \A i, d : Spent({x}, i, d) = {} BY <2>9 DEF Spent, Executions, Of
  <2> HIDE DEF x
  <2>11. Own(r)' BY <1>1, <2>3, <2>4, <2>5, <2>7, <2>8, BatchWrites DEF InBatch
  <2>12. \A i \in Ids(Workflows), d \in 1..MaxDay : Bound(View(r)', i, d)
    BY <2>4, <2>10, NoneSpent
  <2> QED BY <1>1, <2>6, <2>11, <2>12 DEF Keeps
<1>4. CASE ~Limited(r)
  <2> DEFINE x == Execution(r, "running")
  <2>1. Flush(r, {x}, {}, {}) /\ pc' = [pc EXCEPT ![r] = "act"] /\ got' = got
    BY <1>4 DEF Start, Goto
  <2>2. Goes(r) /\ pc'[r] = "act"
    <3>1. DOMAIN got' = Requests BY <2>1 DEF Types
    <3> QED BY <1>1, <1>2, <2>1, <3>1, GoesTo
  <2>3. Writes(r, {x}) BY <1>1, <2>1, <2>2, FlushMoves
  <2>4. IsFiniteSet({x}) BY FS_Singleton
  <2>5. Moves(r) BY <2>3, <2>4 DEF Moves
  <2>6. x.id[1] = "execution" /\ (None \in Limits(x.workflow) \/ <<x.workflow, x.day>> \in held[r])
    BY <1>1, ExecutionPut
  <2>7. x \in put'[r] /\ Execution(r, "running")' = x /\ Current(r)' = Current(r)
    BY <2>1, <2>3 DEF Writes, Types, Execution, Current
  <2>8. /\ got[r] \in Left /\ got[r].events # << >> /\ got[r].rest # << >>
        /\ Current(r).max # None => <<Current(r).id, got[r].day>> \in held[r]
        /\ \A j \in DOMAIN got[r].actions : \E k \in DOMAIN Current(r).actions :
             got[r].actions[j] = Current(r).actions[k]
        /\ \A i \in DOMAIN got[r].events : \E k \in DOMAIN call[r].events :
             got[r].events[i].type = call[r].events[k].type
        /\ \A i \in DOMAIN got[r].rest :
             GivenBy(got[r].rest[i], committed) /\ got[r].rest[i].trigger = got[r].events[1].type
    BY <1>1 DEF Own, BatchOK, InBatch
  <2>9. PICK s : s = got[r].rest OBVIOUS
  <2>10. \A i \in DOMAIN s : GivenBy(s[i], committed)' /\ s[i].trigger = got[r].events[1].type
    BY <2>5, <2>8, <2>9, GivenRest
  <2>11. BatchOK(r)'
    <3> HIDE DEF x
    <3> QED BY <1>1, <2>1, <2>2, <2>7, <2>8, <2>9, <2>10 DEF BatchOK
  <2>12. OrderOK(r)'
    <3>1. \A i, j : Precedes(i, j) => Precedes(i, j)' BY <2>5, CommittedGrow, PrecedesGrow
    <3>2. Workflows' = Workflows BY <1>1, SameLimits
    <3>3. OrderOK(r) BY DEF Own
    <3> QED BY <1>1, <2>1, <2>2, <3>1, <3>2, <3>3 DEF OrderOK
  <2> HIDE DEF x
  <2>13. Own(r)' BY <1>1, <2>2, <2>3, <2>4, <2>6, <2>11, <2>12, BatchWrites DEF InBatch
  <2>14. \A i \in Ids(Workflows), d \in 1..MaxDay : Bound(View(r)', i, d)
    BY <1>1, <1>4, <2>3, OneMore DEF x
  <2> QED BY <1>1, <2>5, <2>13, <2>14 DEF Keeps
<1> QED BY <1>3, <1>4

LEMMA FinishOK ==
  ASSUME Types, BoundOK, NEW r \in Requests, Own(r), Finish(r)
  PROVE  Keeps(r) /\ Own(r)' /\ held' = held /\ seq' = seq /\ day' = day
<1>1. /\ call[r].op = "bulk" /\ pc[r] = "act" /\ pc[r] \in InBatch \ {"trigger"}
      /\ call' = call /\ held' = held /\ seq' = seq /\ day' = day
      /\ "execute" \in PCs
  BY DEF Finish, InBatch, PCs, Ours
<1>2. DOMAIN held' = Requests BY <1>1 DEF Types
<1>3. /\ got' = [got EXCEPT ![r].rest = Tail(@)] /\ pc' = [pc EXCEPT ![r] = "execute"]
      /\ DOMAIN got' = Requests /\ \A q \in Requests \ {r} : got'[q] = got[q]
  BY DEF Finish, NextWorkflow, Goto, Types
<1>4. Goes(r) /\ pc'[r] = "execute" BY <1>1, <1>2, <1>3, GoesTo
<1>5. CASE session[r] = "active"
  <2> DEFINE x == Execution(r, "completed")
  <2>1. Flush(r, {x}, {}, {}) BY <1>5 DEF Finish
  <2>2. Writes(r, {x}) BY <1>1, <1>4, <2>1, FlushMoves
  <2>3. IsFiniteSet({x}) BY FS_Singleton
  <2>4. Moves(r) BY <2>2, <2>3 DEF Moves
  <2>5. BatchOK(r)' /\ OrderOK(r)' BY <1>1, <1>3, <1>4, <2>4, NextOK
  <2>6. x.id[1] = "execution" /\ (None \in Limits(x.workflow) \/ <<x.workflow, x.day>> \in held[r])
    BY <1>1, ExecutionPut
  <2>7. Execution(r, "running") \in put[r] BY <1>1, <1>5 DEF Own, BatchOK
  <2> HIDE DEF x
  <2>8. Own(r)' BY <1>1, <1>4, <2>2, <2>3, <2>5, <2>6, BatchWrites DEF InBatch
  <2>9. \A i \in Ids(Workflows), d \in 1..MaxDay : Bound(View(r)', i, d)
    BY <2>2, <2>7, OneDone DEF x
  <2> QED BY <1>1, <2>4, <2>8, <2>9 DEF Keeps
<1>6. CASE session[r] # "active"
  <2>1. Untouched BY <1>6 DEF Finish
  <2>2. Quiet(r) /\ Moves(r) BY <1>4, <2>1 DEF Quiet, Untouched, Moves
  <2>3. BatchOK(r)' /\ OrderOK(r)' BY <1>1, <1>3, <1>4, <2>2, NextOK
  <2>4. Plain(r) /\ Own(r)' BY <1>1, <1>4, <2>2, <2>3, BatchQuiet DEF InBatch
  <2> QED BY <1>1, <2>2, <2>4 DEF Keeps
<1> QED BY <1>5, <1>6

\* An action has been attempted.
LEMMA ActsOn ==
  ASSUME Types, NEW r \in Requests, Own(r), pc[r] = "act", got[r].actions # << >>, Moves(r),
         got' = [got EXCEPT ![r].actions = Tail(@)], pc'[r] = "act", held' = held,
         session'[r] = "active" => Execution(r, "running") \in put'[r]
  PROVE  BatchOK(r)' /\ OrderOK(r)'
<1>1. pc[r] \in InBatch \ {"trigger"} /\ call' = call BY CommittedGrow DEF InBatch
<1>2. /\ got[r] \in Left /\ got[r].events # << >> /\ got[r].rest # << >>
      /\ Current(r).max # None => <<Current(r).id, got[r].day>> \in held[r]
      /\ \A j \in DOMAIN got[r].actions : \E k \in DOMAIN Current(r).actions :
           got[r].actions[j] = Current(r).actions[k]
      /\ \A i \in DOMAIN got[r].events : \E k \in DOMAIN call[r].events :
           got[r].events[i].type = call[r].events[k].type
      /\ \A i \in DOMAIN got[r].rest :
           GivenBy(got[r].rest[i], committed) /\ got[r].rest[i].trigger = got[r].events[1].type
  BY <1>1 DEF Own, BatchOK, InBatch
<1>3. PICK t : t = Tail(got[r].actions) OBVIOUS
<1>4. /\ t \in Seq(Action)
      /\ \A j \in DOMAIN t : j + 1 \in DOMAIN got[r].actions /\ t[j] = got[r].actions[j + 1]
  <2>1. got[r].actions \in Seq(Action) BY <1>2 DEF Left
  <2> QED BY <1>3, <2>1, TailOf
<1>5. /\ got'[r] = [got[r] EXCEPT !.actions = t] /\ got'[r] \in Left
      /\ got'[r].events = got[r].events /\ got'[r].rest = got[r].rest /\ got'[r].actions = t
      /\ got'[r].day = got[r].day
  BY <1>2, <1>3, <1>4 DEF Types, Left
<1>6. Current(r)' = Current(r) /\ Execution(r, "running")' = Execution(r, "running")
  BY <1>5 DEF Current, Execution
<1>7. \A j \in DOMAIN t : \E k \in DOMAIN Current(r).actions : t[j] = Current(r).actions[k]
  BY <1>2, <1>4
<1>8. PICK s : s = got[r].rest OBVIOUS
<1>9. \A i \in DOMAIN s : GivenBy(s[i], committed)' /\ s[i].trigger = got[r].events[1].type
  BY <1>2, <1>8, GivenRest
<1>10. BatchOK(r)'
  BY <1>1, <1>2, <1>5, <1>6, <1>7, <1>8, <1>9 DEF BatchOK
<1>11. OrderOK(r)'
  <2>1. \A i, j : Precedes(i, j) => Precedes(i, j)' BY CommittedGrow, PrecedesGrow
  <2>2. Workflows' = Workflows BY <1>1, SameLimits
  <2>3. OrderOK(r) BY DEF Own
  <2> QED BY <1>1, <1>5, <2>1, <2>2, <2>3 DEF OrderOK
<1> QED BY <1>10, <1>11

\* The action at hand is one of a workflow that an event of r triggers.
LEMMA ActionOf ==
  ASSUME Types, NEW r \in Requests, Own(r), pc[r] = "act", got[r].actions # << >>
  PROVE  /\ Head(got[r].actions) \in Action
         /\ \E w \in Workflows : \E k \in DOMAIN w.actions :
              /\ \E i \in DOMAIN call[r].events : call[r].events[i].type = w.trigger
              /\ w.actions[k] = Head(got[r].actions)
<1> DEFINE a == Head(got[r].actions)
<1>1. pc[r] \in InBatch \ {"trigger"} BY DEF InBatch
<1>2. /\ got[r] \in Left /\ got[r].rest # << >>
      /\ \A j \in DOMAIN got[r].actions : \E k \in DOMAIN Current(r).actions :
           got[r].actions[j] = Current(r).actions[k]
  BY <1>1 DEF Own, BatchOK, InBatch
<1>3. a = got[r].actions[1] /\ 1 \in DOMAIN got[r].actions /\ a \in Action
  BY <1>2, TailOf DEF Left
<1>4. PICK k \in DOMAIN Current(r).actions : a = Current(r).actions[k] BY <1>2, <1>3
<1>5. GivenBy(Current(r), committed) /\ Current(r).trigger = got[r].events[1].type
  BY <1>1, <1>2, CurrentIs DEF Own
<1>6. PICK w \in Workflows : w.trigger = Current(r).trigger /\ w.actions = Current(r).actions
  BY <1>5 DEF GivenBy, Known
<1>7. PICK i \in DOMAIN call[r].events : call[r].events[i].type = got[r].events[1].type
  BY <1>1, BatchCalled
<1>8. k \in DOMAIN w.actions /\ w.actions[k] = a BY <1>4, <1>6
<1>9. call[r].events[i].type = w.trigger BY <1>5, <1>6, <1>7
<1> QED BY <1>3, <1>6, <1>7, <1>8, <1>9

\* The database refuses a task only where its user does not exist.
LEMMA RefusedTask ==
  ASSUME Types, NEW r \in Requests, Own(r), pc[r] = "act", got[r].actions # << >>,
         Head(got[r].actions).type = "create_task",
         Refused(r, {NewTask(r, Head(got[r].actions))}, {})
  PROVE  RefusedAction(r)
<1> DEFINE a == Head(got[r].actions)
           x == NewTask(r, a)
<1>1. PICK w \in Workflows : \E k \in DOMAIN w.actions :
        /\ \E i \in DOMAIN call[r].events : call[r].events[i].type = w.trigger
        /\ w.actions[k] = a
  BY ActionOf
<1>2. PICK k \in DOMAIN w.actions :
        /\ \E i \in DOMAIN call[r].events : call[r].events[i].type = w.trigger
        /\ w.actions[k] = a
  BY <1>1
<1>3. a \in Action BY ActionOf
<1>4. /\ x.id = <<"task", Head(got[r].events).id, Current(r).id, Len(got[r].actions)>>
      /\ x.id[1] = "task" /\ x.user = a.user
  BY DEF NewTask
<1> HIDE DEF x
<1>5. Table(x) = TaskTable(x) BY <1>4 DEF Table
<1>6. Keys(x) = {} /\ Owners(x) = {} /\ Needs(x) = {x.user} \ {None}
  BY <1>5 DEF Keys, Owners, Needs, TaskTable, T
<1>7. Refused(r, {x}, {}) BY DEF x
<1>8. x.user # None /\ x.user \notin Ids(After(r, {x}, {}))
  <2> DEFINE after == After(r, {x}, {})
  <2>1. \/ \E y \in after : x.id # y.id /\ Keys(x) \cap Keys(y) # {}
        \/ ~((Owners(x) \cup Needs(x)) \subseteq Ids(after))
        \/ \E y \in after : Needs(y) \cap {} # {}
    BY <1>7 DEF Refused
  <2> HIDE DEF after
  <2>2. ~({x.user} \ {None} \subseteq Ids(after)) BY <1>6, <2>1
  <2> QED BY <2>2 DEF after
<1>9. a.user \in {"user"} \X STRING BY <1>3, <1>4, <1>8 DEF Action
<1>10. a.user \notin Ids(rows)
  <2> SUFFICES ASSUME NEW y \in rows, y.id = a.user PROVE FALSE BY DEF Ids
  <2>1. y.id[1] = "user" BY <1>9
  <2>2. y.id \notin Ids(put[r])
    <3>1. \A z \in put[r] : z.id[1] # "user" BY DEF Own, PutOK
    <3> QED BY <2>1, <3>1 DEF Ids
  <2>3. y \in View(r) BY <2>2, ViewIs
  <2>4. y.id # x.id BY <1>4, <2>1
  <2>5. y \in After(r, {x}, {}) BY <2>3, <2>4 DEF After, Ids
  <2> QED BY <1>4, <1>8, <2>5 DEF Ids
<1>11. w.actions[k].type = "create_task" /\ w.actions[k].user \notin Ids(rows) \cup {None}
  BY <1>2, <1>4, <1>8, <1>10
<1> QED BY <1>2, <1>11 DEF RefusedAction

LEMMA ActOK ==
  ASSUME Types, BoundOK, NEW r \in Requests, Own(r), Act(r)
  PROVE  Keeps(r) /\ Own(r)' /\ held' = held /\ seq' = seq /\ day' = day
<1> DEFINE a == Head(got[r].actions)
           x == NewTask(r, a)
<1>1. /\ call[r].op = "bulk" /\ pc[r] = "act" /\ pc[r] \in InBatch \ {"trigger"}
      /\ got[r].actions # << >> /\ got' = [got EXCEPT ![r].actions = Tail(@)]
      /\ pc' = pc /\ call' = call /\ held' = held /\ seq' = seq /\ day' = day
  BY DEF Act, InBatch, Ours
<1>2. Goes(r) /\ pc'[r] = "act"
  <2>1. /\ DOMAIN held' = Requests /\ DOMAIN got' = Requests
        /\ \A q \in Requests \ {r} : got'[q] = got[q] /\ held'[q] = held[q]
    BY <1>1 DEF Types
  <2>2. "act" \in PCs /\ pc' = [pc EXCEPT ![r] = "act"] BY <1>1 DEF PCs, Types
  <2> QED BY <1>1, <2>1, <2>2, GoesTo
<1>3. session[r] = "active" => Execution(r, "running") \in put[r] BY <1>1 DEF Own, BatchOK
<1>4. CASE Untouched
  <2>1. Quiet(r) /\ Moves(r) /\ session' = session /\ put' = put
    BY <1>2, <1>4 DEF Quiet, Untouched, Moves
  <2>2. BatchOK(r)' /\ OrderOK(r)' BY <1>1, <1>2, <1>3, <2>1, ActsOn
  <2>3. Plain(r) /\ Own(r)' BY <1>1, <1>2, <2>1, <2>2, BatchQuiet DEF InBatch
  <2> QED BY <1>1, <2>1, <2>3 DEF Keeps
<1>5. CASE Flush(r, {x}, {}, {})
  <2>1. x.id = <<"task", Head(got[r].events).id, Current(r).id, Len(got[r].actions)>>
        /\ x.id[1] = "task"
    BY DEF NewTask
  <2>2. Writes(r, {x}) BY <1>1, <1>2, <1>5, FlushMoves
  <2>3. IsFiniteSet({x}) BY FS_Singleton
  <2> HIDE DEF x
  <2>4. Moves(r) BY <2>2, <2>3 DEF Moves
  <2>5. Execution(r, "running") \in put'[r]
    <3>1. session[r] = "active" /\ put'[r] = {x} \cup {y \in put[r] : y.id \notin Ids({x})}
      BY <2>2 DEF Writes, Types
    <3>2. Execution(r, "running").id[1] = "execution" BY ExecutionIs
    <3>3. Execution(r, "running").id \notin Ids({x}) BY <2>1, <3>2 DEF Ids
    <3> QED BY <1>3, <3>1, <3>3
  <2>6. BatchOK(r)' /\ OrderOK(r)' BY <1>1, <1>2, <2>4, <2>5, ActsOn
  <2>7. Own(r)' BY <1>1, <1>2, <2>1, <2>2, <2>3, <2>6, BatchWrites DEF InBatch
  <2>8. \A i, d : Spent({x}, i, d) = {} BY <2>1 DEF Spent, Executions, Of
  <2>9. \A i \in Ids(Workflows), d \in 1..MaxDay : Bound(View(r)', i, d)
    BY <2>2, <2>8, NoneSpent
  <2> QED BY <1>1, <2>4, <2>7, <2>9 DEF Keeps
<1>6. ASSUME Drop(r, "inactive"), RefusedAction(r)
      PROVE  Keeps(r) /\ Own(r)'
  <2>1. gone' = gone BY <1>6 DEF Drop, Types
  <2>2. Loses(r) /\ Moves(r) BY <1>1, <1>2, <1>6, <2>1 DEF Loses, Drop, Moves
  <2>3. put'[r] = {} /\ committed' = committed /\ session'[r] = "inactive"
    BY <1>6 DEF Drop, Types
  <2>4. PutOK(r)' BY <2>3 DEF PutOK
  <2>5. PathOK(r)' /\ AnchorOK(r)' BY <1>1, <1>2, <2>3, BatchPath DEF InBatch
  <2>6. BatchOK(r)' /\ OrderOK(r)' BY <1>1, <1>2, <2>2, <2>3, ActsOn
  <2>7. LossOK(r)'
    <3>1. RefusedAction(r)' \/ MayDeadlock(r)' BY <1>6, <2>2, LossStays DEF Own
    <3> QED BY <3>1 DEF LossOK
  <2> QED BY <1>1, <2>2, <2>4, <2>5, <2>6, <2>7 DEF Own, Keeps
<1>7. CASE a.refused /\ Drop(r, "inactive")
  <2>1. RefusedAction(r) BY <1>1, <1>7, ActionOf DEF RefusedAction
  <2> QED BY <1>1, <1>6, <1>7, <2>1
<1>8. CASE a.type = "create_task" /\ IntegrityError(r, {x}, {}) /\ Drop(r, "inactive")
  <2>1. Refused(r, {x}, {}) BY <1>8 DEF IntegrityError
  <2>2. RefusedAction(r) BY <1>1, <1>8, <2>1, RefusedTask
  <2> QED BY <1>1, <1>6, <1>8, <2>2
<1> QED BY <1>4, <1>5, <1>7, <1>8 DEF Act, CreateTask, Attempt, Notify

LEMMA BatchActOK ==
  ASSUME Inv, NEW r \in Requests, Batch(r)
  PROVE  Keeps(r) /\ Own(r)' /\ LocksOK' /\ seq' \in Nat /\ day' = day
<1>1. Types /\ day \in 1..MaxDay /\ seq \in Nat /\ RowsOK /\ LocksOK /\ BoundOK /\ Own(r)
      /\ \A q \in Requests : Own(q)
  BY DEF Inv
<1>2. CASE AppendEvents(r) BY <1>1, <1>2, AppendOK, PlainKeeps, LocksNext DEF Keeps
<1>3. CASE Trigger(r) BY <1>1, <1>3, TriggerOK, PlainKeeps, LocksNext DEF Keeps
<1>4. CASE Execute(r) BY <1>1, <1>4, ExecuteOK, PlainKeeps, LocksNext DEF Keeps
<1>5. CASE Lock(r) BY <1>1, <1>5, LockOK, PlainKeeps
<1>6. CASE Count(r) BY <1>1, <1>6, CountOK, PlainKeeps, LocksNext DEF Keeps
<1>7. CASE Start(r) BY <1>1, <1>7, StartOK, LocksNext DEF Keeps
<1>8. CASE Act(r) BY <1>1, <1>8, ActOK, LocksNext DEF Keeps
<1>9. CASE Finish(r) BY <1>1, <1>9, FinishOK, LocksNext DEF Keeps
<1> QED BY <1>2, <1>3, <1>4, <1>5, <1>6, <1>7, <1>8, <1>9 DEF Batch

-----------------------------------------------------------------------------
(* Every step. *)

LEMMA StepInv ==
  ASSUME Inv, NEW r \in Requests, Keeps(r), Own(r)', LocksOK', day' \in 1..MaxDay, seq' \in Nat
  PROVE  Inv'
<1>1. Types /\ RowsOK /\ LocksOK /\ BoundOK /\ Own(r) /\ Moves(r) /\ \A q \in Requests : Own(q)
  BY DEF Inv, Keeps
<1>2. Types' BY <1>1, TypesNext
<1>3. RowsOK' BY <1>1, RowsNext
<1>4. BoundOK' BY <1>1, BoundNext DEF Keeps, Own
<1>5. ASSUME NEW q \in Requests \ {r} PROVE Own(q)' BY <1>1, OthersKeep
<1>6. \A q \in Requests : Own(q)' BY <1>5
<1> QED BY <1>2, <1>3, <1>4, <1>6 DEF Inv

\* Nothing happens to the requests and what is stored.
LEMMA RestInv ==
  ASSUME Inv, UNCHANGED <<vars, seq, held>>, day' \in 1..MaxDay
  PROVE  Inv'
<1>1. UNCHANGED <<rows, put, gone, session, committed, call, pc, got, seq, held>> BY DEF vars
<1>2. Types' BY <1>1 DEF Inv, Types
<1>3. Workflows' = Workflows BY <1>1, SameLimits
<1>4. /\ \A i : Limits(i)' = Limits(i) /\ Orders(i)' = Orders(i)
      /\ \A i, S : LimitsBy(i, S)' = LimitsBy(i, S) /\ OrdersBy(i, S)' = OrdersBy(i, S)
  BY <1>1, <1>3 DEF Limits, Orders, Updates, LimitsBy, OrdersBy, UpdatesBy
<1>5. /\ \A w : GivenBy(w, committed)' <=> GivenBy(w, committed)
      /\ \A w, r : GivenBy(w, committed \cup {r})' <=> GivenBy(w, committed \cup {r})
  BY <1>1, <1>3, <1>4 DEF GivenBy, Known
<1>6. \A r : Pending(r)' = Pending(r) /\ Confirmed(r)' = Confirmed(r) /\ View(r)' = View(r)
             /\ Current(r)' = Current(r) /\ Execution(r, "running")' = Execution(r, "running")
  BY <1>1 DEF Pending, Confirmed, View, Ids, Current, Execution
<1>7. RowsOK' BY <1>1, <1>5, <1>6 DEF Inv, RowsOK
<1>8. LocksOK' BY <1>1 DEF Inv, LocksOK, InForce
<1>9. BoundOK'
  BY <1>1, <1>3, <1>4, <1>6 DEF Inv, BoundOK, Bound, Ids, Spent, Executions, Of
<1>10. ASSUME NEW r \in Requests PROVE Own(r)'
  <2>1. Own(r) BY DEF Inv
  <2>2. PutOK(r)' BY <1>1, <1>4, <1>5, <2>1 DEF Own, PutOK
  <2>3. PathOK(r)' BY <1>1, <2>1 DEF Own, PathOK
  <2>4. AnchorOK(r)' BY <1>1, <1>6, <2>1 DEF Own, AnchorOK, Ids, Of
  <2>5. BatchOK(r)'
    <3>1. Limits(Current(r).id)' = Limits(Current(r).id)
      BY <1>1, <1>3 DEF Limits, Updates, Current
    <3>2. Spent(View(r), Current(r).id, got[r].day)' = Spent(View(r), Current(r).id, got[r].day)
      BY <1>1, <1>6 DEF Spent, Executions, Of
    <3>3. \A i \in DOMAIN got[r].rest : GivenBy(got[r].rest[i], committed)' <=>
                                        GivenBy(got[r].rest[i], committed)
      BY <1>1, <1>3 DEF GivenBy, Known, LimitsBy, OrdersBy, UpdatesBy
    <3> QED BY <1>1, <1>6, <2>1, <3>1, <3>2, <3>3 DEF Own, BatchOK
  <2>6. OrderOK(r)'
    <3>1. \A i, j : Precedes(i, j)' <=> Precedes(i, j) BY <1>4 DEF Precedes
    <3> QED BY <1>1, <1>3, <2>1, <3>1 DEF Own, OrderOK
  <2>7. LossOK(r)'
    <3>1. RefusedAction(r)' <=> RefusedAction(r) BY <1>1, <1>3 DEF RefusedAction, Ids
    <3>2. \A v, w : Unordered(v, w)' <=> Unordered(v, w) BY <1>4 DEF Unordered, Precedes
    <3>3. MayDeadlock(r)' <=> MayDeadlock(r) BY <1>1, <1>3, <3>2 DEF MayDeadlock
    <3> QED BY <1>1, <2>1, <3>1, <3>3 DEF Own, LossOK
  <2> QED BY <2>2, <2>3, <2>4, <2>5, <2>6, <2>7 DEF Own
<1> QED BY <1>1, <1>2, <1>7, <1>8, <1>9, <1>10 DEF Inv

\* A step of a request keeps its own part, and what is stored within the limits.
LEMMA RequestOK ==
  ASSUME Inv, NEW r \in Requests,
         (WorkflowRoute(r) \/ Anchor(r) \/ Answer(r) \/ Commit(r) \/ Abort(r)) /\ UNCHANGED Ours
  PROVE  Keeps(r) /\ Own(r)' /\ LocksOK' /\ seq' \in Nat /\ day' = day
<1>1. Types /\ RowsOK /\ LocksOK /\ BoundOK /\ Own(r) /\ seq \in Nat BY DEF Inv
<1>2. held' = held /\ seq' = seq /\ day' = day BY DEF Ours
<1>3. Plain(r) /\ Own(r)'
  <2>1. WorkflowRoute(r) => Plain(r) /\ Own(r)' BY <1>1, <1>2, WorkflowRouteOK
  <2>2. Anchor(r) => Plain(r) /\ Own(r)' BY <1>1, <1>2, AnchorActOK
  <2>3. Answer(r) => Plain(r) /\ Own(r)' BY <1>1, <1>2, AnswerOK
  <2>4. Commit(r) => Plain(r) /\ Own(r)' BY <1>1, <1>2, CommitOK
  <2>5. Abort(r) => Plain(r) /\ Own(r)' BY <1>1, <1>2, AbortOK
  <2> QED BY <2>1, <2>2, <2>3, <2>4, <2>5
<1>4. Keeps(r) BY <1>1, <1>3, PlainKeeps
<1>5. LocksOK' BY <1>1, <1>2, <1>4, LocksNext DEF Keeps
<1> QED BY <1>1, <1>2, <1>3, <1>4, <1>5

LEMMA NextInv ==
  ASSUME Inv, [Next]_amvars
  PROVE  Inv'
<1>1. day \in 1..MaxDay /\ seq \in Nat BY DEF Inv
<1>2. CASE NextDay
  <2>1. day' \in 1..MaxDay BY <1>1, <1>2, AutomationAssumption DEF NextDay
  <2> QED BY <1>2, <2>1, RestInv DEF NextDay
<1>3. ASSUME NEW r \in Requests, Batch(r) PROVE Inv' BY <1>1, <1>3, BatchActOK, StepInv
<1>4. ASSUME NEW r \in Requests,
             (WorkflowRoute(r) \/ Anchor(r) \/ Answer(r) \/ Commit(r) \/ Abort(r)) /\ UNCHANGED Ours
      PROVE  Inv'
  BY <1>1, <1>4, RequestOK, StepInv
<1>5. CASE AllDone /\ UNCHANGED Ours
  <2>1. UNCHANGED <<vars, seq, held>> /\ day' = day BY <1>5 DEF AllDone, Untouched, vars, Ours
  <2> QED BY <1>1, <2>1, RestInv
<1>6. CASE UNCHANGED amvars
  <2>1. UNCHANGED <<vars, seq, held>> /\ day' = day BY <1>6 DEF amvars
  <2> QED BY <1>1, <2>1, RestInv
<1> QED BY <1>2, <1>3, <1>4, <1>5, <1>6 DEF Next

LEMMA InvInit == Init => Inv
<1> SUFFICES ASSUME Init PROVE Inv OBVIOUS
<1>1. /\ rows = Seed /\ put = [r \in Requests |-> {}] /\ gone = [r \in Requests |-> {}]
      /\ session = [r \in Requests |-> "active"] /\ committed = {} /\ call \in Scenarios
      /\ pc = [r \in Requests |-> IF call[r].op = "idle" THEN "done" ELSE "start"]
      /\ got = [r \in Requests |-> None] /\ day = 1
      /\ seq = Cardinality(Of(Seed, "event")) /\ held = [r \in Requests |-> {}]
  BY DEF Init, InitRoutes, InitStore
<1>2. IsFiniteSet(Seed) /\ MaxDay \in Nat \ {0} BY AutomationAssumption
<1>3. Types
  <2>1. \A r \in Requests : pc[r] \in PCs BY <1>1 DEF PCs
  <2> QED BY <1>1, <1>2, <2>1, FS_EmptySet DEF Types
<1>4. day \in 1..MaxDay /\ seq \in Nat
  <2>1. Of(Seed, "event") \subseteq Seed BY DEF Of
  <2> QED BY <1>1, <1>2, <2>1, FinitePart
<1>5. \A x \in Seed : x.id[1] \in {"workflow", "event", "user"}
  <2>1. \A i \in Id("workflow") : i[1] = "workflow" BY DEF Id
  <2>2. \A i \in EventIds : i[1] = "event" BY DEF EventIds, Id
  <2>3. \A i \in Id("user") : i[1] = "user" BY DEF Id
  <2> QED BY <2>1, <2>2, <2>3, AutomationAssumption DEF WorkflowRow, EventRow
<1>6. RowsOK
  <2>1. ASSUME NEW x \in Seed, x.id[1] = "workflow" PROVE GivenBy(x, committed)
    <3>1. x \in Workflows BY <2>1 DEF Workflows, Of
    <3>2. x \in WorkflowRow BY <1>1, <3>1, WorkflowsTyped
    <3>3. x.max \in LimitsBy(x.id, committed) /\ x.order \in OrdersBy(x.id, committed)
      BY <3>1 DEF LimitsBy, OrdersBy
    <3> QED BY <3>1, <3>2, <3>3 DEF GivenBy, Known
  <2>2. \A x, y \in Seed : x.id = y.id => x = y BY AutomationAssumption
  <2> QED BY <1>1, <1>5, <2>1, <2>2 DEF RowsOK
<1>7. LocksOK BY <1>1 DEF LocksOK, InForce
<1>8. BoundOK
  <2>1. ASSUME NEW i \in Ids(Workflows), NEW d \in 1..MaxDay PROVE Bound(Seed, i, d)
    <3> SUFFICES ASSUME None \notin Limits(i)
                 PROVE  \E n \in Limits(i) : Cardinality(Spent(Seed, i, d)) <= n
      BY DEF Bound
    <3>1. PICK w \in Workflows : w.id = i BY DEF Ids
    <3>2. w.max \in Limits(i) BY <3>1 DEF Limits
    <3>3. w.max \in Nat BY <1>3, <3>2, LimitsTyped DEF Types
    <3>4. Spent(Seed, i, d) = {} BY <1>5 DEF Spent, Executions, Of
    <3>5. Cardinality(Spent(Seed, i, d)) = 0 BY <3>4, FS_EmptySet
    <3> QED BY <3>2, <3>3, <3>5
  <2>2. \A r \in Requests : View(r) = Seed BY <1>1 DEF View, Ids
  <2> QED BY <1>1, <2>1, <2>2 DEF BoundOK
<1>9. ASSUME NEW r \in Requests PROVE Own(r)
  <2>1. /\ put[r] = {} /\ held[r] = {} /\ session[r] = "active" /\ r \notin committed
        /\ pc[r] \in {"start", "done"}
    BY <1>1
  <2>2. PutOK(r) BY <2>1 DEF PutOK
  <2>3. PathOK(r) BY <2>1 DEF PathOK, InBatch
  <2>4. AnchorOK(r) /\ BatchOK(r) /\ OrderOK(r) /\ LossOK(r)
    BY <2>1 DEF AnchorOK, BatchOK, OrderOK, LossOK, InBatch
  <2> QED BY <2>2, <2>3, <2>4 DEF Own
<1> QED BY <1>3, <1>4, <1>6, <1>7, <1>8, <1>9 DEF Inv

\* The inductive invariant of the automation: what every request holds where it is, that nobody
\* holds another's lock, and that no transaction sees more executions than a limit allows.
THEOREM Invariance == Spec => []Inv
<1>1. Inv /\ [Next]_amvars => Inv' BY NextInv
<1> QED BY <1>1, InvInit, PTL DEF Spec

-----------------------------------------------------------------------------
(* What follows from it. *)

\* acquire_daily_rate_limit_lock, count_executions_today and the insert of the execution: however
\* many batches run, whatever they are called with and whoever changes a limit meanwhile, a workflow
\* that always had a daily limit has no more executions stored for a day than the highest limit it
\* was given, but for those that say the limit was reached.
THEOREM LimitsHold == Spec => []DailyLimitKept
<1>1. ASSUME Inv PROVE DailyLimitKept
  <2> SUFFICES ASSUME NEW w \in Of(rows, "workflow"), NEW d \in 1..MaxDay, None \notin Limits(w.id)
               PROVE  \E n \in Limits(w.id) : Cardinality(Spent(rows, w.id, d)) <= n
    BY DEF DailyLimitKept
  <2>1. GivenBy(w, committed) BY <1>1 DEF Inv, RowsOK, Of
  <2>2. w.id \in Ids(Workflows) BY <2>1 DEF GivenBy, Known, Ids
  <2> QED BY <1>1, <2>2 DEF Inv, BoundOK, Bound
<1> QED BY <1>1, Invariance, PTL

\* CreateTask, Act and Lock: a batch that answers and then has nothing to commit has lost its
\* transaction to an action with a value or a user that the database refuses, or to a deadlock, for
\* which it takes two batches and either several events or two workflows in no order.
THEOREM LossesAreExplained == Spec => []LossNeedsRefusal
<1>1. Inv => LossNeedsRefusal BY DEF Inv, Own, LossOK, LossNeedsRefusal
<1> QED BY <1>1, Invariance, PTL

\* create_pending, update_confirmed and update_failed, over one commit: an anchor that is stored is
\* confirmed, with the receipt of the pass that read its tip, whatever other passes do.
THEOREM AnchorsConfirmed == Spec => []AnchorsAreStamped
<1>1. ASSUME Inv PROVE AnchorsAreStamped
  <2> SUFFICES ASSUME NEW a \in rows, a.id[1] = "anchor"
               PROVE  /\ a.status = "confirmed" /\ a.receipt \in committed
                      /\ got[a.receipt].tip = a.tip /\ got[a.receipt].anchor = a.id
    BY DEF AnchorsAreStamped, Of
  <2>1. PICK q \in committed : a = Confirmed(q) /\ got[q].anchor = <<"anchor", q>>
    BY <1>1 DEF Inv, RowsOK
  <2> QED BY <2>1 DEF Confirmed
<1> QED BY <1>1, Invariance, PTL

\* No step of any request, and no pass of another process, replaces or removes a stored anchor.
THEOREM AnchorsNeverChange == Spec => AnchorsAreFinal
<1>1. ASSUME Inv, [Next]_amvars
      PROVE  [Of(rows, "anchor") \subseteq Of(rows', "anchor")]_rows
  <2>1. ASSUME NEW r \in Requests, Keeps(r) PROVE Of(rows, "anchor") \subseteq Of(rows', "anchor")
    BY <1>1, <2>1, AnchorsStay DEF Inv, Own, Keeps
  <2>2. ASSUME NEW r \in Requests, Batch(r) PROVE Keeps(r) BY <1>1, <2>2, BatchActOK
  <2>3. ASSUME NEW r \in Requests,
             (WorkflowRoute(r) \/ Anchor(r) \/ Answer(r) \/ Commit(r) \/ Abort(r)) /\ UNCHANGED Ours
        PROVE  Keeps(r)
    BY <1>1, <2>3, RequestOK
  <2>4. NextDay \/ AllDone \/ UNCHANGED amvars => rows' = rows
    BY DEF NextDay, AllDone, Untouched, amvars, vars
  <2> QED BY <1>1, <2>1, <2>2, <2>3, <2>4 DEF Next
<1> QED BY <1>1, Invariance, PTL DEF Spec, AnchorsAreFinal

-----------------------------------------------------------------------------
(* The process: its calls of the cache, and its connections. *)

Message == [n : Nat, tenant : Tenants, kind : Kinds]

\* ProcessTypes, of what a message is and of what a client has received, too.
SocketTypes ==
  /\ SocketTypeOK
  /\ queue \in Seq(Message)
  /\ sending \in Nat
  /\ received \in [Sockets -> Seq(Nat)]
  /\ due \in [Sockets -> Seq(Nat)]

ProcessTypes == ProcessTypeOK /\ SocketTypes

\* A call that will use a client again, and finds none, was robbed of it; only the calls and
\* connections of the load do anything, and none of them before or after the server is up.
CallInv(c) ==
  /\ at[c] = "ping" \/ (c \in Scans /\ at[c] \in {"call", "retry"}) =>
       redis # NoClient \/ c \in crossed
  /\ answer[c] = "raised" => c \in crossed
  /\ at[c] # "idle" => c \in load.callers
  /\ life # "up" => at[c] \in {"idle", "end"}

\* A connection is registered for its own tenant while it is served, and as long as its client is
\* there; the message on its way goes to those that were registered when it was forwarded; and
\* only clients that have gone refuse a message.
SocketInv(w) ==
  /\ \A t \in Tenants : w \in conns[t] =>
       door[w] = "serve" /\ TenantOf[w] = t /\ registered[w] = t
  /\ door[w] \in {"accept", "serve"} => TenantOf[w] \in Tenants
  /\ door[w] \in {"token", "accept"} => due[w] = received[w] /\ w \notin pending
  /\ w \in dead => w \notin present
  /\ door[w] = "serve" /\ w \in present =>
       /\ w \in conns[TenantOf[w]]
       /\ due[w] = IF task = "sending" /\ w \in pending
                   THEN Append(received[w], sending) ELSE received[w]
  /\ door[w] # "token" => w \in load.sockets
  /\ life # "up" => door[w] \in {"token", "closed"}

CallsInv == \A c \in Callers : CallInv(c)
SocketsInv == \A w \in Sockets : SocketInv(w)
ProcessInv == ProcessTypes /\ CallsInv /\ SocketsInv

-----------------------------------------------------------------------------
LEMMA ProcessInitInv == ProcessInit => ProcessInv
<1> SUFFICES ASSUME ProcessInit
             PROVE  ProcessInv
  OBVIOUS
<1> USE DEF ProcessInit, InitCache, InitSockets
<1>1. ProcessTypes
  <2>1. CacheTypeOK
    BY DEF CacheTypeOK, Answers
  <2>2. SocketTypeOK
    BY MessagingAssumption, EmptySeq DEF SocketTypeOK
  <2>3. << >> \in Seq(Message) /\ << >> \in Seq(Nat)
    BY EmptySeq
  <2> QED
    BY <2>1, <2>2, <2>3 DEF ProcessTypes, ProcessTypeOK, SocketTypes
<1>2. CallsInv
  BY DEF CallsInv, CallInv
<1>3. SocketsInv
  BY DEF SocketsInv, SocketInv
<1> QED
  BY <1>1, <1>2, <1>3 DEF ProcessInv

-----------------------------------------------------------------------------
(* Calls of the cache. *)

\* What a step of call c leaves to the others.
OtherCalls(c) == \A d \in Callers \ {c} : at'[d] = at[d] /\ answer'[d] = answer[d]

LEMMA UseClientOK ==
  ASSUME CacheTypeOK, NEW c \in Callers, NEW p, UseClient(c, p)
  PROVE  /\ redis = NoClient => at'[c] = "end" /\ answer'[c] = "raised"
         /\ redis # NoClient => at'[c] = p /\ answer'[c] = answer[c]
         /\ OtherCalls(c)
BY DEF UseClient, Return, GoOn, CacheTypeOK, OtherCalls

LEMMA ReturnOK ==
  ASSUME CacheTypeOK, NEW c \in Callers, NEW what, Return(c, what)
  PROVE  at'[c] = "end" /\ answer'[c] = what /\ OtherCalls(c)
BY DEF Return, CacheTypeOK, OtherCalls

\* A call's step keeps CallInv, its own and the others', and the types.
LEMMA CallStep ==
  ASSUME ProcessInv, life = "up", life' = life, load' = load, NEW c \in load.callers, CacheStep(c)
  PROVE  CallsInv' /\ CacheTypeOK'
<1>1. c \in Callers /\ NoClient \notin Callers /\ load.callers \subseteq Callers
  BY CacheAssumption, ProcessAssumption DEF ProcessInv, ProcessTypes, ProcessTypeOK
<1>2. CacheTypeOK /\ \A d \in Callers : CallInv(d)
  BY DEF ProcessInv, ProcessTypes, ProcessTypeOK, CallsInv
<1>3. CacheTypeOK'
  <2>1. \A what \in Answers : Return(c, what) =>
          /\ at' \in [Callers -> {"idle", "call", "closing", "ping", "retry", "end"}]
          /\ answer' \in [Callers -> Answers]
    BY <1>2 DEF Return, CacheTypeOK
  <2>2. \A p \in {"call", "closing", "ping", "retry"} : GoOn(c, p) =>
          /\ at' \in [Callers -> {"idle", "call", "closing", "ping", "retry", "end"}]
          /\ answer' \in [Callers -> Answers]
    BY <1>2 DEF GoOn, CacheTypeOK
  <2>3. \/ \E what \in Answers : Return(c, what)
        \/ \E p \in {"call", "closing", "ping", "retry"} : GoOn(c, p)
    BY DEF CacheStep, Call, Served, NextBatch, Lose, Replace, Reconnected, ReconnectFailed,
           UseClient, Answers
  <2>4. /\ redis' \in {NoClient, Startup} \cup Callers /\ connected' \in BOOLEAN
        /\ crossed' \subseteq Callers
    BY <1>1, <1>2 DEF CacheStep, Call, Served, NextBatch, Lose, Replace, Reconnected,
                      ReconnectFailed, CacheTypeOK, Robbed
  <2> QED
    BY <2>1, <2>2, <2>3, <2>4 DEF CacheTypeOK
<1> SUFFICES \A d \in Callers : CallInv(d)'
  BY <1>3 DEF CallsInv
\* Whoever else may need the client again keeps it, or is robbed.
<1>4. ASSUME OtherCalls(c), crossed \subseteq crossed',
             redis' # NoClient \/ redis' = redis \/ Robbed(c) \subseteq crossed',
             NEW d \in Callers, d # c
      PROVE  CallInv(d)'
  BY <1>2, <1>4 DEF OtherCalls, CallInv, Robbed
<1>5. ASSUME OtherCalls(c), crossed' = crossed, redis' = redis,
             \/ at'[c] = "end" /\ (answer'[c] = "raised" => c \in crossed)
             \/ at'[c] # "idle" /\ answer'[c] = answer[c] /\ redis # NoClient
             \/ at'[c] = "closing" /\ answer'[c] = answer[c]
      PROVE  \A d \in Callers : CallInv(d)'
  <2>1. CallInv(c)'
    BY <1>1, <1>2, <1>5 DEF CallInv
  <2> QED
    BY <1>4, <1>5, <2>1
<1>6. CASE Call(c)
  <2>1. CASE Available
    BY <1>1, <1>2, <1>5, <1>6, <2>1, UseClientOK DEF Call, Available
  <2>2. CASE ~Available
    BY <1>1, <1>2, <1>5, <1>6, <2>2, ReturnOK DEF Call
  <2> QED
    BY <2>1, <2>2
<1>7. CASE Served(c)
  BY <1>1, <1>2, <1>5, <1>7, ReturnOK DEF Served
<1>8. CASE NextBatch(c)
  BY <1>1, <1>2, <1>5, <1>8, UseClientOK DEF NextBatch, CallInv
<1>9. CASE Lose(c)
  <2>1. CASE redis = NoClient
    BY <1>1, <1>2, <1>5, <1>9, <2>1, ReturnOK DEF Lose
  <2>2. CASE redis # NoClient
    <3>1. at'[c] = "closing" /\ answer'[c] = answer[c] /\ OtherCalls(c)
      BY <1>1, <1>2, <1>9, <2>2 DEF Lose, GoOn, CacheTypeOK, OtherCalls
    <3> QED
      BY <1>5, <1>9, <2>2, <3>1 DEF Lose
  <2> QED
    BY <2>1, <2>2
<1>10. CASE Replace(c)
  <2>1. /\ at'[c] = "ping" /\ answer'[c] = answer[c] /\ OtherCalls(c) /\ at[c] = "closing"
        /\ redis' = c /\ crossed' = crossed
    BY <1>1, <1>2, <1>10 DEF Replace, GoOn, CacheTypeOK, OtherCalls
  <2>2. CallInv(c)'
    BY <1>1, <1>2, <2>1 DEF CallInv
  <2> QED
    BY <1>1, <1>4, <2>1, <2>2
<1>11. CASE Reconnected(c)
  BY <1>1, <1>2, <1>5, <1>11, UseClientOK DEF Reconnected, CallInv
<1>12. CASE ReconnectFailed(c)
  <2>1. /\ at'[c] = "end" /\ answer'[c] = "unavailable" /\ OtherCalls(c)
        /\ crossed' = crossed \cup Robbed(c)
    BY <1>1, <1>2, <1>12, ReturnOK DEF ReconnectFailed
  <2>2. CallInv(c)'
    BY <2>1 DEF CallInv
  <2> QED
    BY <1>4, <2>1, <2>2
<1> QED
  BY <1>6, <1>7, <1>8, <1>9, <1>10, <1>11, <1>12 DEF CacheStep

-----------------------------------------------------------------------------
(* Connections, and the task that forwards messages to them. *)

\* What the lemmas below assume: the server is up, before and after.
Up == life = "up" /\ life' = life /\ load' = load

LEMMA EndpointStep ==
  ASSUME SocketTypes, SocketsInv, Up, load.sockets \subseteq Sockets, NEW w \in load.sockets,
         Endpoint(w)
  PROVE  SocketTypes' /\ SocketsInv'
<1>1. w \in Sockets /\ \A v \in Sockets : SocketInv(v)
  BY DEF SocketsInv
<1>2. /\ conns \in [Tenants -> SUBSET Sockets]
      /\ registered \in [Sockets -> Tenants \cup {NoTenant}]
      /\ door \in [Sockets -> {"token", "accept", "serve", "closed"}]
      /\ present \subseteq Sockets
  BY DEF SocketTypes, SocketTypeOK
<1>3. /\ UNCHANGED <<queue, published, task, pending, dead, sending, received, due>>
      /\ present' \subseteq present
      /\ \A v \in Sockets \ {w} : v \in present => v \in present'
  BY <1>1 DEF Endpoint, CheckToken, Accept, Leave, HangUp
\* What the step does to w's door, and leaves to the others'.
<1>4. ASSUME /\ door' \in [Sockets -> {"token", "accept", "serve", "closed"}]
             /\ conns' \in [Tenants -> SUBSET Sockets]
             /\ registered' \in [Sockets -> Tenants \cup {NoTenant}],
             \A v \in Sockets \ {w} :
               /\ door'[v] = door[v] /\ registered'[v] = registered[v]
               /\ \A t \in Tenants : v \in conns'[t] <=> v \in conns[t],
             SocketInv(w)'
      PROVE  SocketTypes' /\ SocketsInv'
  <2>1. SocketTypes'
    BY <1>2, <1>3, <1>4 DEF SocketTypes, SocketTypeOK, Running
  <2>2. ASSUME NEW v \in Sockets, v # w
        PROVE  SocketInv(v)'
    <3>1. v \in present' <=> v \in present
      BY <1>3, <2>2
    <3> QED
      BY <1>1, <1>3, <1>4, <2>2, <3>1 DEF SocketInv, Up
  <2> QED
    BY <1>4, <2>1, <2>2 DEF SocketsInv
<1>5. CASE CheckToken(w)
  <2>1. UNCHANGED <<conns, registered>>
    BY <1>5 DEF CheckToken
  <2>2. /\ door' \in [Sockets -> {"token", "accept", "serve", "closed"}]
        /\ \A v \in Sockets \ {w} : door'[v] = door[v]
        /\ door[w] = "token"
        /\ door'[w] = IF TenantOf[w] = NoTenant THEN "closed" ELSE "accept"
    BY <1>1, <1>2, <1>5 DEF CheckToken
  <2>3. TenantOf[w] # NoTenant => TenantOf[w] \in Tenants
    BY <1>1, MessagingAssumption
  <2>4. SocketInv(w)'
    BY <1>1, <1>3, <2>1, <2>2, <2>3 DEF SocketInv, Up
  <2> QED
    BY <1>2, <1>4, <2>1, <2>2, <2>4
<1>6. CASE Accept(w)
  <2>1. /\ door' \in [Sockets -> {"token", "accept", "serve", "closed"}]
        /\ \A v \in Sockets \ {w} : door'[v] = door[v]
        /\ door[w] = "accept" /\ TenantOf[w] \in Tenants
    BY <1>1, <1>2, <1>6 DEF Accept, SocketInv
  <2>2. CASE w \notin present /\ door' = [door EXCEPT ![w] = "closed"]
             /\ UNCHANGED <<conns, registered>>
    <3>1. door'[w] = "closed"
      BY <1>1, <1>2, <2>2
    <3>2. SocketInv(w)'
      BY <1>1, <1>3, <2>1, <2>2, <3>1 DEF SocketInv, Up
    <3> QED
      BY <1>2, <1>4, <2>1, <2>2, <3>2
  <2>3. CASE Register(w, TenantOf[w]) /\ door' = [door EXCEPT ![w] = "serve"]
    <3>1. /\ conns' \in [Tenants -> SUBSET Sockets]
          /\ registered' \in [Sockets -> Tenants \cup {NoTenant}]
          /\ \A v \in Sockets \ {w} :
               registered'[v] = registered[v] /\ \A t \in Tenants : v \in conns'[t] <=> v \in conns[t]
          /\ registered'[w] = TenantOf[w] /\ w \in conns'[TenantOf[w]]
          /\ \A t \in Tenants \ {TenantOf[w]} : conns'[t] = conns[t]
      BY <1>1, <1>2, <2>1, <2>3 DEF Register
    <3>2. door'[w] = "serve"
      BY <1>1, <1>2, <2>3
    <3>3. \A t \in Tenants : w \notin conns[t]
      BY <1>1, <2>1 DEF SocketInv
    <3>4. SocketInv(w)'
      BY <1>1, <1>3, <2>1, <3>1, <3>2, <3>3 DEF SocketInv, Up
    <3> QED
      BY <1>4, <2>1, <3>1, <3>4
  <2> QED
    BY <1>6, <2>2, <2>3 DEF Accept
<1>7. CASE Leave(w)
  <2>1. /\ door' \in [Sockets -> {"token", "accept", "serve", "closed"}]
        /\ \A v \in Sockets \ {w} : door'[v] = door[v]
        /\ door[w] = "serve" /\ door'[w] = "closed"
        /\ w \notin present'
    BY <1>1, <1>2, <1>7 DEF Leave
  <2>2. /\ conns' \in [Tenants -> SUBSET Sockets]
        /\ registered' \in [Sockets -> Tenants \cup {NoTenant}]
        /\ \A v \in Sockets \ {w} :
             registered'[v] = registered[v] /\ \A t \in Tenants : v \in conns'[t] <=> v \in conns[t]
        /\ \A t \in Tenants : w \in conns'[t] => w \in conns[t] /\ registered[w] # t
    BY <1>1, <1>2, <1>7 DEF Leave, Unregister
  <2>3. \A t \in Tenants : w \notin conns'[t]
    BY <1>1, <2>2 DEF SocketInv
  <2>4. SocketInv(w)'
    BY <1>1, <1>3, <2>1, <2>3 DEF SocketInv, Up
  <2> QED
    BY <1>4, <2>1, <2>2, <2>4
<1>8. CASE HangUp(w)
  <2>1. UNCHANGED <<conns, registered, door>> /\ w \notin present'
    BY <1>8 DEF HangUp
  <2>2. SocketInv(w)'
    BY <1>1, <1>3, <2>1 DEF SocketInv, Up
  <2> QED
    BY <1>2, <1>4, <2>1, <2>2
<1> QED
  BY <1>5, <1>6, <1>7, <1>8 DEF Endpoint

LEMMA PublishStep ==
  ASSUME SocketTypes, SocketsInv, Up, Publish
  PROVE  SocketTypes' /\ SocketsInv'
<1>1. PICK t \in Tenants, k \in Kinds :
        queue' = IF task \in {"listening", "sending"}
                 THEN Append(queue, [n |-> published', tenant |-> t, kind |-> k]) ELSE queue
  BY DEF Publish
<1>2. /\ published \in 0..MaxPublished /\ published < MaxPublished /\ published' = published + 1
      /\ queue \in Seq(Message) /\ Len(queue) <= published
      /\ UNCHANGED <<conns, registered, door, present, task, pending, dead, sending, received, due>>
  BY DEF Publish, SocketTypes, SocketTypeOK
<1>3. published' \in 0..MaxPublished /\ published' \in Nat
  BY <1>2, MessagingAssumption
<1>4. [n |-> published', tenant |-> t, kind |-> k] \in Message
  BY <1>3 DEF Message
<1>5. queue' \in Seq(Message) /\ Len(queue') <= published'
  BY <1>1, <1>2, <1>4, AppendProperties
<1>6. SocketTypes'
  BY <1>2, <1>3, <1>5 DEF SocketTypes, SocketTypeOK, Running
<1>7. SocketsInv'
  BY <1>2 DEF SocketsInv, SocketInv, Up
<1> QED
  BY <1>6, <1>7

LEMMA ForwardStep ==
  ASSUME SocketTypes, SocketsInv, Up, Forward
  PROVE  SocketTypes' /\ SocketsInv'
<1> DEFINE m == Head(queue)
<1>1. /\ conns \in [Tenants -> SUBSET Sockets] /\ present \subseteq Sockets
      /\ queue \in Seq(Message) /\ queue # << >> /\ Len(queue) <= published
      /\ task = "listening" /\ published \in Nat
      /\ received \in [Sockets -> Seq(Nat)] /\ due \in [Sockets -> Seq(Nat)] /\ sending \in Nat
  BY DEF Forward, SocketTypes, SocketTypeOK
<1>2. m \in Message /\ Tail(queue) \in Seq(Message) /\ Len(Tail(queue)) <= published
  BY <1>1, HeadTailProperties
<1>3. /\ m.n \in Nat /\ m.tenant \in Tenants /\ m.kind \in Kinds
      /\ conns[m.tenant] \subseteq Sockets
  BY <1>1, <1>2 DEF Message
<1>4. /\ UNCHANGED <<conns, registered, door, present, published, dead, received>>
      /\ queue' = Tail(queue)
      /\ task' = CASE m.kind = "object" -> "sending" [] m.kind = "not_json" -> "listening"
                   [] m.kind = "not_object" -> "ended"
      /\ sending' = IF m.kind = "object" THEN m.n ELSE sending
      /\ pending' = IF m.kind = "object" THEN conns[m.tenant] ELSE {}
      /\ due' = [w \in Sockets |->
                   IF /\ m.kind = "object"
                      /\ w \in {v \in present : door[v] = "serve" /\ TenantOf[v] = m.tenant}
                   THEN Append(due[w], m.n) ELSE due[w]]
  BY DEF Forward, Recipients
<1> HIDE DEF m
<1>5. SocketTypes'
  <2>1. task' \in Running \cup {"ended"}
    BY <1>3, <1>4 DEF Kinds, Running
  <2>2. \A w \in Sockets : due[w] \in Seq(Nat) /\ Append(due[w], m.n) \in Seq(Nat)
    BY <1>1, <1>3, AppendProperties
  <2>3. due' \in [Sockets -> Seq(Nat)]
    BY <1>4, <2>2
  <2>4. sending' \in Nat /\ pending' \subseteq Sockets
    BY <1>1, <1>3, <1>4
  <2> QED
    BY <1>1, <1>2, <1>4, <2>1, <2>3, <2>4 DEF SocketTypes, SocketTypeOK, Running
\* The connections served and there are those that were sent to.
<1>6. ASSUME NEW w \in Sockets
      PROVE  SocketInv(w)'
  <2>1. SocketInv(w)
    BY DEF SocketsInv
  <2>2. due'[w] = IF /\ m.kind = "object" /\ w \in present /\ door[w] = "serve"
                     /\ TenantOf[w] = m.tenant
                  THEN Append(due[w], m.n) ELSE due[w]
    BY <1>4
  <2>3. w \in pending' => m.kind = "object" /\ w \in conns[m.tenant]
    BY <1>4
  <2>4. ASSUME door[w] \in {"token", "accept"}
        PROVE  due'[w] = received'[w] /\ w \notin pending'
    BY <1>3, <1>4, <2>1, <2>2, <2>3, <2>4 DEF SocketInv
  <2>5. ASSUME door[w] = "serve", w \in present
        PROVE  due'[w] = IF task' = "sending" /\ w \in pending'
                         THEN Append(received'[w], sending') ELSE received'[w]
    <3>1. due[w] = received[w] /\ w \in conns[TenantOf[w]] /\ TenantOf[w] \in Tenants
      BY <1>1, <2>1, <2>5 DEF SocketInv
    <3>2. CASE m.kind = "object" /\ TenantOf[w] = m.tenant
      BY <1>4, <2>2, <2>5, <3>1, <3>2
    <3>3. CASE m.kind # "object" \/ TenantOf[w] # m.tenant
      <4>1. w \notin pending'
        BY <1>3, <2>1, <2>3, <3>3 DEF SocketInv
      <4> QED
        BY <1>4, <2>2, <3>1, <3>3, <4>1
    <3> QED
      BY <3>2, <3>3
  <2> QED
    BY <1>4, <2>1, <2>4, <2>5 DEF SocketInv, Up
<1> QED
  BY <1>5, <1>6 DEF SocketsInv

LEMMA SendStep ==
  ASSUME SocketTypes, SocketsInv, Up, NEW w \in Sockets, Send(w)
  PROVE  SocketTypes' /\ SocketsInv'
<1>1. /\ received \in [Sockets -> Seq(Nat)] /\ sending \in Nat
      /\ task = "sending" /\ w \in pending /\ pending' = pending \ {w}
      /\ UNCHANGED <<conns, registered, door, present, queue, published, task, sending, due>>
  BY DEF Send, SocketTypes
<1>2. \A v \in Sockets : SocketInv(v)
  BY DEF SocketsInv
<1>3. Append(received[w], sending) \in Seq(Nat)
  BY <1>1, AppendProperties
<1>4. ASSUME w \in present, received' = [received EXCEPT ![w] = Append(@, sending)], dead' = dead
      PROVE  SocketTypes' /\ SocketsInv'
  <2>1. received' \in [Sockets -> Seq(Nat)]
    BY <1>1, <1>3, <1>4
  <2>2. SocketTypes'
    BY <1>1, <1>4, <2>1 DEF SocketTypes, SocketTypeOK, Running
  <2>3. ASSUME NEW v \in Sockets, v # w
        PROVE  SocketInv(v)'
    <3>1. received'[v] = received[v] /\ (v \in pending' <=> v \in pending)
      BY <1>1, <1>4, <2>3
    <3> QED
      BY <1>1, <1>2, <1>4, <3>1 DEF SocketInv, Up
  <2>4. SocketInv(w)'
    <3>1. received'[w] = Append(received[w], sending) /\ w \notin pending'
      BY <1>1, <1>4
    <3> QED
      BY <1>1, <1>2, <1>4, <3>1 DEF SocketInv, Up
  <2> QED
    BY <2>2, <2>3, <2>4 DEF SocketsInv
<1>5. ASSUME w \notin present, dead' \in {dead, dead \cup {w}}, received' = received
      PROVE  SocketTypes' /\ SocketsInv'
  <2>1. SocketTypes'
    BY <1>1, <1>5 DEF SocketTypes, SocketTypeOK, Running
  <2>2. ASSUME NEW v \in Sockets
        PROVE  SocketInv(v)'
    <3>1. v # w => (v \in pending' <=> v \in pending)
      BY <1>1
    <3>2. v \in dead' => v \notin present
      BY <1>2, <1>5 DEF SocketInv
    <3>3. v \notin pending => v \notin pending'
      BY <1>1
    <3> QED
      BY <1>1, <1>2, <1>5, <3>1, <3>2, <3>3 DEF SocketInv, Up
  <2> QED
    BY <2>1, <2>2 DEF SocketsInv
<1> QED
  BY <1>4, <1>5 DEF Send

LEMMA SentStep ==
  ASSUME SocketTypes, SocketsInv, Up, Sent
  PROVE  SocketTypes' /\ SocketsInv'
<1>1. /\ conns \in [Tenants -> SUBSET Sockets]
      /\ registered \in [Sockets -> Tenants \cup {NoTenant}]
      /\ task = "sending" /\ task' = "listening" /\ pending = {} /\ dead' = {}
      /\ UNCHANGED <<door, present, queue, published, pending, sending, received, due>>
  BY DEF Sent, SocketTypes, SocketTypeOK
<1>2. /\ conns' = [t \in Tenants |-> conns[t] \ {w \in dead : registered[w] = t}]
      /\ registered' = [w \in Sockets |-> IF w \in dead THEN NoTenant ELSE registered[w]]
  BY DEF Sent, Unregister
<1>3. SocketTypes'
  <2>1. conns' \in [Tenants -> SUBSET Sockets]
    BY <1>1, <1>2
  <2>2. registered' \in [Sockets -> Tenants \cup {NoTenant}]
    BY <1>1, <1>2
  <2> QED
    BY <1>1, <2>1, <2>2 DEF SocketTypes, SocketTypeOK, Running
<1>4. ASSUME NEW w \in Sockets
      PROVE  SocketInv(w)'
  <2>1. SocketInv(w)
    BY DEF SocketsInv
  <2>2. \A t \in Tenants : w \in conns'[t] => w \in conns[t] /\ ~ (w \in dead /\ registered[w] = t)
    BY <1>2
  <2>3. \A t \in Tenants : w \in conns'[t] => w \in conns[t] /\ registered'[w] = registered[w]
    BY <1>2, <2>1, <2>2 DEF SocketInv
  <2>4. w \in present => \A t \in Tenants : w \in conns[t] => w \in conns'[t]
    BY <1>2, <2>1 DEF SocketInv
  <2> QED
    BY <1>1, <2>1, <2>3, <2>4 DEF SocketInv, Up
<1> QED
  BY <1>3, <1>4 DEF SocketsInv

LEMMA ConnectionStep ==
  ASSUME SocketTypes, SocketsInv, Up, Subscribe \/ LoseRedis
  PROVE  SocketTypes' /\ SocketsInv'
<1>1. /\ UNCHANGED <<conns, registered, door, present, published, pending, dead, sending,
                       received, due>>
      /\ queue' \in {queue, << >>}
      /\ \/ task' \in {"listening", "ended", "failed"} /\ task \in {"connecting", "listening"}
         \/ task' = "sending" /\ task = "sending"
  BY DEF Subscribe, LoseRedis
<1>2. queue' \in Seq(Message) /\ Len(queue') <= published'
  <2>1. published \in Nat /\ published' = published /\ queue \in Seq(Message)
        /\ Len(queue) <= published
    BY <1>1, MessagingAssumption DEF SocketTypes, SocketTypeOK
  <2>2. CASE queue' = queue
    BY <2>1, <2>2
  <2>3. CASE queue' = << >>
    <3>1. Len(queue') = 0 /\ queue' \in Seq(Message)
      BY <2>3
    <3> QED
      BY <2>1, <3>1
  <2> QED
    BY <1>1, <2>2, <2>3
<1>3. SocketTypes'
  BY <1>1, <1>2 DEF SocketTypes, SocketTypeOK, Running
<1>4. task' = "sending" <=> task = "sending"
  BY <1>1
<1>5. SocketsInv'
  BY <1>1, <1>4 DEF SocketsInv, SocketInv, Up
<1> QED
  BY <1>3, <1>5

-----------------------------------------------------------------------------
(* The process. *)

\* Nothing of it is running: no call, no connection.
Still ==
  /\ \A c \in Callers : at[c] \in {"idle", "end"}
  /\ \A w \in Sockets : door[w] \in {"token", "closed"}

\* Starting and stopping change neither calls nor connections, and happen while all is still.
LEMMA LifeStep ==
  ASSUME ProcessInv, Still, load' = load, UNCHANGED <<at, answer, crossed>>,
         UNCHANGED <<conns, registered, door, present, published, sending, received, due>>,
         redis' \in {redis, NoClient, Startup}, connected' \in BOOLEAN,
         life' \in {"ping", "task", "up", "await", "close", "down", "aborted"},
         task' \in Running \cup {"none", "ended", "failed"},
         queue' \in {queue, << >>}, pending' \in {pending, {}}, dead' \in {dead, {}}
  PROVE  ProcessInv'
<1>1. CallsInv'
  BY DEF ProcessInv, CallsInv, CallInv, Still
<1>2. SocketsInv'
  <2>1. \A w \in Sockets : (w \in pending' => w \in pending) /\ (w \in dead' => w \in dead)
    OBVIOUS
  <2> QED
    BY <2>1 DEF ProcessInv, SocketsInv, SocketInv, Still
<1>3. CacheTypeOK'
  BY DEF ProcessInv, ProcessTypes, ProcessTypeOK, CacheTypeOK, Answers
<1>4. SocketTypes'
  <2>1. queue' \in Seq(Message) /\ Len(queue') <= published'
    <3>1. published \in Nat /\ published' = published /\ queue \in Seq(Message)
          /\ Len(queue) <= published
      BY MessagingAssumption DEF ProcessInv, ProcessTypes, SocketTypes, SocketTypeOK
    <3>2. CASE queue' = queue
      BY <3>1, <3>2
    <3>3. CASE queue' = << >>
      <4>1. Len(queue') = 0 /\ queue' \in Seq(Message)
        BY <3>3
      <4> QED
        BY <3>1, <4>1
    <3> QED
      BY <3>2, <3>3
  <2> QED
    BY <2>1 DEF ProcessInv, ProcessTypes, SocketTypes, SocketTypeOK, Running
<1>5. ProcessTypeOK'
  BY <1>3, <1>4 DEF ProcessInv, ProcessTypes, ProcessTypeOK, SocketTypes
<1> QED
  BY <1>1, <1>2, <1>4, <1>5 DEF ProcessInv, ProcessTypes

LEMMA ProcessNextInv == ProcessInv /\ [ProcessNext]_processVars => ProcessInv'
<1> SUFFICES ASSUME ProcessInv, [ProcessNext]_processVars
             PROVE  ProcessInv'
  OBVIOUS
<1>1. /\ connected \in BOOLEAN /\ task \in Running \cup {"none", "ended", "failed"}
      /\ life \in {"start", "ping", "task", "up", "cancel", "await", "close", "down", "aborted"}
      /\ load \in Loads /\ load.callers \subseteq Callers /\ load.sockets \subseteq Sockets
  BY ProcessAssumption DEF ProcessInv, ProcessTypes, ProcessTypeOK, CacheTypeOK, SocketTypeOK
<1>2. life # "up" => Still
  BY DEF ProcessInv, CallsInv, CallInv, SocketsInv, SocketInv, Still
<1>3. CASE ConnectCache
  <2>1. CASE life = "start" /\ MakeClient /\ Become("ping") /\ UNCHANGED socketVars
    BY <1>1, <1>2, <2>1, LifeStep DEF MakeClient, Become, socketVars
  <2>2. CASE life = "ping" /\ (\E ok \in BOOLEAN : Pinged(ok)) /\ Become("task")
             /\ UNCHANGED socketVars
    BY <1>1, <1>2, <2>2, LifeStep DEF Pinged, Become, socketVars
  <2> QED
    BY <1>3, <2>1, <2>2 DEF ConnectCache
<1>4. CASE StartTask
  BY <1>1, <1>2, <1>4, LifeStep DEF StartTask, Become, cacheVars, Running
\* The server stops when every call has returned and every connection is closed.
<1>5. CASE Stop
  <2>1. Still
    BY <1>5 DEF Stop, Idle, ProcessInv, CallsInv, CallInv, SocketsInv, SocketInv, Still
  <2>2. task' \in Running \cup {"none", "ended", "failed"}
    BY <1>1, <1>5 DEF Stop, Cancelled
  <2> QED
    BY <1>1, <1>5, <2>1, <2>2, LifeStep DEF Stop, Cancelled, Become, cacheVars
<1>6. CASE AwaitTask
  BY <1>1, <1>2, <1>6, LifeStep DEF AwaitTask, Become, cacheVars, socketVars
<1>7. CASE DisconnectCache
  BY <1>1, <1>2, <1>7, LifeStep DEF DisconnectCache, CloseClient, Become, socketVars
<1>8. CASE Ended \/ UNCHANGED processVars
  <2>1. UNCHANGED processVars
    BY <1>8 DEF Ended
  <2> QED
    BY <2>1 DEF processVars, cacheVars, socketVars, ProcessInv, ProcessTypes, ProcessTypeOK,
                CacheTypeOK, SocketTypes, SocketTypeOK, CallsInv, CallInv, SocketsInv, SocketInv
<1>9. CASE Serving /\ UNCHANGED socketVars /\ \E c \in load.callers : CacheStep(c)
  <2>1. CallsInv' /\ CacheTypeOK'
    BY <1>9, CallStep DEF Serving
  <2>2. SocketTypes' /\ SocketsInv'
    BY <1>9 DEF ProcessInv, ProcessTypes, SocketTypes, SocketTypeOK, SocketsInv, SocketInv, Serving,
                socketVars
  <2> QED
    BY <1>1, <1>9, <2>1, <2>2 DEF ProcessInv, ProcessTypes, ProcessTypeOK, SocketTypes, Serving
<1>10. CASE Serving /\ UNCHANGED cacheVars
            /\ (Broadcast \/ Publish \/ \E w \in load.sockets : Endpoint(w))
  <2>1. SocketTypes /\ SocketsInv /\ Up
    BY <1>10 DEF ProcessInv, ProcessTypes, Serving, Up
  <2>2. SocketTypes' /\ SocketsInv'
    BY <1>1, <1>10, <2>1, EndpointStep, PublishStep, ForwardStep, SendStep, SentStep,
       ConnectionStep DEF Broadcast
  <2>3. CallsInv' /\ CacheTypeOK'
    BY <1>10 DEF ProcessInv, ProcessTypes, ProcessTypeOK, CallsInv, CallInv, CacheTypeOK, Serving,
                 cacheVars
  <2> QED
    BY <1>1, <1>10, <2>2, <2>3 DEF ProcessInv, ProcessTypes, ProcessTypeOK, SocketTypes, Serving
<1> QED
  BY <1>3, <1>4, <1>5, <1>6, <1>7, <1>8, <1>9, <1>10 DEF ProcessNext

-----------------------------------------------------------------------------
(* Theorems. *)

THEOREM ProcessInvariance == ProcessSpec => []ProcessInv
<1> QED
  BY ProcessInitInv, ProcessNextInv, PTL DEF ProcessSpec

\* Every state is of the declared types, and only calls and connections of the load do anything
\* (connect, disconnect, the calls of CacheService, ConnectionManager, the broadcast task).
THEOREM ProcessTypeCorrect == ProcessSpec => []ProcessTypeOK
<1>1. ProcessInv => ProcessTypeOK
  BY DEF ProcessInv, ProcessTypes
<1> QED
  BY <1>1, ProcessInvariance, PTL

\* get, set, delete, delete_pattern and clear_all raise nothing, however many calls lose their
\* connection and reconnect at once, but to a call whose client another one's failed
\* reconnection has given up meanwhile.
THEOREM OnlyTheRobbedRaise == ProcessSpec => []RaiseNeedsCrossing
<1>1. ProcessInv => RaiseNeedsCrossing
  BY DEF ProcessInv, CallsInv, CallInv, RaiseNeedsCrossing
<1> QED
  BY <1>1, ProcessInvariance, PTL

\* A client that is still there has received what was forwarded to its tenant since it was
\* served, in order, each message once, and nothing of another tenant: for any number of
\* connections that are accepted, left or lost while a message is sent.
THEOREM ServedClientsMissNothing == ProcessSpec => []ServedMissNothing
<1>1. ProcessInv => ServedMissNothing
  BY DEF ProcessInv, SocketsInv, SocketInv, ServedMissNothing
<1> QED
  BY <1>1, ProcessInvariance, PTL

===============================================================================
