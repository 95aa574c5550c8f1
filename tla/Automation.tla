------------------------------- MODULE Automation -------------------------------
(***************************************************************************)
(* What follows from events: the workflows they trigger, and the anchoring of *)
(* the newest one with a timestamping authority (TSA).                        *)
(*                                                                         *)
(* "bulk" is create_events_bulk with trigger_workflows, in a transaction of    *)
(* get_db_transactional; the chain it appends to is EventAppend's matter.     *)
(* "anchor" is one pass of the anchoring job, in one of several processes,     *)
(* over one tenant.  The rest are the workflow routes.  All are in the frame   *)
(* of module Routes.                                                        *)
(***************************************************************************)
EXTENDS Naturals, Sequences, FiniteSets

CONSTANTS
  Requests,
  Scenarios,   \* what the requests are called with together: functions on Requests
  Seed,        \* the rows at the start
  MaxDay,      \* bound: the days that pass
  None

VARIABLES
  rows, put, gone, audited, session, committed,   \* see Tables
  call, pc, got, before, outcome,                 \* see Routes
  day,    \* the date
  seq,    \* the event_seq assigned last
  held    \* held[r]: the advisory locks r's transaction has taken, <<workflow, day>>

-----------------------------------------------------------------------------
(* The tables: unique keys, references ON DELETE CASCADE, other references. *)

T(keys, owners, needs) == [keys |-> keys, owners |-> owners, needs |-> needs]

WorkflowTable(x) == T({}, {}, {})
ExecutionTable(x) == T({}, {x.workflow}, {})
TaskTable(x) == T({}, {}, {x.user} \ {None})
AnchorTable(x) == T({<<"ix_chain_anchor_tenant_tip", x.tip>>}, {}, {})

Table(x) ==
  CASE x.id[1] = "workflow" -> WorkflowTable(x)
    [] x.id[1] = "execution" -> ExecutionTable(x)
    [] x.id[1] = "task" -> TaskTable(x)
    [] x.id[1] = "anchor" -> AnchorTable(x)
    [] OTHER -> T({}, {}, {})               \* event, user

Keys(x) == Table(x).keys
Owners(x) == Table(x).owners
Needs(x) == Table(x).needs

Unaudited == {"bulk", "anchor"}
Creates == {"create_workflow", "delete_workflow"}

INSTANCE Routes

vars == <<rows, put, gone, audited, session, committed, call, pc, got, before, outcome>>
amvars == <<vars, day, seq, held>>

-----------------------------------------------------------------------------
(* The columns that matter. *)

Id(table) == {i \in Ids(Seed) : i[1] = table} \cup {<<table, r>> : r \in Requests}
EventIds == Id("event") \cup {"event"} \X Requests \X Nat
\* A refused action has a value that the routes let pass and the database does not take, such as a
\* task's title of more than 500 characters.
Action ==
  [type : {"create_task", "create_event", "other"}, user : {None} \cup {"user"} \X STRING,
   refused : BOOLEAN]
WorkflowRow ==
  [id : Id("workflow"), trigger : STRING, condition : {None} \cup STRING,
   max : {None} \cup Nat, order : Nat, actions : Seq(Action), active : BOOLEAN, deleted : BOOLEAN]
ExecutionRow ==
  [id : {"execution"} \X EventIds \X Id("workflow"), workflow : Id("workflow"), day : 1..MaxDay,
   status : {"limited", "running", "completed"}]
TaskRow == [id : {"task"} \X EventIds \X Id("workflow") \X Nat, user : {None} \cup Id("user")]
AnchorRow == [id : Id("anchor"), tip : EventIds, status : {"pending", "confirmed"},
              receipt : {None} \cup Requests]
EventRow == [id : EventIds, seq : Nat, time : Nat, type : STRING, payload : {None} \cup STRING]

\* What a request may be called with; an update leaves what it names None as it is.
CallOK(c, r) ==
  /\ c.op = "bulk" => c.events \in Seq([type : STRING, payload : {None} \cup STRING, time : Nat])
  /\ c.op = "create_workflow" => [c.workflow EXCEPT !.id = <<"workflow", r>>] \in WorkflowRow
  /\ c.op = "update_workflow" =>
       /\ c.active \in {None} \cup BOOLEAN /\ c.condition \in {None} \cup STRING
       /\ c.max \in {None} \cup Nat /\ c.order \in {None} \cup Nat

\* The store starts with workflows, users and events, each under an id of its own that is no
\* request's to give.
ASSUME AutomationAssumption ==
  /\ MaxDay \in Nat \ {0}
  /\ None \notin Nat
  /\ IsFiniteSet(Seed) /\ Seed \subseteq WorkflowRow \cup EventRow \cup [id : Id("user")]
  /\ \A x, y \in Seed : x.id = y.id => x = y
  /\ \A x \in Seed, r \in Requests : x.id # <<"workflow", r>>
  /\ \A s \in Scenarios, r \in Requests : CallOK(s[r], r)

PCs == {"start", "write", "trigger", "execute", "lock", "count", "insert", "act", "finish", "lookup",
        "loaded", "stamp", "confirm", "answer", "commit", "done"}

Locks == Ids(Of(Seed, "workflow")) \X (1..MaxDay)

\* Types; and a session that is not active holds nothing it might still commit.
TypeOK ==
  /\ StoreOK /\ pc \in [Requests -> PCs]
  /\ rows \subseteq WorkflowRow \cup ExecutionRow \cup TaskRow \cup AnchorRow \cup EventRow
                    \cup [id : Id("user")]
  /\ day \in 1..MaxDay
  /\ seq \in Nat /\ \A e \in Of(rows, "event") : e.seq <= seq
  /\ held \in [Requests -> SUBSET (Locks \cup {<<<<"workflow", r>>, d>> : r \in Requests, d \in 1..MaxDay})]

Init ==
  /\ InitRoutes(Seed)
  /\ day = 1
  /\ seq = Cardinality(Of(Seed, "event"))
  /\ held = [r \in Requests |-> {}]

NextDay ==
  /\ day < MaxDay
  /\ day' = day + 1
  /\ UNCHANGED <<vars, seq, held>>

Ours == <<day, seq, held>>

-----------------------------------------------------------------------------
(* The workflow routes. *)

NewWorkflow(r) == [call[r].workflow EXCEPT !.id = <<"workflow", r>>]
Given(new, old) == IF new = None THEN old ELSE new
WorkflowChanged(r) ==
  [Target(r) EXCEPT !.active = Given(call[r].active, @), !.condition = Given(call[r].condition, @),
                    !.max = Given(call[r].max, @), !.order = Given(call[r].order, @)]
WorkflowDeleted(r) == [Target(r) EXCEPT !.deleted = TRUE]

CreateWorkflow(r) ==
  \/ At(r, "create_workflow", "start") /\ Check(r, "none")
  \/ At(r, "create_workflow", "write") /\ Insert(r, NewWorkflow(r), Raised, "answer")

FoundWorkflow(r) ==
  IF Found(r, "workflow") = "none" /\ ~Target(r).deleted THEN "none" ELSE "not_found"

UpdateWorkflow(r) ==
  \/ At(r, "update_workflow", "start") /\ Check(r, FoundWorkflow(r))
  \/ At(r, "update_workflow", "write") /\ Change(r, {WorkflowChanged(r)})

DeleteWorkflow(r) ==
  \/ At(r, "delete_workflow", "start") /\ Check(r, FoundWorkflow(r))
  \/ At(r, "delete_workflow", "write") /\ Change(r, {WorkflowDeleted(r)})

WorkflowRoute(r) == CreateWorkflow(r) \/ UpdateWorkflow(r) \/ DeleteWorkflow(r)

-----------------------------------------------------------------------------
(* A batch of events and the workflows they trigger. *)

Event(r, k) ==
  [id |-> <<"event", r, k>>, seq |-> seq + k, time |-> call[r].events[k].time,
   type |-> call[r].events[k].type, payload |-> call[r].events[k].payload]

\* got[r]: the events that have still to trigger, the workflows that the first of them has still
\* to execute, the execution's day, the count found, the execution's actions that are left.
NothingLeft == [events |-> <<>>, rest |-> <<>>, day |-> 0, count |-> 0, actions |-> <<>>]

AppendEvents(r) ==
  LET batch == [k \in 1..Len(call[r].events) |-> Event(r, k)] IN
  \/ At(r, "bulk", "start") /\ Check(r, "none") /\ UNCHANGED Ours
  \/ /\ At(r, "bulk", "write")
     /\ Flush(r, {batch[k] : k \in DOMAIN batch}, {}, {})
     /\ seq' = seq + Len(batch)
     /\ got' = [got EXCEPT ![r] = [NothingLeft EXCEPT !.events = batch]]
     /\ Goto(r, "trigger")
     /\ UNCHANGED <<call, before, day, held>>

\* Keeps what the next step needs, and the store as it is.
Proceed(r, left, next) ==
  /\ got' = [got EXCEPT ![r] = left]
  /\ Goto(r, next)
  /\ Untouched /\ UNCHANGED <<call, before, Ours>>

\* A condition on the payload must hold; a condition of another kind never does.
ConditionHolds(w, e) == w.condition \in {None, e.payload}

Triggers(w, e) == w.trigger = e.type /\ w.active /\ ~w.deleted /\ ConditionHolds(w, e)

\* The orders in which the database may return these workflows: it says nothing of two whose order
\* is the same, as it is unless it is given.
Orderings(found) ==
  {s \in [1..Cardinality(found) -> found] :
     \A i, j \in DOMAIN s : i < j => s[i] # s[j] /\ s[i].order <= s[j].order}

\* get_by_trigger.  On a session that has failed it raises, which is logged: the event triggers
\* nothing.
Trigger(r) ==
  /\ call[r].op = "bulk" /\ pc[r] = "trigger"
  /\ LET left == got[r] IN
     IF left.events = <<>> THEN Proceed(r, left, "answer")
     ELSE IF session[r] # "active" THEN Proceed(r, [left EXCEPT !.rest = <<>>], "execute")
     ELSE \E found \in Orderings({w \in Of(View(r), "workflow") : Triggers(w, Head(left.events))}) :
            Proceed(r, [left EXCEPT !.rest = found], "execute")

\* The next workflow, on today's date.
Execute(r) ==
  /\ call[r].op = "bulk" /\ pc[r] = "execute"
  /\ LET left == got[r] IN
     IF left.rest = <<>> \/ session[r] # "active"
     THEN Proceed(r, [left EXCEPT !.events = Tail(@), !.rest = <<>>], "trigger")
     ELSE Proceed(r, [left EXCEPT !.day = day, !.count = 0, !.actions = Head(left.rest).actions],
                  IF Head(left.rest).max = None THEN "insert" ELSE "lock")

Current(r) == Head(got[r].rest)

\* The locks of a transaction go with it.
InForce(q) == IF session[q] = "active" THEN held[q] ELSE {}

\* Mutant: the lock is taken by everyone.
LockHolders_None(r) == {}

\* acquire_daily_rate_limit_lock waits for these.
LockHolders(r) == {q \in Requests \ {r} : <<Current(r).id, got[r].day>> \in InForce(q)}

\* Some wait for each other in a circle: each of them for one, and one for each of them.
Deadlocked(r) ==
  \E circle \in SUBSET Requests :
    /\ r \in circle /\ \A p \in circle : pc[p] = "lock"
    /\ \A p \in circle : LockHolders(p) \cap circle # {} /\ \E q \in circle : p \in LockHolders(q)

\* The database cancels one of them.  That is logged, the transaction is lost, and the request
\* goes on.
Lock(r) ==
  /\ call[r].op = "bulk" /\ pc[r] = "lock"
  /\ \/ /\ LockHolders(r) = {}
        /\ held' = [held EXCEPT ![r] = @ \cup {<<Current(r).id, got[r].day>>}]
        /\ Goto(r, "count") /\ Untouched
     \/ /\ Deadlocked(r)
        /\ Drop(r, "inactive") /\ Goto(r, "execute") /\ UNCHANGED held
  /\ UNCHANGED <<call, got, before, day, seq>>

\* count_executions_today: whatever their status.
Executions(s, w, d) == {x \in Of(s, "execution") : x.workflow = w /\ x.day = d}

Count(r) ==
  /\ call[r].op = "bulk" /\ pc[r] = "count"
  /\ Proceed(r, [got[r] EXCEPT !.count = Cardinality(Executions(View(r), Current(r).id, got[r].day))],
             "insert")

Limited(r) == Current(r).max # None /\ got[r].count >= Current(r).max

Execution(r, status) ==
  [id |-> <<"execution", Head(got[r].events).id, Current(r).id>>, workflow |-> Current(r).id,
   day |-> got[r].day, status |-> status]

NextWorkflow(r) == got' = [got EXCEPT ![r].rest = Tail(@)] /\ Goto(r, "execute")

\* Beyond the limit, a failed execution is all that is left of it.
Start(r) ==
  /\ call[r].op = "bulk" /\ pc[r] = "insert"
  /\ IF Limited(r)
     THEN Flush(r, {Execution(r, "limited")}, {}, {}) /\ NextWorkflow(r)
     ELSE Flush(r, {Execution(r, "running")}, {}, {}) /\ Goto(r, "act") /\ UNCHANGED got
  /\ UNCHANGED <<call, before, Ours>>

NewTask(r, action) ==
  [id |-> <<"task", Head(got[r].events).id, Current(r).id, Len(got[r].actions)>>, user |-> action.user]

\* Mutant: the append an action attempts fails with the session's transaction.
Attempt_Kills(r, action) == Drop(r, "inactive")

\* create_event cannot begin a transaction where one is open: the session is left as it is, unless
\* a value that it looks up before is refused.
Attempt(r, action) == Untouched \/ (action.refused /\ Drop(r, "inactive"))

\* A task that the database refuses, for a value of its own or for a user that does not exist,
\* leaves the session inactive.
CreateTask(r, action) ==
  LET task == {NewTask(r, action)} IN
  \/ ~action.refused /\ Flush(r, task, {}, {})
  \/ (action.refused \/ IntegrityError(r, task, {})) /\ Drop(r, "inactive")
  \/ session[r] # "active" /\ Untouched

\* notify looks up addresses and logs the message: whether or not it can, nothing is written,
\* and a role that the database refuses leaves the session inactive.
Notify(r, action) == Untouched \/ (action.refused /\ Drop(r, "inactive"))

\* One action.  Its exceptions are noted in the log of the execution, which goes on.
Act(r) ==
  /\ call[r].op = "bulk" /\ pc[r] = "act" /\ got[r].actions # <<>>
  /\ LET action == Head(got[r].actions) IN
     \/ action.type = "create_task" /\ CreateTask(r, action)
     \/ action.type = "create_event" /\ Attempt(r, action)
     \/ action.type = "other" /\ Notify(r, action)
  /\ got' = [got EXCEPT ![r].actions = Tail(@)]
  /\ UNCHANGED <<pc, outcome, call, before, Ours>>

\* However the actions went, the execution is completed.
Finish(r) ==
  /\ call[r].op = "bulk" /\ pc[r] = "act" /\ got[r].actions = <<>>
  /\ IF session[r] = "active" THEN Flush(r, {Execution(r, "completed")}, {}, {}) ELSE Untouched
  /\ NextWorkflow(r)
  /\ UNCHANGED <<call, before, Ours>>

Batch(r) ==
  AppendEvents(r) \/ Trigger(r) \/ Execute(r) \/ Lock(r) \/ Count(r) \/ Start(r) \/ Act(r) \/ Finish(r)

-----------------------------------------------------------------------------
(* The anchoring job. *)

Later(e, f) == e.seq >= f.seq

Tips(s) == {e \in Of(s, "event") : \A f \in Of(s, "event") : Later(e, f)}

AnchorOf(s, tip) == {a \in Of(s, "anchor") : a.tip = tip}

\* got[r]: the event, and the anchor's id.
ReadTip(r) ==
  /\ pc[r] = "start"
  /\ IF Tips(View(r)) = {} THEN Look(r, "none", None, "commit")
     ELSE \E e \in Tips(View(r)) : Look(r, "none", [tip |-> e.id, anchor |-> None], "lookup")

\* An anchor is never committed as pending or failed; if it were it would be reused.
Lookup(r) ==
  LET existing == AnchorOf(View(r), got[r].tip) IN
  /\ pc[r] = "lookup"
  /\ IF existing = {} THEN Look(r, "none", got[r], "write")
     ELSE \E a \in existing : Look(r, "none", [got[r] EXCEPT !.anchor = a.id],
                                   IF a.status = "confirmed" THEN "commit" ELSE "stamp")

NewAnchor(r) == [id |-> <<"anchor", r>>, tip |-> got[r].tip, status |-> "pending", receipt |-> None]

\* create_pending, in a savepoint: if another process has been faster, its anchor is used.
CreatePending(r) ==
  /\ pc[r] = "write"
  /\ \/ Flush(r, {NewAnchor(r)}, {}, {}) /\ got' = [got EXCEPT ![r].anchor = <<"anchor", r>>]
     \/ /\ IntegrityError(r, {NewAnchor(r)}, {}) /\ Untouched
        /\ \E a \in AnchorOf(View(r), got[r].tip) : got' = [got EXCEPT ![r].anchor = a.id]
  /\ Goto(r, "stamp")
  /\ UNCHANGED <<call, before>>

\* Mutant: the failure is noted, and not raised again.
Failed_Noted(r) == Close(r) /\ End(r, "done", "error")

\* update_failed, and the exception goes on: nothing of the pass is stored.
Failed(r) == Fail(r, "error")

\* The TSA signs the digest of the tip, refuses, or does not answer in time.
Stamp(r) ==
  /\ pc[r] = "stamp"
  /\ \/ Goto(r, "confirm") /\ Untouched
     \/ Failed(r)
  /\ UNCHANGED <<call, got, before>>

\* Mutant: the anchor is confirmed whatever it was.
Confirmable_Always(a) == TRUE

Confirmable(a) == a.status \in {"pending", "failed"}

\* update_confirmed.  An anchor that another process has confirmed stays as it is.
Confirm(r) ==
  LET new == {[a EXCEPT !.status = "confirmed", !.receipt = r] :
                a \in {b \in Of(View(r), "anchor") : b.id = got[r].anchor /\ Confirmable(b)}} IN
  /\ pc[r] = "confirm"
  /\ IF new = {} THEN Untouched ELSE Flush(r, new, {}, {})
  /\ End(r, "commit", "success")
  /\ UNCHANGED <<call, got, before>>

Anchor(r) ==
  /\ call[r].op = "anchor"
  /\ ReadTip(r) \/ Lookup(r) \/ CreatePending(r) \/ Stamp(r) \/ Confirm(r)

-----------------------------------------------------------------------------

Next ==
  \/ NextDay
  \/ \E r \in Requests : Batch(r)
  \/ \E r \in Requests :
       (WorkflowRoute(r) \/ Anchor(r) \/ Answer(r) \/ Commit(r) \/ Abort(r)) /\ UNCHANGED Ours
  \/ AllDone /\ UNCHANGED Ours

Spec == Init /\ [][Next]_amvars

-----------------------------------------------------------------------------
(* Properties. *)

\* The workflows there ever are, and the limits and orders that one of them has been given.
Workflows ==
  Of(Seed, "workflow")
    \cup {NewWorkflow(r) : r \in {q \in Requests : call[q].op = "create_workflow"}}
Updates(i) == {r \in committed : call[r].op = "update_workflow" /\ call[r].target = i}
Limits(i) ==
  {w.max : w \in {v \in Workflows : v.id = i}} \cup ({call[r].max : r \in Updates(i)} \ {None})
Orders(i) ==
  {w.order : w \in {v \in Workflows : v.id = i}} \cup ({call[r].order : r \in Updates(i)} \ {None})

\* Those of a workflow's executions that do not say the limit was reached.
Spent(s, w, d) == {x \in Executions(s, w, d) : x.status # "limited"}

\* The daily limit holds for the executions of all batches together: no more of a workflow's are
\* stored for a day, but those that say the limit was reached, than the highest limit it had.
DailyLimitKept ==
  \A w \in Of(rows, "workflow") : \A d \in 1..MaxDay :
    None \notin Limits(w.id) => \E n \in Limits(w.id) : Cardinality(Spent(rows, w.id, d)) <= n

\* The one may have been executed before the other, as their orders were at some time.
Precedes(i, j) == \E m \in Orders(i), n \in Orders(j) : m <= n
Unordered(v, w) ==
  v.id # w.id /\ v.trigger = w.trigger /\ Precedes(v.id, w.id) /\ Precedes(w.id, v.id)

\* An action of a workflow that r's events trigger is refused, or is a task for a user that does not
\* exist.
RefusedAction(r) ==
  \E w \in Workflows : \E k \in DOMAIN w.actions :
    /\ \E i \in DOMAIN call[r].events : call[r].events[i].type = w.trigger
    /\ \/ w.actions[k].refused
       \/ w.actions[k].type = "create_task" /\ w.actions[k].user \notin Ids(rows) \cup {None}

\* Batches can wait for each other: there is another one, and one of them is of several events, or
\* nothing orders two workflows of the same trigger.
MayDeadlock(r) ==
  /\ \E q \in Requests \ {r} : call[q].op = "bulk"
  /\ \/ \E q \in Requests : call[q].op = "bulk" /\ Len(call[q].events) > 1
     \/ \E v, w \in Workflows : Unordered(v, w)

\* A batch that its client was told is stored has nothing left to commit only because of an action
\* with a value or a user that the database refuses, or of a deadlock with another batch: no other
\* failure of an action costs the batch, and batches of one event each that find their workflows in
\* one order never deadlock.
LossNeedsRefusal ==
  \A r \in Requests :
    call[r].op = "bulk" /\ pc[r] = "commit" /\ session[r] # "active" => RefusedAction(r) \/ MayDeadlock(r)

\* Every anchor in the store is confirmed, by the pass that read its tip and got its receipt.
AnchorsAreStamped ==
  \A a \in Of(rows, "anchor") :
    /\ a.status = "confirmed"
    /\ a.receipt \in committed /\ got[a.receipt].tip = a.tip /\ got[a.receipt].anchor = a.id

\* Passes of several processes: none replaces or removes an anchor that another has stored.
AnchorsAreFinal == [][Of(rows, "anchor") \subseteq Of(rows', "anchor")]_rows

===============================================================================
