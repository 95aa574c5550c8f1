--------------------------------- MODULE Routes ---------------------------------
(***************************************************************************)
(* What the routes that write have in common, for the modules that INSTANCE   *)
(* this one: a request reads ("start"), writes ("write" and what follows it), *)
(* answers and commits, over the tables of module Tables.  The way in (tenant, *)
(* permission) is Access's matter.                                           *)
(***************************************************************************)
EXTENDS Naturals, Tables

CONSTANTS
  Scenarios,    \* what the requests are called with together: functions on Requests
  Unaudited,    \* operations whose repository writes no audit event
  Creates,      \* those that answer without another look at a session a refused audit event killed
  None

VARIABLES
  call,       \* call[r]: what r was called with
  pc,         \* pc[r]: where r is
  got,        \* got[r]: what r has read and still needs
  before,     \* before[r]: history, the requests committed when r began to read
  outcome     \* outcome[r]: what r's client was told

Of(s, table) == {x \in s : x.id[1] = table}

Outcomes == {"none", "success", "unsatisfied", "not_found", "invalid", "exists", "unreadable",
             "integrity_error", "error", "aborted"}

\* Types; and a session that is not active holds nothing it might still commit.
StoreOK ==
  /\ put \in [Requests -> SUBSET (rows \cup UNION {put[r] : r \in Requests})]
  /\ gone \in [Requests -> SUBSET Ids(rows)]
  /\ session \in [Requests -> {"active", "inactive", "closed"}]
  /\ committed \subseteq Requests
  /\ call \in Scenarios
  /\ before \in [Requests -> SUBSET Requests]
  /\ outcome \in [Requests -> Outcomes]
  /\ \A r \in Requests : session[r] # "active" => put[r] = {} /\ gone[r] = {} /\ audited[r] = {}

InitRoutes(seed) ==
  /\ InitStore(seed)
  /\ call \in Scenarios
  /\ pc = [r \in Requests |-> IF call[r].op = "idle" THEN "done" ELSE "start"]
  /\ got = [r \in Requests |-> None]
  /\ before = [r \in Requests |-> {}]
  /\ outcome = [r \in Requests |-> "none"]

\* A statement that changes nothing.
Untouched == UNCHANGED <<rows, put, gone, audited, session, committed>>

Raised == "integrity_error"      \* few routes catch it

At(r, op, p) == call[r].op = op /\ pc[r] = p
Goto(r, p) == pc' = [pc EXCEPT ![r] = p] /\ UNCHANGED outcome
End(r, p, o) == pc' = [pc EXCEPT ![r] = p] /\ outcome' = [outcome EXCEPT ![r] = o]
Fail(r, o) == Drop(r, "closed") /\ End(r, "done", o)

\* A read that refuses the request, or lets it go on with what it has read.
Look(r, refusal, value, next) ==
  /\ IF refusal = "none" THEN Goto(r, next) /\ Untouched ELSE Fail(r, refusal)
  /\ got' = [got EXCEPT ![r] = value]
  /\ before' = [before EXCEPT ![r] = IF pc[r] = "start" THEN committed ELSE @]
  /\ UNCHANGED call
Check(r, refusal) == Look(r, refusal, None, "write")
Found(r, table) == IF \E x \in Of(View(r), table) : x.id = call[r].target
                   THEN "none" ELSE "not_found"

\* Repositories that write an audit event do so in the tenant's one chain.
Chain(r) == IF call[r].op \in Unaudited THEN {} ELSE {"chain"}

Save(r, new, del, conflict, next) ==
  /\ \/ Flush(r, new, del, Chain(r)) /\ Goto(r, next)
     \/ IntegrityError(r, new, del) /\ Fail(r, conflict)
     \/ /\ AuditRefused(r, new, del, Chain(r))
        /\ IF call[r].op \in Creates THEN Drop(r, "inactive") /\ Goto(r, next) ELSE Fail(r, "error")
  /\ UNCHANGED <<call, got, before>>

\* An UPDATE or DELETE of a row that another transaction has deleted since it was read matches
\* nothing, and the session raises StaleDataError.
SaveIf(found, r, new, del, next) ==
  IF found THEN Save(r, new, del, Raised, next) ELSE Fail(r, "error") /\ UNCHANGED <<call, got, before>>
Present(r) == call[r].target \in Ids(View(r))
Change(r, new) == SaveIf(Present(r), r, new, {}, "answer")
Delete(r) == SaveIf(Present(r), r, {}, Cascade(View(r), {call[r].target}), "answer")
Insert(r, new, conflict, next) == Save(r, {new}, {}, conflict, next)
CodeTaken(r, table) == \E x \in Of(View(r), table) : x.code = call[r].code
Target(r) == Row(View(r), call[r].target)

-----------------------------------------------------------------------------

Answer(r) ==
  /\ pc[r] = "answer"
  /\ End(r, "commit", "success")
  /\ Untouched /\ UNCHANGED <<call, got, before>>

Commit(r) ==
  /\ pc[r] = "commit"
  /\ Close(r)
  /\ Goto(r, "done")
  /\ UNCHANGED <<call, got, before>>

\* The request takes too long and is cancelled, or its process dies, with something written: even
\* between the answer and the commit.
Abort(r) ==
  /\ pc[r] # "done" /\ put[r] \cup gone[r] # {}
  /\ Fail(r, IF outcome[r] = "none" THEN "aborted" ELSE outcome[r])
  /\ UNCHANGED <<call, got, before>>

\* The system really stops once every request is done.
AllDone ==
  /\ \A r \in Requests : pc[r] = "done"
  /\ Untouched /\ UNCHANGED <<call, pc, got, before, outcome>>

================================================================================
