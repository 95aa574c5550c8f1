--------------------------------- MODULE Tables ---------------------------------
(***************************************************************************)
(* The tables a request works on through its SQLAlchemy session, for the     *)
(* modules that INSTANCE this one: transactions at READ COMMITTED, unique    *)
(* keys, foreign keys, and the audit event that goes with a write.           *)
(*                                                                         *)
(* A row is a record with an id.  Keys(x) are the unique keys row x holds,    *)
(* Owners(x) the ids it references ON DELETE CASCADE, Needs(x) those it       *)
(* references without.  A statement that has to wait for another transaction *)
(* is not enabled.  A write and its audit event are one step: how the two    *)
(* interleave, and how an audit event comes to be refused, is AuditChain's    *)
(* matter.                                                                   *)
(***************************************************************************)
EXTENDS FiniteSets

CONSTANTS Requests, Keys(_), Owners(_), Needs(_)

VARIABLES
  rows,       \* committed rows
  put,        \* put[r]: rows r's open transaction has inserted or updated
  gone,       \* gone[r]: ids of the committed rows r's open transaction has deleted
  audited,    \* audited[r]: tenants whose audit chain r's open transaction has extended
  session,    \* session[r]: active, inactive (its flush has failed) or closed
  committed   \* requests whose writes have been committed

Ids(s) == {x.id : x \in s}

InitStore(seed) ==
  /\ rows = seed
  /\ put = [r \in Requests |-> {}]
  /\ gone = [r \in Requests |-> {}]
  /\ audited = [r \in Requests |-> {}]
  /\ session = [r \in Requests |-> "active"]
  /\ committed = {}

\* What r's transaction sees, and what a session that writes nothing sees.
View(r) == put[r] \cup {x \in rows : x.id \notin gone[r] \cup Ids(put[r])}
Row(s, i) == CHOOSE x \in s : x.id = i

\* What a deletion of the rows del takes along (references are two levels deep at most).
Dependents(s, del) == {x.id : x \in {y \in s : Owners(y) \cap del # {}}}
Cascade(s, del) == LET one == del \cup Dependents(s, del) IN one \cup Dependents(s, one)

\* The transactions a write of the rows new, or a deletion of del, waits for: they hold a row,
\* a unique key, a referenced or a referencing row, or the audit chain of tenants.
Holders(r, new, del, tenants) ==
  {q \in Requests \ {r} :
     LET touched == gone[q] \cup Ids(put[q]) IN
     \/ (Ids(new) \cup del) \cap touched # {}
     \/ \E x \in new, y \in put[q] \cup {z \in rows : z.id \in touched} :
          x.id # y.id /\ Keys(x) \cap Keys(y) # {}
     \/ \E x \in new : (Owners(x) \cup Needs(x)) \cap gone[q] # {}
     \/ \E y \in put[q] : (Owners(y) \cup Needs(y)) \cap del # {}
     \/ tenants \cap audited[q] # {}}

After(r, new, del) == new \cup {x \in View(r) : x.id \notin del \cup Ids(new)}

\* IntegrityError: a unique key is taken, or a foreign key points nowhere.
Refused(r, new, del) ==
  LET after == After(r, new, del) IN
  \/ \E x \in new, y \in after : x.id # y.id /\ Keys(x) \cap Keys(y) # {}
  \/ \E x \in new : ~((Owners(x) \cup Needs(x)) \subseteq Ids(after))
  \/ \E y \in after : Needs(y) \cap del # {}

\* The write and its audit event.
Flush(r, new, del, tenants) ==
  /\ session[r] = "active" /\ Holders(r, new, del, tenants) = {} /\ ~Refused(r, new, del)
  /\ put' = [put EXCEPT ![r] = {x \in After(r, new, del) : x \in new \/ x \in @}]
  /\ gone' = [gone EXCEPT ![r] = @ \cup (del \cap Ids(rows))]
  /\ audited' = [audited EXCEPT ![r] = @ \cup tenants]
  /\ UNCHANGED <<rows, session, committed>>

\* The database refuses the statement.
IntegrityError(r, new, del) ==
  session[r] = "active" /\ Holders(r, new, del, {}) = {} /\ Refused(r, new, del)

\* The database refuses the audit event of a write that it has accepted.
AuditRefused(r, new, del, tenants) ==
  /\ session[r] = "active" /\ Holders(r, new, del, tenants) = {} /\ ~Refused(r, new, del)
  /\ tenants # {} /\ committed # {}

\* The transaction is rolled back: the session is left inactive or closed.
Drop(r, as) ==
  /\ put' = [put EXCEPT ![r] = {}]
  /\ gone' = [gone EXCEPT ![r] = {}]
  /\ audited' = [audited EXCEPT ![r] = {}]
  /\ session' = [session EXCEPT ![r] = as]
  /\ UNCHANGED <<rows, committed>>

\* get_db_transactional leaves session.begin(): a session that is not active commits nothing.
Close(r) ==
  IF session[r] = "active"
  THEN /\ rows' = View(r)
       /\ put' = [put EXCEPT ![r] = {}]
       /\ gone' = [gone EXCEPT ![r] = {}]
       /\ audited' = [audited EXCEPT ![r] = {}]
       /\ session' = [session EXCEPT ![r] = "closed"]
       /\ committed' = committed \cup {r}
  ELSE Drop(r, "closed")

================================================================================
