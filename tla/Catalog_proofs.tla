----------------------------- MODULE Catalog_proofs -----------------------------
(***************************************************************************)
(* Proofs about Catalog, for every number of requests, every call and every   *)
(* seed: the versions of a schema, the erasure of a subject, a flow's          *)
(* compliance.                                                               *)
(***************************************************************************)
EXTENDS Catalog, FiniteSetTheorems, TLAPS

\* Types of what TypeOK leaves open.
Types ==
  /\ TypeOK
  /\ put \in [Requests -> SUBSET RowTypes]
  /\ DOMAIN audited = Requests
  /\ DOMAIN got = Requests
  /\ IsFiniteSet(rows) /\ \A r \in Requests : IsFiniteSet(put[r])

-----------------------------------------------------------------------------
(* What transactions hold. *)

Touched(r) == gone[r] \cup Ids(put[r])

\* Every row has an id of its own; no two transactions hold the same row, or the audit chain; what
\* a request inserts is there when it has committed, and no sooner; the rest of what it writes is
\* there.
StoreInv ==
  /\ \A x, y \in rows : x.id = y.id => x = y
  /\ \A r \in Requests : \A x, y \in put[r] : x.id = y.id => x = y
  /\ \A q, r \in Requests : q # r =>
       Touched(q) \cap Touched(r) = {} /\ audited[q] \cap audited[r] = {}
  /\ \A x \in rows : x.id[2] \in Requests => x.id[2] \in committed
  /\ \A r \in Requests : \A x \in put[r] : x.id[2] = r \/ x.id \in Ids(rows)

\* A written version of a schema is the request's new one, or one that is there: inactive, or as a
\* PATCH has it.
IsNewSchema(r, x) ==
  /\ call[r].op = "create_schema" /\ x.id = <<"event_schema", r>>
  /\ x.code = call[r].code /\ x.version = got[r].version /\ x.active = call[r].flag
IsOldSchema(r, x) ==
  /\ \E y \in rows : y.id = x.id /\ y.code = x.code /\ y.version = x.version
  /\ \/ call[r].op = "create_schema" /\ ~x.active
     \/ call[r].op = "update_schema" /\ x.active = call[r].flag

\* What r may write, and delete.
Allowed(r, x) ==
  /\ call[r].op \notin {"export", "compliance"}
  /\ x.id[1] = "event_schema" => IsNewSchema(r, x) \/ IsOldSchema(r, x)
  /\ x.id[1] = "document" =>
       \/ call[r].op \in {"anonymize", "erase"} /\ x.deleted
       \/ call[r].op = "upload_document"
  /\ x.id[1] = "subject" => call[r].op \notin Unaudited
  /\ x.id[1] = "subject" /\ x.content = Redacted =>
       call[r].op = "anonymize" /\ x.id = call[r].target
  /\ call[r].op = "upload_document" => x.id = <<"document", r>>
  /\ call[r].op = "add_subjects" => x.id[1] = "flow_subject" /\ x.id[2] = r
Deletable(r, i) ==
  /\ call[r].op \notin {"export", "compliance", "upload_document", "add_subjects"}
  /\ i[1] = "event_schema" => call[r].op = "delete_schema"

WriteInv(r) ==
  /\ \A x \in put[r] : Allowed(r, x)
  /\ \A i \in gone[r] : Deletable(r, i)
  /\ call[r].op \notin Unaudited /\ put[r] \cup gone[r] # {} => "chain" \in audited[r]

-----------------------------------------------------------------------------
(* Where a request is. *)

\* Who looks its target up in which table.
Looked ==
  {<<"update_subject", "subject">>, <<"delete_subject", "subject">>, <<"anonymize", "subject">>,
   <<"erase", "subject">>, <<"upload_document", "subject">>,
   <<"update_kind", "relationship_kind">>, <<"delete_kind", "relationship_kind">>,
   <<"update_type", "subject_type">>, <<"delete_type", "subject_type">>,
   <<"update_category", "category">>, <<"delete_category", "category">>,
   <<"update_rule", "rule">>, <<"delete_rule", "rule">>,
   <<"update_schema", "event_schema">>, <<"delete_schema", "event_schema">>,
   <<"update_template", "template">>, <<"delete_template", "template">>,
   <<"update_flow", "flow">>, <<"add_subjects", "flow">>, <<"compliance", "flow">>,
   <<"create_requirement", "workflow">>, <<"delete_requirement", "requirement">>}

PathAt(r, p, g) ==
  /\ \A t : <<call[r].op, t>> \in Looked /\ p \notin {"start", "done"} => call[r].target \in Id(t)
  /\ call[r].op = "add_relationship" /\ p = "write" =>
       call[r].target \in Id("subject") /\ call[r].other \in Id("subject")
  /\ call[r].op = "update_type" /\ p = "write" => g \in Nat \ {0}
  /\ call[r].op = "add_subjects" /\ p = "write" => g \subseteq Id("subject") /\ IsFiniteSet(g)
  /\ p = "redact" => g \subseteq Id("document")

\* What a creation of a schema has read.
Attempt == [version : Nat \ {0}, tries : Nat]

PathInv(r) ==
  /\ r \in committed => pc[r] = "done"
  /\ before[r] \subseteq committed
  /\ pc[r] \notin {"commit", "done"} => outcome[r] = "none"
  /\ PathAt(r, pc[r], got[r])
  /\ call[r].op = "create_schema" =>
       /\ pc[r] \in {"start", "write"} => put[r] = {} /\ gone[r] = {}
       /\ pc[r] \in {"write", "others"} => got[r] \in Attempt
       /\ pc[r] = "start" => got[r] = None \/ got[r] \in Attempt

-----------------------------------------------------------------------------
(* Finite sets. *)

LEMMA ImageFinite ==
  ASSUME NEW A, IsFiniteSet(A), NEW B, NEW f \in [A -> B]
  PROVE  IsFiniteSet({f[a] : a \in A}) /\ Cardinality({f[a] : a \in A}) <= Cardinality(A)
<1> DEFINE Z == {f[a] : a \in A}
<1>1. f \in [A -> Z] /\ \A z \in Z : \E a \in A : f[a] = z
  OBVIOUS
<1>2. f \in Surjection(A, Z) BY <1>1 DEF Surjection
<1> HIDE DEF Z
<1>3. IsFiniteSet(Z) /\ Cardinality(Z) <= Cardinality(A) BY <1>2, FS_Surjection
<1> QED BY <1>3 DEF Z

\* A finite set of numbers has a greatest element, or is empty: of its subsets that have none, a
\* least has an element without which it has one.
LEMMA Greatest ==
  ASSUME NEW A \in SUBSET Nat, IsFiniteSet(A)
  PROVE  \E v \in {0} \cup A : \A a \in A : a <= v
<1> DEFINE Good(B) == \E v \in {0} \cup B : \A b \in B : b <= v
           Bad == {B \in SUBSET A : ~Good(B)}
<1> SUFFICES ASSUME Bad # {} PROVE FALSE
  OBVIOUS
<1>1. Bad \subseteq FiniteSubsetsOf(A)
  BY FS_FiniteSubsetsOfFinite
<1>2. PICK B \in Bad : \A C \in Bad : <<C, B>> \notin StrictSubsetOrdering(A)
  <2> HIDE DEF Bad
  <2> QED BY <1>1, FS_StrictSubsetOrderingWellFounded, WFMin
<1>3. B # {} OBVIOUS
<1>4. PICK x \in B : TRUE BY <1>3
<1> DEFINE C == B \ {x}
<1>5. C \in SUBSET A /\ C \subseteq B /\ C # B OBVIOUS
<1>6. <<C, B>> \in StrictSubsetOrdering(A) BY <1>5 DEF StrictSubsetOrdering
<1>7. Good(C)
  BY <1>2, <1>5, <1>6
<1>8. PICK v \in {0} \cup C : \A c \in C : c <= v BY <1>7
<1>9. x \in Nat /\ v \in Nat /\ \A b \in B : b = x \/ b \in C OBVIOUS
<1>10. CASE x <= v
  <2>1. \A b \in B : b <= v BY <1>8, <1>9, <1>10
  <2> QED BY <1>8, <2>1
<1>11. CASE v < x
  <2>1. \A b \in B : b \in Nat OBVIOUS
  <2>2. \A b \in B : b <= x BY <1>8, <1>9, <1>11, <2>1
  <2> QED BY <2>2
<1> QED BY <1>9, <1>10, <1>11

-----------------------------------------------------------------------------
(* Rows and their ids. *)

LEMMA Assumed ==
  /\ MaxAttempts \in Nat \ {0} /\ None \notin STRING /\ Redacted \notin Requests
  /\ \A s \in Scenarios, r \in Requests : CallOK(s[r])
  /\ IsFiniteSet(Seed) /\ Seed \subseteq RowTypes
  /\ \A x, y \in Seed : x.id = y.id => x = y
  /\ \A x \in Seed : x.id[2] \notin Requests
  /\ \A x, y \in Of(Seed, "event_schema") : x.code = y.code /\ x.active /\ y.active => x = y
  /\ \A x \in Of(Seed, "subject") : x.content # Redacted
  BY CatalogAssumption

LEMMA IdTable == ASSUME NEW t, NEW i \in Id(t) PROVE i[1] = t
  BY DEF Id

LEMMA NewId == ASSUME NEW t, NEW r \in Requests PROVE <<t, r>> \in Id(t)
  BY DEF Id

\* A row's table, by its id.
LEMMA RowTables ==
  /\ \A x \in SubjectRow : x.id \in Id("subject") /\ x.id[1] = "subject"
  /\ \A x \in SubjectTypeRow : x.id \in Id("subject_type") /\ x.id[1] = "subject_type"
  /\ \A x \in RelationshipKindRow : x.id \in Id("relationship_kind") /\ x.id[1] = "relationship_kind"
  /\ \A x \in RelationshipRow : x.id \in Id("relationship") /\ x.id[1] = "relationship"
  /\ \A x \in CategoryRow : x.id \in Id("category") /\ x.id[1] = "category"
  /\ \A x \in NamingTemplateRow : x.id \in Id("template") /\ x.id[1] = "template"
  /\ \A x \in RequirementRow : x.id \in Id("requirement") /\ x.id[1] = "requirement"
  /\ \A x \in FlowRow : x.id \in Id("flow") /\ x.id[1] = "flow"
  /\ \A x \in FlowSubjectRow : x.id[1] = "flow_subject"
  /\ \A x \in RuleRow : x.id \in Id("rule") /\ x.id[1] = "rule"
  /\ \A x \in EventSchemaRow : x.id \in Id("event_schema") /\ x.id[1] = "event_schema"
  /\ \A x \in DocumentRow : x.id \in Id("document") /\ x.id[1] = "document"
  /\ \A x \in EventRow : x.id \in Id("event") /\ x.id[1] = "event"
  /\ \A x \in [id : Id("workflow")] : x.id \in Id("workflow") /\ x.id[1] = "workflow"
<1>1. \A x \in SubjectRow : x.id \in Id("subject") /\ x.id[1] = "subject" BY IdTable DEF SubjectRow
<1>2. \A x \in SubjectTypeRow : x.id \in Id("subject_type") /\ x.id[1] = "subject_type" BY IdTable DEF SubjectTypeRow
<1>3. \A x \in RelationshipKindRow : x.id \in Id("relationship_kind") /\ x.id[1] = "relationship_kind"
  BY IdTable DEF RelationshipKindRow
<1>4. \A x \in RelationshipRow : x.id \in Id("relationship") /\ x.id[1] = "relationship" BY IdTable DEF RelationshipRow
<1>5. \A x \in CategoryRow : x.id \in Id("category") /\ x.id[1] = "category" BY IdTable DEF CategoryRow
<1>6. \A x \in NamingTemplateRow : x.id \in Id("template") /\ x.id[1] = "template" BY IdTable DEF NamingTemplateRow
<1>7. \A x \in RequirementRow : x.id \in Id("requirement") /\ x.id[1] = "requirement" BY IdTable DEF RequirementRow
<1>8. \A x \in FlowRow : x.id \in Id("flow") /\ x.id[1] = "flow" BY IdTable DEF FlowRow
<1>9. \A x \in FlowSubjectRow : x.id[1] = "flow_subject" BY IdTable DEF FlowSubjectRow
<1>10. \A x \in RuleRow : x.id \in Id("rule") /\ x.id[1] = "rule" BY IdTable DEF RuleRow
<1>11. \A x \in EventSchemaRow : x.id \in Id("event_schema") /\ x.id[1] = "event_schema" BY IdTable DEF EventSchemaRow
<1>12. \A x \in DocumentRow : x.id \in Id("document") /\ x.id[1] = "document" BY IdTable DEF DocumentRow
<1>13. \A x \in EventRow : x.id \in Id("event") /\ x.id[1] = "event" BY IdTable DEF EventRow
<1>14. \A x \in [id : Id("workflow")] : x.id \in Id("workflow") /\ x.id[1] = "workflow" BY IdTable
<1> QED BY <1>1, <1>2, <1>3, <1>4, <1>5, <1>6, <1>7, <1>8, <1>9, <1>10, <1>11, <1>12, <1>13, <1>14

LEMMA Sorts ==
  ASSUME NEW x \in RowTypes
  PROVE  /\ x.id[1] = "subject" => x \in SubjectRow
         /\ x.id[1] = "subject_type" => x \in SubjectTypeRow
         /\ x.id[1] = "relationship_kind" => x \in RelationshipKindRow
         /\ x.id[1] = "relationship" => x \in RelationshipRow
         /\ x.id[1] = "category" => x \in CategoryRow
         /\ x.id[1] = "template" => x \in NamingTemplateRow
         /\ x.id[1] = "requirement" => x \in RequirementRow
         /\ x.id[1] = "flow" => x \in FlowRow
         /\ x.id[1] = "flow_subject" => x \in FlowSubjectRow
         /\ x.id[1] = "rule" => x \in RuleRow
         /\ x.id[1] = "event_schema" => x \in EventSchemaRow
         /\ x.id[1] = "document" => x \in DocumentRow
         /\ x.id[1] = "event" => x \in EventRow
         /\ x.id[1] = "workflow" => x \in [id : Id("workflow")]
<1>1. \/ x \in SubjectRow \/ x \in SubjectTypeRow \/ x \in RelationshipKindRow \/ x \in RelationshipRow
      \/ x \in CategoryRow \/ x \in NamingTemplateRow \/ x \in RequirementRow \/ x \in FlowRow
      \/ x \in FlowSubjectRow \/ x \in RuleRow \/ x \in EventSchemaRow \/ x \in DocumentRow
      \/ x \in EventRow \/ x \in [id : Id("workflow")]
  BY DEF RowTypes
<1> QED BY <1>1, RowTables

LEMMA RowIs ==
  ASSUME NEW s, NEW i \in Ids(s)
  PROVE  Row(s, i) \in s /\ Row(s, i).id = i
  BY DEF Row, Ids

LEMMA RowTyped ==
  ASSUME NEW x \in RowTypes
  PROVE  \A t : x.id[1] = t => x.id \in Id(t) \/ t = "flow_subject"
  BY Sorts, RowTables DEF RowTypes

-----------------------------------------------------------------------------
(* What the steps of a request do, as far as the others can tell. *)

\* r goes on; the others stay where they are.
Goes(r) ==
  /\ pc[r] # "done"
  /\ call' = call
  /\ pc' \in [Requests -> PCs] /\ outcome' \in [Requests -> Outcomes]
  /\ before' \in [Requests -> SUBSET Requests] /\ DOMAIN got' = Requests
  /\ \A q \in Requests \ {r} :
       pc'[q] = pc[q] /\ got'[q] = got[q] /\ before'[q] = before[q] /\ outcome'[q] = outcome[q]
  /\ before'[r] = before[r] \/ before'[r] = committed
  /\ pc'[r] \notin {"commit", "done"} => pc[r] # "commit" /\ outcome'[r] = outcome[r]

\* It is refused, or its write is; it reads; it writes.
Ends(r) == Goes(r) /\ Drop(r, "closed") /\ pc'[r] = "done"
Loses(r) == Goes(r) /\ Drop(r, "inactive") /\ pc'[r] = "answer"
Looks(r, p) == Goes(r) /\ Untouched /\ pc'[r] = p
Puts(r, new, del, p) ==
  /\ Goes(r) /\ pc'[r] = p
  /\ session[r] = "active" /\ ~Refused(r, new, del)
  /\ put' = [put EXCEPT ![r] = new \cup {y \in put[r] : y.id \notin del \cup Ids(new)}]
  /\ gone' = [gone EXCEPT ![r] = @ \cup (del \cap Ids(rows))]
  /\ audited' = [audited EXCEPT ![r] = @ \cup Chain(r)]
  /\ UNCHANGED <<rows, session, committed>>
  /\ \A q \in Requests \ {r} :
       (Ids(new) \cup del) \cap Touched(q) = {} /\ Chain(r) \cap audited[q] = {}
Commits(r) ==
  /\ Goes(r) /\ pc[r] = "commit" /\ pc'[r] = "done" /\ got'[r] = got[r] /\ before'[r] = before[r]
  /\ outcome'[r] = outcome[r]
  /\ session[r] = "active"
  /\ rows' = View(r)
  /\ put' = [put EXCEPT ![r] = {}] /\ gone' = [gone EXCEPT ![r] = {}]
  /\ audited' = [audited EXCEPT ![r] = {}] /\ session' = [session EXCEPT ![r] = "closed"]
  /\ committed' = committed \cup {r}

LEMMA Typed ==
  ASSUME Types
  PROVE  /\ put \in [Requests -> SUBSET RowTypes] /\ gone \in [Requests -> SUBSET Ids(rows)]
         /\ DOMAIN audited = Requests /\ DOMAIN got = Requests
         /\ session \in [Requests -> {"active", "inactive", "closed"}]
         /\ committed \subseteq Requests /\ call \in Scenarios
         /\ before \in [Requests -> SUBSET Requests] /\ outcome \in [Requests -> Outcomes]
         /\ pc \in [Requests -> PCs] /\ rows \subseteq RowTypes
         /\ IsFiniteSet(rows) /\ \A r \in Requests : IsFiniteSet(put[r])
         /\ \A r \in Requests : session[r] # "active" =>
              put[r] = {} /\ gone[r] = {} /\ audited[r] = {}
  BY DEF Types, TypeOK, StoreOK

LEMMA Called == ASSUME Types, NEW r \in Requests PROVE CallOK(call[r])
  BY Typed, Assumed

LEMMA ViewTyped ==
  ASSUME Types, NEW r \in Requests
  PROVE  View(r) \subseteq RowTypes /\ IsFiniteSet(View(r))
<1>1. View(r) \subseteq RowTypes BY Typed DEF View
<1>2. {x \in rows : x.id \notin gone[r] \cup Ids(put[r])} \subseteq rows OBVIOUS
<1>3. IsFiniteSet({x \in rows : x.id \notin gone[r] \cup Ids(put[r])}) BY <1>2, Typed, FS_Subset
<1>4. IsFiniteSet(View(r)) BY <1>3, Typed, FS_Union DEF View
<1> QED BY <1>1, <1>4

LEMMA ViewUnique ==
  ASSUME Types, StoreInv, NEW r \in Requests
  PROVE  \A x, y \in View(r) : x.id = y.id => x = y
  BY DEF View, StoreInv, Ids

LEMMA FailEffect ==
  ASSUME Types, NEW r \in Requests, NEW o \in Outcomes, pc[r] # "done", Fail(r, o),
         UNCHANGED <<call, got, before>>
  PROVE  Ends(r)
  BY Typed DEF Fail, End, Ends, Goes, PCs

LEMMA LookEffect ==
  ASSUME Types, NEW r \in Requests, NEW o \in Outcomes, NEW g, NEW p \in PCs,
         pc[r] \notin {"commit", "done"}, Look(r, o, g, p)
  PROVE  \/ Ends(r)
         \/ /\ o = "none" /\ Looks(r, p) /\ got'[r] = g
            /\ before'[r] = IF pc[r] = "start" THEN committed ELSE before[r]
<1> USE Typed
<1>1. /\ call' = call /\ DOMAIN got' = Requests
      /\ \A q \in Requests \ {r} : got'[q] = got[q] /\ before'[q] = before[q]
      /\ got'[r] = g
      /\ before'[r] = IF pc[r] = "start" THEN committed ELSE before[r]
      /\ before' \in [Requests -> SUBSET Requests]
  BY DEF Look
<1>2. CASE o = "none"
  <2>1. Goto(r, p) /\ Untouched BY <1>2 DEF Look
  <2> QED BY <1>1, <1>2, <2>1 DEF Goto, Looks, Goes
<1>3. CASE o # "none"
  <2>1. Fail(r, o) BY <1>3 DEF Look
  <2>2. Drop(r, "closed") /\ pc' = [pc EXCEPT ![r] = "done"] /\ outcome' = [outcome EXCEPT ![r] = o]
    BY <2>1 DEF Fail, End
  <2>3. pc' \in [Requests -> PCs] /\ outcome' \in [Requests -> Outcomes] /\ pc'[r] = "done"
    BY <2>2 DEF PCs
  <2> QED BY <1>1, <2>2, <2>3 DEF Ends, Goes
<1> QED BY <1>2, <1>3

LEMMA GotoGoes ==
  ASSUME Types, NEW r \in Requests, NEW p \in PCs, pc[r] \notin {"commit", "done"}, Goto(r, p),
         UNCHANGED <<call, before>>, DOMAIN got' = Requests,
         \A q \in Requests \ {r} : got'[q] = got[q]
  PROVE  Goes(r) /\ pc'[r] = p
  BY Typed DEF Goto, Goes

LEMMA FlushEffect ==
  ASSUME Types, NEW r \in Requests, NEW new, NEW del, NEW p, Goes(r), pc'[r] = p,
         Flush(r, new, del, Chain(r))
  PROVE  Puts(r, new, del, p)
<1> USE Typed
<1>2. /\ session[r] = "active" /\ UNCHANGED <<rows, session, committed>>
      /\ Holders(r, new, del, Chain(r)) = {} /\ ~Refused(r, new, del)
      /\ put' = [put EXCEPT ![r] = {y \in After(r, new, del) : y \in new \/ y \in put[r]}]
      /\ gone' = [gone EXCEPT ![r] = @ \cup (del \cap Ids(rows))]
      /\ audited' = [audited EXCEPT ![r] = @ \cup Chain(r)]
  BY DEF Flush
<1>4. {y \in After(r, new, del) : y \in new \/ y \in put[r]}
        = new \cup {y \in put[r] : y.id \notin del \cup Ids(new)}
  BY DEF After, View
<1>6. ASSUME NEW q \in Requests \ {r}
      PROVE  (Ids(new) \cup del) \cap Touched(q) = {} /\ Chain(r) \cap audited[q] = {}
  BY <1>2 DEF Holders, Touched
<1> QED BY <1>2, <1>4, <1>6 DEF Puts

LEMMA SaveEffect ==
  ASSUME Types, NEW r \in Requests, NEW new, NEW del, NEW o \in Outcomes, NEW p \in PCs,
         pc[r] \notin {"commit", "done"}, p = "answer" \/ call[r].op \notin Creates,
         Save(r, new, del, o, p)
  PROVE  /\ Ends(r) \/ Loses(r) \/ Puts(r, new, del, p)
         /\ got' = got /\ before' = before
<1> USE Typed
<1>0. UNCHANGED <<call, got, before>> BY DEF Save
<1>1. CASE Flush(r, new, del, Chain(r)) /\ Goto(r, p)
  <2>1. Goes(r) /\ pc'[r] = p BY <1>0, <1>1, GotoGoes
  <2> QED BY <1>0, <1>1, <2>1, FlushEffect
<1>2. CASE Fail(r, o) BY <1>0, <1>2, FailEffect
<1>3. CASE call[r].op \in Creates /\ Drop(r, "inactive") /\ Goto(r, p)
  <2>1. Goes(r) /\ pc'[r] = p BY <1>0, <1>3, GotoGoes
  <2> QED BY <1>0, <1>3, <2>1 DEF Loses
<1>4. CASE Fail(r, "error")
  <2>1. "error" \in Outcomes BY DEF Outcomes
  <2> QED BY <1>0, <1>4, <2>1, FailEffect
<1> QED BY <1>0, <1>1, <1>2, <1>3, <1>4 DEF Save

LEMMA SaveIfEffect ==
  ASSUME Types, NEW r \in Requests, NEW new, NEW del, NEW found, NEW p \in PCs,
         pc[r] \notin {"commit", "done"}, p = "answer" \/ call[r].op \notin Creates,
         SaveIf(found, r, new, del, p)
  PROVE  /\ Ends(r) \/ Loses(r) \/ (found /\ Puts(r, new, del, p))
         /\ got' = got /\ before' = before
<1>1. Raised \in Outcomes /\ "error" \in Outcomes BY DEF Raised, Outcomes
<1>2. CASE found
  BY <1>1, <1>2, SaveEffect DEF SaveIf
<1>3. CASE ~found
  BY <1>1, <1>3, FailEffect DEF SaveIf
<1> QED BY <1>2, <1>3

LEMMA CommitEffect ==
  ASSUME Types, NEW r \in Requests, Commit(r)
  PROVE  Ends(r) \/ Commits(r)
<1> USE Typed
<1>1. Goes(r) /\ pc[r] = "commit" /\ pc'[r] = "done" /\ got'[r] = got[r] /\ before'[r] = before[r]
      /\ outcome'[r] = outcome[r]
  BY DEF Commit, Goto, Goes, PCs
<1> QED BY <1>1 DEF Commit, Close, Ends, Commits

-----------------------------------------------------------------------------
(* What every step of every route is. *)

\* What a statement may write and delete.
Written(r, new, del) ==
  /\ new \subseteq RowTypes /\ IsFiniteSet(new)
  /\ \A x, y \in new : x.id = y.id => x = y
  /\ \A x \in new : (x.id[2] = r \/ x.id \in Ids(View(r))) /\ Allowed(r, x)
  /\ \A i \in del : Deletable(r, i)

\* The version a creation has chosen stays, once it has written.
StepOf(r) ==
  /\ call[r].op = "create_schema" => got'[r] = got[r] \/ put'[r] = {}
  /\ \/ Ends(r) \/ Loses(r) \/ Commits(r)
     \/ \E p : Looks(r, p)
     \/ \E new, del, p : Puts(r, new, del, p) /\ Written(r, new, del)

LEMMA PathStays ==
  ASSUME Types, NEW r \in Requests, PathInv(r), Goes(r),
         committed' = committed \/ Commits(r),
         pc'[r] # "done" => PathAt(r, pc'[r], got'[r]),
         call[r].op = "create_schema" =>
           /\ pc'[r] \in {"start", "write"} => put'[r] = {} /\ gone'[r] = {}
           /\ pc'[r] \in {"write", "others"} => got'[r] \in Attempt
           /\ pc'[r] = "start" => got'[r] \in Attempt
  PROVE  PathInv(r)'
<1> USE Typed
<1>1. call' = call /\ pc[r] # "done" BY DEF Goes
<1>2. PathAt(r, pc'[r], got'[r])
  <2>1. CASE pc'[r] = "done" BY <2>1 DEF PathAt
  <2> QED BY <2>1
<1>3. PathAt(r, pc[r], got[r])' BY <1>1, <1>2 DEF PathAt, Id
<1>4. (r \in committed => pc[r] = "done")' BY <1>1 DEF PathInv, Commits
<1>5. (before[r] \subseteq committed)' BY DEF Goes, PathInv, Commits
<1>6. (pc[r] \notin {"commit", "done"} => outcome[r] = "none")' BY <1>1 DEF Goes, PathInv
<1> QED BY <1>1, <1>3, <1>4, <1>5, <1>6 DEF PathInv

LEMMA EndsStep ==
  ASSUME Types, NEW r \in Requests, PathInv(r), Ends(r)
  PROVE  StepOf(r) /\ PathInv(r)'
<1>1. put'[r] = {} /\ committed' = committed BY Typed DEF Ends, Drop
<1>2. Goes(r) /\ pc'[r] = "done" BY DEF Ends
<1>3. PathInv(r)' BY <1>1, <1>2, PathStays
<1> QED BY <1>1, <1>3 DEF StepOf

\* A read that the route begins with.
LEMMA StartStep ==
  ASSUME Types, NEW r \in Requests, PathInv(r), pc[r] = "start", NEW o \in Outcomes, NEW g,
         NEW p \in PCs \ {"done"}, Look(r, o, g, p), call[r].op # "create_schema",
         o = "none" => PathAt(r, p, g)
  PROVE  StepOf(r) /\ PathInv(r)'
<1>1. CASE Ends(r) BY <1>1, EndsStep
<1>2. CASE o = "none" /\ Looks(r, p) /\ got'[r] = g
  <2>1. Goes(r) /\ pc'[r] = p /\ committed' = committed BY <1>2 DEF Looks, Untouched
  <2>2. PathInv(r)' BY <1>2, <2>1, PathStays
  <2> QED BY <1>2, <2>2 DEF StepOf
<1> QED BY <1>1, <1>2, LookEffect

\* A later one.
LEMMA ReadStep ==
  ASSUME Types, NEW r \in Requests, PathInv(r), pc[r] \notin {"start", "commit", "done"}, NEW o \in Outcomes,
         NEW g, NEW p \in PCs \ {"start", "write", "redact", "done"}, Look(r, o, g, p),
         call[r].op # "create_schema"
  PROVE  StepOf(r) /\ PathInv(r)'
<1>1. CASE Ends(r) BY <1>1, EndsStep
<1>2. CASE o = "none" /\ Looks(r, p) /\ got'[r] = g
  <2>1. Goes(r) /\ pc'[r] = p /\ committed' = committed BY <1>2 DEF Looks, Untouched
  <2>2. PathAt(r, pc'[r], got'[r]) BY <2>1 DEF PathAt, PathInv
  <2>3. PathInv(r)' BY <2>1, <2>2, PathStays
  <2> QED BY <1>2, <2>3 DEF StepOf
<1> QED BY <1>1, <1>2, LookEffect

LEMMA PutsStep ==
  ASSUME Types, NEW r \in Requests, PathInv(r), pc[r] \notin {"start", "done"},
         NEW p \in PCs \ {"start", "write", "redact", "done"}, NEW new, NEW del,
         got' = got, call[r].op # "create_schema",
         Ends(r) \/ Loses(r) \/ (Puts(r, new, del, p) /\ Written(r, new, del))
  PROVE  StepOf(r) /\ PathInv(r)'
<1>1. CASE Ends(r) BY <1>1, EndsStep
<1>2. CASE Loses(r) \/ (Puts(r, new, del, p) /\ Written(r, new, del))
  <2>1. Goes(r) /\ pc'[r] \notin {"start", "write", "redact", "done"} /\ committed' = committed
    BY <1>2 DEF Loses, Puts, Drop
  <2>2. PathAt(r, pc'[r], got'[r]) BY <2>1 DEF PathAt, PathInv
  <2>3. PathInv(r)' BY <2>1, <2>2, PathStays
  <2> QED BY <1>2, <2>3 DEF StepOf
<1> QED BY <1>1, <1>2

\* A write of rows, with a unique key or without.
LEMMA SaveStep ==
  ASSUME Types, NEW r \in Requests, PathInv(r), pc[r] \notin {"start", "commit", "done"},
         NEW p \in PCs \ {"start", "write", "redact", "done"}, p = "answer" \/ call[r].op \notin Creates,
         NEW o \in Outcomes, NEW new, NEW del,
         call[r].op # "create_schema", Save(r, new, del, o, p), Written(r, new, del)
  PROVE  StepOf(r) /\ PathInv(r)'
<1>1. (Ends(r) \/ Loses(r) \/ Puts(r, new, del, p)) /\ got' = got BY SaveEffect
<1> QED BY <1>1, PutsStep

LEMMA SaveIfStep ==
  ASSUME Types, NEW r \in Requests, PathInv(r), pc[r] \notin {"start", "commit", "done"},
         NEW p \in PCs \ {"start", "write", "redact", "done"}, p = "answer" \/ call[r].op \notin Creates,
         NEW found, NEW new, NEW del,
         call[r].op # "create_schema", SaveIf(found, r, new, del, p), found => Written(r, new, del)
  PROVE  StepOf(r) /\ PathInv(r)'
<1>1. (Ends(r) \/ Loses(r) \/ (found /\ Puts(r, new, del, p))) /\ got' = got BY SaveIfEffect
<1> QED BY <1>1, PutsStep

-----------------------------------------------------------------------------
(* Targets. *)

LEMMA FoundTarget ==
  ASSUME Types, NEW r \in Requests, NEW t, t # "flow_subject", Found(r, t) = "none"
  PROVE  call[r].target \in Id(t) /\ Present(r)
<1>1. PICK x \in Of(View(r), t) : x.id = call[r].target BY DEF Found
<1>2. x \in RowTypes /\ x.id[1] = t BY <1>1, ViewTyped DEF Of
<1>3. x.id \in Id(t) BY <1>2, RowTyped
<1> QED BY <1>1, <1>3 DEF Present, Ids, Of

LEMMA FoundOutcome == \A r, t : Found(r, t) \in Outcomes
  BY DEF Found, Outcomes

LEMMA TargetRow ==
  ASSUME Types, NEW r \in Requests, Present(r)
  PROVE  Target(r) \in View(r) /\ Target(r) \in RowTypes /\ Target(r).id = call[r].target
  BY RowIs, ViewTyped DEF Present, Target

LEMMA WrittenOne ==
  ASSUME NEW r \in Requests, NEW x \in RowTypes, x.id[2] = r \/ x.id \in Ids(View(r)), Allowed(r, x)
  PROVE  Written(r, {x}, {})
  BY FS_Singleton DEF Written

\* A version of a schema goes with no other row.
LEMMA CascadeSpares ==
  ASSUME NEW s \in SUBSET RowTypes, NEW del, NEW i \in Cascade(s, del), i[1] = "event_schema"
  PROVE  i \in del
<1>1. ASSUME NEW d, NEW y \in s, Owners(y) \cap d # {} PROVE y.id[1] # "event_schema"
  <2>1. SUFFICES ASSUME y.id[1] = "event_schema" PROVE FALSE OBVIOUS
  <2>2. Table(y) = EventSchemaTable(y) BY <2>1 DEF Table, Is
  <2>3. Owners(y) = {} BY <2>2 DEF Owners, EventSchemaTable, T
  <2> QED BY <1>1, <2>3
<1>2. \A d : \A j \in Dependents(s, d) : j[1] # "event_schema"
  BY <1>1 DEF Dependents
<1> QED BY <1>2 DEF Cascade

LEMMA DeleteStep ==
  ASSUME Types, NEW r \in Requests, PathInv(r), pc[r] \notin {"start", "commit", "done"},
         call[r].op \notin {"create_schema", "export", "compliance", "upload_document", "add_subjects"},
         call[r].target[1] # "event_schema" \/ call[r].op = "delete_schema",
         Delete(r)
  PROVE  StepOf(r) /\ PathInv(r)'
<1> DEFINE del == Cascade(View(r), {call[r].target})
<1>1. \A i \in del : i[1] = "event_schema" => i = call[r].target
  BY CascadeSpares, ViewTyped
<1>2. \A i \in del : Deletable(r, i) BY <1>1 DEF Deletable
<1>3. Written(r, {}, del) BY <1>2, FS_EmptySet DEF Written
<1>4. SaveIf(Present(r), r, {}, del, "answer") BY DEF Delete
<1>5. "answer" \in PCs \ {"start", "write", "redact", "done"} BY DEF PCs
<1> HIDE DEF del
<1> QED BY <1>3, <1>4, <1>5, SaveIfStep

LEMMA ChangeStep ==
  ASSUME Types, NEW r \in Requests, PathInv(r), pc[r] \notin {"start", "commit", "done"},
         call[r].op # "create_schema", NEW x, Change(r, {x}),
         Present(r) => x \in RowTypes /\ x.id = call[r].target /\ Allowed(r, x)
  PROVE  StepOf(r) /\ PathInv(r)'
<1>1. Present(r) => Written(r, {x}, {}) BY WrittenOne DEF Present
<1>2. "answer" \in PCs \ {"start", "write", "redact", "done"} BY DEF PCs
<1>3. SaveIf(Present(r), r, {x}, {}, "answer") BY DEF Change
<1> QED BY <1>1, <1>2, <1>3, SaveIfStep

LEMMA InsertStep ==
  ASSUME Types, NEW r \in Requests, PathInv(r), pc[r] \notin {"start", "commit", "done"},
         NEW p \in PCs \ {"start", "write", "redact", "done"}, p = "answer" \/ call[r].op \notin Creates,
         NEW o \in Outcomes, call[r].op # "create_schema", NEW x, Insert(r, x, o, p),
         x \in RowTypes, x.id[2] = r, Allowed(r, x)
  PROVE  StepOf(r) /\ PathInv(r)'
<1>1. Written(r, {x}, {}) BY WrittenOne
<1> QED BY <1>1, SaveStep DEF Insert

\* Routes that look their target up, and then change or delete it.
LEMMA FoundStep ==
  ASSUME Types, NEW r \in Requests, PathInv(r), pc[r] = "start",
         NEW t, t # "flow_subject", <<call[r].op, t>> \in Looked, Check(r, Found(r, t)),
         call[r].op \notin {"add_subjects", "update_type"}
  PROVE  StepOf(r) /\ PathInv(r)'
<1>1. Found(r, t) = "none" => PathAt(r, "write", None)
  BY FoundTarget DEF PathAt, Looked
<1>2. "write" \in PCs \ {"done"} BY DEF PCs
<1>3. call[r].op # "create_schema" BY DEF Looked
<1> QED BY <1>1, <1>2, <1>3, FoundOutcome, StartStep DEF Check

LEMMA DeleteFound ==
  ASSUME Types, NEW r \in Requests, PathInv(r), pc[r] = "write",
         NEW t, <<call[r].op, t>> \in Looked, t # "event_schema" \/ call[r].op = "delete_schema",
         call[r].op \notin {"compliance", "upload_document", "add_subjects"}, Delete(r)
  PROVE  StepOf(r) /\ PathInv(r)'
<1>1. call[r].target \in Id(t) BY DEF PathInv, PathAt
<1>2. call[r].target[1] = t BY <1>1, IdTable
<1>3. call[r].op \notin {"create_schema", "export"} BY DEF Looked
<1> QED BY <1>2, <1>3, DeleteStep

-----------------------------------------------------------------------------
(* The routes, one by one. *)

LEMMA Places ==
  /\ "write" \in PCs \ {"done"}
  /\ \A p \in {"answer", "attributes", "events", "links", "emit", "others", "erase", "documents", "members",
                "category", "count"} : p \in PCs \ {"start", "write", "redact", "done"}
  /\ \A o \in {"none", "invalid", "exists", "not_found", Raised, "error"} : o \in Outcomes
  BY DEF PCs, Outcomes, Raised

LEMMA CreateSubjectStep ==
  ASSUME Types, NEW r \in Requests, PathInv(r), CreateSubject(r)
  PROVE  StepOf(r) /\ PathInv(r)'
<1> USE Places
<1>0. call[r].op = "create_subject" BY DEF CreateSubject, At
<1>1. CASE At(r, "create_subject", "start")
  <2>1. PathAt(r, "attributes", Configured(r, "subject_type", call[r].code) # {})
    BY <1>0 DEF PathAt, Looked
  <2>2. Look(r, IF KnownType(r) THEN "none" ELSE "invalid",
             Configured(r, "subject_type", call[r].code) # {}, "attributes")
    BY <1>1 DEF CreateSubject, At
  <2> QED BY <1>0, <1>1, <2>1, <2>2, StartStep DEF At
<1>2. CASE At(r, "create_subject", "attributes")
  <2>1. PathAt(r, "write", None) BY <1>0 DEF PathAt, Looked
  <2> DEFINE o == IF (got[r] => AttributesFit(r, call[r].code)) /\ ~RefTaken(r) THEN "none" ELSE "invalid"
  <2>2. Look(r, o, None, "write") BY <1>2 DEF CreateSubject, At, Check
  <2>3. o \in Outcomes OBVIOUS
  <2>4. pc[r] \notin {"commit", "done"} BY <1>2 DEF At
  <2> HIDE DEF o
  <2>5. Ends(r) \/ (Looks(r, "write") /\ got'[r] = None) BY <2>2, <2>3, <2>4, LookEffect
  <2>6. CASE Ends(r) BY <2>6, EndsStep
  <2>7. CASE Looks(r, "write") /\ got'[r] = None
    <3>1. Goes(r) /\ pc'[r] = "write" /\ committed' = committed BY <2>7 DEF Looks, Untouched
    <3>2. PathInv(r)' BY <1>0, <2>1, <2>7, <3>1, PathStays
    <3> QED BY <1>0, <2>7, <3>2 DEF StepOf
  <2> QED BY <2>5, <2>6, <2>7
<1>3. CASE At(r, "create_subject", "write")
  <2>1. NewSubject(r) \in SubjectRow
    BY <1>0, Called, NewId DEF NewSubject, SubjectRow, CallOK, Text
  <2>2. NewSubject(r).content # Redacted /\ NewSubject(r).id = <<"subject", r>> BY Assumed DEF NewSubject
  <2>3. Allowed(r, NewSubject(r)) BY <1>0, <2>2 DEF Allowed, Unaudited
  <2>4. NewSubject(r) \in RowTypes BY <2>1 DEF RowTypes
  <2>5. Insert(r, NewSubject(r), Raised, "answer") BY <1>3 DEF CreateSubject, At
  <2> QED BY <1>0, <1>3, <2>2, <2>3, <2>4, <2>5, InsertStep DEF At
<1> QED BY <1>1, <1>2, <1>3 DEF CreateSubject

LEMMA UpdateKindStep ==
  ASSUME Types, NEW r \in Requests, PathInv(r), UpdateKind(r)
  PROVE  StepOf(r) /\ PathInv(r)'
<1> USE Places
<1>0. call[r].op = "update_kind" BY DEF UpdateKind, At
<1>1. CASE At(r, "update_kind", "start")
  <2>1. Check(r, Found(r, "relationship_kind")) /\ pc[r] = "start" BY <1>1 DEF UpdateKind, At
  <2>2. <<call[r].op, "relationship_kind">> \in Looked /\ "relationship_kind" # "flow_subject"
    BY <1>0 DEF Looked
  <2>3. call[r].op \notin {"add_subjects", "update_type"} BY <1>0
  <2> QED BY <2>1, <2>2, <2>3, FoundStep
<1>2. CASE At(r, "update_kind", "write")
  <2>1. Change(r, {KindChanged(r)}) /\ pc[r] = "write" BY <1>2 DEF UpdateKind, At
  <2>2. call[r].target \in Id("relationship_kind") /\ call[r].target[1] = "relationship_kind"
    BY <1>0, <2>1, IdTable DEF PathInv, PathAt, Looked
  <2>3. ASSUME Present(r)
        PROVE  KindChanged(r) \in RowTypes /\ KindChanged(r).id = call[r].target /\ Allowed(r, KindChanged(r))
    <3>1. Target(r) \in RelationshipKindRow /\ Target(r).id = call[r].target
      BY <2>2, <2>3, TargetRow, Sorts
    <3>2. KindChanged(r) \in RelationshipKindRow /\ KindChanged(r).id = call[r].target
      BY <1>0, <3>1, Called DEF KindChanged, RelationshipKindRow, Text, CallOK
    <3>3. Allowed(r, KindChanged(r)) BY <1>0, <2>2, <3>2 DEF Allowed
    <3> QED BY <3>2, <3>3 DEF RowTypes
  <2> QED BY <1>0, <2>1, <2>3, ChangeStep
<1> QED BY <1>1, <1>2 DEF UpdateKind

LEMMA UpdateCategoryStep ==
  ASSUME Types, NEW r \in Requests, PathInv(r), UpdateCategory(r)
  PROVE  StepOf(r) /\ PathInv(r)'
<1> USE Places
<1>0. call[r].op = "update_category" BY DEF UpdateCategory, At
<1>1. CASE At(r, "update_category", "start")
  <2>1. Check(r, Found(r, "category")) /\ pc[r] = "start" BY <1>1 DEF UpdateCategory, At
  <2>2. <<call[r].op, "category">> \in Looked /\ "category" # "flow_subject"
    BY <1>0 DEF Looked
  <2>3. call[r].op \notin {"add_subjects", "update_type"} BY <1>0
  <2> QED BY <2>1, <2>2, <2>3, FoundStep
<1>2. CASE At(r, "update_category", "write")
  <2>1. Change(r, {CategoryChanged(r)}) /\ pc[r] = "write" BY <1>2 DEF UpdateCategory, At
  <2>2. call[r].target \in Id("category") /\ call[r].target[1] = "category"
    BY <1>0, <2>1, IdTable DEF PathInv, PathAt, Looked
  <2>3. ASSUME Present(r)
        PROVE  CategoryChanged(r) \in RowTypes /\ CategoryChanged(r).id = call[r].target /\ Allowed(r, CategoryChanged(r))
    <3>1. Target(r) \in CategoryRow /\ Target(r).id = call[r].target
      BY <2>2, <2>3, TargetRow, Sorts
    <3>2. CategoryChanged(r) \in CategoryRow /\ CategoryChanged(r).id = call[r].target
      BY <1>0, <3>1, Called DEF CategoryChanged, CategoryRow, CallOK
    <3>3. Allowed(r, CategoryChanged(r)) BY <1>0, <2>2, <3>2 DEF Allowed
    <3> QED BY <3>2, <3>3 DEF RowTypes
  <2> QED BY <1>0, <2>1, <2>3, ChangeStep
<1> QED BY <1>1, <1>2 DEF UpdateCategory

LEMMA UpdateRuleStep ==
  ASSUME Types, NEW r \in Requests, PathInv(r), UpdateRule(r)
  PROVE  StepOf(r) /\ PathInv(r)'
<1> USE Places
<1>0. call[r].op = "update_rule" BY DEF UpdateRule, At
<1>1. CASE At(r, "update_rule", "start")
  <2>1. Check(r, Found(r, "rule")) /\ pc[r] = "start" BY <1>1 DEF UpdateRule, At
  <2>2. <<call[r].op, "rule">> \in Looked /\ "rule" # "flow_subject"
    BY <1>0 DEF Looked
  <2>3. call[r].op \notin {"add_subjects", "update_type"} BY <1>0
  <2> QED BY <2>1, <2>2, <2>3, FoundStep
<1>2. CASE At(r, "update_rule", "write")
  <2>1. Change(r, {RuleChanged(r)}) /\ pc[r] = "write" BY <1>2 DEF UpdateRule, At
  <2>2. call[r].target \in Id("rule") /\ call[r].target[1] = "rule"
    BY <1>0, <2>1, IdTable DEF PathInv, PathAt, Looked
  <2>3. ASSUME Present(r)
        PROVE  RuleChanged(r) \in RowTypes /\ RuleChanged(r).id = call[r].target /\ Allowed(r, RuleChanged(r))
    <3>1. Target(r) \in RuleRow /\ Target(r).id = call[r].target
      BY <2>2, <2>3, TargetRow, Sorts
    <3>2. RuleChanged(r) \in RuleRow /\ RuleChanged(r).id = call[r].target
      BY <1>0, <3>1, Called DEF RuleChanged, RuleRow, CallOK
    <3>3. Allowed(r, RuleChanged(r)) BY <1>0, <2>2, <3>2 DEF Allowed
    <3> QED BY <3>2, <3>3 DEF RowTypes
  <2> QED BY <1>0, <2>1, <2>3, ChangeStep
<1> QED BY <1>1, <1>2 DEF UpdateRule

LEMMA UpdateSchemaStep ==
  ASSUME Types, NEW r \in Requests, StoreInv, WriteInv(r), PathInv(r), UpdateSchema(r)
  PROVE  StepOf(r) /\ PathInv(r)'
<1> USE Places
<1>0. call[r].op = "update_schema" BY DEF UpdateSchema, At
<1>1. CASE At(r, "update_schema", "start")
  <2>1. Check(r, Found(r, "event_schema")) /\ pc[r] = "start" BY <1>1 DEF UpdateSchema, At
  <2>2. <<call[r].op, "event_schema">> \in Looked /\ "event_schema" # "flow_subject"
    BY <1>0 DEF Looked
  <2>3. call[r].op \notin {"add_subjects", "update_type"} BY <1>0
  <2> QED BY <2>1, <2>2, <2>3, FoundStep
<1>2. CASE At(r, "update_schema", "write")
  <2>1. Change(r, {SchemaChanged(r)}) /\ pc[r] = "write" BY <1>2 DEF UpdateSchema, At
  <2>2. call[r].target \in Id("event_schema") /\ call[r].target[1] = "event_schema"
    BY <1>0, <2>1, IdTable DEF PathInv, PathAt, Looked
  <2>3. ASSUME Present(r)
        PROVE  SchemaChanged(r) \in RowTypes /\ SchemaChanged(r).id = call[r].target /\ Allowed(r, SchemaChanged(r))
    <3>1. Target(r) \in EventSchemaRow /\ Target(r).id = call[r].target
      BY <2>2, <2>3, TargetRow, Sorts
    <3>2. SchemaChanged(r) \in EventSchemaRow /\ SchemaChanged(r).id = call[r].target
      BY <1>0, <3>1, Called DEF SchemaChanged, EventSchemaRow, Text, CallOK
    <3>3. \E y \in rows : y.id = call[r].target /\ y.code = SchemaChanged(r).code /\ y.version = SchemaChanged(r).version
      <4>1. SchemaChanged(r).code = Target(r).code /\ SchemaChanged(r).version = Target(r).version
        BY <3>1 DEF SchemaChanged, EventSchemaRow
      <4>2. CASE Target(r) \in rows BY <3>1, <4>1, <4>2
      <4>3. CASE Target(r) \in put[r]
        <5>1. Allowed(r, Target(r)) BY <4>3 DEF WriteInv
        <5>2. IsOldSchema(r, Target(r)) BY <1>0, <2>2, <3>1, <5>1 DEF Allowed, IsNewSchema
        <5> QED BY <3>1, <4>1, <5>2 DEF IsOldSchema
      <4> QED BY <2>3, <4>2, <4>3, TargetRow DEF View
    <3>4. SchemaChanged(r).active = call[r].flag BY <3>1 DEF SchemaChanged, EventSchemaRow
    <3>5. IsOldSchema(r, SchemaChanged(r)) BY <1>0, <3>2, <3>3, <3>4 DEF IsOldSchema
    <3>6. Allowed(r, SchemaChanged(r)) BY <1>0, <2>2, <3>2, <3>5 DEF Allowed
    <3> QED BY <3>2, <3>6 DEF RowTypes
  <2> QED BY <1>0, <2>1, <2>3, ChangeStep
<1> QED BY <1>1, <1>2 DEF UpdateSchema

LEMMA UpdateTemplateStep ==
  ASSUME Types, NEW r \in Requests, PathInv(r), UpdateTemplate(r)
  PROVE  StepOf(r) /\ PathInv(r)'
<1> USE Places
<1>0. call[r].op = "update_template" BY DEF UpdateTemplate, At
<1>1. CASE At(r, "update_template", "start")
  <2>1. Check(r, Found(r, "template")) /\ pc[r] = "start" BY <1>1 DEF UpdateTemplate, At
  <2>2. <<call[r].op, "template">> \in Looked /\ "template" # "flow_subject"
    BY <1>0 DEF Looked
  <2>3. call[r].op \notin {"add_subjects", "update_type"} BY <1>0
  <2> QED BY <2>1, <2>2, <2>3, FoundStep
<1>2. CASE At(r, "update_template", "write")
  <2>1. Change(r, {TemplateChanged(r)}) /\ pc[r] = "write" BY <1>2 DEF UpdateTemplate, At
  <2>2. call[r].target \in Id("template") /\ call[r].target[1] = "template"
    BY <1>0, <2>1, IdTable DEF PathInv, PathAt, Looked
  <2>3. ASSUME Present(r)
        PROVE  TemplateChanged(r) \in RowTypes /\ TemplateChanged(r).id = call[r].target /\ Allowed(r, TemplateChanged(r))
    <3>1. Target(r) \in NamingTemplateRow /\ Target(r).id = call[r].target
      BY <2>2, <2>3, TargetRow, Sorts
    <3>2. TemplateChanged(r) \in NamingTemplateRow /\ TemplateChanged(r).id = call[r].target
      BY <1>0, <3>1, Called DEF TemplateChanged, NamingTemplateRow, CallOK
    <3>3. Allowed(r, TemplateChanged(r)) BY <1>0, <2>2, <3>2 DEF Allowed
    <3> QED BY <3>2, <3>3 DEF RowTypes
  <2> QED BY <1>0, <2>1, <2>3, ChangeStep
<1> QED BY <1>1, <1>2 DEF UpdateTemplate

LEMMA UpdateFlowStep ==
  ASSUME Types, NEW r \in Requests, PathInv(r), UpdateFlow(r)
  PROVE  StepOf(r) /\ PathInv(r)'
<1> USE Places
<1>0. call[r].op = "update_flow" BY DEF UpdateFlow, At
<1>1. CASE At(r, "update_flow", "start")
  <2>1. Check(r, Found(r, "flow")) /\ pc[r] = "start" BY <1>1 DEF UpdateFlow, At
  <2>2. <<call[r].op, "flow">> \in Looked /\ "flow" # "flow_subject"
    BY <1>0 DEF Looked
  <2>3. call[r].op \notin {"add_subjects", "update_type"} BY <1>0
  <2> QED BY <2>1, <2>2, <2>3, FoundStep
<1>2. CASE At(r, "update_flow", "write")
  <2>1. Change(r, {FlowChanged(r)}) /\ pc[r] = "write" BY <1>2 DEF UpdateFlow, At
  <2>2. call[r].target \in Id("flow") /\ call[r].target[1] = "flow"
    BY <1>0, <2>1, IdTable DEF PathInv, PathAt, Looked
  <2>3. ASSUME Present(r)
        PROVE  FlowChanged(r) \in RowTypes /\ FlowChanged(r).id = call[r].target /\ Allowed(r, FlowChanged(r))
    <3>1. Target(r) \in FlowRow /\ Target(r).id = call[r].target
      BY <2>2, <2>3, TargetRow, Sorts
    <3>2. FlowChanged(r) \in FlowRow /\ FlowChanged(r).id = call[r].target
      BY <1>0, <3>1, Called DEF FlowChanged, FlowRow, CallOK
    <3>3. Allowed(r, FlowChanged(r)) BY <1>0, <2>2, <3>2 DEF Allowed
    <3> QED BY <3>2, <3>3 DEF RowTypes
  <2> QED BY <1>0, <2>1, <2>3, ChangeStep
<1> QED BY <1>1, <1>2 DEF UpdateFlow

LEMMA DeleteKindStep ==
  ASSUME Types, NEW r \in Requests, PathInv(r), DeleteKind(r)
  PROVE  StepOf(r) /\ PathInv(r)'
<1>0. call[r].op = "delete_kind" BY DEF DeleteKind, At
<1>1. CASE At(r, "delete_kind", "start")
  <2>1. Check(r, Found(r, "relationship_kind")) /\ pc[r] = "start" BY <1>1 DEF DeleteKind, At
  <2>2. <<call[r].op, "relationship_kind">> \in Looked /\ "relationship_kind" # "flow_subject"
    BY <1>0 DEF Looked
  <2>3. call[r].op \notin {"add_subjects", "update_type"} BY <1>0
  <2> QED BY <2>1, <2>2, <2>3, FoundStep
<1>2. CASE At(r, "delete_kind", "write")
  <2>1. Delete(r) /\ pc[r] = "write" BY <1>2 DEF DeleteKind, At
  <2> QED BY <1>0, <2>1, DeleteFound DEF Looked
<1> QED BY <1>1, <1>2 DEF DeleteKind

LEMMA DeleteTypeStep ==
  ASSUME Types, NEW r \in Requests, PathInv(r), DeleteType(r)
  PROVE  StepOf(r) /\ PathInv(r)'
<1>0. call[r].op = "delete_type" BY DEF DeleteType, At
<1>1. CASE At(r, "delete_type", "start")
  <2>1. Check(r, Found(r, "subject_type")) /\ pc[r] = "start" BY <1>1 DEF DeleteType, At
  <2>2. <<call[r].op, "subject_type">> \in Looked /\ "subject_type" # "flow_subject"
    BY <1>0 DEF Looked
  <2>3. call[r].op \notin {"add_subjects", "update_type"} BY <1>0
  <2> QED BY <2>1, <2>2, <2>3, FoundStep
<1>2. CASE At(r, "delete_type", "write")
  <2>1. Delete(r) /\ pc[r] = "write" BY <1>2 DEF DeleteType, At
  <2> QED BY <1>0, <2>1, DeleteFound DEF Looked
<1> QED BY <1>1, <1>2 DEF DeleteType

LEMMA DeleteCategoryStep ==
  ASSUME Types, NEW r \in Requests, PathInv(r), DeleteCategory(r)
  PROVE  StepOf(r) /\ PathInv(r)'
<1>0. call[r].op = "delete_category" BY DEF DeleteCategory, At
<1>1. CASE At(r, "delete_category", "start")
  <2>1. Check(r, Found(r, "category")) /\ pc[r] = "start" BY <1>1 DEF DeleteCategory, At
  <2>2. <<call[r].op, "category">> \in Looked /\ "category" # "flow_subject"
    BY <1>0 DEF Looked
  <2>3. call[r].op \notin {"add_subjects", "update_type"} BY <1>0
  <2> QED BY <2>1, <2>2, <2>3, FoundStep
<1>2. CASE At(r, "delete_category", "write")
  <2>1. Delete(r) /\ pc[r] = "write" BY <1>2 DEF DeleteCategory, At
  <2> QED BY <1>0, <2>1, DeleteFound DEF Looked
<1> QED BY <1>1, <1>2 DEF DeleteCategory

LEMMA DeleteRuleStep ==
  ASSUME Types, NEW r \in Requests, PathInv(r), DeleteRule(r)
  PROVE  StepOf(r) /\ PathInv(r)'
<1>0. call[r].op = "delete_rule" BY DEF DeleteRule, At
<1>1. CASE At(r, "delete_rule", "start")
  <2>1. Check(r, Found(r, "rule")) /\ pc[r] = "start" BY <1>1 DEF DeleteRule, At
  <2>2. <<call[r].op, "rule">> \in Looked /\ "rule" # "flow_subject"
    BY <1>0 DEF Looked
  <2>3. call[r].op \notin {"add_subjects", "update_type"} BY <1>0
  <2> QED BY <2>1, <2>2, <2>3, FoundStep
<1>2. CASE At(r, "delete_rule", "write")
  <2>1. Delete(r) /\ pc[r] = "write" BY <1>2 DEF DeleteRule, At
  <2> QED BY <1>0, <2>1, DeleteFound DEF Looked
<1> QED BY <1>1, <1>2 DEF DeleteRule

LEMMA DeleteSchemaStep ==
  ASSUME Types, NEW r \in Requests, PathInv(r), DeleteSchema(r)
  PROVE  StepOf(r) /\ PathInv(r)'
<1>0. call[r].op = "delete_schema" BY DEF DeleteSchema, At
<1>1. CASE At(r, "delete_schema", "start")
  <2>1. Check(r, Found(r, "event_schema")) /\ pc[r] = "start" BY <1>1 DEF DeleteSchema, At
  <2>2. <<call[r].op, "event_schema">> \in Looked /\ "event_schema" # "flow_subject"
    BY <1>0 DEF Looked
  <2>3. call[r].op \notin {"add_subjects", "update_type"} BY <1>0
  <2> QED BY <2>1, <2>2, <2>3, FoundStep
<1>2. CASE At(r, "delete_schema", "write")
  <2>1. Delete(r) /\ pc[r] = "write" BY <1>2 DEF DeleteSchema, At
  <2> QED BY <1>0, <2>1, DeleteFound DEF Looked
<1> QED BY <1>1, <1>2 DEF DeleteSchema

LEMMA DeleteTemplateStep ==
  ASSUME Types, NEW r \in Requests, PathInv(r), DeleteTemplate(r)
  PROVE  StepOf(r) /\ PathInv(r)'
<1>0. call[r].op = "delete_template" BY DEF DeleteTemplate, At
<1>1. CASE At(r, "delete_template", "start")
  <2>1. Check(r, Found(r, "template")) /\ pc[r] = "start" BY <1>1 DEF DeleteTemplate, At
  <2>2. <<call[r].op, "template">> \in Looked /\ "template" # "flow_subject"
    BY <1>0 DEF Looked
  <2>3. call[r].op \notin {"add_subjects", "update_type"} BY <1>0
  <2> QED BY <2>1, <2>2, <2>3, FoundStep
<1>2. CASE At(r, "delete_template", "write")
  <2>1. Delete(r) /\ pc[r] = "write" BY <1>2 DEF DeleteTemplate, At
  <2> QED BY <1>0, <2>1, DeleteFound DEF Looked
<1> QED BY <1>1, <1>2 DEF DeleteTemplate

LEMMA DeleteRequirementStep ==
  ASSUME Types, NEW r \in Requests, PathInv(r), DeleteRequirement(r)
  PROVE  StepOf(r) /\ PathInv(r)'
<1>0. call[r].op = "delete_requirement" BY DEF DeleteRequirement, At
<1>1. CASE At(r, "delete_requirement", "start")
  <2>1. Check(r, Found(r, "requirement")) /\ pc[r] = "start" BY <1>1 DEF DeleteRequirement, At
  <2>2. <<call[r].op, "requirement">> \in Looked /\ "requirement" # "flow_subject"
    BY <1>0 DEF Looked
  <2>3. call[r].op \notin {"add_subjects", "update_type"} BY <1>0
  <2> QED BY <2>1, <2>2, <2>3, FoundStep
<1>2. CASE At(r, "delete_requirement", "write")
  <2>1. Delete(r) /\ pc[r] = "write" BY <1>2 DEF DeleteRequirement, At
  <2> QED BY <1>0, <2>1, DeleteFound DEF Looked
<1> QED BY <1>1, <1>2 DEF DeleteRequirement

LEMMA DeleteSubjectStep ==
  ASSUME Types, NEW r \in Requests, PathInv(r), DeleteSubject(r)
  PROVE  StepOf(r) /\ PathInv(r)'
<1>0. call[r].op = "delete_subject" BY DEF DeleteSubject, At
<1>1. CASE At(r, "delete_subject", "start")
  <2>1. Check(r, Found(r, "subject")) /\ pc[r] = "start" BY <1>1 DEF DeleteSubject, At
  <2>2. <<call[r].op, "subject">> \in Looked /\ "subject" # "flow_subject"
    BY <1>0 DEF Looked
  <2>3. call[r].op \notin {"add_subjects", "update_type"} BY <1>0
  <2> QED BY <2>1, <2>2, <2>3, FoundStep
<1>2. CASE At(r, "delete_subject", "write")
  <2>1. Delete(r) /\ pc[r] = "write" BY <1>2 DEF DeleteSubject, At
  <2> QED BY <1>0, <2>1, DeleteFound DEF Looked
<1> QED BY <1>1, <1>2 DEF DeleteSubject

LEMMA CreateKindStep ==
  ASSUME Types, NEW r \in Requests, PathInv(r), CreateKind(r)
  PROVE  StepOf(r) /\ PathInv(r)'
<1> USE Places
<1>0. call[r].op = "create_kind" BY DEF CreateKind, At
<1>1. CASE At(r, "create_kind", "start")
  <2>1. PathAt(r, "write", None) BY <1>0 DEF PathAt, Looked
  <2>2. Look(r, IF CodeTaken(r, "relationship_kind") THEN "invalid" ELSE "none", None, "write") /\ pc[r] = "start"
    BY <1>1 DEF CreateKind, At, Check
  <2> QED BY <1>0, <2>1, <2>2, StartStep
<1>2. CASE At(r, "create_kind", "write")
  <2>1. NewKind(r) \in RelationshipKindRow /\ NewKind(r).id = <<"relationship_kind", r>>
    BY <1>0, Called, NewId DEF NewKind, RelationshipKindRow, Text, CallOK
  <2>2. Allowed(r, NewKind(r)) BY <1>0, <2>1 DEF Allowed
  <2>3. NewKind(r) \in RowTypes BY <2>1 DEF RowTypes
  <2>4. Insert(r, NewKind(r), Raised, "answer") /\ pc[r] = "write" BY <1>2 DEF CreateKind, At
  <2> QED BY <1>0, <2>1, <2>2, <2>3, <2>4, InsertStep
<1> QED BY <1>1, <1>2 DEF CreateKind

LEMMA CreateTypeStep ==
  ASSUME Types, NEW r \in Requests, PathInv(r), CreateType(r)
  PROVE  StepOf(r) /\ PathInv(r)'
<1> USE Places
<1>0. call[r].op = "create_type" BY DEF CreateType, At
<1>1. CASE At(r, "create_type", "start")
  <2>1. PathAt(r, "write", None) BY <1>0 DEF PathAt, Looked
  <2>2. Look(r, "none", None, "write") /\ pc[r] = "start"
    BY <1>1 DEF CreateType, At, Check
  <2> QED BY <1>0, <2>1, <2>2, StartStep
<1>2. CASE At(r, "create_type", "write")
  <2>1. NewType(r) \in SubjectTypeRow /\ NewType(r).id = <<"subject_type", r>>
    BY <1>0, Called, NewId DEF NewType, SubjectTypeRow, CallOK
  <2>2. Allowed(r, NewType(r)) BY <1>0, <2>1 DEF Allowed
  <2>3. NewType(r) \in RowTypes BY <2>1 DEF RowTypes
  <2>4. Insert(r, NewType(r), "exists", "answer") /\ pc[r] = "write" BY <1>2 DEF CreateType, At
  <2> QED BY <1>0, <2>1, <2>2, <2>3, <2>4, InsertStep
<1> QED BY <1>1, <1>2 DEF CreateType

LEMMA CreateCategoryStep ==
  ASSUME Types, NEW r \in Requests, PathInv(r), CreateCategory(r)
  PROVE  StepOf(r) /\ PathInv(r)'
<1> USE Places
<1>0. call[r].op = "create_category" BY DEF CreateCategory, At
<1>1. CASE At(r, "create_category", "start")
  <2>1. PathAt(r, "write", None) BY <1>0 DEF PathAt, Looked
  <2>2. Look(r, "none", None, "write") /\ pc[r] = "start"
    BY <1>1 DEF CreateCategory, At, Check
  <2> QED BY <1>0, <2>1, <2>2, StartStep
<1>2. CASE At(r, "create_category", "write")
  <2>1. NewCategory(r) \in CategoryRow /\ NewCategory(r).id = <<"category", r>>
    BY <1>0, Called, NewId DEF NewCategory, CategoryRow, CallOK
  <2>2. Allowed(r, NewCategory(r)) BY <1>0, <2>1 DEF Allowed
  <2>3. NewCategory(r) \in RowTypes BY <2>1 DEF RowTypes
  <2>4. Insert(r, NewCategory(r), "exists", "answer") /\ pc[r] = "write" BY <1>2 DEF CreateCategory, At
  <2> QED BY <1>0, <2>1, <2>2, <2>3, <2>4, InsertStep
<1> QED BY <1>1, <1>2 DEF CreateCategory

LEMMA CreateRuleStep ==
  ASSUME Types, NEW r \in Requests, PathInv(r), CreateRule(r)
  PROVE  StepOf(r) /\ PathInv(r)'
<1> USE Places
<1>0. call[r].op = "create_rule" BY DEF CreateRule, At
<1>1. CASE At(r, "create_rule", "start")
  <2>1. PathAt(r, "write", None) BY <1>0 DEF PathAt, Looked
  <2>2. Look(r, IF CodeTaken(r, "rule") THEN "invalid" ELSE "none", None, "write") /\ pc[r] = "start"
    BY <1>1 DEF CreateRule, At, Check
  <2> QED BY <1>0, <2>1, <2>2, StartStep
<1>2. CASE At(r, "create_rule", "write")
  <2>1. NewRule(r) \in RuleRow /\ NewRule(r).id = <<"rule", r>>
    BY <1>0, Called, NewId DEF NewRule, RuleRow, CallOK
  <2>2. Allowed(r, NewRule(r)) BY <1>0, <2>1 DEF Allowed
  <2>3. NewRule(r) \in RowTypes BY <2>1 DEF RowTypes
  <2>4. Insert(r, NewRule(r), Raised, "answer") /\ pc[r] = "write" BY <1>2 DEF CreateRule, At
  <2> QED BY <1>0, <2>1, <2>2, <2>3, <2>4, InsertStep
<1> QED BY <1>1, <1>2 DEF CreateRule

LEMMA CreateTemplateStep ==
  ASSUME Types, NEW r \in Requests, PathInv(r), CreateTemplate(r)
  PROVE  StepOf(r) /\ PathInv(r)'
<1> USE Places
<1>0. call[r].op = "create_template" BY DEF CreateTemplate, At
<1>1. CASE At(r, "create_template", "start")
  <2>1. PathAt(r, "write", None) BY <1>0 DEF PathAt, Looked
  <2>2. Look(r, "none", None, "write") /\ pc[r] = "start"
    BY <1>1 DEF CreateTemplate, At, Check
  <2> QED BY <1>0, <2>1, <2>2, StartStep
<1>2. CASE At(r, "create_template", "write")
  <2>1. NewTemplate(r) \in NamingTemplateRow /\ NewTemplate(r).id = <<"template", r>>
    BY <1>0, Called, NewId DEF NewTemplate, NamingTemplateRow, CallOK
  <2>2. Allowed(r, NewTemplate(r)) BY <1>0, <2>1 DEF Allowed
  <2>3. NewTemplate(r) \in RowTypes BY <2>1 DEF RowTypes
  <2>4. Insert(r, NewTemplate(r), "exists", "answer") /\ pc[r] = "write" BY <1>2 DEF CreateTemplate, At
  <2> QED BY <1>0, <2>1, <2>2, <2>3, <2>4, InsertStep
<1> QED BY <1>1, <1>2 DEF CreateTemplate

LEMMA UpdateSubjectStep ==
  ASSUME Types, NEW r \in Requests, PathInv(r), UpdateSubject(r)
  PROVE  StepOf(r) /\ PathInv(r)'
<1> USE Places
<1>0. call[r].op = "update_subject" BY DEF UpdateSubject, At
<1>1. CASE At(r, "update_subject", "start")
  <2>1. Look(r, RefuseUpdate(r), None, "write") /\ pc[r] = "start" BY <1>1 DEF UpdateSubject, At, Check
  <2>2. RefuseUpdate(r) = "none" => PathAt(r, "write", None)
    BY <1>0, FoundTarget DEF RefuseUpdate, PathAt, Looked
  <2>3. RefuseUpdate(r) \in Outcomes BY DEF RefuseUpdate
  <2> QED BY <1>0, <2>1, <2>2, <2>3, StartStep
<1>2. CASE At(r, "update_subject", "write")
  <2> DEFINE x == Assigned(r, Target(r))
  <2>1. Change(r, {x}) /\ pc[r] = "write" BY <1>2 DEF UpdateSubject, At
  <2>2. call[r].target[1] = "subject" BY <1>0, <2>1, IdTable DEF PathInv, PathAt, Looked
  <2>3. ASSUME Present(r) PROVE x \in RowTypes /\ x.id = call[r].target /\ Allowed(r, x)
    <3>1. Target(r) \in SubjectRow /\ Target(r).id = call[r].target
      BY <2>2, <2>3, TargetRow, Sorts
    <3>2. x \in SubjectRow /\ x.id = call[r].target /\ x.content = r
      BY <1>0, <3>1, Called DEF Assigned, SubjectRow, CallOK, Text
    <3> HIDE DEF x
    <3>3. Allowed(r, x) BY <1>0, <2>2, <3>2, Assumed DEF Allowed, Unaudited
    <3> QED BY <3>2, <3>3 DEF RowTypes
  <2> HIDE DEF x
  <2> QED BY <1>0, <2>1, <2>3, ChangeStep
<1> QED BY <1>1, <1>2 DEF UpdateSubject

LEMMA DocumentRedacted ==
  ASSUME NEW x \in DocumentRow
  PROVE  /\ [x EXCEPT !.deleted = TRUE] \in DocumentRow
         /\ [x EXCEPT !.deleted = TRUE].id = x.id /\ [x EXCEPT !.deleted = TRUE].deleted
         /\ [x EXCEPT !.deleted = TRUE].subject = x.subject
  BY DEF DocumentRow

LEMMA SoftDeleteStep ==
  ASSUME Types, NEW r \in Requests, PathInv(r), call[r].op \in {"anonymize", "erase"}, SoftDelete(r)
  PROVE  StepOf(r) /\ PathInv(r)'
<1> USE Places, Typed
<1>1. PICK d \in got[r] :
       /\ got' = [got EXCEPT ![r] = @ \ {d}]
       /\ UNCHANGED <<call, before>>
       /\ IF d \notin Ids(View(r)) THEN Goto(r, "redact") /\ Untouched
          ELSE LET new == {[Row(View(r), d) EXCEPT !.deleted = TRUE]} IN
               \/ Flush(r, new, {}, Chain(r)) /\ Goto(r, "redact")
               \/ AuditRefused(r, new, {}, Chain(r)) /\ Fail(r, "error")
  BY DEF SoftDelete
<1>2. pc[r] = "redact" /\ got[r] \subseteq Id("document") BY DEF SoftDelete, PathInv, PathAt
<1> DEFINE x == [Row(View(r), d) EXCEPT !.deleted = TRUE]
<1>3. \/ d \notin Ids(View(r)) /\ Goto(r, "redact") /\ Untouched
      \/ d \in Ids(View(r)) /\ Flush(r, {x}, {}, Chain(r)) /\ Goto(r, "redact")
      \/ Fail(r, "error")
  BY <1>1
<1>4. ASSUME d \in Ids(View(r)) PROVE Written(r, {x}, {})
  <2>1. Row(View(r), d) \in View(r) /\ Row(View(r), d).id = d BY <1>4, RowIs
  <2>2. d[1] = "document" BY <1>2, IdTable
  <2>3. Row(View(r), d) \in DocumentRow BY <2>1, <2>2, ViewTyped, Sorts
  <2>4. x \in DocumentRow /\ x.id = d /\ x.deleted BY <2>1, <2>3, DocumentRedacted
  <2> HIDE DEF x
  <2>5. Allowed(r, x) BY <2>2, <2>4 DEF Allowed
  <2>6. x \in RowTypes BY <2>4 DEF RowTypes
  <2> QED BY <1>4, <2>4, <2>5, <2>6, WrittenOne
<1> HIDE DEF x
<1>5. CASE Fail(r, "error")
  <2>1. Drop(r, "closed") /\ pc' = [pc EXCEPT ![r] = "done"] /\ outcome' = [outcome EXCEPT ![r] = "error"]
    BY <1>5 DEF Fail, End
  <2>2. pc' \in [Requests -> PCs] /\ outcome' \in [Requests -> Outcomes] /\ pc'[r] = "done"
    BY <2>1 DEF PCs
  <2>3. call' = call /\ before' = before /\ DOMAIN got' = Requests BY <1>1
  <2>4. \A q \in Requests \ {r} : got'[q] = got[q] BY <1>1
  <2>5. Ends(r) BY <1>2, <2>1, <2>2, <2>3, <2>4 DEF Ends, Goes
  <2> QED BY <2>5, EndsStep
<1>6. ASSUME Goto(r, "redact") PROVE Goes(r) /\ pc'[r] = "redact"
  <2>1. "redact" \in PCs BY DEF PCs
  <2>2. UNCHANGED <<call, before>> /\ DOMAIN got' = Requests BY <1>1
  <2>3. \A q \in Requests \ {r} : got'[q] = got[q] BY <1>1
  <2> QED BY <1>2, <1>6, <2>1, <2>2, <2>3, GotoGoes
<1>7. ASSUME Goto(r, "redact"), committed' = committed PROVE PathInv(r)'
  <2>1. got'[r] \subseteq got[r] BY <1>1
  <2>2. PathAt(r, "redact", got'[r]) BY <1>2, <2>1 DEF PathAt, PathInv
  <2> QED BY <1>6, <1>7, <2>2, PathStays
<1>8. CASE d \notin Ids(View(r)) /\ Goto(r, "redact") /\ Untouched
  BY <1>6, <1>7, <1>8 DEF StepOf, Looks, Untouched
<1>9. CASE d \in Ids(View(r)) /\ Flush(r, {x}, {}, Chain(r)) /\ Goto(r, "redact")
  <2>1. Puts(r, {x}, {}, "redact") BY <1>6, <1>9, FlushEffect
  <2>2. committed' = committed BY <2>1 DEF Puts
  <2>3. StepOf(r) BY <1>4, <1>9, <2>1 DEF StepOf
  <2> QED BY <1>7, <1>9, <2>2, <2>3
<1> QED BY <1>3, <1>5, <1>8, <1>9

LEMMA EraseStep ==
  ASSUME Types, NEW r \in Requests, PathInv(r), Erase(r)
  PROVE  StepOf(r) /\ PathInv(r)'
<1> USE Places
<1>0. call[r].op \in {"anonymize", "erase"} BY DEF Erase
<1>1. CASE pc[r] = "start" /\ Look(r, Found(r, "subject"), None,
                                   IF call[r].op = "erase" THEN "documents" ELSE "write")
  <2>1. Found(r, "subject") = "none" => \A p \in {"documents", "write"} : PathAt(r, p, None)
    BY <1>0, FoundTarget DEF PathAt, Looked
  <2> QED BY <1>0, <1>1, <2>1, FoundOutcome, StartStep
<1>2. CASE /\ At(r, "anonymize", "write")
           /\ SaveIf(Present(r), r, {Anonymized(Target(r))}, {}, "documents")
  <2> DEFINE x == Anonymized(Target(r))
  <2>1. call[r].op = "anonymize" /\ pc[r] = "write" /\ SaveIf(Present(r), r, {x}, {}, "documents")
    BY <1>2 DEF At
  <2>2. call[r].target[1] = "subject" BY <2>1, IdTable DEF PathInv, PathAt, Looked
  <2>3. ASSUME Present(r) PROVE Written(r, {x}, {})
    <3>1. Target(r) \in SubjectRow /\ Target(r).id = call[r].target
      BY <2>2, <2>3, TargetRow, Sorts
    <3>2. x \in SubjectRow /\ x.id = call[r].target
      BY <3>1 DEF Anonymized, SubjectRow, Text
    <3> HIDE DEF x
    <3>3. Allowed(r, x) BY <2>1, <2>2, <3>2 DEF Allowed, Unaudited
    <3>4. x \in RowTypes /\ x.id \in Ids(View(r)) BY <2>3, <3>2 DEF RowTypes, Present
    <3> QED BY <3>3, <3>4, WrittenOne
  <2> HIDE DEF x
  <2>4. call[r].op \notin Creates /\ call[r].op # "create_schema" BY <2>1 DEF Creates
  <2> QED BY <2>1, <2>3, <2>4, SaveIfStep
<1>3. CASE /\ pc[r] = "documents"
           /\ got' = [got EXCEPT ![r] = Listed(r)]
           /\ before' = [before EXCEPT ![r] = committed]
           /\ Goto(r, "redact") /\ Untouched /\ UNCHANGED <<call>>
  <2>1. Goes(r) /\ pc'[r] = "redact" /\ committed' = committed
    BY <1>3, Typed DEF Goto, Goes, PCs, Untouched
  <2>2. Listed(r) \subseteq Id("document")
    <3>1. ASSUME NEW y \in Of(View(r), "document") PROVE y.id \in Id("document")
      BY ViewTyped, RowTyped DEF Of
    <3> QED BY <3>1 DEF Listed
  <2>3. got'[r] = Listed(r) BY <1>3, Typed
  <2>4. PathAt(r, "redact", got'[r]) BY <1>3, <2>2, <2>3 DEF PathAt, PathInv
  <2>5. PathInv(r)' BY <1>0, <2>1, <2>4, PathStays
  <2>6. Looks(r, "redact") BY <1>3, <2>1 DEF Looks
  <2> QED BY <1>0, <2>5, <2>6 DEF StepOf
<1>4. CASE SoftDelete(r) BY <1>0, <1>4, SoftDeleteStep
<1>5. CASE pc[r] = "redact" /\ got[r] = {} /\
           Look(r, "none", None, IF call[r].op = "erase" THEN "erase" ELSE "answer")
  BY <1>0, <1>5, ReadStep
<1>6. CASE pc[r] = "erase" /\ Delete(r)
  <2>1. call[r].target \in Id("subject") BY <1>0, <1>6 DEF PathInv, PathAt, Looked
  <2>2. call[r].target[1] # "event_schema" BY <2>1, IdTable
  <2> QED BY <1>0, <1>6, <2>2, DeleteStep
<1> QED BY <1>1, <1>2, <1>3, <1>4, <1>5, <1>6 DEF Erase

LEMMA UploadStep ==
  ASSUME Types, NEW r \in Requests, PathInv(r), Upload(r)
  PROVE  StepOf(r) /\ PathInv(r)'
<1> USE Places
<1>0. call[r].op = "upload_document" BY DEF Upload, At
<1>1. CASE At(r, "upload_document", "start")
  <2> DEFINE o == IF call[r].other = None \/ MetadataFits(r) THEN Found(r, "subject") ELSE "invalid"
  <2>1. Look(r, o, None, "write") /\ pc[r] = "start" BY <1>1 DEF Upload, At, Check
  <2>2. o = "none" => PathAt(r, "write", None) BY <1>0, FoundTarget DEF PathAt, Looked
  <2>3. o \in Outcomes BY FoundOutcome
  <2> HIDE DEF o
  <2> QED BY <1>0, <2>1, <2>2, <2>3, StartStep
<1>2. CASE At(r, "upload_document", "write")
  <2>1. Insert(r, NewDocument(r), Raised, "answer") /\ pc[r] = "write" BY <1>2 DEF Upload, At
  <2>2. call[r].target \in Id("subject") BY <1>0, <2>1 DEF PathInv, PathAt, Looked
  <2>3. NewDocument(r) \in DocumentRow /\ NewDocument(r).id = <<"document", r>>
    BY <1>0, <2>2, Called, NewId DEF NewDocument, DocumentRow, CallOK
  <2>4. Allowed(r, NewDocument(r)) BY <1>0, <2>3 DEF Allowed
  <2>5. NewDocument(r) \in RowTypes BY <2>3 DEF RowTypes
  <2> QED BY <1>0, <2>1, <2>3, <2>4, <2>5, InsertStep
<1> QED BY <1>1, <1>2 DEF Upload

LEMMA ExportStep ==
  ASSUME Types, NEW r \in Requests, PathInv(r), Export(r)
  PROVE  StepOf(r) /\ PathInv(r)'
<1> USE Places
<1>0. call[r].op = "export" BY DEF Export
<1> DEFINE subject == {x \in Of(rows, "subject") : x.id = call[r].target}
           o == IF subject = {} THEN "not_found" ELSE "none"
           g == [subject |-> subject, events |-> {}, documents |-> {}]
<1>1. CASE pc[r] = "start" /\ Look(r, o, g, "events")
  <2>1. o \in Outcomes OBVIOUS
  <2> HIDE DEF o, g
  <2>2. PathAt(r, "events", g) BY <1>0 DEF PathAt, Looked
  <2> QED BY <1>0, <1>1, <2>1, <2>2, StartStep
<1>2. CASE pc[r] = "events" /\ Look(r, "none", Exported(r, "events", "event"), "documents")
  BY <1>0, <1>2, ReadStep
<1>3. CASE pc[r] = "documents" /\ Look(r, "none", Exported(r, "documents", "document"), "answer")
  BY <1>0, <1>3, ReadStep
<1> QED BY <1>1, <1>2, <1>3 DEF Export

LEMMA EmitStep ==
  ASSUME Types, NEW r \in Requests, PathInv(r), EmitRelationshipEvent(r)
  PROVE  StepOf(r) /\ PathInv(r)'
<1>1. Ends(r) BY FailEffect, Places DEF EmitRelationshipEvent
<1> QED BY <1>1, EndsStep

LEMMA AddRelationshipStep ==
  ASSUME Types, NEW r \in Requests, PathInv(r), AddRelationship(r)
  PROVE  StepOf(r) /\ PathInv(r)'
<1> USE Places
<1>0. call[r].op = "add_relationship" BY DEF AddRelationship
<1>1. CASE pc[r] = "start" /\ Check(r, RefuseRelationship(r))
  <2>1. RefuseRelationship(r) \in Outcomes BY DEF RefuseRelationship
  <2>2. RefuseRelationship(r) = "none" => PathAt(r, "write", None)
    <3>1. SUFFICES ASSUME RefuseRelationship(r) = "none"
                   PROVE  call[r].target \in Id("subject") /\ call[r].other \in Id("subject")
      BY <1>0 DEF PathAt, Looked
    <3>2. call[r].target \in Ids(View(r)) /\ call[r].other \in Ids(View(r))
      BY <3>1 DEF RefuseRelationship
    <3>3. call[r].target[1] = "subject" /\ call[r].other[1] = "subject" BY <1>0, Called DEF CallOK
    <3> QED BY <3>2, <3>3, ViewTyped, RowTyped DEF Ids
  <2> QED BY <1>0, <1>1, <2>1, <2>2, StartStep DEF Check
<1>2. CASE pc[r] = "write" /\ Insert(r, NewRelationship(r), Raised, "emit")
  <2>1. call[r].target \in Id("subject") /\ call[r].other \in Id("subject")
    BY <1>0, <1>2 DEF PathInv, PathAt
  <2>2. NewRelationship(r) \in RelationshipRow /\ NewRelationship(r).id = <<"relationship", r>>
    BY <1>0, <2>1, Called, NewId DEF NewRelationship, RelationshipRow, CallOK
  <2>3. Allowed(r, NewRelationship(r)) BY <1>0, <2>2 DEF Allowed
  <2>4. NewRelationship(r) \in RowTypes BY <2>2 DEF RowTypes
  <2>5. call[r].op \notin Creates BY <1>0 DEF Creates
  <2> QED BY <1>0, <1>2, <2>2, <2>3, <2>4, <2>5, InsertStep
<1> QED BY <1>1, <1>2, EmitStep DEF AddRelationship

LEMMA RemoveRelationshipStep ==
  ASSUME Types, NEW r \in Requests, PathInv(r), RemoveRelationship(r)
  PROVE  StepOf(r) /\ PathInv(r)'
<1> USE Places
<1>0. call[r].op = "remove_relationship" BY DEF RemoveRelationship
<1>1. CASE pc[r] = "start" /\ Check(r, RefuseRemoval(r))
  <2>1. RefuseRemoval(r) \in Outcomes BY DEF RefuseRemoval
  <2>2. PathAt(r, "write", None) BY <1>0 DEF PathAt, Looked
  <2> QED BY <1>0, <1>1, <2>1, <2>2, StartStep DEF Check
<1>2. CASE pc[r] = "write" /\ SaveIf(Relationship(r) # {}, r, {}, Ids(Relationship(r)), "emit")
  <2>1. \A i \in Ids(Relationship(r)) : i[1] = "relationship" BY DEF Relationship, Of, Ids
  <2>2. \A i \in Ids(Relationship(r)) : Deletable(r, i) BY <1>0, <2>1 DEF Deletable
  <2>3. Written(r, {}, Ids(Relationship(r))) BY <2>2, FS_EmptySet DEF Written
  <2>4. call[r].op \notin Creates BY <1>0 DEF Creates
  <2> QED BY <1>0, <1>2, <2>3, <2>4, SaveIfStep
<1> QED BY <1>1, <1>2, EmitStep DEF RemoveRelationship

LEMMA UpdateTypeStep ==
  ASSUME Types, NEW r \in Requests, PathInv(r), UpdateType(r)
  PROVE  StepOf(r) /\ PathInv(r)'
<1> USE Places
<1>0. call[r].op = "update_type" BY DEF UpdateType, At
<1>1. CASE At(r, "update_type", "start")
  <2> DEFINE g == IF Found(r, "subject_type") = "none" THEN Target(r).version + 1 ELSE None
  <2>1. Look(r, Found(r, "subject_type"), g, "write") /\ pc[r] = "start" BY <1>1 DEF UpdateType, At
  <2>2. ASSUME Found(r, "subject_type") = "none" PROVE PathAt(r, "write", g)
    <3>1. call[r].target \in Id("subject_type") /\ Present(r) BY <2>2, FoundTarget
    <3>2. Target(r) \in SubjectTypeRow BY <3>1, TargetRow, IdTable, Sorts
    <3>3. Target(r).version \in Nat \ {0} BY <3>2 DEF SubjectTypeRow
    <3>4. g \in Nat \ {0} BY <2>2, <3>3
    <3> HIDE DEF g
    <3> QED BY <1>0, <3>1, <3>4 DEF PathAt, Looked
  <2> HIDE DEF g
  <2> QED BY <1>0, <2>1, <2>2, FoundOutcome, StartStep
<1>2. CASE At(r, "update_type", "write")
  <2> DEFINE x == TypeChanged(r)
  <2>1. Change(r, {x}) /\ pc[r] = "write" BY <1>2 DEF UpdateType, At
  <2>2. /\ call[r].target \in Id("subject_type") /\ call[r].target[1] = "subject_type"
        /\ got[r] \in Nat \ {0}
    BY <1>0, <2>1, IdTable DEF PathInv, PathAt, Looked
  <2>3. ASSUME Present(r) PROVE x \in RowTypes /\ x.id = call[r].target /\ Allowed(r, x)
    <3>1. Target(r) \in SubjectTypeRow /\ Target(r).id = call[r].target
      BY <2>2, <2>3, TargetRow, Sorts
    <3>2. x \in SubjectTypeRow /\ x.id = call[r].target
      BY <1>0, <2>2, <3>1, Called DEF TypeChanged, SubjectTypeRow, CallOK
    <3> HIDE DEF x
    <3>3. Allowed(r, x) BY <1>0, <2>2, <3>2 DEF Allowed
    <3> QED BY <3>2, <3>3 DEF RowTypes
  <2> HIDE DEF x
  <2> QED BY <1>0, <2>1, <2>3, ChangeStep
<1> QED BY <1>1, <1>2 DEF UpdateType

\* One more than the highest there is, since that is one of a finite set of numbers.
LEMMA NextVersionIs ==
  ASSUME Types, NEW r \in Requests
  PROVE  /\ NextVersion(r) \in Nat \ {0}
         /\ \A x \in Versions(View(r), call[r].code) : x.version < NextVersion(r)
         /\ NextVersion(r) = 1 \/ \E x \in Versions(View(r), call[r].code) : x.version + 1 = NextVersion(r)
<1> DEFINE known == Versions(View(r), call[r].code)
           used == {x.version : x \in known}
           next == {1} \cup {u + 1 : u \in used}
<1>1. known \subseteq View(r) /\ \A x \in known : x.version \in Nat
  <2>1. known \subseteq View(r) BY DEF Versions, Of
  <2>2. ASSUME NEW x \in known PROVE x.version \in Nat
    <3>1. x \in EventSchemaRow BY <2>1, ViewTyped, Sorts DEF Versions, Of
    <3> QED BY <3>1 DEF EventSchemaRow
  <2> QED BY <2>1, <2>2
<1>2. IsFiniteSet(known) BY <1>1, ViewTyped, FS_Subset
<1> HIDE DEF known
<1>3. IsFiniteSet(used)
  <2> DEFINE f == [x \in known |-> x.version]
  <2>1. f \in [known -> Nat] BY <1>1
  <2>2. {f[x] : x \in known} = used OBVIOUS
  <2> HIDE DEF f, used
  <2> QED BY <1>2, <2>1, <2>2, ImageFinite
<1>4. used \in SUBSET Nat BY <1>1
<1> HIDE DEF used
<1>5. PICK v \in {0} \cup used : \A u \in used : u <= v BY <1>3, <1>4, Greatest
<1>6. v \in Nat /\ v + 1 \in next
  <2>1. CASE v = 0 BY <2>1
  <2>2. CASE v \in used BY <1>4, <2>2
  <2> QED BY <1>5, <2>1, <2>2
<1>7. \A u \in used : u < v + 1 BY <1>4, <1>5, <1>6
<1>8. NextVersion(r) = CHOOSE n \in next : \A u \in used : u < n
  BY DEF NextVersion, used, known, next
<1>9. NextVersion(r) \in next /\ \A u \in used : u < NextVersion(r)
  BY <1>6, <1>7, <1>8
<1>10. NextVersion(r) \in Nat \ {0} BY <1>4, <1>9 DEF next
<1>11. NextVersion(r) = 1 \/ \E u \in used : u + 1 = NextVersion(r) BY <1>9 DEF next
<1> QED BY <1>9, <1>10, <1>11 DEF used, known

Inactive(x) == [x EXCEPT !.active = FALSE]
Deactivated(r) == {Inactive(x) : x \in OtherActive(r)}

LEMMA DeactivatedAre ==
  ASSUME Types, StoreInv, NEW r \in Requests, WriteInv(r), call[r].op = "create_schema"
  PROVE  /\ Written(r, Deactivated(r), {})
         /\ \A y \in Deactivated(r) : ~y.active /\ y.id # <<"event_schema", r>>
         /\ Ids(Deactivated(r)) = Ids(OtherActive(r))
<1>1. OtherActive(r) \subseteq View(r) BY DEF OtherActive, Versions, Of
<1>2. ASSUME NEW x \in OtherActive(r)
      PROVE  /\ Inactive(x) \in EventSchemaRow /\ Inactive(x).id = x.id /\ ~Inactive(x).active
             /\ Inactive(x).code = x.code /\ Inactive(x).version = x.version
             /\ x.id # <<"event_schema", r>> /\ x.id[1] = "event_schema" /\ x \in EventSchemaRow
  <2>1. x \in EventSchemaRow /\ x.id[1] = "event_schema" /\ x.id # <<"event_schema", r>>
    BY <1>1, ViewTyped, Sorts DEF OtherActive, Versions, Of
  <2> QED BY <2>1 DEF EventSchemaRow, Inactive
<1>3. ASSUME NEW x \in OtherActive(r) PROVE Allowed(r, Inactive(x))
  <2> DEFINE y == Inactive(x)
  <2>1. /\ y.id = x.id /\ ~y.active /\ y.code = x.code /\ y.version = x.version
        /\ x.id # <<"event_schema", r>> /\ x.id[1] = "event_schema"
    BY <1>2
  <2> HIDE DEF y
  <2>2. \E z \in rows : z.id = x.id /\ z.code = x.code /\ z.version = x.version
    <3>1. CASE x \in rows BY <3>1
    <3>2. CASE x \in put[r]
      <4>1. Allowed(r, x) BY <3>2 DEF WriteInv
      <4>2. IsOldSchema(r, x) BY <2>1, <4>1 DEF Allowed, IsNewSchema
      <4> QED BY <4>2 DEF IsOldSchema
    <3> QED BY <1>1, <3>1, <3>2 DEF View
  <2>3. IsOldSchema(r, y) BY <2>1, <2>2 DEF IsOldSchema
  <2>4. Allowed(r, y) BY <2>1, <2>3 DEF Allowed
  <2> QED BY <2>4 DEF y
<1>4. IsFiniteSet(Deactivated(r))
  <2>1. IsFiniteSet(OtherActive(r)) BY <1>1, ViewTyped, FS_Subset
  <2> DEFINE f == [x \in OtherActive(r) |-> Inactive(x)]
  <2>2. f \in [OtherActive(r) -> EventSchemaRow] BY <1>2
  <2>3. {f[x] : x \in OtherActive(r)} = Deactivated(r) BY DEF Deactivated
  <2> HIDE DEF f
  <2>4. IsFiniteSet({f[x] : x \in OtherActive(r)}) BY <2>1, <2>2, ImageFinite
  <2> QED BY <2>3, <2>4
<1>5. Deactivated(r) \subseteq RowTypes BY <1>2 DEF Deactivated, RowTypes
<1>6. \A y, z \in Deactivated(r) : y.id = z.id => y = z
  <2> SUFFICES ASSUME NEW y \in Deactivated(r), NEW z \in Deactivated(r), y.id = z.id PROVE y = z
    OBVIOUS
  <2>1. PICK a \in OtherActive(r) : y = Inactive(a) BY DEF Deactivated
  <2>2. PICK b \in OtherActive(r) : z = Inactive(b) BY DEF Deactivated
  <2>3. a.id = b.id BY <1>2, <2>1, <2>2
  <2>4. a = b BY <1>1, <2>3, ViewUnique
  <2> QED BY <2>1, <2>2, <2>4
<1>7. \A y \in Deactivated(r) : Allowed(r, y) BY <1>3 DEF Deactivated
<1>8. \A y \in Deactivated(r) : ~y.active /\ y.id # <<"event_schema", r>> /\ y.id \in Ids(View(r))
  BY <1>1, <1>2 DEF Deactivated, Ids
<1>9. Ids(Deactivated(r)) = Ids(OtherActive(r))
  <2>1. ASSUME NEW x \in OtherActive(r) PROVE x.id \in Ids(Deactivated(r)) BY <1>2 DEF Deactivated, Ids
  <2>2. ASSUME NEW y \in Deactivated(r) PROVE y.id \in Ids(OtherActive(r))
    <3>1. PICK a \in OtherActive(r) : y = Inactive(a) BY DEF Deactivated
    <3> QED BY <1>2, <3>1 DEF Ids
  <2> QED BY <2>1, <2>2 DEF Ids
<1> QED BY <1>4, <1>5, <1>6, <1>7, <1>8, <1>9 DEF Written

LEMMA NewSchemaIs ==
  ASSUME Types, NEW r \in Requests, PathInv(r), call[r].op = "create_schema", pc[r] = "write"
  PROVE  /\ NewSchema(r) \in EventSchemaRow /\ NewSchema(r).id = <<"event_schema", r>>
         /\ NewSchema(r).code = call[r].code /\ NewSchema(r).version = got[r].version
         /\ NewSchema(r).active = call[r].flag
         /\ Written(r, {NewSchema(r)}, {})
<1>1. got[r].version \in Nat \ {0} BY DEF PathInv, Attempt
<1>2. call[r].flag \in BOOLEAN /\ call[r].code \in STRING BY Called DEF CallOK
<1>3. /\ NewSchema(r) \in EventSchemaRow /\ NewSchema(r).id = <<"event_schema", r>>
      /\ NewSchema(r).code = call[r].code /\ NewSchema(r).version = got[r].version
      /\ NewSchema(r).active = call[r].flag
  BY <1>1, <1>2, NewId DEF NewSchema, EventSchemaRow, Text
<1>4. IsNewSchema(r, NewSchema(r)) BY <1>3 DEF IsNewSchema
<1>5. Allowed(r, NewSchema(r)) BY <1>3, <1>4 DEF Allowed
<1>6. NewSchema(r) \in RowTypes BY <1>3 DEF RowTypes
<1>7. NewSchema(r).id[2] = r BY <1>3
<1> QED BY <1>3, <1>5, <1>6, <1>7, WrittenOne

\* What a creation of a schema does.
Reads(r) ==
  pc[r] = "start" /\ Looks(r, "write") /\ got'[r] = [version |-> NextVersion(r), tries |-> Tries(r)]
Inserts(r) ==
  pc[r] = "write" /\ Puts(r, {NewSchema(r)}, {}, IF call[r].flag THEN "others" ELSE "answer") /\ got' = got
Repeats(r) ==
  /\ pc[r] = "write" /\ Looks(r, "start") /\ got'[r] = [got[r] EXCEPT !.tries = @ + 1]
  /\ Retry(r) /\ IntegrityError(r, {NewSchema(r)}, {})
Deactivates(r) ==
  /\ pc[r] = "others" /\ got' = got
  /\ \/ Deactivated(r) = {} /\ Looks(r, "answer")
     \/ Puts(r, Deactivated(r), {}, "answer")

LEMMA CreateSchemaEffect ==
  ASSUME Types, NEW r \in Requests, PathInv(r), CreateSchema(r)
  PROVE  Ends(r) \/ (Loses(r) /\ got' = got) \/ Reads(r) \/ Inserts(r) \/ Repeats(r) \/ Deactivates(r)
<1> USE Places, Typed
<1>0. call[r].op = "create_schema" BY DEF CreateSchema
<1>1. CASE pc[r] = "start" /\ Look(r, "none", [version |-> NextVersion(r), tries |-> Tries(r)], "write")
  <2>1. "write" \in PCs BY DEF PCs
  <2>2. Ends(r) \/ (Looks(r, "write") /\ got'[r] = [version |-> NextVersion(r), tries |-> Tries(r)])
    BY <1>1, <2>1, LookEffect
  <2> QED BY <1>1, <2>2 DEF Reads
<1>2. CASE InsertSchema(r)
  <2>0. pc[r] = "write" /\ UNCHANGED <<call, before>> BY <1>2 DEF InsertSchema
  <2> DEFINE p == IF call[r].flag THEN "others" ELSE "answer"
  <2>1. CASE Flush(r, {NewSchema(r)}, {}, Chain(r)) /\ UNCHANGED got /\ Goto(r, p)
    <3>1. p \in PCs BY DEF PCs
    <3> HIDE DEF p
    <3>2. Goes(r) /\ pc'[r] = p BY <2>0, <2>1, <3>1, GotoGoes
    <3>3. Puts(r, {NewSchema(r)}, {}, p) BY <2>1, <3>2, FlushEffect
    <3> QED BY <2>0, <2>1, <3>3 DEF Inserts, p
  <2>2. CASE /\ IntegrityError(r, {NewSchema(r)}, {})
             /\ got' = [got EXCEPT ![r].tries = @ + 1]
             /\ IF Retry(r) THEN Goto(r, "start") /\ Untouched ELSE Fail(r, Raised)
    <3>1. DOMAIN got' = Requests /\ \A q \in Requests \ {r} : got'[q] = got[q]
      BY <2>2
    <3>2. CASE Retry(r)
      <4>1. "start" \in PCs BY DEF PCs
      <4>2. Goto(r, "start") /\ Untouched BY <2>2, <3>2
      <4>3. Goes(r) /\ pc'[r] = "start" BY <2>0, <3>1, <4>1, <4>2, GotoGoes
      <4>4. got'[r] = [got[r] EXCEPT !.tries = @ + 1] BY <2>2
      <4> QED BY <2>0, <2>2, <3>2, <4>2, <4>3, <4>4 DEF Repeats, Looks
    <3>3. CASE ~Retry(r)
      <4>1. Drop(r, "closed") /\ pc' = [pc EXCEPT ![r] = "done"] /\ outcome' = [outcome EXCEPT ![r] = Raised]
        BY <2>2, <3>3 DEF Fail, End
      <4>2. pc' \in [Requests -> PCs] /\ outcome' \in [Requests -> Outcomes] /\ pc'[r] = "done"
        BY <4>1 DEF PCs
      <4> QED BY <2>0, <3>1, <4>1, <4>2 DEF Ends, Goes
    <3> QED BY <3>2, <3>3
  <2>3. CASE /\ AuditRefused(r, {NewSchema(r)}, {}, Chain(r)) /\ UNCHANGED got
             /\ IF call[r].flag THEN Fail(r, "error") ELSE Drop(r, "inactive") /\ Goto(r, "answer")
    <3>1. CASE call[r].flag
      BY <2>0, <2>3, <3>1, FailEffect
    <3>2. CASE ~call[r].flag
      <4>1. Drop(r, "inactive") /\ Goto(r, "answer") BY <2>3, <3>2
      <4>2. Goes(r) /\ pc'[r] = "answer" BY <2>0, <2>3, <4>1, GotoGoes
      <4> QED BY <2>3, <4>1, <4>2 DEF Loses
    <3> QED BY <3>1, <3>2
  <2> QED BY <1>2, <2>1, <2>2, <2>3 DEF InsertSchema
<1>3. CASE DeactivateOthers(r)
  <2>0. pc[r] = "others" /\ UNCHANGED <<call, got, before>> BY <1>3 DEF DeactivateOthers
  <2>1. \/ Deactivated(r) = {} /\ Goto(r, "answer") /\ Untouched
        \/ Flush(r, Deactivated(r), {}, Chain(r)) /\ Goto(r, "answer")
        \/ Drop(r, "inactive") /\ Goto(r, "answer")
    BY <1>3 DEF DeactivateOthers, Deactivated, Inactive
  <2>2. Goes(r) /\ pc'[r] = "answer" BY <2>0, <2>1, GotoGoes
  <2> QED BY <2>0, <2>1, <2>2, FlushEffect DEF Loses, Looks, Deactivates
<1> QED BY <1>1, <1>2, <1>3 DEF CreateSchema

LEMMA CreateSchemaStep ==
  ASSUME Types, StoreInv, NEW r \in Requests, PathInv(r), WriteInv(r), CreateSchema(r)
  PROVE  StepOf(r) /\ PathInv(r)'
<1> USE Typed
<1>0. call[r].op = "create_schema" BY DEF CreateSchema
<1>a. \A p, g : p \in {"start", "write", "others", "answer"} => PathAt(r, p, g)
  BY <1>0 DEF PathAt, Looked
<1>1. CASE Ends(r) BY <1>1, EndsStep
<1>2. CASE Loses(r) /\ got' = got
  <2>1. Goes(r) /\ pc'[r] = "answer" /\ committed' = committed BY <1>2 DEF Loses, Drop
  <2>2. PathInv(r)' BY <1>a, <2>1, PathStays
  <2> QED BY <1>2, <2>2 DEF StepOf
<1>3. CASE Reads(r)
  <2>1. /\ Goes(r) /\ pc'[r] = "write" /\ committed' = committed /\ put' = put /\ gone' = gone
        /\ pc[r] = "start"
    BY <1>3 DEF Reads, Looks, Untouched
  <2>2. put[r] = {} /\ gone[r] = {} BY <1>0, <2>1 DEF PathInv
  <2>3. Tries(r) \in Nat BY <1>0, <2>1 DEF Tries, PathInv, Attempt
  <2>4. got'[r] \in Attempt BY <1>3, <2>3, NextVersionIs DEF Reads, Attempt
  <2>5. PathInv(r)' BY <1>a, <2>1, <2>2, <2>4, PathStays
  <2> QED BY <1>3, <2>1, <2>2, <2>5 DEF StepOf, Reads
<1>4. CASE Inserts(r)
  <2>1. /\ Goes(r) /\ pc'[r] \in {"others", "answer"} /\ committed' = committed /\ got' = got
        /\ pc[r] = "write"
    BY <1>4 DEF Inserts, Puts
  <2>2. got[r] \in Attempt BY <1>0, <2>1 DEF PathInv
  <2>3. PathInv(r)' BY <1>a, <2>1, <2>2, PathStays
  <2>4. Written(r, {NewSchema(r)}, {}) BY <1>0, <2>1, NewSchemaIs
  <2> QED BY <1>4, <2>3, <2>4 DEF StepOf, Inserts
<1>5. CASE Repeats(r)
  <2>1. /\ Goes(r) /\ pc'[r] = "start" /\ committed' = committed /\ put' = put /\ gone' = gone
        /\ pc[r] = "write"
    BY <1>5 DEF Repeats, Looks, Untouched
  <2>2. put[r] = {} /\ gone[r] = {} /\ got[r] \in Attempt BY <1>0, <2>1 DEF PathInv
  <2>3. got'[r] \in Attempt BY <1>5, <2>2 DEF Repeats, Attempt
  <2>4. PathInv(r)' BY <1>a, <2>1, <2>2, <2>3, PathStays
  <2> QED BY <1>5, <2>1, <2>2, <2>4 DEF StepOf, Repeats
<1>6. CASE Deactivates(r)
  <2>1. /\ Goes(r) /\ pc'[r] = "answer" /\ committed' = committed /\ got' = got
    BY <1>6 DEF Deactivates, Looks, Puts, Untouched
  <2>2. PathInv(r)' BY <1>a, <2>1, PathStays
  <2> QED BY <1>0, <1>6, <2>2, DeactivatedAre DEF StepOf, Deactivates
<1> QED BY <1>1, <1>2, <1>3, <1>4, <1>5, <1>6, CreateSchemaEffect

\* New members of a flow.
LEMMA LinksAre ==
  ASSUME Types, NEW r \in Requests, NEW f \in Id("flow"), NEW new \in SUBSET Id("subject"), IsFiniteSet(new),
         call[r].op \in {"create_flow", "add_subjects"}
  PROVE  Written(r, {Link(r, f, s) : s \in new}, {})
<1> DEFINE links == {Link(r, f, s) : s \in new}
<1>1. ASSUME NEW s \in new
      PROVE  Link(r, f, s) \in FlowSubjectRow /\ Link(r, f, s).id = <<"flow_subject", r, s>>
  <2>1. s \in Id("subject") OBVIOUS
  <2>2. <<"flow_subject", r, s>> \in {"flow_subject"} \X Requests \X Id("subject") BY <2>1
  <2> QED BY <2>1, <2>2 DEF Link, FlowSubjectRow
<1>2. ASSUME NEW s \in new
      PROVE Allowed(r, Link(r, f, s)) /\ Link(r, f, s).id[2] = r /\ Link(r, f, s) \in RowTypes
  BY <1>1 DEF Allowed, RowTypes
<1>3. ASSUME NEW s \in new, NEW u \in new, Link(r, f, s).id = Link(r, f, u).id PROVE s = u
  BY <1>1, <1>3
<1>4. IsFiniteSet(links)
  <2> DEFINE g == [s \in new |-> Link(r, f, s)]
  <2>1. g \in [new -> FlowSubjectRow] BY <1>1
  <2>2. {g[s] : s \in new} = links OBVIOUS
  <2> HIDE DEF g, links
  <2>3. IsFiniteSet({g[s] : s \in new}) BY <2>1, ImageFinite
  <2> QED BY <2>2, <2>3
<1>5. \A x, y \in links : x.id = y.id => x = y
  <2> SUFFICES ASSUME NEW x \in links, NEW y \in links, x.id = y.id PROVE x = y
    OBVIOUS
  <2>1. PICK s \in new : x = Link(r, f, s) OBVIOUS
  <2>2. PICK u \in new : y = Link(r, f, u) OBVIOUS
  <2> QED BY <1>3, <2>1, <2>2
<1>6. \A x \in links : Allowed(r, x) /\ x.id[2] = r /\ x \in RowTypes BY <1>2
<1> HIDE DEF links
<1>7. Written(r, links, {}) BY <1>4, <1>5, <1>6 DEF Written
<1> QED BY <1>7 DEF links

\* A subject with a row that needs it is there.
LEMMA NeededSubjects ==
  ASSUME Types, NEW r \in Requests, NEW f, NEW new, ~Refused(r, {Link(r, f, s) : s \in new}, {}),
         \A s \in new : s[1] = "subject"
  PROVE  new \subseteq Id("subject")
<1> DEFINE links == {Link(r, f, s) : s \in new}
<1>1. SUFFICES ASSUME NEW s \in new PROVE s \in Id("subject") OBVIOUS
<1>2. Link(r, f, s) \in links /\ Link(r, f, s).subject = s /\ Link(r, f, s).id[1] = "flow_subject"
  BY DEF Link
<1>3. Table(Link(r, f, s)) = FlowSubjectTable(Link(r, f, s)) BY <1>2 DEF Table, Is
<1>4. s \in Owners(Link(r, f, s)) BY <1>2, <1>3 DEF Owners, FlowSubjectTable, T
<1>5. s \in Ids(After(r, links, {})) BY <1>2, <1>4 DEF Refused
<1>6. \A y \in links : y.id[1] = "flow_subject" BY DEF Link
<1>7. PICK y \in After(r, links, {}) : y.id = s BY <1>5 DEF Ids
<1>8. y \notin links BY <1>1, <1>6, <1>7
<1>9. y \in View(r) BY <1>7, <1>8 DEF After
<1> QED BY <1>1, <1>7, <1>9, ViewTyped, RowTyped

LEMMA CreateFlowStep ==
  ASSUME Types, NEW r \in Requests, PathInv(r), CreateFlow(r)
  PROVE  StepOf(r) /\ PathInv(r)'
<1> USE Places
<1>0. call[r].op = "create_flow" BY DEF CreateFlow
<1>1. CASE pc[r] = "start" /\ Check(r, RefuseFlow(r))
  <2>1. RefuseFlow(r) \in Outcomes BY DEF RefuseFlow
  <2>2. PathAt(r, "write", None) BY <1>0 DEF PathAt, Looked
  <2> QED BY <1>0, <1>1, <2>1, <2>2, StartStep DEF Check
<1>2. CASE pc[r] = "write" /\ Insert(r, NewFlow(r), Raised, "links")
  <2>1. NewFlow(r) \in FlowRow /\ NewFlow(r).id = <<"flow", r>>
    BY <1>0, Called, NewId DEF NewFlow, FlowRow, CallOK
  <2>2. Allowed(r, NewFlow(r)) BY <1>0, <2>1 DEF Allowed
  <2>3. NewFlow(r) \in RowTypes BY <2>1 DEF RowTypes
  <2>4. call[r].op \notin Creates BY <1>0 DEF Creates
  <2> QED BY <1>0, <1>2, <2>1, <2>2, <2>3, <2>4, InsertStep
<1>3. CASE pc[r] = "links" /\
           Save(r, {Link(r, <<"flow", r>>, s) : s \in call[r].other}, {}, Raised, "answer")
  <2> DEFINE f == <<"flow", r>>
             links == {Link(r, f, s) : s \in call[r].other}
  <2>1. Save(r, links, {}, Raised, "answer") /\ pc[r] = "links" BY <1>3
  <2>2. f \in Id("flow") BY NewId
  <2>3. IsFiniteSet(call[r].other) /\ \A s \in call[r].other : s[1] = "subject"
    BY <1>0, Called DEF CallOK
  <2>4. ASSUME ~Refused(r, links, {}) PROVE Written(r, links, {})
    <3>1. call[r].other \subseteq Id("subject") BY <2>3, <2>4, NeededSubjects
    <3> QED BY <1>0, <2>2, <2>3, <3>1, LinksAre
  <2> HIDE DEF f, links
  <2>5. (Ends(r) \/ Loses(r) \/ Puts(r, links, {}, "answer")) /\ got' = got BY <2>1, SaveEffect
  <2>6. Puts(r, links, {}, "answer") => Written(r, links, {}) BY <2>4 DEF Puts
  <2> QED BY <1>0, <2>1, <2>5, <2>6, PutsStep
<1> QED BY <1>1, <1>2, <1>3 DEF CreateFlow

LEMMA AddSubjectsStep ==
  ASSUME Types, NEW r \in Requests, PathInv(r), AddSubjects(r)
  PROVE  StepOf(r) /\ PathInv(r)'
<1> USE Places
<1>0. call[r].op = "add_subjects" BY DEF AddSubjects, At
<1>1. CASE At(r, "add_subjects", "start")
  <2> DEFINE o == IF Found(r, "flow") # "none" THEN "not_found"
                  ELSE IF call[r].other \subseteq Ids(View(r)) THEN "none" ELSE "invalid"
             g == call[r].other \ Members(View(r), call[r].target)
  <2>1. Look(r, o, g, "write") /\ pc[r] = "start" BY <1>1 DEF AddSubjects, At
  <2>2. o \in Outcomes OBVIOUS
  <2>3. ASSUME o = "none" PROVE PathAt(r, "write", g)
    <3>1. Found(r, "flow") = "none" /\ call[r].other \subseteq Ids(View(r)) BY <2>3
    <3>2. call[r].target \in Id("flow") BY <3>1, FoundTarget
    <3>3. IsFiniteSet(call[r].other) /\ \A s \in call[r].other : s[1] = "subject"
      BY <1>0, Called DEF CallOK
    <3>4. call[r].other \subseteq Id("subject") BY <3>1, <3>3, ViewTyped, RowTyped DEF Ids
    <3>5. g \subseteq Id("subject") /\ IsFiniteSet(g) BY <3>3, <3>4, FS_Subset
    <3> HIDE DEF g
    <3> QED BY <1>0, <3>2, <3>5 DEF PathAt, Looked
  <2> HIDE DEF o, g
  <2> QED BY <1>0, <2>1, <2>2, <2>3, StartStep
<1>2. CASE At(r, "add_subjects", "write")
  <2> DEFINE links == {Link(r, call[r].target, s) : s \in got[r]}
  <2>1. Save(r, links, {}, Raised, "answer") /\ pc[r] = "write" BY <1>2 DEF AddSubjects, At
  <2>2. call[r].target \in Id("flow") /\ got[r] \subseteq Id("subject") /\ IsFiniteSet(got[r])
    BY <1>0, <2>1 DEF PathInv, PathAt, Looked
  <2>3. Written(r, links, {}) BY <1>0, <2>2, LinksAre
  <2> HIDE DEF links
  <2> QED BY <1>0, <2>1, <2>3, SaveStep
<1> QED BY <1>1, <1>2 DEF AddSubjects

LEMMA RemoveSubjectStep ==
  ASSUME Types, NEW r \in Requests, PathInv(r), RemoveSubject(r)
  PROVE  StepOf(r) /\ PathInv(r)'
<1> USE Places
<1>0. call[r].op = "remove_subject" BY DEF RemoveSubject, At
<1>1. CASE At(r, "remove_subject", "start")
  <2> DEFINE o == IF Linked(r) = {} THEN "not_found" ELSE "none"
  <2>1. Look(r, o, None, "write") /\ pc[r] = "start" BY <1>1 DEF RemoveSubject, At, Check
  <2>2. o \in Outcomes OBVIOUS
  <2>3. PathAt(r, "write", None) BY <1>0 DEF PathAt, Looked
  <2> HIDE DEF o
  <2> QED BY <1>0, <2>1, <2>2, <2>3, StartStep
<1>2. CASE At(r, "remove_subject", "write")
  <2>1. SaveIf(Linked(r) # {}, r, {}, Ids(Linked(r)), "answer") /\ pc[r] = "write"
    BY <1>2 DEF RemoveSubject, At
  <2>2. \A i \in Ids(Linked(r)) : i[1] = "flow_subject" BY DEF Linked, Of, Ids
  <2>3. \A i \in Ids(Linked(r)) : Deletable(r, i) BY <1>0, <2>2 DEF Deletable
  <2>4. Written(r, {}, Ids(Linked(r))) BY <2>3, FS_EmptySet DEF Written
  <2> QED BY <1>0, <2>1, <2>4, SaveIfStep
<1> QED BY <1>1, <1>2 DEF RemoveSubject

LEMMA CreateRequirementStep ==
  ASSUME Types, NEW r \in Requests, PathInv(r), CreateRequirement(r)
  PROVE  StepOf(r) /\ PathInv(r)'
<1> USE Places
<1>0. call[r].op = "create_requirement" BY DEF CreateRequirement, At
<1>1. CASE At(r, "create_requirement", "start")
  <2>1. Check(r, Found(r, "workflow")) /\ pc[r] = "start" BY <1>1 DEF CreateRequirement, At
  <2>2. <<call[r].op, "workflow">> \in Looked /\ "workflow" # "flow_subject" BY <1>0 DEF Looked
  <2>3. call[r].op \notin {"add_subjects", "update_type"} BY <1>0
  <2> QED BY <2>1, <2>2, <2>3, FoundStep
<1>2. CASE At(r, "create_requirement", "write")
  <2> DEFINE x == NewRequirement(r)
  <2>1. Insert(r, x, Raised, "answer") /\ pc[r] = "write" BY <1>2 DEF CreateRequirement, At
  <2>2. call[r].target \in Id("workflow") BY <1>0, <2>1 DEF PathInv, PathAt, Looked
  <2>3. x.id = <<"requirement", r>> /\ x.category = call[r].other /\ x.id[1] = "requirement"
    BY DEF NewRequirement
  <2>4. ASSUME ~Refused(r, {x}, {}) PROVE Written(r, {x}, {})
    <3>1. Table(x) = RequirementTable(x) BY <2>3 DEF Table, Is
    <3>2. call[r].other \in Owners(x) BY <2>3, <3>1 DEF Owners, RequirementTable, T
    <3>3. call[r].other \in Ids(After(r, {x}, {})) BY <2>4, <3>2 DEF Refused
    <3>4. call[r].other[1] = "category" BY <1>0, Called DEF CallOK
    <3>5. PICK y \in After(r, {x}, {}) : y.id = call[r].other BY <3>3 DEF Ids
    <3>6. y \in View(r) BY <2>3, <3>4, <3>5 DEF After
    <3>7. call[r].other \in Id("category") BY <3>4, <3>5, <3>6, ViewTyped, RowTyped
    <3>8. x \in RequirementRow BY <2>2, <3>7, NewId DEF NewRequirement, RequirementRow
    <3> HIDE DEF x
    <3>9. Allowed(r, x) /\ x \in RowTypes BY <1>0, <2>3, <3>8 DEF Allowed, RowTypes
    <3> QED BY <2>3, <3>9, WrittenOne
  <2> HIDE DEF x
  <2>5. (Ends(r) \/ Loses(r) \/ Puts(r, {x}, {}, "answer")) /\ got' = got BY <2>1, SaveEffect DEF Insert
  <2>6. Puts(r, {x}, {}, "answer") => Written(r, {x}, {}) BY <2>4 DEF Puts
  <2> QED BY <1>0, <2>1, <2>5, <2>6, PutsStep
<1> QED BY <1>1, <1>2 DEF CreateRequirement

\* An answer, to whoever has come to it.
LEMMA AnswerGoes ==
  ASSUME Types, NEW r \in Requests, pc[r] \notin {"commit", "done"}, NEW o \in Outcomes,
         End(r, "commit", o), Untouched, UNCHANGED <<call, got, before>>
  PROVE  Looks(r, "commit") /\ got' = got /\ outcome'[r] = o /\ before' = before
<1>1. pc' = [pc EXCEPT ![r] = "commit"] /\ outcome' = [outcome EXCEPT ![r] = o] BY DEF End
<1>2. pc' \in [Requests -> PCs] /\ outcome' \in [Requests -> Outcomes] /\ pc'[r] = "commit"
  BY <1>1, Typed DEF PCs
<1> QED BY <1>1, <1>2, Typed DEF Looks, Goes

LEMMA AnswerStep ==
  ASSUME Types, NEW r \in Requests, PathInv(r), pc[r] \notin {"start", "commit", "done"},
         Looks(r, "commit"), got' = got
  PROVE  StepOf(r) /\ PathInv(r)'
<1>1. Goes(r) /\ pc'[r] = "commit" /\ committed' = committed BY DEF Looks, Untouched
<1>2. PathAt(r, pc'[r], got'[r]) BY <1>1 DEF PathAt, PathInv
<1>3. PathInv(r)' BY <1>1, <1>2, PathStays
<1> QED BY <1>3 DEF StepOf

LEMMA ComplianceStep ==
  ASSUME Types, NEW r \in Requests, PathInv(r), Compliance(r)
  PROVE  StepOf(r) /\ PathInv(r)'
<1> USE Places
<1>0. call[r].op = "compliance" BY DEF Compliance
<1>1. CASE pc[r] = "start" /\ Look(r, Found(r, "flow"), None, "members")
  <2>1. Found(r, "flow") = "none" => PathAt(r, "members", None)
    BY <1>0, FoundTarget DEF PathAt, Looked
  <2> QED BY <1>0, <1>1, <2>1, FoundOutcome, StartStep
<1>2. CASE ReadMembers(r)
  BY <1>0, <1>2, ReadStep DEF ReadMembers
<1>3. CASE ReadRequirements(r)
  BY <1>0, <1>3, ReadStep DEF ReadRequirements
<1>4. CASE ReadCategory(r)
  BY <1>0, <1>4, ReadStep DEF ReadCategory
<1>5. CASE ReadCount(r)
  BY <1>0, <1>5, ReadStep DEF ReadCount
<1>6. CASE /\ pc[r] = "category" /\ got[r].rest = {}
           /\ End(r, "commit", IF got[r].ok THEN "success" ELSE "unsatisfied")
           /\ Untouched /\ UNCHANGED <<call, got, before>>
  <2> DEFINE o == IF got[r].ok THEN "success" ELSE "unsatisfied"
  <2>1. o \in Outcomes BY DEF Outcomes
  <2> HIDE DEF o
  <2>2. Looks(r, "commit") /\ got' = got BY <1>6, <2>1, AnswerGoes DEF o
  <2> QED BY <1>6, <2>2, AnswerStep
<1> QED BY <1>1, <1>2, <1>3, <1>4, <1>5, <1>6 DEF Compliance

LEMMA AbortEnds ==
  ASSUME Types, NEW r \in Requests, Abort(r)
  PROVE  Ends(r) /\ got' = got
<1> DEFINE o == IF outcome[r] = "none" THEN "aborted" ELSE outcome[r]
<1>1. o \in Outcomes BY Typed DEF Outcomes
<1>2. Fail(r, o) /\ pc[r] # "done" /\ UNCHANGED <<call, got, before>> BY DEF Abort
<1> HIDE DEF o
<1> QED BY <1>1, <1>2, FailEffect

LEMMA CommitsStep ==
  ASSUME Types, NEW r \in Requests, PathInv(r), Commits(r)
  PROVE  StepOf(r) /\ PathInv(r)'
<1>1. Goes(r) /\ pc'[r] = "done" BY DEF Commits
<1>2. PathInv(r)' BY <1>1, PathStays
<1> QED BY <1>2 DEF StepOf, Commits

LEMMA RouteStep ==
  ASSUME Types, StoreInv, NEW r \in Requests, PathInv(r), WriteInv(r),
         Route(r) \/ Answer(r) \/ Commit(r) \/ Abort(r)
  PROVE  StepOf(r) /\ PathInv(r)'
<1>1. CASE Route(r)
  BY <1>1, CreateSubjectStep, UpdateSubjectStep, DeleteSubjectStep, EraseStep, UploadStep, ExportStep,
     AddRelationshipStep, RemoveRelationshipStep, CreateKindStep, UpdateKindStep, DeleteKindStep,
     CreateTypeStep, UpdateTypeStep, DeleteTypeStep,
     CreateCategoryStep, UpdateCategoryStep, DeleteCategoryStep,
     CreateRuleStep, UpdateRuleStep, DeleteRuleStep,
     CreateSchemaStep, UpdateSchemaStep, DeleteSchemaStep,
     CreateTemplateStep, UpdateTemplateStep, DeleteTemplateStep,
     CreateFlowStep, UpdateFlowStep, AddSubjectsStep, RemoveSubjectStep,
     CreateRequirementStep, DeleteRequirementStep, ComplianceStep
  DEF Route
<1>2. CASE Answer(r)
  <2>1. "success" \in Outcomes BY DEF Outcomes
  <2>2. Looks(r, "commit") /\ got' = got /\ pc[r] = "answer" BY <1>2, <2>1, AnswerGoes DEF Answer
  <2> QED BY <2>2, AnswerStep
<1>3. CASE Commit(r) BY <1>3, CommitEffect, EndsStep, CommitsStep
<1>4. CASE Abort(r) BY <1>4, AbortEnds, EndsStep
<1> QED BY <1>1, <1>2, <1>3, <1>4

-----------------------------------------------------------------------------
(* What every step keeps. *)

LEMMA ViewIds ==
  ASSUME Types, NEW r \in Requests
  PROVE  Ids(View(r)) = Ids(put[r]) \cup (Ids(rows) \ Touched(r))
<1>1. ASSUME NEW i \in Ids(rows) \ Touched(r) PROVE i \in Ids(View(r))
  <2>1. PICK x \in rows : x.id = i BY DEF Ids
  <2>2. x \in View(r) BY <2>1 DEF View, Touched
  <2> QED BY <2>1, <2>2 DEF Ids
<1>2. Ids(put[r]) \subseteq Ids(View(r)) BY DEF View, Ids
<1>3. ASSUME NEW i \in Ids(View(r)) PROVE i \in Ids(put[r]) \cup (Ids(rows) \ Touched(r))
  BY DEF View, Ids, Touched
<1> QED BY <1>1, <1>2, <1>3

\* A row that is touched by another's transaction survives the commit of this one.
LEMMA OthersKeep ==
  ASSUME Types, StoreInv, NEW r \in Requests, Commits(r), NEW q \in Requests \ {r},
         NEW x \in rows, x.id \in Touched(q)
  PROVE  x \in rows'
<1>1. x.id \notin Touched(r) BY DEF StoreInv
<1> QED BY <1>1 DEF Commits, View, Touched

LEMMA PutsTypes ==
  ASSUME Types, NEW r \in Requests, NEW new, NEW del, NEW p, Puts(r, new, del, p), Written(r, new, del)
  PROVE  /\ DOMAIN put' = Requests /\ DOMAIN gone' = Requests /\ DOMAIN audited' = Requests
         /\ \A q \in Requests \ {r} : put'[q] = put[q] /\ gone'[q] = gone[q] /\ audited'[q] = audited[q]
         /\ put'[r] = new \cup {y \in put[r] : y.id \notin del \cup Ids(new)}
         /\ gone'[r] = gone[r] \cup (del \cap Ids(rows)) /\ audited'[r] = audited[r] \cup Chain(r)
         /\ put'[r] \subseteq RowTypes /\ IsFiniteSet(put'[r])
         /\ rows' = rows /\ session' = session /\ committed' = committed
         /\ session[r] = "active"
<1> USE Typed
<1>1. /\ put' = [put EXCEPT ![r] = new \cup {y \in put[r] : y.id \notin del \cup Ids(new)}]
      /\ gone' = [gone EXCEPT ![r] = @ \cup (del \cap Ids(rows))]
      /\ audited' = [audited EXCEPT ![r] = @ \cup Chain(r)]
      /\ UNCHANGED <<rows, session, committed>> /\ session[r] = "active"
  BY DEF Puts
<1> DEFINE old == {y \in put[r] : y.id \notin del \cup Ids(new)}
<1>2. put[r] \subseteq RowTypes /\ IsFiniteSet(put[r]) OBVIOUS
<1>3. old \subseteq put[r] OBVIOUS
<1>4. IsFiniteSet(old) BY <1>2, <1>3, FS_Subset
<1>5. new \subseteq RowTypes /\ IsFiniteSet(new) BY DEF Written
<1>6. IsFiniteSet(new \cup old) /\ new \cup old \subseteq RowTypes BY <1>2, <1>3, <1>4, <1>5, FS_Union
<1>7. put'[r] = new \cup old BY <1>1
<1> HIDE DEF old
<1>8. put'[r] \subseteq RowTypes /\ IsFiniteSet(put'[r]) BY <1>6, <1>7
<1> QED BY <1>1, <1>7, <1>8 DEF old

LEMMA TypesNext ==
  ASSUME Types, StoreInv, NEW r \in Requests, StepOf(r)
  PROVE  Types'
<1> USE Typed
<1>1. Goes(r) BY DEF StepOf, Ends, Loses, Commits, Looks, Puts
<1>2. /\ call' = call /\ pc' \in [Requests -> PCs] /\ outcome' \in [Requests -> Outcomes]
      /\ before' \in [Requests -> SUBSET Requests] /\ DOMAIN got' = Requests
  BY <1>1 DEF Goes
<1> DEFINE Well == /\ put' \in [Requests -> SUBSET RowTypes] /\ gone' \in [Requests -> SUBSET Ids(rows')]
                   /\ DOMAIN audited' = Requests
                   /\ session' \in [Requests -> {"active", "inactive", "closed"}]
                   /\ committed' \subseteq Requests /\ rows' \subseteq RowTypes
                   /\ IsFiniteSet(rows') /\ \A q \in Requests : IsFiniteSet(put'[q])
                   /\ \A q \in Requests : session'[q] # "active" =>
                        put'[q] = {} /\ gone'[q] = {} /\ audited'[q] = {}
<1>3. ASSUME Ends(r) \/ Loses(r) PROVE Well
  <2>1. PICK as \in {"inactive", "closed"} : Drop(r, as) BY <1>3 DEF Ends, Loses
  <2>2. /\ put' = [put EXCEPT ![r] = {}] /\ gone' = [gone EXCEPT ![r] = {}]
        /\ audited' = [audited EXCEPT ![r] = {}] /\ session' = [session EXCEPT ![r] = as]
        /\ rows' = rows /\ committed' = committed
    BY <2>1 DEF Drop
  <2> QED BY <2>2, FS_EmptySet
<1>4. ASSUME \E p : Looks(r, p) PROVE Well
  BY <1>4 DEF Looks, Untouched
<1>5. ASSUME \E new, del, p : Puts(r, new, del, p) /\ Written(r, new, del) PROVE Well
  <2>1. PICK new, del, p : Puts(r, new, del, p) /\ Written(r, new, del) BY <1>5
  <2>2. /\ DOMAIN put' = Requests /\ DOMAIN gone' = Requests /\ DOMAIN audited' = Requests
        /\ \A q \in Requests \ {r} : put'[q] = put[q] /\ gone'[q] = gone[q] /\ audited'[q] = audited[q]
        /\ gone'[r] = gone[r] \cup (del \cap Ids(rows))
        /\ put'[r] \subseteq RowTypes /\ IsFiniteSet(put'[r])
        /\ rows' = rows /\ session' = session /\ committed' = committed
        /\ session[r] = "active"
    BY <2>1, PutsTypes
  <2>3. put' = [q \in Requests |-> put'[q]] /\ gone' = [q \in Requests |-> gone'[q]]
    BY <2>1, <2>2 DEF Puts
  <2>4. \A q \in Requests : put'[q] \subseteq RowTypes /\ IsFiniteSet(put'[q]) /\ gone'[q] \subseteq Ids(rows)
    BY <2>2
  <2>5. put' \in [Requests -> SUBSET RowTypes] /\ gone' \in [Requests -> SUBSET Ids(rows)]
    BY <2>3, <2>4
  <2> QED BY <2>2, <2>4, <2>5
<1>6. ASSUME Commits(r) PROVE Well
  <2>1. /\ rows' = View(r)
        /\ put' = [put EXCEPT ![r] = {}] /\ gone' = [gone EXCEPT ![r] = {}]
        /\ audited' = [audited EXCEPT ![r] = {}] /\ session' = [session EXCEPT ![r] = "closed"]
        /\ committed' = committed \cup {r}
    BY <1>6 DEF Commits
  <2>2. rows' \subseteq RowTypes /\ IsFiniteSet(rows') BY <2>1, ViewTyped
  <2>3. ASSUME NEW q \in Requests \ {r}, NEW i \in gone[q] PROVE i \in Ids(rows')
    <3>1. PICK x \in rows : x.id = i BY DEF Ids
    <3>2. x \in rows' BY <1>6, <3>1, OthersKeep DEF Touched
    <3> QED BY <3>1, <3>2 DEF Ids
  <2>4. gone' \in [Requests -> SUBSET Ids(rows')] BY <2>1, <2>3
  <2> QED BY <2>1, <2>2, <2>4, FS_EmptySet
<1>7. Well BY <1>3, <1>4, <1>5, <1>6 DEF StepOf
<1>8. put' \in [Requests -> SUBSET (rows' \cup UNION {put'[q] : q \in Requests})] BY <1>7
<1>9. TypeOK' BY <1>2, <1>7, <1>8 DEF TypeOK, StoreOK, Id
<1>10. (put \in [Requests -> SUBSET RowTypes])' BY <1>7 DEF RowTypes, Id
<1> QED BY <1>2, <1>7, <1>9, <1>10 DEF Types

LEMMA PutsTouch ==
  ASSUME Types, NEW r \in Requests, NEW new, NEW del, NEW p, Puts(r, new, del, p), Written(r, new, del)
  PROVE  Touched(r)' \subseteq Touched(r) \cup Ids(new) \cup del
<1>1. /\ put'[r] = new \cup {y \in put[r] : y.id \notin del \cup Ids(new)}
      /\ gone'[r] = gone[r] \cup (del \cap Ids(rows))
  BY PutsTypes
<1> QED BY <1>1 DEF Touched, Ids

LEMMA StoreNext ==
  ASSUME Types, StoreInv, NEW r \in Requests, StepOf(r)
  PROVE  StoreInv'
<1> USE Typed
<1>1. CASE Ends(r) \/ Loses(r)
  <2>1. PICK as \in {"inactive", "closed"} : Drop(r, as) BY <1>1 DEF Ends, Loses
  <2>2. /\ put' = [put EXCEPT ![r] = {}] /\ gone' = [gone EXCEPT ![r] = {}]
        /\ audited' = [audited EXCEPT ![r] = {}] /\ rows' = rows /\ committed' = committed
    BY <2>1 DEF Drop
  <2>3. Touched(r)' = {} /\ \A q \in Requests \ {r} : Touched(q)' = Touched(q) BY <2>2 DEF Touched, Ids
  <2>4. (\A q, s \in Requests : q # s => Touched(q) \cap Touched(s) = {} /\ audited[q] \cap audited[s] = {})'
    BY <2>2, <2>3 DEF StoreInv
  <2>5. (\A q \in Requests : \A x, y \in put[q] : x.id = y.id => x = y)' BY <2>2 DEF StoreInv
  <2>6. (\A q \in Requests : \A x \in put[q] : x.id[2] = q \/ x.id \in Ids(rows))'
    BY <2>2 DEF StoreInv, Ids
  <2> QED BY <2>2, <2>4, <2>5, <2>6 DEF StoreInv
<1>2. CASE \E p : Looks(r, p)
  BY <1>2 DEF Looks, Untouched, StoreInv, Touched
<1>3. CASE \E new, del, p : Puts(r, new, del, p) /\ Written(r, new, del)
  <2>1. PICK new, del, p : Puts(r, new, del, p) /\ Written(r, new, del) BY <1>3
  <2>2. /\ \A q \in Requests \ {r} : put'[q] = put[q] /\ gone'[q] = gone[q] /\ audited'[q] = audited[q]
        /\ put'[r] = new \cup {y \in put[r] : y.id \notin del \cup Ids(new)}
        /\ audited'[r] = audited[r] \cup Chain(r)
        /\ rows' = rows /\ committed' = committed
    BY <2>1, PutsTypes
  <2>3. \A q \in Requests \ {r} : (Ids(new) \cup del) \cap Touched(q) = {} /\ Chain(r) \cap audited[q] = {}
    BY <2>1 DEF Puts
  <2>4. \A x, y \in put'[r] : x.id = y.id => x = y
    <3>1. \A x, y \in new : x.id = y.id => x = y BY <2>1 DEF Written
    <3> QED BY <2>2, <3>1 DEF Ids, StoreInv
  <2>5. \A q \in Requests \ {r} : Touched(q)' = Touched(q) BY <2>2 DEF Touched
  <2>6. \A q \in Requests \ {r} : Touched(r)' \cap Touched(q)' = {} /\ audited'[r] \cap audited'[q] = {}
    BY <2>1, <2>2, <2>3, <2>5, PutsTouch DEF StoreInv
  <2>7. ASSUME NEW x \in put'[r] PROVE x.id[2] = r \/ x.id \in Ids(rows)
    <3>1. CASE x \in put[r] BY <3>1 DEF StoreInv
    <3>2. CASE x \in new
      <4>1. x.id[2] = r \/ x.id \in Ids(View(r)) BY <2>1, <3>2 DEF Written
      <4>2. ASSUME x.id \in Ids(View(r)) PROVE x.id[2] = r \/ x.id \in Ids(rows)
        <5>1. PICK y \in View(r) : y.id = x.id BY <4>2 DEF Ids
        <5> QED BY <5>1 DEF View, StoreInv, Ids
      <4> QED BY <4>1, <4>2
    <3> QED BY <2>2, <3>1, <3>2
  <2>8. (\A q, s \in Requests : q # s => Touched(q) \cap Touched(s) = {} /\ audited[q] \cap audited[s] = {})'
    BY <2>2, <2>5, <2>6 DEF StoreInv
  <2>9. (\A q \in Requests : \A x, y \in put[q] : x.id = y.id => x = y)' BY <2>2, <2>4 DEF StoreInv
  <2>10. (\A q \in Requests : \A x \in put[q] : x.id[2] = q \/ x.id \in Ids(rows))'
    BY <2>2, <2>7 DEF StoreInv, Ids
  <2>11. (\A x, y \in rows : x.id = y.id => x = y)' BY <2>2 DEF StoreInv
  <2>12. (\A x \in rows : x.id[2] \in Requests => x.id[2] \in committed)' BY <2>2 DEF StoreInv
  <2> QED BY <2>8, <2>9, <2>10, <2>11, <2>12 DEF StoreInv
<1>4. CASE Commits(r)
  <2>1. /\ rows' = View(r)
        /\ put' = [put EXCEPT ![r] = {}] /\ gone' = [gone EXCEPT ![r] = {}]
        /\ audited' = [audited EXCEPT ![r] = {}]
        /\ committed' = committed \cup {r}
    BY <1>4 DEF Commits
  <2>2. (\A x, y \in rows : x.id = y.id => x = y)' BY <2>1, ViewUnique
  <2>3. (\A q \in Requests : \A x, y \in put[q] : x.id = y.id => x = y)' BY <2>1 DEF StoreInv
  <2>4. (\A q, s \in Requests : q # s => Touched(q) \cap Touched(s) = {} /\ audited[q] \cap audited[s] = {})'
    <3>1. Touched(r)' = {} /\ \A q \in Requests \ {r} : Touched(q)' = Touched(q)
      BY <2>1 DEF Touched, Ids
    <3> QED BY <2>1, <3>1 DEF StoreInv
  <2>5. (\A x \in rows : x.id[2] \in Requests => x.id[2] \in committed)'
    <3> SUFFICES ASSUME NEW x \in View(r), x.id[2] \in Requests PROVE x.id[2] \in committed \cup {r}
      BY <2>1
    <3>1. CASE x \in rows BY <3>1 DEF StoreInv
    <3>2. CASE x \in put[r] BY <3>2 DEF StoreInv, Ids
    <3> QED BY <3>1, <3>2 DEF View
  <2>6. ASSUME NEW q \in Requests, NEW x \in put'[q] PROVE x.id[2] = q \/ x.id \in Ids(rows')
    <3>1. q # r /\ x \in put[q] BY <2>1
    <3>2. CASE x.id \in Ids(rows)
      <4>1. PICK y \in rows : y.id = x.id BY <3>2 DEF Ids
      <4>2. y.id \in Touched(q) BY <3>1, <4>1 DEF Touched, Ids
      <4>3. y \in rows' BY <1>4, <3>1, <4>2, OthersKeep
      <4> QED BY <4>1, <4>3 DEF Ids
    <3> QED BY <3>1, <3>2 DEF StoreInv
  <2>7. (\A q \in Requests : \A x \in put[q] : x.id[2] = q \/ x.id \in Ids(rows))'
    BY <2>6 DEF Ids
  <2> QED BY <2>2, <2>3, <2>4, <2>5, <2>7 DEF StoreInv
<1> QED BY <1>1, <1>2, <1>3, <1>4 DEF StepOf

\* Another's write, and what it wrote.
LEMMA OldSchemaStays ==
  ASSUME Types, StoreInv, NEW r \in Requests, rows' = rows \/ Commits(r), call' = call,
         NEW q \in Requests, rows' = rows \/ q # r, NEW x \in put[q], IsOldSchema(q, x)
  PROVE  IsOldSchema(q, x)'
<1>1. PICK y \in rows : y.id = x.id /\ y.code = x.code /\ y.version = x.version BY DEF IsOldSchema
<1>2. y.id \in Touched(q) BY <1>1 DEF Touched, Ids
<1>3. y \in rows' BY <1>2, OthersKeep
<1> QED BY <1>1, <1>3 DEF IsOldSchema

LEMMA WriteNext ==
  ASSUME Types, StoreInv, NEW r \in Requests, StepOf(r), NEW q \in Requests, WriteInv(q)
  PROVE  WriteInv(q)'
<1> USE Typed
<1>0. Goes(r) BY DEF StepOf, Ends, Loses, Commits, Looks, Puts
<1>1. call' = call BY <1>0 DEF Goes
<1>2. CASE put'[q] = {} /\ gone'[q] = {}
  BY <1>2 DEF WriteInv
<1>3. ASSUME NEW x \in put[q], rows' = rows \/ (Commits(r) /\ q # r),
             IsNewSchema(q, x) => got'[q].version = got[q].version
      PROVE  Allowed(q, x)'
  <2>1. Allowed(q, x) BY DEF WriteInv
  <2>2. IsNewSchema(q, x) => IsNewSchema(q, x)' BY <1>1, <1>3 DEF IsNewSchema
  <2>3. IsOldSchema(q, x) => IsOldSchema(q, x)' BY <1>1, <1>3, OldSchemaStays
  <2> QED BY <1>1, <2>1, <2>2, <2>3 DEF Allowed
<1>4. CASE put'[q] = put[q] /\ gone'[q] = gone[q] /\ audited'[q] = audited[q] /\ got'[q] = got[q]
           /\ (rows' = rows \/ (Commits(r) /\ q # r))
  <2>1. \A x \in put'[q] : Allowed(q, x)' BY <1>3, <1>4
  <2>2. \A i \in gone'[q] : Deletable(q, i)' BY <1>1, <1>4 DEF WriteInv, Deletable
  <2> QED BY <1>1, <1>4, <2>1, <2>2 DEF WriteInv
<1>5. CASE q # r
  <2>1. got'[q] = got[q] BY <1>0, <1>5 DEF Goes
  <2>2. put'[q] = put[q] /\ gone'[q] = gone[q] /\ audited'[q] = audited[q]
        /\ (rows' = rows \/ Commits(r))
    <3>1. CASE Ends(r) \/ Loses(r) BY <1>5, <3>1 DEF Ends, Loses, Drop
    <3>2. CASE \E p : Looks(r, p) BY <3>2 DEF Looks, Untouched
    <3>3. CASE \E new, del, p : Puts(r, new, del, p) /\ Written(r, new, del) BY <1>5, <3>3, PutsTypes
    <3>4. CASE Commits(r) BY <1>5, <3>4 DEF Commits
    <3> QED BY <3>1, <3>2, <3>3, <3>4 DEF StepOf
  <2> QED BY <1>4, <1>5, <2>1, <2>2
<1>6. CASE q = r
  <2>1. CASE Ends(r) \/ Loses(r) \/ Commits(r)
    <3>1. put'[q] = {} /\ gone'[q] = {} BY <1>6, <2>1 DEF Ends, Loses, Drop, Commits
    <3> QED BY <1>2, <3>1
  <2>0. call[r].op = "create_schema" /\ put'[r] # {} => got'[r] = got[r] BY DEF StepOf
  <2>2. CASE \E p : Looks(r, p)
    <3>1. put' = put /\ gone' = gone /\ audited' = audited /\ rows' = rows BY <2>2 DEF Looks, Untouched
    <3>2. \A x \in put[q] : IsNewSchema(q, x) => got'[q].version = got[q].version
      BY <1>6, <2>0, <3>1 DEF IsNewSchema
    <3>3. \A x \in put'[q] : Allowed(q, x)' BY <1>3, <3>1, <3>2
    <3>4. \A i \in gone'[q] : Deletable(q, i)' BY <1>1, <3>1 DEF WriteInv, Deletable
    <3> QED BY <1>1, <3>1, <3>3, <3>4 DEF WriteInv
  <2>3. CASE \E new, del, p : Puts(r, new, del, p) /\ Written(r, new, del)
    <3>1. PICK new, del, p : Puts(r, new, del, p) /\ Written(r, new, del) BY <2>3
    <3>2. /\ put'[r] = new \cup {y \in put[r] : y.id \notin del \cup Ids(new)}
          /\ gone'[r] = gone[r] \cup (del \cap Ids(rows)) /\ audited'[r] = audited[r] \cup Chain(r)
          /\ rows' = rows
      BY <3>1, PutsTypes
    <3>3. ASSUME NEW x \in put'[r] PROVE Allowed(r, x)'
      <4>1. \A y : IsNewSchema(r, y) => got'[r].version = got[r].version BY <2>0, <3>3 DEF IsNewSchema
      <4>2. CASE x \in put[r] BY <1>3, <1>6, <3>2, <4>1, <4>2
      <4>3. CASE x \in new
        <5>1. Allowed(r, x) BY <3>1, <4>3 DEF Written
        <5>2. IsNewSchema(r, x) => IsNewSchema(r, x)' BY <1>1, <4>1 DEF IsNewSchema
        <5>3. IsOldSchema(r, x) => IsOldSchema(r, x)' BY <1>1, <3>2 DEF IsOldSchema
        <5> QED BY <1>1, <5>1, <5>2, <5>3 DEF Allowed
      <4> QED BY <3>2, <4>2, <4>3
    <3>4. \A i \in gone'[r] : Deletable(r, i)'
      <4>1. \A i \in gone[r] : Deletable(r, i) BY <1>6 DEF WriteInv
      <4>2. \A i \in del : Deletable(r, i) BY <3>1 DEF Written
      <4>3. \A i : Deletable(r, i) => Deletable(r, i)' BY <1>1 DEF Deletable
      <4> QED BY <3>2, <4>1, <4>2, <4>3
    <3>5. call'[r].op \notin Unaudited => "chain" \in audited'[r] BY <1>1, <3>2 DEF Chain
    <3>6. \A x \in put'[r] : Allowed(r, x)' BY <3>3
    <3> QED BY <1>6, <3>4, <3>5, <3>6 DEF WriteInv
  <2> QED BY <2>1, <2>2, <2>3 DEF StepOf
<1> QED BY <1>5, <1>6

LEMMA OthersPath ==
  ASSUME Types, NEW r \in Requests, StepOf(r), NEW q \in Requests \ {r}, PathInv(q)
  PROVE  PathInv(q)'
<1> USE Typed
<1>0. Goes(r) BY DEF StepOf, Ends, Loses, Commits, Looks, Puts
<1>1. /\ call' = call /\ pc'[q] = pc[q] /\ got'[q] = got[q] /\ before'[q] = before[q]
      /\ outcome'[q] = outcome[q]
  BY <1>0 DEF Goes
<1>2. put'[q] = put[q] /\ gone'[q] = gone[q] /\ (committed' = committed \/ committed' = committed \cup {r})
  <2>1. CASE Ends(r) \/ Loses(r) BY <2>1 DEF Ends, Loses, Drop
  <2>2. CASE \E p : Looks(r, p) BY <2>2 DEF Looks, Untouched
  <2>3. CASE \E new, del, p : Puts(r, new, del, p) /\ Written(r, new, del) BY <2>3, PutsTypes
  <2>4. CASE Commits(r) BY <2>4 DEF Commits
  <2> QED BY <2>1, <2>2, <2>3, <2>4 DEF StepOf
<1>3. PathAt(q, pc[q], got[q])' BY <1>1 DEF PathInv, PathAt, Id
<1> QED BY <1>1, <1>2, <1>3 DEF PathInv

-----------------------------------------------------------------------------
(* One active version of a schema. *)

Quiet == \A r \in Did("update_schema") : ~call[r].flag
One(s) == \A x, y \in Of(s, "event_schema") : x.code = y.code /\ x.active /\ y.active => x = y

\* A creation of an active version has written it before it looks for the others; and once it has
\* deactivated these, it sees no other that is active.
SchemaPath(r) ==
  call[r].op = "create_schema" /\ call[r].flag /\ session[r] = "active" =>
    /\ pc[r] \in {"others", "answer", "commit"} => put[r] # {}
    /\ pc[r] = "others" => \A x \in put[r] : x.id = <<"event_schema", r>>
    /\ pc[r] \in {"answer", "commit"} =>
         \A x \in Of(View(r), "event_schema") :
           x.code = call[r].code /\ x.active => x.id = <<"event_schema", r>>

\* What all the other steps rely on.
Base ==
  /\ Types /\ StoreInv
  /\ \A r \in Requests : WriteInv(r) /\ PathInv(r)

\* Another's commit brings no version of a schema, as long as r holds the audit chain.
LEMMA NoNewSchemas ==
  ASSUME Base, NEW q \in Requests, Commits(q), NEW r \in Requests \ {q}, "chain" \in audited[r]
  PROVE  \A x \in rows' : x.id[1] = "event_schema" => x \in rows
<1> SUFFICES ASSUME NEW x \in put[q], x.id[1] = "event_schema" PROVE FALSE
  BY DEF Commits, View
<1>1. Allowed(q, x) /\ WriteInv(q) BY DEF Base, WriteInv
<1>2. call[q].op \in {"create_schema", "update_schema"}
  BY <1>1 DEF Allowed, IsNewSchema, IsOldSchema
<1>3. "chain" \in audited[q] BY <1>1, <1>2 DEF WriteInv, Unaudited
<1> QED BY <1>3 DEF Base, StoreInv

LEMMA OthersSchemaPath ==
  ASSUME Base, NEW q \in Requests, StepOf(q), NEW r \in Requests \ {q}, SchemaPath(r)
  PROVE  SchemaPath(r)'
<1> USE Typed DEF Base
<1>0. Goes(q) BY DEF StepOf, Ends, Loses, Commits, Looks, Puts
<1>1. call' = call /\ pc'[r] = pc[r] BY <1>0 DEF Goes
<1>2. CASE put'[r] = put[r] /\ gone'[r] = gone[r] /\ session'[r] = session[r] /\ rows' = rows
  <2>1. View(r)' = View(r) BY <1>2 DEF View, Ids
  <2> QED BY <1>1, <1>2, <2>1 DEF SchemaPath
<1>3. CASE Commits(q)
  <2>1. put'[r] = put[r] /\ gone'[r] = gone[r] /\ session'[r] = session[r] BY <1>3 DEF Commits
  <2>2. SUFFICES ASSUME call[r].op = "create_schema", call[r].flag, session[r] = "active",
                        pc[r] \in {"answer", "commit"},
                        NEW x \in Of(View(r)', "event_schema"), x.code = call[r].code, x.active
                 PROVE  x.id = <<"event_schema", r>>
    BY <1>1, <2>1 DEF SchemaPath
  <2>3. put[r] # {} BY <2>2 DEF SchemaPath
  <2>4. "chain" \in audited[r] BY <2>2, <2>3 DEF WriteInv, Unaudited
  <2>5. /\ x \in put[r] \/ (x \in rows' /\ x.id \notin gone[r] \cup Ids(put[r]))
        /\ x.id[1] = "event_schema"
    BY <2>1, <2>2 DEF View, Of, Ids
  <2>6. x \in Of(View(r), "event_schema")
    BY <1>3, <2>2, <2>4, <2>5, NoNewSchemas DEF View, Of
  <2> QED BY <2>2, <2>6 DEF SchemaPath
<1>4. CASE Ends(q) \/ Loses(q) BY <1>2, <1>4 DEF Ends, Loses, Drop
<1>5. CASE \E p : Looks(q, p) BY <1>2, <1>5 DEF Looks, Untouched
<1>6. CASE \E new, del, p : Puts(q, new, del, p) /\ Written(q, new, del) BY <1>2, <1>6, PutsTypes
<1> QED BY <1>3, <1>4, <1>5, <1>6 DEF StepOf

LEMMA OwnSchemaPath ==
  ASSUME Base, NEW r \in Requests, SchemaPath(r), Route(r) \/ Answer(r) \/ Commit(r) \/ Abort(r)
  PROVE  SchemaPath(r)'
<1> USE Typed, Places DEF Base
<1>0. SUFFICES ASSUME call[r].op = "create_schema", call[r].flag PROVE SchemaPath(r)'
  <2>1. StepOf(r) BY RouteStep
  <2>2. call' = call BY <2>1 DEF StepOf, Ends, Loses, Commits, Looks, Puts, Goes
  <2> QED BY <2>2 DEF SchemaPath
<1>1. CreateSchema(r) \/ Answer(r) \/ Commit(r) \/ Abort(r)
  BY <1>0 DEF Route, CreateSubject, UpdateSubject, DeleteSubject, Erase, Upload, Export, AddRelationship,
     RemoveRelationship, CreateKind, UpdateKind, DeleteKind, CreateType, UpdateType, DeleteType, CreateCategory,
     UpdateCategory, DeleteCategory, CreateRule, UpdateRule, DeleteRule, UpdateSchema, DeleteSchema,
     CreateTemplate, UpdateTemplate, DeleteTemplate, CreateFlow, UpdateFlow, AddSubjects, RemoveSubject,
     CreateRequirement, DeleteRequirement, Compliance, At
<1>2. CASE Ends(r) \/ Loses(r)
  BY <1>2 DEF Ends, Loses, Drop, SchemaPath
<1>3. CASE Commits(r)
  BY <1>3 DEF Commits, SchemaPath
<1>4. CASE Reads(r) \/ Repeats(r)
  BY <1>4 DEF Reads, Repeats, Looks, SchemaPath
<1>5. CASE Inserts(r)
  <2>1. Puts(r, {NewSchema(r)}, {}, "others") /\ pc[r] = "write" BY <1>0, <1>5 DEF Inserts
  <2>2. Written(r, {NewSchema(r)}, {}) /\ NewSchema(r).id = <<"event_schema", r>> BY <1>0, <2>1, NewSchemaIs
  <2>3. put[r] = {} BY <1>0, <2>1 DEF PathInv
  <2>4. put'[r] = {NewSchema(r)} BY <2>1, <2>2, <2>3, PutsTypes
  <2> QED BY <2>1, <2>2, <2>4 DEF SchemaPath, Puts
<1>6. CASE Deactivates(r)
  <2>0. pc[r] = "others" /\ pc'[r] = "answer" /\ call' = call
    BY <1>6 DEF Deactivates, Looks, Puts, Goes
  <2>1. CASE Deactivated(r) = {} /\ Looks(r, "answer")
    <3>1. UNCHANGED <<rows, put, gone, session>> BY <2>1 DEF Looks, Untouched
    <3>2. View(r)' = View(r) BY <3>1 DEF View
    <3>3. OtherActive(r) = {} BY <2>1 DEF Deactivated
    <3>4. \A x \in Of(View(r), "event_schema") :
            x.code = call[r].code /\ x.active => x.id = <<"event_schema", r>>
      BY <3>3 DEF OtherActive, Versions
    <3> QED BY <2>0, <3>1, <3>2, <3>4 DEF SchemaPath
  <2>2. CASE Puts(r, Deactivated(r), {}, "answer")
    <3>1. /\ Written(r, Deactivated(r), {}) /\ \A y \in Deactivated(r) : ~y.active /\ y.id # <<"event_schema", r>>
          /\ Ids(Deactivated(r)) = Ids(OtherActive(r))
      BY <1>0, DeactivatedAre
    <3> DEFINE new == Deactivated(r)
               del == {}
    <3>a. Types /\ Written(r, new, del) /\ Puts(r, new, del, "answer") BY <2>2, <3>1
    <3> HIDE DEF new, del
    <3>b. /\ put'[r] = new \cup {y \in put[r] : y.id \notin del \cup Ids(new)}
          /\ gone'[r] = gone[r] \cup (del \cap Ids(rows)) /\ rows' = rows /\ session[r] = "active"
      BY ONLY <3>a, r \in Requests, PutsTypes
    <3>2. /\ put'[r] = Deactivated(r) \cup {y \in put[r] : y.id \notin {} \cup Ids(Deactivated(r))}
          /\ gone'[r] = gone[r] \cup ({} \cap Ids(rows)) /\ rows' = rows /\ session[r] = "active"
      BY <3>b DEF new, del
    <3>3. put[r] # {} /\ \A x \in put[r] : x.id = <<"event_schema", r>> BY <1>0, <2>0, <3>2 DEF SchemaPath
    <3>4. put[r] \subseteq put'[r] BY <3>1, <3>2, <3>3 DEF Ids
    <3>5. ASSUME NEW x \in Of(View(r)', "event_schema"), x.code = call[r].code, x.active
          PROVE  x.id = <<"event_schema", r>>
      <4>1. x \in View(r)' /\ x.id[1] = "event_schema" BY <3>5 DEF Of
      <4>2. x \in put'[r] \/ (x \in rows /\ x.id \notin gone'[r] /\ \A y \in put'[r] : y.id # x.id)
        BY <3>2, <4>1 DEF View, Ids
      <4>3. CASE x \in put'[r] BY <3>1, <3>2, <3>3, <3>5, <4>3
      <4>4. CASE x \in rows /\ x.id \notin gone'[r] /\ \A y \in put'[r] : y.id # x.id
        <5>1. x \in View(r) BY <3>2, <3>4, <4>4 DEF View, Ids
        <5>2. SUFFICES ASSUME x.id # <<"event_schema", r>> PROVE FALSE OBVIOUS
        <5>3. x \in OtherActive(r) BY <3>5, <4>1, <5>1, <5>2 DEF OtherActive, Versions, Of
        <5>4. x.id \in Ids(Deactivated(r)) BY <3>1, <5>3 DEF Ids
        <5>5. PICK y \in Deactivated(r) : y.id = x.id BY <5>4 DEF Ids
        <5> QED BY <3>2, <4>4, <5>5
      <4> QED BY <4>2, <4>3, <4>4
    <3>6. (\A x \in Of(View(r), "event_schema") :
             x.code = call[r].code /\ x.active => x.id = <<"event_schema", r>>)'
      BY <2>0, <3>5 DEF Of
    <3> QED BY <2>0, <3>3, <3>4, <3>6 DEF SchemaPath
  <2> QED BY <1>6, <2>1, <2>2 DEF Deactivates
<1>7. CASE Answer(r)
  <2>1. "success" \in Outcomes BY DEF Outcomes
  <2>2. Looks(r, "commit") /\ pc[r] = "answer" BY <1>7, <2>1, AnswerGoes DEF Answer
  <2>3. UNCHANGED <<rows, put, gone, session>> /\ call' = call /\ pc'[r] = "commit"
    BY <2>2 DEF Looks, Untouched, Goes
  <2>4. View(r)' = View(r) BY <2>3 DEF View
  <2> QED BY <2>2, <2>3, <2>4 DEF SchemaPath
<1> QED BY <1>1, <1>2, <1>3, <1>4, <1>5, <1>6, <1>7, CreateSchemaEffect, CommitEffect, AbortEnds

\* A commit of what r has written leaves one.
LEMMA OneCommitted ==
  ASSUME Base, NEW r \in Requests, Commits(r), SchemaPath(r), Quiet', One(rows)
  PROVE  One(rows)'
<1> USE Typed DEF Base
<1>1. rows' = View(r) /\ r \in committed' /\ session[r] = "active" /\ pc[r] = "commit" /\ call' = call
  BY DEF Commits, Goes
<1>2. SUFFICES ASSUME NEW x \in View(r), NEW y \in View(r), x.id[1] = "event_schema", y.id[1] = "event_schema",
                      x.code = y.code, x.active, y.active
               PROVE  x = y
  BY <1>1 DEF One, Of
<1>3. ASSUME NEW z \in put[r], z.id[1] = "event_schema", z.active
      PROVE  call[r].op = "create_schema" /\ call[r].flag /\ z.code = call[r].code
  <2>1. Allowed(r, z) BY DEF WriteInv
  <2>2. CASE IsNewSchema(r, z) BY <1>3, <2>2 DEF IsNewSchema
  <2>3. CASE IsOldSchema(r, z)
    <3>1. call[r].op = "update_schema" /\ call[r].flag BY <1>3, <2>3 DEF IsOldSchema
    <3>2. FALSE BY <1>1, <3>1 DEF Quiet, Did
    <3> QED BY <3>2
  <2> QED BY <1>3, <2>1, <2>2, <2>3 DEF Allowed
<1>4. CASE x \in put[r] \/ y \in put[r]
  <2>1. call[r].op = "create_schema" /\ call[r].flag /\ x.code = call[r].code /\ y.code = call[r].code
    BY <1>2, <1>3, <1>4
  <2>2. x.id = <<"event_schema", r>> /\ y.id = <<"event_schema", r>>
    BY <1>1, <1>2, <2>1 DEF SchemaPath, Of
  <2> QED BY <2>2, ViewUnique
<1>5. CASE x \in rows /\ y \in rows BY <1>2, <1>5 DEF One, Of
<1> QED BY <1>2, <1>4, <1>5 DEF View

LEMMA QuietBefore ==
  ASSUME Base, NEW r \in Requests, StepOf(r), Quiet' PROVE Quiet
<1>1. call' = call BY DEF StepOf, Ends, Loses, Commits, Looks, Puts, Goes
<1>2. committed \subseteq committed'
  BY DEF StepOf, Ends, Loses, Drop, Commits, Looks, Untouched, Puts
<1> QED BY <1>1, <1>2 DEF Quiet, Did

LEMMA OneNext ==
  ASSUME Base, NEW r \in Requests, StepOf(r), SchemaPath(r), Quiet => One(rows), Quiet'
  PROVE  One(rows)'
<1>1. One(rows) BY QuietBefore
<1>2. CASE Commits(r) BY <1>1, <1>2, OneCommitted
<1>3. CASE rows' = rows BY <1>1, <1>3 DEF One, Of
<1> QED BY <1>2, <1>3 DEF StepOf, Ends, Loses, Drop, Looks, Untouched, Puts

-----------------------------------------------------------------------------
(* Creations of a schema that race. *)

Creations == {r \in Requests : call[r].op = "create_schema"}
Few == IsFiniteSet(Creations) /\ Cardinality(Creations) <= MaxAttempts

\* The other creations that have committed.
Rivals(r) == Did("create_schema") \ {r}

\* An attempt that is lost has its rival; so has one that will be, its version being taken.
TriesInv(r) ==
  call[r].op = "create_schema" =>
    /\ outcome[r] # "integrity_error"
    /\ pc[r] = "start" => Tries(r) <= Cardinality(Rivals(r))
    /\ pc[r] = "write" =>
         /\ got[r].tries <= Cardinality(Rivals(r))
         /\ \/ got[r].tries + 1 <= Cardinality(Rivals(r))
            \/ \A x \in Versions(rows, call[r].code) : x.version < got[r].version

LEMMA RivalsFinite ==
  ASSUME Types, Few, NEW r \in Creations
  PROVE  /\ IsFiniteSet(Rivals(r)) /\ Cardinality(Rivals(r)) \in Nat
         /\ Cardinality(Rivals(r)) < MaxAttempts
<1>1. Rivals(r) \subseteq Creations \ {r} BY Typed DEF Rivals, Did, Creations
<1>2. /\ IsFiniteSet(Creations \ {r}) /\ Cardinality(Creations \ {r}) = Cardinality(Creations) - 1
      /\ Cardinality(Creations) \in Nat
  BY FS_RemoveElement, FS_CardinalityType DEF Few
<1>3. /\ IsFiniteSet(Rivals(r)) /\ Cardinality(Rivals(r)) <= Cardinality(Creations \ {r})
  BY <1>1, <1>2, FS_Subset
<1>4. Cardinality(Rivals(r)) \in Nat /\ Cardinality(Creations \ {r}) \in Nat BY <1>2, <1>3, FS_CardinalityType
<1> QED BY <1>2, <1>3, <1>4, Assumed DEF Few

\* The database refuses a new version only if there is one of its number.
LEMMA RefusedVersion ==
  ASSUME Base, NEW r \in Requests, call[r].op = "create_schema", pc[r] = "write",
         Refused(r, {NewSchema(r)}, {})
  PROVE  \E x \in Versions(rows, call[r].code) : x.version = got[r].version
<1> USE DEF Base
<1> DEFINE new == NewSchema(r)
<1>1. /\ new.id = <<"event_schema", r>> /\ new.code = call[r].code /\ new.version = got[r].version
      /\ new.id[1] = "event_schema"
  BY NewSchemaIs
<1>2. put[r] = {} /\ gone[r] = {} BY DEF PathInv
<1>3. View(r) = rows BY <1>2 DEF View, Ids
<1> HIDE DEF new
<1>4. Table(new) = EventSchemaTable(new) BY <1>1 DEF Table, Is
<1>5. Owners(new) = {} /\ Needs(new) = {} /\ Keys(new) = {<<"uq_tenant_event_type_version", new.code, new.version>>}
  BY <1>4 DEF Owners, Needs, Keys, EventSchemaTable, T
<1>6. Refused(r, {new}, {}) BY DEF new
<1>7. PICK y \in After(r, {new}, {}) : new.id # y.id /\ Keys(new) \cap Keys(y) # {}
  BY <1>5, <1>6 DEF Refused
<1>8. y \in rows BY <1>3, <1>7 DEF After, Ids
<1>9. <<"uq_tenant_event_type_version", new.code, new.version>> \in Keys(y) BY <1>5, <1>7
<1>10. y \in RowTypes BY <1>8, Typed
<1>11. y.id[1] = "event_schema"
  <2>1. SUFFICES ASSUME y.id[1] # "event_schema" PROVE FALSE OBVIOUS
  <2>2. Keys(y) = Table(y).keys BY DEF Keys
  <2>3. \A k \in Table(y).keys : k[1] # "uq_tenant_event_type_version"
    <3>1. ~Is(y, "event_schema") BY <2>1 DEF Is
    <3>2. CASE Is(y, "subject") \/ Is(y, "subject_type") \/ Is(y, "relationship_kind") \/ Is(y, "relationship")
               \/ Is(y, "category") \/ Is(y, "template")
      BY <3>1, <3>2 DEF Table, Is, T, SubjectTable, SubjectTypeTable, RelationshipKindTable, RelationshipTable,
         CategoryTable, NamingTemplateTable
    <3>3. CASE Is(y, "requirement") \/ Is(y, "flow_subject") \/ Is(y, "rule") \/ Is(y, "document")
               \/ Is(y, "event") \/ Is(y, "flow") \/ Is(y, "workflow")
      BY <3>1, <3>3 DEF Table, Is, T, RequirementTable, FlowSubjectTable, RuleTable, DocumentTable, EventTable
    <3>4. y.id[1] \in {"subject", "subject_type", "relationship_kind", "relationship", "category", "template",
                       "requirement", "flow", "flow_subject", "rule", "document", "event", "workflow"}
      BY <1>10, <2>1, RowTables DEF RowTypes
    <3> QED BY <3>2, <3>3, <3>4 DEF Is
  <2> QED BY <1>9, <2>2, <2>3
<1>12. Table(y) = EventSchemaTable(y) BY <1>11 DEF Table, Is
<1>13. Keys(y) = {<<"uq_tenant_event_type_version", y.code, y.version>>}
  BY <1>12 DEF Keys, EventSchemaTable, T
<1>14. y.code = new.code /\ y.version = new.version BY <1>9, <1>13
<1> QED BY <1>1, <1>8, <1>11, <1>14 DEF Versions, Of

\* Who ends in an IntegrityError has been refused, and has no attempt left.
LEMMA Beaten ==
  ASSUME Base, NEW r \in Requests, call[r].op = "create_schema", outcome[r] # "integrity_error",
         CreateSchema(r) \/ Answer(r) \/ Commit(r) \/ Abort(r), outcome'[r] = "integrity_error"
  PROVE  pc[r] = "write" /\ IntegrityError(r, {NewSchema(r)}, {}) /\ ~Retry(r)
<1> USE Typed DEF Base
<1>0. outcome \in [Requests -> Outcomes] OBVIOUS
<1>1. ASSUME NEW p, Goto(r, p) PROVE FALSE BY <1>1 DEF Goto
<1>2. ASSUME NEW p, NEW o \in Outcomes \ {"integrity_error"}, End(r, p, o) PROVE FALSE
  BY <1>0, <1>2 DEF End
<1>3. ASSUME NEW o \in Outcomes \ {"integrity_error"}, Fail(r, o) PROVE FALSE BY <1>2, <1>3 DEF Fail
<1>4. {"error", "success", "aborted"} \subseteq Outcomes \ {"integrity_error"} BY DEF Outcomes
<1>5. CASE Answer(r) BY <1>2, <1>4, <1>5 DEF Answer
<1>6. CASE Commit(r) BY <1>1, <1>6 DEF Commit
<1>7. CASE Abort(r)
  <2> DEFINE o == IF outcome[r] = "none" THEN "aborted" ELSE outcome[r]
  <2>1. Fail(r, o) BY <1>7 DEF Abort
  <2>2. o \in Outcomes \ {"integrity_error"} BY <1>4
  <2> HIDE DEF o
  <2> QED BY <1>3, <2>1, <2>2
<1>8. CASE CreateSchema(r)
  <2>1. CASE InsertSchema(r)
    <3>1. \/ \E p : Goto(r, p)
          \/ Fail(r, "error")
          \/ IntegrityError(r, {NewSchema(r)}, {}) /\ (Retry(r) => Goto(r, "start"))
      BY <2>1 DEF InsertSchema
    <3> QED BY <1>1, <1>3, <1>4, <2>1, <3>1 DEF InsertSchema
  <2>2. CASE DeactivateOthers(r)
    <3>1. Goto(r, "answer") BY <2>2 DEF DeactivateOthers
    <3> QED BY <1>1, <3>1
  <2>3. CASE Look(r, "none", [version |-> NextVersion(r), tries |-> Tries(r)], "write")
    <3>1. Goto(r, "write") BY <2>3 DEF Look
    <3> QED BY <1>1, <3>1
  <2> QED BY <1>8, <2>1, <2>2, <2>3 DEF CreateSchema
<1> QED BY <1>5, <1>6, <1>7, <1>8

LEMMA OwnTries ==
  ASSUME Base, Few, NEW r \in Requests, TriesInv(r), Route(r) \/ Answer(r) \/ Commit(r) \/ Abort(r)
  PROVE  TriesInv(r)'
<1> USE Typed DEF Base
<1>s. StepOf(r) BY RouteStep
<1>g. Goes(r) BY <1>s DEF StepOf, Ends, Loses, Commits, Looks, Puts
<1>c. call' = call BY <1>g DEF Goes
<1>0. SUFFICES ASSUME call[r].op = "create_schema" PROVE TriesInv(r)'
  BY <1>c DEF TriesInv
<1>1. CreateSchema(r) \/ Answer(r) \/ Commit(r) \/ Abort(r)
  BY <1>0 DEF Route, CreateSubject, UpdateSubject, DeleteSubject, Erase, Upload, Export, AddRelationship,
     RemoveRelationship, CreateKind, UpdateKind, DeleteKind, CreateType, UpdateType, DeleteType, CreateCategory,
     UpdateCategory, DeleteCategory, CreateRule, UpdateRule, DeleteRule, UpdateSchema, DeleteSchema,
     CreateTemplate, UpdateTemplate, DeleteTemplate, CreateFlow, UpdateFlow, AddSubjects, RemoveSubject,
     CreateRequirement, DeleteRequirement, Compliance, At
<1> DEFINE n == Cardinality(Rivals(r))
<1>2. r \in Creations BY <1>0 DEF Creations
<1>3. n \in Nat /\ n < MaxAttempts BY <1>2, RivalsFinite
<1>4. ASSUME pc[r] = "write", IntegrityError(r, {NewSchema(r)}, {})
      PROVE  got[r] \in Attempt /\ got[r].tries + 1 <= n
  <2>1. got[r] \in Attempt /\ got[r].version \in Nat BY <1>0, <1>4 DEF PathInv, Attempt
  <2>2. PICK x \in Versions(rows, call[r].code) : x.version = got[r].version
    BY <1>0, <1>4, RefusedVersion DEF IntegrityError
  <2>3. ~(x.version < got[r].version) BY <2>1, <2>2
  <2> QED BY <1>0, <1>4, <2>1, <2>3 DEF TriesInv
<1>5. outcome'[r] # "integrity_error"
  <2>1. SUFFICES ASSUME outcome'[r] = "integrity_error" PROVE FALSE OBVIOUS
  <2>2. outcome[r] # "integrity_error" BY <1>0 DEF TriesInv
  <2>3. pc[r] = "write" /\ IntegrityError(r, {NewSchema(r)}, {}) /\ ~Retry(r)
    BY <1>0, <1>1, <2>1, <2>2, Beaten
  <2>4. got[r].tries \in Nat /\ got[r].tries + 1 <= n BY <1>4, <2>3 DEF Attempt
  <2>5. ~(got[r].tries < MaxAttempts - 1) BY <2>3 DEF Retry
  <2> HIDE DEF n
  <2> QED BY <1>3, <2>4, <2>5, Assumed
<1> HIDE DEF n
<1>6. CASE pc'[r] \notin {"start", "write"} BY <1>5, <1>6 DEF TriesInv
<1>7. ASSUME committed' = committed PROVE n = Cardinality(Rivals(r)')
  BY <1>c, <1>7 DEF n, Rivals, Did
<1>8. CASE Reads(r)
  <2>1. /\ pc[r] = "start" /\ pc'[r] = "write" /\ rows' = rows /\ committed' = committed
        /\ got'[r].version = NextVersion(r) /\ got'[r].tries = Tries(r)
    BY <1>8 DEF Reads, Looks, Untouched
  <2>2. put[r] = {} /\ gone[r] = {} BY <1>0, <2>1 DEF PathInv
  <2>3. View(r) = rows BY <2>2 DEF View, Ids
  <2>4. \A x \in Versions(rows, call[r].code) : x.version < got'[r].version
    BY <2>1, <2>3, NextVersionIs
  <2>5. got'[r].tries <= n BY <1>0, <2>1 DEF TriesInv, n
  <2>6. pc'[r] # "start" BY <2>1
  <2>7. Versions(rows, call[r].code)' = Versions(rows, call[r].code) BY <1>c, <2>1 DEF Versions, Of
  <2>8. got'[r].tries <= Cardinality(Rivals(r)') BY <1>7, <2>1, <2>5
  <2> QED BY <1>5, <2>4, <2>6, <2>7, <2>8 DEF TriesInv
<1>9. CASE Repeats(r)
  <2>1. /\ pc[r] = "write" /\ pc'[r] = "start" /\ committed' = committed
        /\ got'[r] = [got[r] EXCEPT !.tries = @ + 1] /\ IntegrityError(r, {NewSchema(r)}, {})
    BY <1>9 DEF Repeats, Looks, Untouched
  <2>2. got[r] \in Attempt /\ got[r].tries + 1 <= n BY <1>4, <2>1
  <2>3. got'[r].tries = got[r].tries + 1 BY <2>1, <2>2 DEF Attempt
  <2>4. Tries(r)' <= n
    BY <1>3, <2>2, <2>3 DEF Tries
  <2>5. pc'[r] # "write" BY <2>1
  <2> QED BY <1>5, <1>7, <2>1, <2>4, <2>5 DEF TriesInv
<1>10. CASE Answer(r)
  BY <1>6, <1>10 DEF Answer, End
<1> QED
  BY <1>1, <1>6, <1>8, <1>9, <1>10, CreateSchemaEffect, CommitEffect, AbortEnds
  DEF Ends, Loses, Commits, Inserts, Deactivates, Looks, Puts

LEMMA OthersTries ==
  ASSUME Base, Few, NEW q \in Requests, StepOf(q), NEW r \in Requests \ {q}, TriesInv(r)
  PROVE  TriesInv(r)'
<1> USE Typed DEF Base
<1>0. Goes(q) BY DEF StepOf, Ends, Loses, Commits, Looks, Puts
<1>1. call' = call /\ pc'[r] = pc[r] /\ got'[r] = got[r] /\ outcome'[r] = outcome[r] BY <1>0 DEF Goes
<1>2. CASE rows' = rows /\ committed' = committed
  <2>1. Rivals(r)' = Rivals(r) BY <1>1, <1>2 DEF Rivals, Did
  <2>2. Versions(rows, call[r].code)' = Versions(rows, call[r].code) BY <1>1, <1>2 DEF Versions, Of
  <2>3. Tries(r)' = Tries(r) BY <1>1 DEF Tries
  <2> QED BY <1>1, <2>1, <2>2, <2>3 DEF TriesInv
<1>3. CASE Commits(q)
  <2>1. SUFFICES ASSUME call[r].op = "create_schema" PROVE TriesInv(r)' BY <1>1 DEF TriesInv
  <2> DEFINE n == Cardinality(Rivals(r))
             m == Cardinality(Rivals(r)')
  <2>2. r \in Creations BY <2>1 DEF Creations
  <2>3. n \in Nat /\ IsFiniteSet(Rivals(r)) BY <2>2, RivalsFinite
  <2>4. committed' = committed \cup {q} /\ q \notin committed BY <1>0, <1>3 DEF Commits, PathInv, Goes
  <2>5. m = IF call[q].op = "create_schema" THEN n + 1 ELSE n
    <3>1. CASE call[q].op = "create_schema"
      <4>1. q \notin Rivals(r) BY <2>4 DEF Rivals, Did
      <4>2. Rivals(r)' = {x \in committed \cup {q} : call[x].op = "create_schema"} \ {r}
        BY <1>1, <2>4 DEF Rivals, Did
      <4>3. Rivals(r)' = Rivals(r) \cup {q} BY <3>1, <4>2 DEF Rivals, Did
      <4> DEFINE old == Rivals(r)
      <4> HIDE DEF old
      <4>4. Cardinality(old \cup {q}) = Cardinality(old) + 1
        BY <2>3, <4>1, FS_AddElement DEF old
      <4> QED BY <3>1, <4>3, <4>4 DEF old
    <3>2. CASE call[q].op # "create_schema"
      <4>1. Rivals(r)' = Rivals(r) BY <1>1, <2>4, <3>2 DEF Rivals, Did
      <4> QED BY <3>2, <4>1
    <3> QED BY <3>1, <3>2
  <2>6. Tries(r)' = Tries(r) BY <1>1 DEF Tries
  <2>7. pc[r] = "start" => Tries(r) \in Nat BY <2>1 DEF PathInv, Tries, Attempt
  <2>8. pc[r] = "write" => got[r].tries \in Nat /\ got[r].version \in Nat BY <2>1 DEF PathInv, Attempt
  <2>9. ASSUME call[q].op # "create_schema", NEW x \in rows', x.id[1] = "event_schema"
        PROVE  \E y \in rows : y.id[1] = "event_schema" /\ y.code = x.code /\ y.version = x.version
    <3>1. CASE x \in rows BY <2>9, <3>1
    <3>2. CASE x \in put[q]
      <4>1. Allowed(q, x) BY <3>2 DEF WriteInv
      <4>2. IsOldSchema(q, x) BY <2>9, <4>1 DEF Allowed, IsNewSchema
      <4> QED BY <2>9, <4>2 DEF IsOldSchema
    <3> QED BY <1>3, <2>9, <3>1, <3>2 DEF Commits, View
  <2>10. ASSUME call[q].op # "create_schema", \A x \in Versions(rows, call[r].code) : x.version < got[r].version
         PROVE  \A x \in Versions(rows', call[r].code) : x.version < got[r].version
    BY <2>9, <2>10 DEF Versions, Of
  <2> HIDE DEF n, m
  <2>11. n <= m /\ m \in Nat BY <2>3, <2>5
  <2>12. pc[r] = "start" => Tries(r) <= n BY <2>1 DEF TriesInv, n
  <2>13. pc[r] = "write" =>
           /\ got[r].tries <= n
           /\ got[r].tries + 1 <= n \/ \A x \in Versions(rows, call[r].code) : x.version < got[r].version
    BY <2>1 DEF TriesInv, n
  <2>14. pc[r] = "start" => Tries(r) <= m BY <2>3, <2>7, <2>11, <2>12
  <2>15. pc[r] = "write" => got[r].tries <= m BY <2>3, <2>8, <2>11, <2>13
  <2>16. pc[r] = "write" =>
           got[r].tries + 1 <= m \/ \A x \in Versions(rows', call[r].code) : x.version < got[r].version
    BY <2>3, <2>5, <2>8, <2>10, <2>11, <2>13
  <2>17. outcome[r] # "integrity_error" BY <2>1 DEF TriesInv
  <2> QED BY <1>1, <2>6, <2>14, <2>15, <2>16, <2>17 DEF TriesInv, m, Versions, Of
<1> QED BY <1>2, <1>3 DEF StepOf, Ends, Loses, Drop, Looks, Untouched, Puts

-----------------------------------------------------------------------------
(* Erasures. *)

\* What is redacted has been by an erasure; what an erasure leaves has come later.
RedactedInv ==
  \A s \in Of(rows, "subject") :
    s.content = Redacted => \E a \in Did("anonymize") : call[a].target = s.id
ErasedInv ==
  \A a \in Did("anonymize") : \A d \in Of(rows, "document") :
    d.subject = call[a].target /\ ~d.deleted => d.id[2] \in Requests \ before[a]

\* The documents an erasure has yet to redact, or has found none of.
ErasePath(r) ==
  call[r].op = "anonymize" =>
    /\ pc[r] # "erase"
    /\ pc[r] \in {"redact", "answer", "commit"} /\ session[r] = "active" =>
         \A d \in Of(View(r), "document") :
           d.subject = call[r].target /\ ~d.deleted =>
             (pc[r] = "redact" /\ d.id \in got[r]) \/ d.id[2] \in Requests \ before[r]

Spared(s, documents) ==
  \E a \in Did("anonymize") :
    call[a].target = s /\ \A d \in documents : d.id[2] \in Requests \ before[a]

\* An export, before it reads the documents and after it.
ExportRow == [subject : SUBSET RowTypes, events : SUBSET RowTypes, documents : SUBSET RowTypes]
ExportPath(r) ==
  call[r].op = "export" =>
    /\ put[r] = {} /\ gone[r] = {}
    /\ pc[r] \in {"events", "documents"} =>
         /\ got[r] \in ExportRow
         /\ \A s \in got[r].subject :
              /\ s.id = call[r].target
              /\ s.content = Redacted => \E a \in Did("anonymize") : call[a].target = s.id
    /\ pc[r] \in {"answer", "commit"} \/ outcome[r] = "success" =>
         \A s \in got[r].subject : s.content = Redacted => Spared(s.id, got[r].documents)

LEMMA StepFacts ==
  ASSUME Types, NEW r \in Requests, StepOf(r)
  PROVE  /\ Goes(r) /\ call' = call
         /\ committed' = committed \/ (Commits(r) /\ committed' = committed \cup {r})
         /\ rows' = rows \/ (Commits(r) /\ rows' = View(r))
         /\ \A q \in Requests \ {r} :
              put'[q] = put[q] /\ gone'[q] = gone[q] /\ audited'[q] = audited[q] /\ session'[q] = session[q]
<1> USE Typed
<1>1. CASE Ends(r) \/ Loses(r) BY <1>1 DEF Ends, Loses, Drop, Goes
<1>2. CASE \E p : Looks(r, p) BY <1>2 DEF Looks, Untouched, Goes
<1>3. CASE \E new, del, p : Puts(r, new, del, p) /\ Written(r, new, del)
  BY <1>3 DEF Puts, Goes
<1>4. CASE Commits(r) BY <1>4 DEF Commits, Goes
<1> QED BY <1>1, <1>2, <1>3, <1>4 DEF StepOf

\* What r sees, once it has written.
LEMMA ViewPuts ==
  ASSUME Types, NEW r \in Requests, NEW new, NEW del, NEW p, Puts(r, new, del, p)
  PROVE  \A x \in View(r)' : x \in new \/ (x \in View(r) /\ x.id \notin Ids(new))
<1>1. /\ put'[r] = new \cup {y \in put[r] : y.id \notin del \cup Ids(new)}
      /\ gone'[r] = gone[r] \cup (del \cap Ids(rows)) /\ rows' = rows
  BY Typed DEF Puts
<1>2. SUFFICES ASSUME NEW x \in View(r)', x \notin new PROVE x \in View(r) /\ x.id \notin Ids(new)
  OBVIOUS
<1>3. x \in put'[r] \/ (x \in rows /\ x.id \notin gone'[r] /\ \A y \in put'[r] : y.id # x.id)
  BY <1>1, <1>2 DEF View, Ids
<1>4. CASE x \in put'[r] BY <1>1, <1>2, <1>4 DEF View
<1>5. CASE x \in rows /\ x.id \notin gone'[r] /\ \A y \in put'[r] : y.id # x.id
  <2>1. x.id \notin Ids(new) BY <1>1, <1>5 DEF Ids
  <2>2. x.id \notin del /\ x.id \notin gone[r] BY <1>1, <1>5 DEF Ids
  <2>3. \A y \in put[r] : y.id # x.id BY <1>1, <1>5, <2>1, <2>2
  <2> QED BY <1>5, <2>1, <2>2, <2>3 DEF View, Ids
<1> QED BY <1>3, <1>4, <1>5

LEMMA Uploaded ==
  ASSUME Base, NEW q \in Requests, NEW x \in put[q], x.id[1] = "document", ~x.deleted
  PROVE  call[q].op = "upload_document" /\ x.id = <<"document", q>>
<1>1. Allowed(q, x) BY DEF Base, WriteInv
<1> QED BY <1>1 DEF Allowed

LEMMA DidGrows ==
  ASSUME Base, NEW r \in Requests, StepOf(r), NEW a \in Did("anonymize")
  PROVE  a \in Did("anonymize")' /\ call'[a] = call[a] /\ before'[a] = before[a] /\ a # r
<1>1. Goes(r) /\ call' = call /\ committed \subseteq committed' BY StepFacts DEF Base
<1>2. a \in committed /\ a \in Requests BY Typed DEF Did, Base
<1>3. a # r BY <1>1, <1>2 DEF Goes, Base, PathInv
<1> QED BY <1>1, <1>2, <1>3 DEF Goes, Did

LEMMA RedactedNext ==
  ASSUME Base, NEW r \in Requests, StepOf(r), RedactedInv
  PROVE  RedactedInv'
<1> USE Typed DEF Base
<1>1. SUFFICES ASSUME NEW s \in rows', s.id[1] = "subject", s.content = Redacted
               PROVE  \E a \in Did("anonymize")' : call'[a].target = s.id
  BY DEF RedactedInv, Of
<1>2. CASE s \in rows
  <2>1. PICK a \in Did("anonymize") : call[a].target = s.id BY <1>1, <1>2 DEF RedactedInv, Of
  <2> QED BY <2>1, DidGrows
<1>3. CASE Commits(r) /\ s \in put[r]
  <2>1. Allowed(r, s) BY <1>3 DEF WriteInv
  <2>2. call[r].op = "anonymize" /\ s.id = call[r].target BY <1>1, <2>1 DEF Allowed
  <2>3. r \in committed' /\ call' = call BY <1>3 DEF Commits, Goes
  <2> QED BY <2>2, <2>3 DEF Did
<1>4. s \in rows \/ (Commits(r) /\ s \in put[r]) BY StepFacts DEF View
<1> QED BY <1>2, <1>3, <1>4

LEMMA ErasedNext ==
  ASSUME Base, NEW r \in Requests, StepOf(r), ErasedInv, ErasePath(r)
  PROVE  ErasedInv'
<1> USE Typed DEF Base
<1>0. Goes(r) /\ call' = call BY StepFacts
<1>1. SUFFICES ASSUME NEW a \in Did("anonymize")', NEW d \in rows', d.id[1] = "document",
                      d.subject = call'[a].target, ~d.deleted
               PROVE  d.id[2] \in Requests \ before'[a]
  BY DEF ErasedInv, Of
<1>2. CASE a \in Did("anonymize")
  <2>1. before'[a] = before[a] /\ before[a] \subseteq committed BY <1>2, DidGrows DEF PathInv, Did
  <2>2. CASE d \in rows BY <1>0, <1>1, <1>2, <2>1, <2>2 DEF ErasedInv, Of
  <2>3. CASE Commits(r) /\ d \in put[r]
    <3>1. d.id = <<"document", r>> BY <1>1, <2>3, Uploaded
    <3>2. r \notin committed BY <1>0 DEF Goes, PathInv
    <3> QED BY <2>1, <3>1, <3>2
  <2>4. d \in rows \/ (Commits(r) /\ d \in put[r]) BY StepFacts DEF View
  <2> QED BY <2>2, <2>3, <2>4
<1>3. CASE a \notin Did("anonymize")
  <2>1. Commits(r) /\ a = r /\ call[r].op = "anonymize"
    BY <1>0, <1>1, <1>3, StepFacts DEF Did
  <2>2. rows' = View(r) /\ before'[r] = before[r] /\ pc[r] = "commit" /\ session[r] = "active"
    BY <2>1 DEF Commits
  <2>3. d \in Of(View(r), "document") /\ d.subject = call[r].target
    BY <1>0, <1>1, <2>1, <2>2 DEF Of
  <2>4. d.id[2] \in Requests \ before[r] BY <1>1, <2>1, <2>2, <2>3 DEF ErasePath
  <2> QED BY <2>1, <2>2, <2>4
<1> QED BY <1>2, <1>3

LEMMA OthersErase ==
  ASSUME Base, NEW q \in Requests, StepOf(q), NEW r \in Requests \ {q}, ErasePath(r)
  PROVE  ErasePath(r)'
<1> USE Typed DEF Base
<1>0. Goes(q) /\ call' = call BY StepFacts
<1>1. /\ pc'[r] = pc[r] /\ got'[r] = got[r] /\ before'[r] = before[r]
      /\ put'[r] = put[r] /\ gone'[r] = gone[r] /\ session'[r] = session[r]
  BY <1>0, StepFacts DEF Goes
<1>2. SUFFICES ASSUME call[r].op = "anonymize", pc[r] \in {"redact", "answer", "commit"}, session[r] = "active",
                      NEW d \in View(r)', d.id[1] = "document", d.subject = call[r].target, ~d.deleted
               PROVE  (pc[r] = "redact" /\ d.id \in got[r]) \/ d.id[2] \in Requests \ before[r]
  BY <1>0, <1>1 DEF ErasePath, Of
<1>3. d \in put[r] \/ (d \in rows' /\ d.id \notin gone[r] \cup Ids(put[r]))
  BY <1>1, <1>2 DEF View, Ids
<1>4. d \in rows' => d \in rows \/ d \in put[q] BY StepFacts DEF View
<1>5. CASE d \in put[q]
  <2>1. d.id = <<"document", q>> BY <1>2, <1>5, Uploaded
  <2>2. q \notin committed BY <1>0 DEF Goes, PathInv
  <2> QED BY <2>1, <2>2 DEF PathInv
<1>6. CASE d \in View(r) BY <1>2, <1>6 DEF ErasePath, Of
<1> QED BY <1>3, <1>4, <1>5, <1>6 DEF View

LEMMA OwnErase ==
  ASSUME Base, NEW r \in Requests, ErasePath(r), Route(r) \/ Answer(r) \/ Commit(r) \/ Abort(r)
  PROVE  ErasePath(r)'
<1> USE Typed, Places DEF Base
<1>s. StepOf(r) BY RouteStep
<1>c. call' = call BY <1>s, StepFacts
<1>0. SUFFICES ASSUME call[r].op = "anonymize" PROVE ErasePath(r)'
  BY <1>c DEF ErasePath
<1>1. Erase(r) \/ Answer(r) \/ Commit(r) \/ Abort(r)
  BY <1>0 DEF Route, CreateSubject, UpdateSubject, DeleteSubject, Upload, Export, AddRelationship,
     RemoveRelationship, CreateKind, UpdateKind, DeleteKind, CreateType, UpdateType, DeleteType, CreateCategory,
     UpdateCategory, DeleteCategory, CreateRule, UpdateRule, DeleteRule, CreateSchema, UpdateSchema, DeleteSchema,
     CreateTemplate, UpdateTemplate, DeleteTemplate, CreateFlow, UpdateFlow, AddSubjects, RemoveSubject,
     CreateRequirement, DeleteRequirement, Compliance, At
<1>2. CASE pc'[r] \notin {"redact", "answer", "commit", "erase"} BY <1>2 DEF ErasePath
<1>3. CASE Ends(r) \/ Loses(r) BY <1>3 DEF Ends, Loses, Drop, ErasePath
<1>4. CASE Commits(r) BY <1>2, <1>4 DEF Commits
<1>5. CASE Answer(r)
  <2>1. "success" \in Outcomes BY DEF Outcomes
  <2>2. /\ Looks(r, "commit") /\ pc[r] = "answer" /\ got' = got /\ before' = before
    BY <1>5, <2>1, AnswerGoes DEF Answer
  <2>3. UNCHANGED <<rows, put, gone, session>> /\ pc'[r] = "commit" BY <2>2 DEF Looks, Untouched
  <2>4. View(r)' = View(r) BY <2>3 DEF View
  <2> QED BY <1>c, <2>2, <2>3, <2>4 DEF ErasePath
<1>6. CASE Erase(r)
  <2>1. CASE pc[r] = "start"
    <3>1. Look(r, Found(r, "subject"), None, "write") BY <1>0, <1>6, <2>1 DEF Erase, At, SoftDelete
    <3>2. "write" \in PCs OBVIOUS
    <3>3. Ends(r) \/ Looks(r, "write") BY <2>1, <3>1, <3>2, FoundOutcome, LookEffect
    <3> QED BY <1>2, <1>3, <3>3 DEF Looks
  <2>2. CASE pc[r] = "write"
    <3> DEFINE new == {Anonymized(Target(r))}
               del == {}
    <3>1. SaveIf(Present(r), r, new, del, "documents") BY <1>0, <1>6, <2>2 DEF Erase, At, SoftDelete
    <3>2. "documents" \in PCs /\ call[r].op \notin Creates BY <1>0 DEF Creates
    <3> HIDE DEF new, del
    <3>3. Ends(r) \/ Loses(r) \/ Puts(r, new, del, "documents") BY <2>2, <3>1, <3>2, SaveIfEffect
    <3> QED BY <1>2, <1>3, <3>3 DEF Puts
  <2>3. CASE pc[r] = "documents"
    <3>1. /\ got' = [got EXCEPT ![r] = Listed(r)]
          /\ Goto(r, "redact") /\ Untouched
      BY <1>6, <2>3 DEF Erase, At, SoftDelete
    <3>2. got'[r] = Listed(r) /\ pc'[r] = "redact" BY <3>1 DEF Goto
    <3>3. View(r)' = View(r) BY <3>1 DEF View, Untouched
    <3> QED BY <1>c, <3>2, <3>3 DEF ErasePath, Listed
  <2>4. CASE pc[r] = "redact" /\ SoftDelete(r)
    <3>1. PICK d \in got[r] :
           /\ got' = [got EXCEPT ![r] = @ \ {d}]
           /\ UNCHANGED <<call, before>>
           /\ IF d \notin Ids(View(r)) THEN Goto(r, "redact") /\ Untouched
              ELSE LET new == {[Row(View(r), d) EXCEPT !.deleted = TRUE]} IN
                   \/ Flush(r, new, {}, Chain(r)) /\ Goto(r, "redact")
                   \/ AuditRefused(r, new, {}, Chain(r)) /\ Fail(r, "error")
      BY <2>4 DEF SoftDelete
    <3>2. got'[r] = got[r] \ {d} BY <3>1
    <3> DEFINE x == [Row(View(r), d) EXCEPT !.deleted = TRUE]
               del == {}
    <3>3. CASE d \notin Ids(View(r)) /\ Goto(r, "redact") /\ Untouched
      <4>1. View(r)' = View(r) /\ session' = session BY <3>3 DEF View, Untouched
      <4>2. pc'[r] = "redact" BY <3>3 DEF Goto
      <4>3. \A y \in View(r) : y.id # d BY <3>3 DEF Ids
      <4>4. SUFFICES ASSUME session[r] = "active",
                            NEW y \in Of(View(r), "document"), y.subject = call[r].target, ~y.deleted
                     PROVE  y.id \in got'[r] \/ y.id[2] \in Requests \ before[r]
        BY <1>c, <3>1, <4>1, <4>2 DEF ErasePath
      <4>5. y.id \in got[r] \/ y.id[2] \in Requests \ before[r] BY <1>0, <2>4, <4>4 DEF ErasePath
      <4> QED BY <3>2, <4>3, <4>5 DEF Of
    <3>4. CASE d \in Ids(View(r)) /\ Flush(r, {x}, del, Chain(r)) /\ Goto(r, "redact")
      <4>1. Row(View(r), d) \in View(r) /\ Row(View(r), d).id = d BY <3>4, RowIs
      <4>2. d[1] = "document" BY <2>4, IdTable DEF PathInv, PathAt
      <4>3. Row(View(r), d) \in DocumentRow BY <4>1, <4>2, ViewTyped, Sorts
      <4>4. x.id = d /\ x.deleted BY <4>1, <4>3, DocumentRedacted
      <4> HIDE DEF x, del
      <4>5. "redact" \in PCs BY DEF PCs
      <4>6. DOMAIN got' = Requests /\ \A q \in Requests \ {r} : got'[q] = got[q] BY <3>1
      <4>7. Goes(r) /\ pc'[r] = "redact" BY <2>4, <3>1, <3>4, <4>5, <4>6, GotoGoes
      <4>8. Puts(r, {x}, del, "redact") BY <3>4, <4>7, FlushEffect
      <4>9. \A y \in View(r)' : y = x \/ (y \in View(r) /\ y.id \notin Ids({x})) BY <4>8, ViewPuts
      <4>10. session[r] = "active" BY <4>8 DEF Puts
      <4>11. SUFFICES ASSUME NEW y \in View(r)', y.id[1] = "document", y.subject = call[r].target, ~y.deleted
                      PROVE  y.id \in got'[r] \/ y.id[2] \in Requests \ before[r]
        BY <1>c, <3>1, <4>7 DEF ErasePath, Of
      <4>12. y \in View(r) /\ y.id # d BY <4>4, <4>9, <4>11 DEF Ids
      <4>13. y.id \in got[r] \/ y.id[2] \in Requests \ before[r]
        BY <1>0, <2>4, <4>10, <4>11, <4>12 DEF ErasePath, Of
      <4> QED BY <3>2, <4>12, <4>13
    <3>5. CASE Fail(r, "error")
      BY <1>2, <3>5 DEF Fail, End
    <3> QED BY <3>1, <3>3, <3>4, <3>5
  <2>5. CASE pc[r] = "redact" /\ got[r] = {} /\ Look(r, "none", None, "answer")
    <3>1. Goto(r, "answer") /\ Untouched /\ before' = before BY <2>5 DEF Look
    <3>2. pc'[r] = "answer" /\ View(r)' = View(r) /\ session' = session BY <3>1 DEF Goto, View, Untouched
    <3>3. before'[r] = before[r] BY <3>1
    <3> QED BY <1>0, <1>c, <2>5, <3>2, <3>3 DEF ErasePath
  <2>6. pc[r] # "erase" BY <1>0 DEF ErasePath
  <2> QED BY <1>0, <1>6, <2>1, <2>2, <2>3, <2>4, <2>5, <2>6 DEF Erase, At, SoftDelete
<1> QED BY <1>1, <1>3, <1>4, <1>5, <1>6, CommitEffect, AbortEnds

\* An export that shows a subject redacted, and then reads its documents.
LEMMA ExportSpares ==
  ASSUME Base, ErasedInv, NEW r \in Requests, NEW s, s.id = call[r].target,
         NEW a \in Did("anonymize"), call[a].target = s.id
  PROVE  Spared(s.id, {x \in Of(rows, "document") : x.subject = call[r].target /\ ~x.deleted})
  BY DEF ErasedInv, Spared, Of

LEMMA SparedStays ==
  ASSUME Base, NEW r \in Requests, StepOf(r), NEW s, NEW documents, Spared(s, documents)
  PROVE  \E a \in Did("anonymize")' :
           call'[a].target = s /\ \A d \in documents : d.id[2] \in Requests \ before'[a]
<1>1. PICK a \in Did("anonymize") : call[a].target = s /\ \A d \in documents : d.id[2] \in Requests \ before[a]
  BY DEF Spared
<1>2. a \in Did("anonymize")' /\ call'[a] = call[a] /\ before'[a] = before[a] BY DidGrows
<1> QED BY <1>1, <1>2

LEMMA ExportPathStays ==
  ASSUME Base, NEW q \in Requests, StepOf(q), NEW r \in Requests, ExportPath(r), got'[r] = got[r],
         put'[r] = {}, gone'[r] = {},
         pc'[r] \in {"events", "documents"} => pc[r] \in {"events", "documents"},
         pc'[r] \in {"answer", "commit"} \/ outcome'[r] = "success" =>
           pc[r] \in {"answer", "commit"} \/ outcome[r] = "success"
  PROVE  ExportPath(r)'
<1>1. call' = call BY StepFacts DEF Base
<1>2. SUFFICES ASSUME call[r].op = "export" PROVE ExportPath(r)' BY <1>1 DEF ExportPath
<1>3. ASSUME pc'[r] \in {"events", "documents"}
      PROVE  /\ got'[r] \in ExportRow'
             /\ \A s \in got'[r].subject :
                  /\ s.id = call'[r].target
                  /\ s.content = Redacted => \E a \in Did("anonymize")' : call'[a].target = s.id
  <2>1. /\ got[r] \in ExportRow
        /\ \A s \in got[r].subject :
             /\ s.id = call[r].target
             /\ s.content = Redacted => \E a \in Did("anonymize") : call[a].target = s.id
    BY <1>2, <1>3 DEF ExportPath
  <2>2. ExportRow' = ExportRow BY DEF ExportRow, RowTypes, Id
  <2>3. ASSUME NEW a \in Did("anonymize") PROVE a \in Did("anonymize")' /\ call'[a] = call[a] BY DidGrows
  <2> QED BY <1>1, <2>1, <2>2, <2>3
<1>4. ASSUME pc'[r] \in {"answer", "commit"} \/ outcome'[r] = "success",
             NEW s \in got'[r].subject, s.content = Redacted
      PROVE  Spared(s.id, got[r].documents)'
  <2>1. Spared(s.id, got[r].documents) BY <1>2, <1>4 DEF ExportPath
  <2>2. \E a \in Did("anonymize")' :
          call'[a].target = s.id /\ \A d \in got[r].documents : d.id[2] \in Requests \ before'[a]
    BY <2>1, SparedStays
  <2> QED BY <2>2 DEF Spared
<1> QED BY <1>1, <1>2, <1>3, <1>4 DEF ExportPath

LEMMA OthersExport ==
  ASSUME Base, NEW q \in Requests, StepOf(q), NEW r \in Requests \ {q}, ExportPath(r)
  PROVE  ExportPath(r)'
<1>1. Goes(q) /\ call' = call BY StepFacts DEF Base
<1>2. /\ pc'[r] = pc[r] /\ got'[r] = got[r] /\ outcome'[r] = outcome[r]
      /\ put'[r] = put[r] /\ gone'[r] = gone[r]
  BY <1>1, StepFacts DEF Goes, Base
<1>3. CASE call[r].op = "export"
  <2>1. put'[r] = {} /\ gone'[r] = {} BY <1>2, <1>3 DEF ExportPath
  <2> QED BY <1>2, <2>1, ExportPathStays
<1>4. CASE call[r].op # "export" BY <1>1, <1>4 DEF ExportPath
<1> QED BY <1>3, <1>4

LEMMA OwnExport ==
  ASSUME Base, NEW r \in Requests, RedactedInv, ErasedInv, ExportPath(r),
         Route(r) \/ Answer(r) \/ Commit(r) \/ Abort(r)
  PROVE  ExportPath(r)'
<1> USE Typed, Places DEF Base
<1>s. StepOf(r) BY RouteStep
<1>c. call' = call BY <1>s, StepFacts
<1>0. SUFFICES ASSUME call[r].op = "export" PROVE ExportPath(r)'
  BY <1>c DEF ExportPath
<1>1. Export(r) \/ Answer(r) \/ Commit(r) \/ Abort(r)
  BY <1>0 DEF Route, CreateSubject, UpdateSubject, DeleteSubject, Erase, Upload, AddRelationship,
     RemoveRelationship, CreateKind, UpdateKind, DeleteKind, CreateType, UpdateType, DeleteType, CreateCategory,
     UpdateCategory, DeleteCategory, CreateRule, UpdateRule, DeleteRule, CreateSchema, UpdateSchema, DeleteSchema,
     CreateTemplate, UpdateTemplate, DeleteTemplate, CreateFlow, UpdateFlow, AddSubjects, RemoveSubject,
     CreateRequirement, DeleteRequirement, Compliance, At
<1>2. put[r] = {} /\ gone[r] = {} BY <1>0 DEF ExportPath
<1>3. CASE Abort(r) BY <1>2, <1>3 DEF Abort
<1>4. CASE Commit(r)
  <2>1. got'[r] = got[r] /\ outcome'[r] = outcome[r] /\ pc'[r] = "done" BY <1>4 DEF Commit, Goto
  <2>2. put'[r] = {} /\ gone'[r] = {} BY <1>4 DEF Commit, Close, Drop
  <2> QED BY <1>s, <2>1, <2>2, ExportPathStays
<1>5. CASE Answer(r)
  <2>1. /\ pc[r] = "answer" /\ pc'[r] = "commit" /\ got'[r] = got[r] /\ put' = put /\ gone' = gone
    BY <1>5 DEF Answer, End, Untouched
  <2> QED BY <1>2, <1>s, <2>1, ExportPathStays
<1>6. CASE Export(r)
  <2> DEFINE subject == {x \in Of(rows, "subject") : x.id = call[r].target}
             o == IF subject = {} THEN "not_found" ELSE "none"
             g == [subject |-> subject, events |-> {}, documents |-> {}]
  <2>1. CASE pc[r] = "start" /\ Look(r, o, g, "events")
    <3>1. g \in ExportRow /\ g.subject = subject BY DEF ExportRow, Of
    <3>2. o \in Outcomes \ {"success"} BY DEF Outcomes
    <3>3. \A s \in subject : /\ s.id = call[r].target
                             /\ s.content = Redacted => \E a \in Did("anonymize") : call[a].target = s.id
      BY DEF RedactedInv
    <3>4. outcome[r] = "none" BY <2>1 DEF PathInv
    <3> HIDE DEF o, g, subject
    <3>5. got'[r] = g BY <2>1 DEF Look
    <3>6. CASE o = "none"
      <4>1. /\ pc'[r] = "events" /\ outcome' = outcome /\ put' = put /\ gone' = gone
        BY <2>1, <3>6 DEF Look, Goto, Untouched
      <4>2. ExportRow' = ExportRow BY DEF ExportRow, RowTypes, Id
      <4>3. \A a \in Did("anonymize") : a \in Did("anonymize")' /\ call'[a] = call[a] BY <1>s, DidGrows
      <4>4. /\ got'[r] \in ExportRow'
            /\ \A s \in got'[r].subject :
                 /\ s.id = call'[r].target
                 /\ s.content = Redacted => \E a \in Did("anonymize")' : call'[a].target = s.id
        BY <1>c, <3>1, <3>3, <3>5, <4>2, <4>3
      <4> QED BY <1>2, <3>4, <4>1, <4>4 DEF ExportPath
    <3>7. CASE o # "none"
      <4>1. pc'[r] = "done" /\ outcome'[r] = o /\ put'[r] = {} /\ gone'[r] = {}
        BY <2>1, <3>7 DEF Look, Fail, End, Drop
      <4> QED BY <3>2, <4>1 DEF ExportPath
    <3> QED BY <3>6, <3>7
  <2>2. CASE pc[r] = "events" /\ Look(r, "none", Exported(r, "events", "event"), "documents")
    <3>1. /\ got'[r] = Exported(r, "events", "event") /\ pc'[r] = "documents" /\ outcome' = outcome
          /\ put' = put /\ gone' = gone
      BY <2>2 DEF Look, Goto, Untouched
    <3>2. /\ got[r] \in ExportRow
          /\ \A s \in got[r].subject :
               /\ s.id = call[r].target
               /\ s.content = Redacted => \E a \in Did("anonymize") : call[a].target = s.id
          /\ outcome[r] = "none"
      BY <1>0, <2>2 DEF ExportPath, PathInv
    <3> DEFINE events == {x \in Of(rows, "event") : x.subject = call[r].target /\ ("event" = "document" => ~x.deleted)}
    <3>3. events \in SUBSET RowTypes BY DEF Of
    <3>4. got'[r] = [got[r] EXCEPT !["events"] = events] BY <3>1 DEF Exported
    <3> HIDE DEF events
    <3>5. got'[r] \in ExportRow /\ got'[r].subject = got[r].subject BY <3>2, <3>3, <3>4 DEF ExportRow
    <3>6. ExportRow' = ExportRow BY DEF ExportRow, RowTypes, Id
    <3>7. \A a \in Did("anonymize") : a \in Did("anonymize")' /\ call'[a] = call[a] BY <1>s, DidGrows
    <3>8. /\ got'[r] \in ExportRow'
          /\ \A s \in got'[r].subject :
               /\ s.id = call'[r].target
               /\ s.content = Redacted => \E a \in Did("anonymize")' : call'[a].target = s.id
      BY <1>c, <3>2, <3>5, <3>6, <3>7
    <3> QED BY <1>2, <3>1, <3>2, <3>8 DEF ExportPath
  <2>3. CASE pc[r] = "documents" /\ Look(r, "none", Exported(r, "documents", "document"), "answer")
    <3>1. /\ got'[r] = Exported(r, "documents", "document") /\ pc'[r] = "answer" /\ outcome' = outcome
          /\ put' = put /\ gone' = gone
      BY <2>3 DEF Look, Goto, Untouched
    <3>2. /\ got[r] \in ExportRow
          /\ \A s \in got[r].subject :
               /\ s.id = call[r].target
               /\ s.content = Redacted => \E a \in Did("anonymize") : call[a].target = s.id
      BY <1>0, <2>3 DEF ExportPath
    <3> DEFINE documents == {x \in Of(rows, "document") : x.subject = call[r].target /\ ~x.deleted}
    <3>3. documents \in SUBSET RowTypes BY DEF Of
    <3>4. got'[r] = [got[r] EXCEPT !["documents"] = documents] BY <3>1 DEF Exported
    <3>5. ASSUME NEW s \in got[r].subject, s.content = Redacted
          PROVE  Spared(s.id, documents)
      <4>1. PICK a \in Did("anonymize") : call[a].target = s.id BY <3>2, <3>5
      <4> QED BY <3>2, <3>5, <4>1, ExportSpares
    <3> HIDE DEF documents
    <3>6. got'[r].subject = got[r].subject /\ got'[r].documents = documents
      BY <3>2, <3>3, <3>4 DEF ExportRow
    <3>7. ASSUME NEW s \in got'[r].subject, s.content = Redacted
          PROVE  \E a \in Did("anonymize")' :
                   call'[a].target = s.id /\ \A d \in got'[r].documents : d.id[2] \in Requests \ before'[a]
      <4>1. Spared(s.id, documents) BY <3>5, <3>6, <3>7
      <4> QED BY <1>s, <3>6, <4>1, SparedStays
    <3>8. (\A s \in got[r].subject : s.content = Redacted => Spared(s.id, got[r].documents))'
      BY <3>7 DEF Spared
    <3> QED BY <1>2, <3>1, <3>8 DEF ExportPath
  <2> QED BY <1>6, <2>1, <2>2, <2>3 DEF Export
<1> QED BY <1>1, <1>3, <1>4, <1>5, <1>6

-----------------------------------------------------------------------------
(* A flow's compliance. *)

\* Since r began to read, documents have been stored and members added, and nothing else.
Steady(r) == \A q \in committed \ before[r] : call[q].op \in {"upload_document", "add_subjects"}

Needed(r) == Requirements(rows, Row(rows, call[r].target).workflow)
Satisfied(r, x) ==
  Count(rows, Members(rows, call[r].target), CategoryCode(rows, x.category)) >= x.min

Shaped(g) ==
  /\ g = [subjects |-> g.subjects, rest |-> g.rest, ok |-> g.ok, code |-> g.code]
  /\ g.ok \in BOOLEAN

\* Every requirement is still to be looked at, or is the one whose documents are to be counted, or
\* is satisfied unless one has been found that is not.
CompliancePath(r) ==
  call[r].op = "compliance" =>
    /\ put[r] = {} /\ gone[r] = {} /\ pc[r] # "answer"
    /\ pc[r] \in {"links", "category", "count"} => Shaped(got[r])
    /\ Steady(r) =>
         /\ pc[r] \notin {"start", "done"} => call[r].target \in Ids(rows)
         /\ pc[r] \in {"links", "category", "count"} =>
              got[r].subjects \subseteq Members(rows, call[r].target)
         /\ pc[r] \in {"category", "count"} =>
              \A x \in Needed(r) :
                \/ x \in got[r].rest
                \/ pc[r] = "count" /\ got[r].code = <<CategoryCode(rows, x.category), x.min>>
                \/ got[r].ok => Satisfied(r, x)
         /\ pc[r] = "commit" /\ outcome[r] = "success" => \A x \in Needed(r) : Satisfied(r, x)

\* What only adds documents and members.
Grows(s, t) == s \subseteq t /\ \A x \in t \ s : x.id[1] \in {"document", "flow_subject"}

LEMMA CountGrows ==
  ASSUME NEW s, NEW t, IsFiniteSet(t), s \subseteq t, NEW A, NEW B, A \subseteq B, NEW code
  PROVE  /\ Count(s, A, code) <= Count(t, B, code)
         /\ Count(s, A, code) \in Nat /\ Count(t, B, code) \in Nat
<1> DEFINE M == {d \in Of(s, "document") : d.subject \in A /\ d.code = code /\ ~d.deleted}
           N == {d \in Of(t, "document") : d.subject \in B /\ d.code = code /\ ~d.deleted}
<1>1. M \subseteq N /\ N \subseteq t BY DEF Of
<1>2. Count(s, A, code) = Cardinality(M) /\ Count(t, B, code) = Cardinality(N) BY DEF Count
<1> HIDE DEF M, N
<1>3. IsFiniteSet(N) BY <1>1, FS_Subset
<1>4. IsFiniteSet(M) /\ Cardinality(M) <= Cardinality(N) BY <1>1, <1>3, FS_Subset
<1>5. Cardinality(M) \in Nat /\ Cardinality(N) \in Nat BY <1>3, <1>4, FS_CardinalityType
<1> QED BY <1>2, <1>4, <1>5

LEMMA MembersGrow ==
  ASSUME NEW s, NEW t, s \subseteq t, NEW f
  PROVE  Members(s, f) \subseteq Members(t, f)
  BY DEF Members, Of

LEMMA NeededAre ==
  ASSUME Types, NEW r \in Requests, NEW x \in Needed(r)
  PROVE  x.category[1] = "category" /\ x.min \in Nat
<1>1. x \in rows /\ x.id[1] = "requirement" BY DEF Needed, Requirements, Of
<1>2. x \in RequirementRow BY <1>1, Typed, Sorts
<1>3. x.category \in Id("category") /\ x.min \in Nat BY <1>2 DEF RequirementRow
<1> QED BY <1>3, IdTable

\* Rows of other tables stay what they were.
LEMMA RowGrown ==
  ASSUME NEW s, NEW t, Grows(s, t), \A x, y \in t : x.id = y.id => x = y,
         NEW i, i[1] \notin {"document", "flow_subject"}
  PROVE  (i \in Ids(t) <=> i \in Ids(s)) /\ (i \in Ids(s) => Row(t, i) = Row(s, i))
<1>1. ASSUME NEW x \in t, x.id = i PROVE x \in s BY <1>1 DEF Grows
<1>2. s \subseteq t BY DEF Grows
<1>3. i \in Ids(t) <=> i \in Ids(s) BY <1>1, <1>2 DEF Ids
<1>4. ASSUME i \in Ids(s) PROVE Row(t, i) = Row(s, i)
  <2>1. Row(s, i) \in s /\ Row(s, i).id = i BY <1>4, RowIs
  <2>2. Row(t, i) \in t /\ Row(t, i).id = i BY <1>3, <1>4, RowIs
  <2> QED BY <1>2, <2>1, <2>2
<1> QED BY <1>3, <1>4

LEMMA Grown ==
  ASSUME Types, Types', StoreInv', NEW r \in Requests, call' = call, Grows(rows, rows'),
         call[r].target \in Ids(rows), call[r].target[1] = "flow"
  PROVE  /\ call[r].target \in Ids(rows) /\ Ids(rows) \subseteq Ids(rows')
         /\ Members(rows, call[r].target) \subseteq Members(rows', call[r].target)
         /\ Needed(r)' = Needed(r)
         /\ \A x \in Needed(r) : /\ CategoryCode(rows', x.category) = CategoryCode(rows, x.category)
                                 /\ Satisfied(r, x) => Satisfied(r, x)'
<1>1. rows \subseteq rows' /\ Ids(rows) \subseteq Ids(rows') BY DEF Grows, Ids
<1>2. \A x, y \in rows' : x.id = y.id => x = y BY DEF StoreInv
<1>3. Row(rows', call[r].target) = Row(rows, call[r].target) BY <1>2, RowGrown
<1>4. \A w : Requirements(rows', w) = Requirements(rows, w) BY DEF Requirements, Of, Grows
<1>5. Needed(r)' = Needed(r)
  <2>1. Needed(r)' = Requirements(rows', Row(rows', call[r].target).workflow) BY DEF Needed
  <2> QED BY <1>3, <1>4, <2>1 DEF Needed
<1>6. Members(rows, call[r].target) \subseteq Members(rows', call[r].target) BY <1>1, MembersGrow
<1>7. ASSUME NEW x \in Needed(r)
      PROVE  /\ CategoryCode(rows', x.category) = CategoryCode(rows, x.category)
             /\ Satisfied(r, x) => Satisfied(r, x)'
  <2>1. x.category[1] = "category" /\ x.min \in Nat BY NeededAre
  <2>2. CategoryCode(rows', x.category) = CategoryCode(rows, x.category)
    BY <1>2, <2>1, RowGrown DEF CategoryCode
  <2> DEFINE c == CategoryCode(rows, x.category)
             m == Count(rows, Members(rows, call[r].target), c)
             n == Count(rows', Members(rows', call[r].target), c)
  <2>3. IsFiniteSet(rows') BY DEF Types
  <2>4. m <= n /\ m \in Nat /\ n \in Nat BY <1>1, <1>6, <2>3, CountGrows
  <2>5. Satisfied(r, x) => m >= x.min BY DEF Satisfied
  <2>6. n >= x.min => Satisfied(r, x)' BY <2>2 DEF Satisfied
  <2> HIDE DEF m, n
  <2> QED BY <2>1, <2>2, <2>4, <2>5, <2>6
<1> QED BY <1>1, <1>5, <1>6, <1>7

\* A commit of a stored document, or of members.
LEMMA Added ==
  ASSUME Base, NEW q \in Requests, Commits(q), call[q].op \in {"upload_document", "add_subjects"}
  PROVE  Grows(rows, rows')
<1> USE Typed DEF Base
<1>1. q \notin committed BY DEF Commits, Goes, PathInv
<1>2. ASSUME NEW x \in put[q] PROVE x.id[1] \in {"document", "flow_subject"} /\ x.id[2] = q
  <2>1. Allowed(q, x) BY DEF WriteInv
  <2> QED BY <2>1 DEF Allowed
<1>3. ASSUME NEW i \in gone[q] PROVE FALSE
  <2>1. Deletable(q, i) BY DEF WriteInv
  <2> QED BY <2>1 DEF Deletable
<1>4. ASSUME NEW x \in rows PROVE x.id \notin Ids(put[q])
  BY <1>1, <1>2 DEF StoreInv, Ids
<1>5. rows' = View(q) BY DEF Commits
<1> QED BY <1>2, <1>3, <1>4, <1>5 DEF View, Grows

LEMMA SteadyGrows ==
  ASSUME Base, NEW q \in Requests, StepOf(q), NEW r \in Requests \ {q}, Steady(r)'
  PROVE  Steady(r) /\ Grows(rows, rows')
<1> USE Typed DEF Base
<1>1. Goes(q) /\ call' = call BY StepFacts
<1>2. before'[r] = before[r] /\ before[r] \subseteq committed BY <1>1 DEF Goes, PathInv
<1>3. committed \subseteq committed' BY StepFacts
<1>4. Steady(r) BY <1>1, <1>2, <1>3 DEF Steady
<1>5. CASE rows' = rows BY <1>4, <1>5 DEF Grows
<1>6. CASE Commits(q)
  <2>1. q \in committed' /\ q \notin committed BY <1>1, <1>6 DEF Commits, Goes, PathInv
  <2>2. call[q].op \in {"upload_document", "add_subjects"} BY <1>1, <1>2, <2>1 DEF Steady
  <2> QED BY <1>4, <1>6, <2>2, Added
<1> QED BY <1>4, <1>5, <1>6, StepFacts

LEMMA OthersCompliance ==
  ASSUME Base, NEW q \in Requests, StepOf(q), Base', NEW r \in Requests \ {q}, CompliancePath(r)
  PROVE  CompliancePath(r)'
<1> USE Typed DEF Base
<1>1. Goes(q) /\ call' = call BY StepFacts
<1>2. /\ pc'[r] = pc[r] /\ got'[r] = got[r] /\ outcome'[r] = outcome[r]
      /\ put'[r] = put[r] /\ gone'[r] = gone[r]
  BY <1>1, StepFacts DEF Goes
<1>3. SUFFICES ASSUME call[r].op = "compliance" PROVE CompliancePath(r)' BY <1>1 DEF CompliancePath
<1>4. CASE pc[r] \in {"start", "done"} \/ ~Steady(r)'
  BY <1>1, <1>2, <1>3, <1>4 DEF CompliancePath, Shaped
<1>5. CASE pc[r] \notin {"start", "done"} /\ Steady(r)'
  <2>1. Steady(r) /\ Grows(rows, rows') BY <1>5, SteadyGrows
  <2>2. call[r].target \in Id("flow") BY <1>3, <1>5 DEF PathInv, PathAt, Looked
  <2>3. call[r].target \in Ids(rows) /\ call[r].target[1] = "flow"
    BY <1>3, <1>5, <2>1, <2>2, IdTable DEF CompliancePath
  <2>4. Types /\ Types' /\ StoreInv' OBVIOUS
  <2>5. /\ Ids(rows) \subseteq Ids(rows')
        /\ Members(rows, call[r].target) \subseteq Members(rows', call[r].target)
        /\ Needed(r)' = Needed(r)
        /\ \A x \in Needed(r) : /\ CategoryCode(rows', x.category) = CategoryCode(rows, x.category)
                                /\ Satisfied(r, x) => Satisfied(r, x)'
    BY <1>1, <2>1, <2>3, <2>4, Grown
  <2>6. ASSUME pc[r] \in {"links", "category", "count"}
        PROVE  Shaped(got[r]) /\ got[r].subjects \subseteq Members(rows', call[r].target)
    BY <1>3, <2>1, <2>5, <2>6 DEF CompliancePath
  <2>7. ASSUME pc[r] \in {"category", "count"}, NEW x \in Needed(r)
        PROVE  \/ x \in got[r].rest
               \/ pc[r] = "count" /\ got[r].code = <<CategoryCode(rows', x.category), x.min>>
               \/ got[r].ok => Satisfied(r, x)'
    <3>1. \/ x \in got[r].rest
          \/ pc[r] = "count" /\ got[r].code = <<CategoryCode(rows, x.category), x.min>>
          \/ got[r].ok => Satisfied(r, x)
      BY <1>3, <2>1, <2>7 DEF CompliancePath
    <3> QED BY <2>5, <3>1
  <2>8. ASSUME pc[r] = "commit", outcome[r] = "success", NEW x \in Needed(r) PROVE Satisfied(r, x)'
    <3>1. Satisfied(r, x) BY <1>3, <2>1, <2>8 DEF CompliancePath
    <3> QED BY <2>5, <3>1
  <2>9. put[r] = {} /\ gone[r] = {} /\ pc[r] # "answer" BY <1>3 DEF CompliancePath
  <2>10. (call[r].target \in Ids(rows))' BY <1>1, <2>3, <2>5 DEF Ids
  <2>11. (pc[r] \in {"links", "category", "count"} => got[r].subjects \subseteq Members(rows, call[r].target))'
    BY <1>1, <1>2, <2>6
  <2>12. (pc[r] \in {"category", "count"} =>
              \A x \in Needed(r) :
                \/ x \in got[r].rest
                \/ pc[r] = "count" /\ got[r].code = <<CategoryCode(rows, x.category), x.min>>
                \/ got[r].ok => Satisfied(r, x))'
    BY <1>2, <2>5, <2>7
  <2>13. (pc[r] = "commit" /\ outcome[r] = "success" => \A x \in Needed(r) : Satisfied(r, x))'
    BY <1>2, <2>5, <2>8
  <2>14. (pc[r] \in {"links", "category", "count"} => Shaped(got[r]))' BY <1>2, <2>6 DEF Shaped
  <2>15. (put[r] = {} /\ gone[r] = {} /\ pc[r] # "answer")' BY <1>2, <2>9
  <2> QED BY <2>10, <2>11, <2>12, <2>13, <2>14, <2>15 DEF CompliancePath
<1> QED BY <1>4, <1>5

\* What r reads of a store nobody but itself has touched since.
LEMMA ComplianceReads ==
  ASSUME Base, NEW r \in Requests, CompliancePath(r), call[r].op = "compliance", call' = call,
         Untouched, pc'[r] \in {"members", "links", "category", "count", "commit"},
         before'[r] = committed \/ before'[r] = before[r],
         pc'[r] \in {"links", "category", "count"} => Shaped(got'[r]),
         Steady(r)' =>
           /\ call[r].target \in Ids(rows)
           /\ pc'[r] \in {"links", "category", "count"} =>
                got'[r].subjects \subseteq Members(rows, call[r].target)
           /\ pc'[r] \in {"category", "count"} =>
                \A x \in Needed(r) :
                  \/ x \in got'[r].rest
                  \/ pc'[r] = "count" /\ got'[r].code = <<CategoryCode(rows, x.category), x.min>>
                  \/ got'[r].ok => Satisfied(r, x)
           /\ pc'[r] = "commit" /\ outcome'[r] = "success" => \A x \in Needed(r) : Satisfied(r, x)
  PROVE  CompliancePath(r)'
<1>1. rows' = rows /\ put' = put /\ gone' = gone BY DEF Untouched
<1>2. Needed(r)' = Needed(r) BY <1>1 DEF Needed
<1>3. \A x : Satisfied(r, x)' = Satisfied(r, x) BY <1>1 DEF Satisfied
<1>4. put[r] = {} /\ gone[r] = {} BY DEF CompliancePath
<1>5. Shaped(got[r])' = Shaped(got'[r]) BY DEF Shaped
<1> HIDE DEF Shaped
<1>6. CASE ~Steady(r)' BY <1>1, <1>4, <1>5, <1>6 DEF CompliancePath
<1>7. CASE Steady(r)'
  <2>1. (call[r].target \in Ids(rows))' BY <1>1, <1>7 DEF Ids
  <2>2. (pc[r] \in {"links", "category", "count"} => got[r].subjects \subseteq Members(rows, call[r].target))'
    BY <1>1, <1>7
  <2>3. (pc[r] \in {"category", "count"} =>
              \A x \in Needed(r) :
                \/ x \in got[r].rest
                \/ pc[r] = "count" /\ got[r].code = <<CategoryCode(rows, x.category), x.min>>
                \/ got[r].ok => Satisfied(r, x))'
    BY <1>1, <1>2, <1>3, <1>7
  <2>4. (pc[r] = "commit" /\ outcome[r] = "success" => \A x \in Needed(r) : Satisfied(r, x))'
    BY <1>2, <1>3, <1>7
  <2> QED BY <1>1, <1>4, <1>5, <2>1, <2>2, <2>3, <2>4 DEF CompliancePath
<1> QED BY <1>6, <1>7

LEMMA SteadySame ==
  ASSUME NEW r \in Requests, call' = call, committed' = committed, before'[r] = before[r], Steady(r)'
  PROVE  Steady(r)
  BY DEF Steady

LEMMA OwnCompliance ==
  ASSUME Base, NEW r \in Requests, CompliancePath(r), Route(r) \/ Answer(r) \/ Commit(r) \/ Abort(r)
  PROVE  CompliancePath(r)'
<1> USE Typed, Places DEF Base
<1>s. StepOf(r) BY RouteStep
<1>c. call' = call BY <1>s, StepFacts
<1>0. SUFFICES ASSUME call[r].op = "compliance" PROVE CompliancePath(r)'
  BY <1>c DEF CompliancePath
<1>1. Compliance(r) \/ Answer(r) \/ Commit(r) \/ Abort(r)
  BY <1>0 DEF Route, CreateSubject, UpdateSubject, DeleteSubject, Erase, Upload, Export, AddRelationship,
     RemoveRelationship, CreateKind, UpdateKind, DeleteKind, CreateType, UpdateType, DeleteType, CreateCategory,
     UpdateCategory, DeleteCategory, CreateRule, UpdateRule, DeleteRule, CreateSchema, UpdateSchema, DeleteSchema,
     CreateTemplate, UpdateTemplate, DeleteTemplate, CreateFlow, UpdateFlow, AddSubjects, RemoveSubject,
     CreateRequirement, DeleteRequirement, At
<1>2. put[r] = {} /\ gone[r] = {} /\ pc[r] # "answer" BY <1>0 DEF CompliancePath
<1>3. View(r) = rows BY <1>2 DEF View, Ids
<1>4. CASE Abort(r) BY <1>2, <1>4 DEF Abort
<1>5. CASE Answer(r) BY <1>2, <1>5 DEF Answer
<1>6. CASE Commit(r)
  <2>1. put'[r] = {} /\ gone'[r] = {} /\ pc'[r] = "done" BY <1>6 DEF Commit, Close, Drop, Goto
  <2> QED BY <2>1 DEF CompliancePath
<1>7. CASE pc[r] = "start" /\ Look(r, Found(r, "flow"), None, "members")
  <2>1. CASE Found(r, "flow") = "none"
    <3>1. Untouched /\ pc'[r] = "members" /\ before'[r] = committed
      BY <1>7, <2>1 DEF Look, Goto
    <3>2. \E x \in Of(View(r), "flow") : x.id = call[r].target BY <2>1 DEF Found
    <3>3. call[r].target \in Ids(rows) BY <1>3, <3>2 DEF Of, Ids
    <3> QED BY <1>0, <1>c, <3>1, <3>3, ComplianceReads
  <2>2. CASE Found(r, "flow") # "none"
    <3>1. put'[r] = {} /\ gone'[r] = {} /\ pc'[r] = "done"
      BY <1>7, <2>2 DEF Look, Fail, Drop, End
    <3> QED BY <3>1 DEF CompliancePath
  <2> QED BY <2>1, <2>2
<1>8. CASE ReadMembers(r)
  <2> DEFINE g == [subjects |-> Members(rows, call[r].target), rest |-> {}, ok |-> TRUE, code |-> None]
  <2>1. /\ pc[r] = "members" /\ pc'[r] = "links" /\ Untouched /\ got'[r] = g
        /\ before'[r] = before[r]
    BY <1>8 DEF ReadMembers, Look, Goto
  <2>2. Shaped(g) /\ g.subjects = Members(rows, call[r].target) BY DEF Shaped
  <2> HIDE DEF g
  <2>3. Steady(r)' => call[r].target \in Ids(rows)
    BY <1>0, <1>c, <2>1, SteadySame DEF CompliancePath, Untouched
  <2> QED BY <1>0, <1>c, <2>1, <2>2, <2>3, ComplianceReads
<1>9. CASE ReadRequirements(r)
  <2> DEFINE needed == Requirements(rows, Target(r).workflow)
  <2>1. /\ pc[r] = "links" /\ pc'[r] = "category" /\ Untouched
        /\ got'[r] = [got[r] EXCEPT !.rest = needed] /\ before'[r] = before[r]
    BY <1>9 DEF ReadRequirements, Look, Goto
  <2>2. needed = Needed(r) BY <1>3 DEF Needed, Target
  <2> HIDE DEF needed
  <2>3. Shaped(got[r]) BY <1>0, <2>1 DEF CompliancePath
  <2>4. Shaped(got'[r]) /\ got'[r].subjects = got[r].subjects /\ got'[r].rest = needed
    BY <2>1, <2>3 DEF Shaped
  <2>5. Steady(r)' => /\ call[r].target \in Ids(rows)
                      /\ got[r].subjects \subseteq Members(rows, call[r].target)
    BY <1>0, <1>c, <2>1, SteadySame DEF CompliancePath, Untouched
  <2> QED BY <1>0, <1>c, <2>1, <2>2, <2>4, <2>5, ComplianceReads
<1>10. CASE ReadCategory(r)
  <2>0. PICK q \in got[r].rest :
          Look(r, "none", [got[r] EXCEPT !.rest = @ \ {q},
                                         !.code = <<CategoryCode(rows, q.category), q.min>>], "count")
    BY <1>10 DEF ReadCategory
  <2> DEFINE g == [got[r] EXCEPT !.rest = @ \ {q}, !.code = <<CategoryCode(rows, q.category), q.min>>]
  <2>a. pc[r] = "category" BY <1>10 DEF ReadCategory
  <2>b. Look(r, "none", g, "count") BY <2>0
  <2> HIDE DEF g
  <2>1. /\ pc[r] = "category" /\ pc'[r] = "count" /\ Untouched /\ before'[r] = before[r] /\ got'[r] = g
    BY <2>a, <2>b DEF Look, Goto
  <2>2. got'[r] = [got[r] EXCEPT !.rest = @ \ {q}, !.code = <<CategoryCode(rows, q.category), q.min>>]
    BY <2>1 DEF g
  <2>3. Shaped(got[r]) BY <1>0, <2>1 DEF CompliancePath
  <2>4. /\ Shaped(got'[r]) /\ got'[r].subjects = got[r].subjects /\ got'[r].rest = got[r].rest \ {q}
        /\ got'[r].ok = got[r].ok /\ got'[r].code = <<CategoryCode(rows, q.category), q.min>>
    <3> DEFINE code == <<CategoryCode(rows, q.category), q.min>>
               rest == got[r].rest \ {q}
    <3>1. got'[r] = [got[r] EXCEPT !.rest = rest, !.code = code] BY <2>2
    <3> HIDE DEF code, rest
    <3>2. /\ Shaped(got'[r]) /\ got'[r].subjects = got[r].subjects /\ got'[r].rest = rest
          /\ got'[r].ok = got[r].ok /\ got'[r].code = code
      BY <2>3, <3>1 DEF Shaped
    <3> QED BY <3>2 DEF code, rest
  <2>5. ASSUME Steady(r)'
        PROVE  /\ call[r].target \in Ids(rows) /\ got[r].subjects \subseteq Members(rows, call[r].target)
               /\ \A x \in Needed(r) : x \in got[r].rest \/ (got[r].ok => Satisfied(r, x))
    BY <1>0, <1>c, <2>1, <2>5, SteadySame DEF CompliancePath, Untouched
  <2>6. ASSUME Steady(r)', NEW x \in Needed(r)
        PROVE  \/ x \in got'[r].rest
               \/ pc'[r] = "count" /\ got'[r].code = <<CategoryCode(rows, x.category), x.min>>
               \/ got'[r].ok => Satisfied(r, x)
    <3>1. CASE x = q BY <2>1, <2>4, <3>1
    <3>2. CASE x # q BY <2>4, <2>5, <2>6, <3>2
    <3> QED BY <3>1, <3>2
  <2> QED BY <1>0, <1>c, <2>1, <2>4, <2>5, <2>6, ComplianceReads
<1>11. CASE ReadCount(r)
  <2> DEFINE code == got[r].code
             enough == Count(rows, got[r].subjects, code[1]) >= code[2]
  <2>1. /\ pc[r] = "count" /\ pc'[r] = "category" /\ Untouched /\ before'[r] = before[r]
        /\ got'[r] = [got[r] EXCEPT !.ok = @ /\ enough, !.code = None]
    BY <1>11 DEF ReadCount, Look, Goto
  <2>2. Shaped(got[r]) BY <1>0, <2>1 DEF CompliancePath
  <2>3. enough \in BOOLEAN OBVIOUS
  <2> HIDE DEF enough
  <2>4. /\ Shaped(got'[r]) /\ got'[r].subjects = got[r].subjects /\ got'[r].rest = got[r].rest
        /\ got'[r].ok = (got[r].ok /\ enough)
    BY <2>1, <2>2, <2>3 DEF Shaped
  <2>5. ASSUME Steady(r)'
        PROVE  /\ call[r].target \in Ids(rows) /\ got[r].subjects \subseteq Members(rows, call[r].target)
               /\ \A x \in Needed(r) :
                    \/ x \in got[r].rest
                    \/ got[r].code = <<CategoryCode(rows, x.category), x.min>>
                    \/ got[r].ok => Satisfied(r, x)
    BY <1>0, <1>c, <2>1, <2>5, SteadySame DEF CompliancePath, Untouched
  <2>6. ASSUME Steady(r)', NEW x \in Needed(r)
        PROVE  \/ x \in got'[r].rest
               \/ pc'[r] = "count" /\ got'[r].code = <<CategoryCode(rows, x.category), x.min>>
               \/ got'[r].ok => Satisfied(r, x)
    <3>1. CASE x \in got[r].rest BY <2>4, <3>1
    <3>2. CASE got[r].ok => Satisfied(r, x) BY <2>4, <3>2
    <3>3. CASE got[r].code = <<CategoryCode(rows, x.category), x.min>>
      <4> DEFINE cc == CategoryCode(rows, x.category)
                 few == Count(rows, got[r].subjects, cc)
                 all == Count(rows, Members(rows, call[r].target), cc)
      <4>1. enough => few >= x.min BY <3>3 DEF enough
      <4>2. IsFiniteSet(rows) /\ got[r].subjects \subseteq Members(rows, call[r].target) BY <2>5, <2>6
      <4>3. few <= all /\ few \in Nat /\ all \in Nat BY <4>2, CountGrows
      <4>4. x.min \in Nat BY NeededAre
      <4>5. Satisfied(r, x) = (all >= x.min) BY DEF Satisfied
      <4> HIDE DEF few, all
      <4>6. ASSUME enough PROVE Satisfied(r, x)
        <5>1. few >= x.min BY <4>1, <4>6
        <5>2. all >= x.min BY <4>3, <4>4, <5>1
        <5> QED BY <4>5, <5>2
      <4> QED BY <2>4, <4>6
    <3> QED BY <2>5, <2>6, <3>1, <3>2, <3>3
  <2>7. Steady(r)' => /\ call[r].target \in Ids(rows)
                      /\ got'[r].subjects \subseteq Members(rows, call[r].target)
    BY <2>4, <2>5
  <2> QED BY <1>0, <1>c, <2>1, <2>4, <2>6, <2>7, ComplianceReads
<1>12. CASE /\ pc[r] = "category" /\ got[r].rest = {}
            /\ End(r, "commit", IF got[r].ok THEN "success" ELSE "unsatisfied")
            /\ Untouched /\ UNCHANGED <<call, got, before>>
  <2>1. /\ pc'[r] = "commit" /\ outcome'[r] = (IF got[r].ok THEN "success" ELSE "unsatisfied")
        /\ before'[r] = before[r] /\ Untouched
    BY <1>12 DEF End
  <2>2. ASSUME Steady(r)'
        PROVE  /\ call[r].target \in Ids(rows)
               /\ \A x \in Needed(r) : got[r].ok => Satisfied(r, x)
    BY <1>0, <1>c, <1>12, <2>1, <2>2, SteadySame DEF CompliancePath, Untouched
  <2>3. outcome'[r] = "success" => got[r].ok BY <2>1
  <2> QED BY <1>0, <1>c, <2>1, <2>2, <2>3, ComplianceReads
<1> QED BY <1>1, <1>4, <1>5, <1>6, <1>7, <1>8, <1>9, <1>10, <1>11, <1>12 DEF Compliance

-----------------------------------------------------------------------------
(* The invariant. *)

Inv ==
  /\ Base
  /\ \A r \in Requests : SchemaPath(r)
  /\ Quiet => One(rows)
  /\ Few => \A r \in Requests : TriesInv(r)
  /\ RedactedInv /\ ErasedInv
  /\ \A r \in Requests : ErasePath(r) /\ ExportPath(r) /\ CompliancePath(r)

\* It holds at the start: nothing is written, and no request has read anything.
LEMMA InvInit == Init => Inv
<1> SUFFICES ASSUME Init PROVE Inv
  OBVIOUS
<1>1. /\ rows = Seed /\ put = [r \in Requests |-> {}] /\ gone = [r \in Requests |-> {}]
      /\ audited = [r \in Requests |-> {}] /\ session = [r \in Requests |-> "active"] /\ committed = {}
      /\ call \in Scenarios /\ got = [r \in Requests |-> None] /\ before = [r \in Requests |-> {}]
      /\ outcome = [r \in Requests |-> "none"]
      /\ pc = [r \in Requests |-> IF call[r].op = "idle" THEN "done" ELSE "start"]
  BY DEF Init, InitRoutes, InitStore
<1>2. ASSUME NEW r \in Requests
      PROVE  /\ put[r] = {} /\ gone[r] = {} /\ audited[r] = {} /\ session[r] = "active" /\ got[r] = None
             /\ before[r] = {} /\ outcome[r] = "none" /\ pc[r] \in {"start", "done"}
  BY <1>1
<1>3. \A op : Did(op) = {} BY <1>1 DEF Did
<1>4. Types
  <2>1. \A r \in Requests : IsFiniteSet(put[r]) BY <1>2, FS_EmptySet
  <2>2. rows \subseteq RowTypes /\ IsFiniteSet(rows) BY <1>1, Assumed
  <2>3. /\ put \in [Requests -> SUBSET RowTypes] /\ gone \in [Requests -> SUBSET Ids(rows)]
        /\ put \in [Requests -> SUBSET (rows \cup UNION {put[r] : r \in Requests})]
        /\ DOMAIN audited = Requests /\ DOMAIN got = Requests
    BY <1>1
  <2>4. /\ session \in [Requests -> {"active", "inactive", "closed"}] /\ committed \subseteq Requests
        /\ call \in Scenarios /\ before \in [Requests -> SUBSET Requests]
    BY <1>1
  <2>5. pc \in [Requests -> PCs] /\ outcome \in [Requests -> Outcomes]
    BY <1>1 DEF PCs, Outcomes
  <2>6. \A r \in Requests : session[r] # "active" => put[r] = {} /\ gone[r] = {} /\ audited[r] = {}
    BY <1>2
  <2> QED BY <2>1, <2>2, <2>3, <2>4, <2>5, <2>6 DEF Types, TypeOK, StoreOK
<1>5. StoreInv BY <1>1, <1>2, Assumed DEF StoreInv, Touched, Ids
<1>6. \A r \in Requests : WriteInv(r) /\ PathInv(r)
  BY <1>1, <1>2 DEF WriteInv, PathInv, PathAt
<1>7. Base BY <1>4, <1>5, <1>6 DEF Base
<1>8. \A r \in Requests : SchemaPath(r) BY <1>2 DEF SchemaPath
<1>9. One(rows) BY <1>1, Assumed DEF One
<1>10. ASSUME NEW r \in Requests PROVE TriesInv(r)
  <2>1. Rivals(r) = {} BY <1>3 DEF Rivals
  <2>2. Cardinality(Rivals(r)) = 0 BY <2>1, FS_EmptySet
  <2> QED BY <1>2, <2>2 DEF TriesInv, Tries
<1>11. RedactedInv /\ ErasedInv BY <1>1, <1>3, Assumed DEF RedactedInv, ErasedInv
<1>12. \A r \in Requests : ErasePath(r) /\ ExportPath(r) /\ CompliancePath(r)
  BY <1>2 DEF ErasePath, ExportPath, CompliancePath
<1> QED BY <1>7, <1>8, <1>9, <1>10, <1>11, <1>12 DEF Inv

\* Every step of a request keeps it.
LEMMA InvNext ==
  ASSUME Inv, NEW r \in Requests, Route(r) \/ Answer(r) \/ Commit(r) \/ Abort(r)
  PROVE  Inv'
<1>1. Types /\ StoreInv /\ Base /\ \A q \in Requests : WriteInv(q) /\ PathInv(q)
  BY DEF Inv, Base
<1>2. StepOf(r) /\ PathInv(r)' BY <1>1, RouteStep
<1>3. call' = call BY <1>1, <1>2, StepFacts
<1>4. Types' /\ StoreInv' BY <1>1, <1>2, TypesNext, StoreNext
<1>5. ASSUME NEW q \in Requests PROVE WriteInv(q)' BY <1>1, <1>2, WriteNext
<1>6. ASSUME NEW q \in Requests PROVE PathInv(q)' BY <1>1, <1>2, OthersPath
<1>7. Base' BY <1>4, <1>5, <1>6 DEF Base
<1>8. ASSUME NEW q \in Requests PROVE SchemaPath(q)'
  <2>1. CASE q = r BY <1>1, <2>1, OwnSchemaPath DEF Inv
  <2>2. CASE q # r BY <1>1, <1>2, <2>2, OthersSchemaPath DEF Inv
  <2> QED BY <2>1, <2>2
<1>9. ASSUME Quiet' PROVE One(rows)' BY <1>1, <1>2, <1>9, OneNext DEF Inv
<1>10. ASSUME Few', NEW q \in Requests PROVE TriesInv(q)'
  <2>1. Few BY <1>3, <1>10 DEF Few, Creations
  <2>2. TriesInv(q) BY <2>1 DEF Inv
  <2>3. CASE q = r BY <1>1, <2>1, <2>2, <2>3, OwnTries
  <2>4. CASE q # r BY <1>1, <1>2, <2>1, <2>2, <2>4, OthersTries
  <2> QED BY <2>3, <2>4
<1>11. RedactedInv' /\ ErasedInv' BY <1>1, <1>2, RedactedNext, ErasedNext DEF Inv
<1>12. ASSUME NEW q \in Requests PROVE ErasePath(q)'
  <2>1. CASE q = r BY <1>1, <2>1, OwnErase DEF Inv
  <2>2. CASE q # r BY <1>1, <1>2, <2>2, OthersErase DEF Inv
  <2> QED BY <2>1, <2>2
<1>13. ASSUME NEW q \in Requests PROVE ExportPath(q)'
  <2>1. CASE q = r BY <1>1, <2>1, OwnExport DEF Inv
  <2>2. CASE q # r BY <1>1, <1>2, <2>2, OthersExport DEF Inv
  <2> QED BY <2>1, <2>2
<1>14. ASSUME NEW q \in Requests PROVE CompliancePath(q)'
  <2>1. CASE q = r BY <1>1, <2>1, OwnCompliance DEF Inv
  <2>2. CASE q # r BY <1>1, <1>2, <1>7, <2>2, OthersCompliance DEF Inv
  <2> QED BY <2>1, <2>2
<1> QED BY <1>7, <1>8, <1>9, <1>10, <1>11, <1>12, <1>13, <1>14 DEF Inv

\* So does one that changes nothing.
LEMMA InvStutter ==
  ASSUME Inv, UNCHANGED vars
  PROVE  Inv'
<1>1. /\ rows' = rows /\ put' = put /\ gone' = gone /\ audited' = audited /\ session' = session
      /\ committed' = committed /\ call' = call /\ pc' = pc /\ got' = got /\ before' = before
      /\ outcome' = outcome
  BY DEF vars
<1>2. \A op : Did(op)' = Did(op) BY <1>1 DEF Did
<1>3. \A r : View(r)' = View(r) BY <1>1 DEF View
<1>4. Types' BY <1>1 DEF Inv, Base, Types, TypeOK, StoreOK
<1>5. StoreInv' BY <1>1 DEF Inv, Base, StoreInv, Touched
<1>6. ASSUME NEW r \in Requests PROVE WriteInv(r)' /\ PathInv(r)'
  BY <1>1 DEF Inv, Base, WriteInv, Allowed, Deletable, IsNewSchema, IsOldSchema, PathInv, PathAt
<1>7. Base' BY <1>4, <1>5, <1>6 DEF Base
<1>8. ASSUME NEW r \in Requests PROVE SchemaPath(r)' BY <1>1, <1>3 DEF Inv, SchemaPath
<1>9. ASSUME Quiet' PROVE One(rows)' BY <1>1, <1>2, <1>9 DEF Inv, Quiet, One
<1>10. ASSUME Few', NEW r \in Requests PROVE TriesInv(r)'
  <2>1. Few BY <1>1, <1>10 DEF Few, Creations
  <2>2. Rivals(r)' = Rivals(r) /\ Tries(r)' = Tries(r) BY <1>1, <1>2 DEF Rivals, Tries
  <2>3. TriesInv(r) BY <2>1 DEF Inv
  <2> QED BY <1>1, <2>2, <2>3 DEF TriesInv
<1>11. RedactedInv' /\ ErasedInv' BY <1>1, <1>2 DEF Inv, RedactedInv, ErasedInv
<1>12. ASSUME NEW r \in Requests PROVE ErasePath(r)' BY <1>1, <1>3 DEF Inv, ErasePath
<1>13. ASSUME NEW r \in Requests PROVE ExportPath(r)'
  <2>1. \A s, documents : Spared(s, documents)' = Spared(s, documents) BY <1>1, <1>2 DEF Spared
  <2> QED BY <1>1, <1>2, <2>1 DEF Inv, ExportPath
<1>14. ASSUME NEW r \in Requests PROVE CompliancePath(r)'
  <2>1. Needed(r)' = Needed(r) /\ Steady(r)' = Steady(r) BY <1>1 DEF Needed, Steady
  <2>2. \A x : Satisfied(r, x)' = Satisfied(r, x) BY <1>1 DEF Satisfied
  <2>3. CompliancePath(r) BY DEF Inv
  <2> QED BY <1>1, <2>1, <2>2, <2>3 DEF CompliancePath
<1> QED BY <1>7, <1>8, <1>9, <1>10, <1>11, <1>12, <1>13, <1>14 DEF Inv

-----------------------------------------------------------------------------
(* What follows. *)

\* The invariant holds of every behaviour.
THEOREM Invariance == Spec => []Inv
<1>1. Inv /\ [Next]_vars => Inv'
  <2> SUFFICES ASSUME Inv, [Next]_vars PROVE Inv'
    OBVIOUS
  <2>1. CASE \E r \in Requests : Route(r) \/ Answer(r) \/ Commit(r) \/ Abort(r) BY <2>1, InvNext
  <2>2. CASE AllDone \/ UNCHANGED vars
    <3>1. UNCHANGED vars BY <2>2 DEF AllDone, Untouched, vars
    <3> QED BY <3>1, InvStutter
  <2> QED BY <2>1, <2>2 DEF Next
<1> QED BY <1>1, InvInit, PTL DEF Spec

\* Rows have the columns of their tables, and a session that has failed holds nothing: TypeOK.
THEOREM TypeCorrect == Spec => []TypeOK
<1>1. Inv => TypeOK BY DEF Inv, Base, Types
<1> QED BY <1>1, Invariance, PTL

\* create_schema leaves one active version of an event type, whatever runs beside it, unless a
\* PATCH has activated one: OneActiveSchema.
THEOREM OneActive == Spec => []OneActiveSchema
<1>1. Inv => OneActiveSchema BY DEF Inv, Quiet, One, OneActiveSchema
<1> QED BY <1>1, Invariance, PTL

\* With no more creations of schemas than create_schema makes attempts, none ends in the
\* IntegrityError of its last: SchemaCreationSucceeds.
THEOREM CreationsSucceed == Spec => []SchemaCreationSucceeds
<1>1. Inv => SchemaCreationSucceeds
  BY DEF Inv, Few, Creations, TriesInv, SchemaCreationSucceeds
<1> QED BY <1>1, Invariance, PTL

\* erase_subject_data redacts a subject with every document it had when they were listed, and no
\* export shows it otherwise: ErasureIsWhole.
THEOREM ErasuresAreWhole == Spec => []ErasureIsWhole
<1>1. Inv => ErasureIsWhole
  <2> SUFFICES ASSUME Inv PROVE ErasureIsWhole
    OBVIOUS
  <2>1. ASSUME NEW s \in Of(rows, "subject"), s.content = Redacted
        PROVE  Spared(s.id, {d \in Of(rows, "document") : d.subject = s.id /\ ~d.deleted})
    <3>1. PICK a \in Did("anonymize") : call[a].target = s.id BY <2>1 DEF Inv, RedactedInv
    <3> QED BY <3>1 DEF Inv, ErasedInv, Spared
  <2>2. ASSUME NEW q \in Requests, call[q].op = "export", outcome[q] = "success",
               NEW s \in got[q].subject, s.content = Redacted
        PROVE  Spared(s.id, got[q].documents)
    BY <2>2 DEF Inv, ExportPath
  <2> QED BY <2>1, <2>2 DEF ErasureIsWhole, Spared
<1> QED BY <1>1, Invariance, PTL

\* get_compliance answers that a flow's requirements are satisfied, when they are not, only after
\* a deletion, a removal or a new requirement: ComplianceErrsOnlyByChange.
THEOREM ComplianceErrs == Spec => []ComplianceErrsOnlyByChange
<1>1. Inv => ComplianceErrsOnlyByChange
  <2> SUFFICES ASSUME Inv, NEW r \in Requests, call[r].op = "compliance", pc[r] = "commit",
                      outcome[r] = "success",
                      \A q \in committed \ before[r] : call[q].op \in {"upload_document", "add_subjects"},
                      NEW x \in Of(rows, "requirement"),
                      x.workflow = Row(rows, call[r].target).workflow
               PROVE  Cardinality({d \in Of(rows, "document") :
                        /\ d.subject \in Members(rows, call[r].target) /\ ~d.deleted
                        /\ d.code = CategoryCode(rows, x.category)}) >= x.min
    BY DEF ComplianceErrsOnlyByChange
  <2>1. Steady(r) BY DEF Steady
  <2>2. x \in Needed(r) BY DEF Needed, Requirements
  <2>3. Satisfied(r, x) BY <2>1, <2>2 DEF Inv, CompliancePath
  <2>4. {d \in Of(rows, "document") :
           /\ d.subject \in Members(rows, call[r].target) /\ ~d.deleted
           /\ d.code = CategoryCode(rows, x.category)}
        = {d \in Of(rows, "document") :
             d.subject \in Members(rows, call[r].target) /\ d.code = CategoryCode(rows, x.category)
             /\ ~d.deleted}
    OBVIOUS
  <2> QED BY <2>3, <2>4 DEF Satisfied, Count
<1> QED BY <1>1, Invariance, PTL

===============================================================================
