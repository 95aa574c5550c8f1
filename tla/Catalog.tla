--------------------------------- MODULE Catalog ---------------------------------
(***************************************************************************)
(* A tenant's subjects and what describes them: subject types, kinds of       *)
(* relationship, document categories and requirements, naming templates,      *)
(* flows, transition rules and event schemas; and the erasure of a subject.   *)
(*                                                                         *)
(* One action per route, in the frame of module Routes.  A row has the columns *)
(* the routes and the properties tell apart.                                 *)
(***************************************************************************)
EXTENDS Naturals, FiniteSets

CONSTANTS
  Requests,
  Scenarios,      \* what the requests are called with together: functions on Requests
  Seed,           \* the rows at the start
  BuiltInTypes,   \* subject types that need no configuration
  DocumentsCascade,   \* does a deleted subject take its documents along, as the model declares?
  MaxAttempts,    \* max_attempts of create_schema
  None

Redacted == "[REDACTED]"

VARIABLES
  rows, put, gone, audited, session, committed,   \* see Tables
  call, pc, got, before, outcome                  \* see Routes

-----------------------------------------------------------------------------
(* The tables: unique keys, references ON DELETE CASCADE, other references. *)

T(keys, owners, needs) == [keys |-> keys, owners |-> owners, needs |-> needs]

Is(x, table) == x.id[1] = table
\* NULLs are never equal: a subject without an external_ref, a requirement without a step.
SubjectTable(x) ==
  T(IF x.ref = None THEN {} ELSE {<<"uq_subject_tenant_external_ref", x.ref>>}, {}, {})
SubjectTypeTable(x) == T({<<"uq_subject_type_tenant_type", x.code>>}, {}, {})
RelationshipKindTable(x) == T({<<"uq_relationship_kind_tenant_kind", x.code>>}, {}, {})
RelationshipTable(x) == T({<<"uq_subject_relationship", x.source, x.target, x.code>>},
                          {x.source, x.target}, {})
CategoryTable(x) == T({<<"uq_document_category_tenant_name", x.code>>}, {}, {})
NamingTemplateTable(x) == T({<<"uq_naming_template_tenant_scope", x.scope>>}, {}, {})
RequirementTable(x) == T({}, {x.workflow, x.category}, {})
FlowSubjectTable(x) == T({<<"uq_flow_subject_flow_subject", x.flow, x.subject>>},
                         {x.flow, x.subject}, {})
RuleTable(x) == T({<<"uq_event_transition_rule", x.code>>}, {}, {})
EventSchemaTable(x) == T({<<"uq_tenant_event_type_version", x.code, x.version>>}, {}, {})
\* The migrations reference a document's subject without ON DELETE CASCADE.
DocumentTable(x) ==
  IF DocumentsCascade THEN T({}, {x.subject}, {}) ELSE T({}, {}, {x.subject})
EventTable(x) == T({}, {}, {x.subject})

Table(x) ==
  CASE Is(x, "subject") -> SubjectTable(x)
    [] Is(x, "subject_type") -> SubjectTypeTable(x)
    [] Is(x, "relationship_kind") -> RelationshipKindTable(x)
    [] Is(x, "relationship") -> RelationshipTable(x)
    [] Is(x, "category") -> CategoryTable(x)
    [] Is(x, "template") -> NamingTemplateTable(x)
    [] Is(x, "requirement") -> RequirementTable(x)
    [] Is(x, "flow_subject") -> FlowSubjectTable(x)
    [] Is(x, "rule") -> RuleTable(x)
    [] Is(x, "event_schema") -> EventSchemaTable(x)
    [] Is(x, "document") -> DocumentTable(x)
    [] Is(x, "event") -> EventTable(x)
    [] OTHER -> T({}, {}, {})              \* flow, workflow

Keys(x) == Table(x).keys
Owners(x) == Table(x).owners
Needs(x) == Table(x).needs

\* Repositories without an audit event.
Unaudited == {"create_kind", "update_kind", "delete_kind", "create_template", "update_template",
              "delete_template", "create_requirement", "delete_requirement", "create_flow",
              "update_flow", "add_subjects", "remove_subject", "create_rule", "update_rule",
              "delete_rule"}
Creates == {"create_subject", "create_type", "create_category", "upload_document"}

INSTANCE Routes

vars == <<rows, put, gone, audited, session, committed, call, pc, got, before, outcome>>

-----------------------------------------------------------------------------
(* The columns of the tables, without the tenant, the times and who did it. *)

Id(table) == {i \in Ids(Seed) : i[1] = table} \cup {<<table, r>> : r \in Requests}
Text == Requests \cup {None, Redacted} \cup STRING

SubjectRow == [id : Id("subject"), code : STRING, ref : {None, Redacted} \cup STRING, content : Text]
Schema == {None} \cup SUBSET ({None} \cup STRING)       \* None, or what a JSON schema accepts
SubjectTypeRow ==
  [id : Id("subject_type"), code : STRING, active : BOOLEAN, version : Nat \ {0}, schema : Schema]
RelationshipKindRow == [id : Id("relationship_kind"), code : STRING, label : Text]
RelationshipRow ==
  [id : Id("relationship"), source : Id("subject"), target : Id("subject"), code : STRING]
CategoryRow == [id : Id("category"), code : STRING, active : BOOLEAN, schema : Schema]
NamingTemplateRow == [id : Id("template"), scope : Id("workflow"), names : SUBSET STRING]
RequirementRow == [id : Id("requirement"), workflow : Id("workflow"), category : Id("category"),
                   min : Nat \ {0}]
FlowRow == [id : Id("flow"), code : STRING, workflow : Id("workflow") \cup {None}]
FlowSubjectRow == [id : Id("flow_subject") \cup {"flow_subject"} \X Requests \X Id("subject"),
                   flow : Id("flow"), subject : Id("subject")]
RuleRow == [id : Id("rule"), code : STRING, required : STRING]
EventSchemaRow == [id : Id("event_schema"), code : STRING, version : Nat \ {0}, active : BOOLEAN,
                   definition : Text]
DocumentRow ==
  [id : Id("document"), subject : Id("subject"), code : STRING, deleted : BOOLEAN]
EventRow == [id : Id("event"), subject : Id("subject")]

RowTypes ==
  SubjectRow \cup SubjectTypeRow \cup RelationshipKindRow \cup RelationshipRow \cup CategoryRow
  \cup NamingTemplateRow \cup RequirementRow \cup FlowRow \cup FlowSubjectRow \cup RuleRow
  \cup EventSchemaRow \cup DocumentRow \cup EventRow \cup [id : Id("workflow")]

\* What a request may be called with, as the paths and the schemas of the routes have it.  Whether
\* an id is of the table it is looked up in is for the route to find out, but for those that are
\* used without a look.
CallOK(c) ==
  /\ c.op \in {"create_subject", "create_type", "create_category", "create_kind", "create_rule",
               "create_schema", "create_flow", "update_flow", "upload_document", "add_relationship"}
       => c.code \in STRING
  /\ c.op \in {"create_subject", "update_subject"} => c.ref \in {None} \cup STRING
  /\ c.op \in {"create_schema", "update_schema", "update_type", "update_category"}
       => c.flag \in BOOLEAN
  /\ c.op \in {"create_type", "update_type", "create_category", "update_category"}
       => c.other \in Schema
  /\ c.op \in {"create_rule", "update_rule"} => c.other \in STRING
  /\ c.op = "create_template" => c.target \in Id("workflow")
  /\ c.op \in {"create_template", "update_template"} => c.other \in SUBSET STRING
  /\ c.op = "create_flow" => c.target \in {None} \cup Id("workflow")
  /\ c.op \in {"create_flow", "add_subjects"} =>
       IsFiniteSet(c.other) /\ \A s \in c.other : s[1] = "subject"
  /\ c.op = "add_relationship" => c.target[1] = "subject" /\ c.other[1] = "subject"
  /\ c.op = "create_requirement" => c.other[1] = "category"

\* The store starts with rows under ids of their own, which no request will give; with one active
\* version of a schema at most; and before any erasure.
ASSUME CatalogAssumption ==
  /\ MaxAttempts \in Nat \ {0} /\ BuiltInTypes # {} /\ DocumentsCascade \in BOOLEAN
  /\ None \notin STRING /\ Redacted \notin Requests
  /\ \A s \in Scenarios, r \in Requests : CallOK(s[r])
  /\ IsFiniteSet(Seed) /\ Seed \subseteq RowTypes
  /\ \A x, y \in Seed : x.id = y.id => x = y
  /\ \A x \in Seed : x.id[2] \notin Requests
  /\ \A x, y \in Of(Seed, "event_schema") : x.code = y.code /\ x.active /\ y.active => x = y
  /\ \A x \in Of(Seed, "subject") : x.content # Redacted

PCs == {"start", "attributes", "events", "write", "links", "others", "emit", "redact", "documents", "erase", "members",
        "category", "count", "answer", "commit", "done"}

\* Types; and a session that is not active holds nothing it might still commit.
TypeOK == StoreOK /\ rows \subseteq RowTypes /\ pc \in [Requests -> PCs]

Init == InitRoutes(Seed)

-----------------------------------------------------------------------------
(* Subjects. *)

Configured(r, table, code) == {t \in Of(View(r), table) : t.code = code /\ t.active}

\* _resolve_type: a type configured and active, or one that is built in.
KnownType(r) ==
  call[r].code \in BuiltInTypes \/ Configured(r, "subject_type", call[r].code) # {}

\* validate_attributes: what the type's schema accepts, if it is configured and has one.
AttributesFit(r, code) ==
  \A t \in Configured(r, "subject_type", code) : t.schema = None \/ call[r].other \in t.schema

\* The same of a document's metadata and its category.
MetadataFits(r) ==
  \A t \in Configured(r, "category", call[r].code) : t.schema = None \/ call[r].other \in t.schema

RefTaken(r) == call[r].ref # None /\ \E s \in Of(View(r), "subject") : s.ref = call[r].ref

NewSubject(r) ==
  [id |-> <<"subject", r>>, code |-> call[r].code, ref |-> call[r].ref, content |-> r]

\* The type is looked up twice: one whose configuration has come or gone in between is checked
\* as if it had no schema.
CreateSubject(r) ==
  \/ /\ At(r, "create_subject", "start")
     /\ Look(r, IF KnownType(r) THEN "none" ELSE "invalid",
             Configured(r, "subject_type", call[r].code) # {}, "attributes")
  \/ /\ At(r, "create_subject", "attributes")
     /\ Check(r, IF (got[r] => AttributesFit(r, call[r].code)) /\ ~RefTaken(r)
                 THEN "none" ELSE "invalid")
  \/ At(r, "create_subject", "write") /\ Insert(r, NewSubject(r), Raised, "answer")

\* update_subject assigns what the request gives.
Assigned(r, s) == [s EXCEPT !.ref = IF call[r].ref = None THEN @ ELSE call[r].ref, !.content = r]

RefuseUpdate(r) ==
  IF Found(r, "subject") # "none" THEN "not_found"
  ELSE IF call[r].other = None \/ AttributesFit(r, Target(r).code) THEN "none" ELSE "invalid"

UpdateSubject(r) ==
  \/ At(r, "update_subject", "start") /\ Check(r, RefuseUpdate(r))
  \/ At(r, "update_subject", "write") /\ Change(r, {Assigned(r, Target(r))})

DeleteSubject(r) ==
  \/ At(r, "delete_subject", "start") /\ Check(r, Found(r, "subject"))
  \/ At(r, "delete_subject", "write") /\ Delete(r)

\* Mutant: the page of documents is one document long.
Listed_OnePage(r) ==
  LET all == {y \in Of(View(r), "document") : y.subject = call[r].target /\ ~y.deleted} IN
  IF all = {} THEN {} ELSE {(CHOOSE y \in all : TRUE).id}

\* The documents an erasure finds and will soft-delete.
Listed(r) ==
  {x.id : x \in {y \in Of(View(r), "document") : y.subject = call[r].target /\ ~y.deleted}}

SoftDelete(r) ==
  /\ pc[r] = "redact" /\ got[r] # {}
  /\ \E d \in got[r] :
       /\ got' = [got EXCEPT ![r] = @ \ {d}]
       /\ UNCHANGED <<call, before>>
       /\ IF d \notin Ids(View(r)) THEN Goto(r, "redact") /\ Untouched
          ELSE LET new == {[Row(View(r), d) EXCEPT !.deleted = TRUE]} IN
               \/ Flush(r, new, {}, Chain(r)) /\ Goto(r, "redact")
               \/ AuditRefused(r, new, {}, Chain(r)) /\ Fail(r, "error")

\* erase_subject_data: "anonymize" redacts the subject first, "erase" deletes it last, which the
\* database refuses for a subject with events or, without the cascade, with documents, deleted or not.
Anonymized(s) == [s EXCEPT !.ref = Redacted, !.content = Redacted]

Erase(r) ==
  /\ call[r].op \in {"anonymize", "erase"}
  /\ \/ pc[r] = "start" /\ Look(r, Found(r, "subject"), None,
                                IF call[r].op = "erase" THEN "documents" ELSE "write")
     \/ /\ At(r, "anonymize", "write")
        /\ SaveIf(Present(r), r, {Anonymized(Target(r))}, {}, "documents")
     \/ /\ pc[r] = "documents"
        /\ got' = [got EXCEPT ![r] = Listed(r)]
        /\ before' = [before EXCEPT ![r] = committed]
        /\ Goto(r, "redact") /\ Untouched /\ UNCHANGED <<call>>
     \/ SoftDelete(r)
     \/ pc[r] = "redact" /\ got[r] = {} /\
        Look(r, "none", None, IF call[r].op = "erase" THEN "erase" ELSE "answer")
     \/ pc[r] = "erase" /\ Delete(r)

NewDocument(r) ==
  [id |-> <<"document", r>>, subject |-> call[r].target, code |-> call[r].code, deleted |-> FALSE]

\* A document is stored (see Documents).
Upload(r) ==
  \/ /\ At(r, "upload_document", "start")
     /\ Check(r, IF call[r].other = None \/ MetadataFits(r) THEN Found(r, "subject") ELSE "invalid")
  \/ At(r, "upload_document", "write") /\ Insert(r, NewDocument(r), Raised, "answer")

\* An export: the subject, its events and its documents, in a statement each, at READ COMMITTED.
Exported(r, column, table) ==
  [got[r] EXCEPT ![column] = {x \in Of(rows, table) :
     x.subject = call[r].target /\ (table = "document" => ~x.deleted)}]

Export(r) ==
  /\ call[r].op = "export"
  /\ LET subject == {x \in Of(rows, "subject") : x.id = call[r].target} IN
     \/ /\ pc[r] = "start"
        /\ Look(r, IF subject = {} THEN "not_found" ELSE "none",
                [subject |-> subject, events |-> {}, documents |-> {}], "events")
     \/ pc[r] = "events" /\ Look(r, "none", Exported(r, "events", "event"), "documents")
     \/ pc[r] = "documents" /\ Look(r, "none", Exported(r, "documents", "document"), "answer")

-----------------------------------------------------------------------------
(* Relationships. *)

\* _validate_relationship_kind: as long as no kind is configured, every kind is allowed.
KindAllowed(r) == LET kinds == Of(View(r), "relationship_kind") IN
                  kinds = {} \/ \E k \in kinds : k.code = call[r].code

NewRelationship(r) == [id |-> <<"relationship", r>>, source |-> call[r].target,
                       target |-> call[r].other, code |-> call[r].code]

\* The relationship's event cannot be appended: create_event begins a transaction, and the
\* request's session has one open.
EmitRelationshipEvent(r) == pc[r] = "emit" /\ Fail(r, "error") /\ UNCHANGED <<call, got, before>>

RefuseRelationship(r) ==
  IF ~({call[r].target, call[r].other} \subseteq Ids(View(r))) THEN "not_found"
  ELSE IF ~KindAllowed(r) \/ call[r].target = call[r].other THEN "invalid" ELSE "none"

AddRelationship(r) ==
  /\ call[r].op = "add_relationship"
  /\ \/ pc[r] = "start" /\ Check(r, RefuseRelationship(r))
     \/ pc[r] = "write" /\ Insert(r, NewRelationship(r), Raised, "emit")
     \/ EmitRelationshipEvent(r)

\* delete_relationship finds the row it deletes.
Relationship(r) ==
  {x \in Of(View(r), "relationship") :
     x.source = call[r].target /\ x.target = call[r].other /\ x.code = call[r].code}

RefuseRemoval(r) == IF Relationship(r) = {} THEN "not_found" ELSE "none"

RemoveRelationship(r) ==
  LET found == Relationship(r) IN
  /\ call[r].op = "remove_relationship"
  /\ \/ pc[r] = "start" /\ Check(r, RefuseRemoval(r))
     \/ /\ pc[r] = "write"
        /\ SaveIf(found # {}, r, {}, Ids(found), "emit")
     \/ EmitRelationshipEvent(r)

NewKind(r) == [id |-> <<"relationship_kind", r>>, code |-> call[r].code, label |-> r]
KindChanged(r) == [Target(r) EXCEPT !.label = r]

\* Kinds: the lookup before the insert is repeated by the unique key.
CreateKind(r) ==
  \/ At(r, "create_kind", "start") /\
     Check(r, IF CodeTaken(r, "relationship_kind") THEN "invalid" ELSE "none")
  \/ At(r, "create_kind", "write") /\ Insert(r, NewKind(r), Raised, "answer")

UpdateKind(r) ==
  \/ At(r, "update_kind", "start") /\ Check(r, Found(r, "relationship_kind"))
  \/ At(r, "update_kind", "write") /\ Change(r, {KindChanged(r)})

DeleteKind(r) ==
  \/ At(r, "delete_kind", "start") /\ Check(r, Found(r, "relationship_kind"))
  \/ At(r, "delete_kind", "write") /\ Delete(r)

-----------------------------------------------------------------------------
(* Subject types, document categories, transition rules. *)

NewType(r) == [id |-> <<"subject_type", r>>, code |-> call[r].code, active |-> TRUE, version |-> 1,
               schema |-> call[r].other]

CreateType(r) ==
  \/ At(r, "create_type", "start") /\ Check(r, "none")
  \/ At(r, "create_type", "write") /\ Insert(r, NewType(r), "exists", "answer")

\* The version is the one read, plus one: two updates may give the same.
TypeChanged(r) ==
  [Target(r) EXCEPT !.active = call[r].flag, !.schema = call[r].other, !.version = got[r]]

UpdateType(r) ==
  \/ /\ At(r, "update_type", "start")
     /\ Look(r, Found(r, "subject_type"),
             IF Found(r, "subject_type") = "none" THEN Target(r).version + 1 ELSE None, "write")
  \/ At(r, "update_type", "write") /\ Change(r, {TypeChanged(r)})

DeleteType(r) ==
  \/ At(r, "delete_type", "start") /\ Check(r, Found(r, "subject_type"))
  \/ At(r, "delete_type", "write") /\ Delete(r)

NewCategory(r) ==
  [id |-> <<"category", r>>, code |-> call[r].code, active |-> TRUE, schema |-> call[r].other]

CreateCategory(r) ==
  \/ At(r, "create_category", "start") /\ Check(r, "none")
  \/ At(r, "create_category", "write") /\ Insert(r, NewCategory(r), "exists", "answer")

CategoryChanged(r) ==
  [Target(r) EXCEPT !.active = call[r].flag,
                    !.schema = IF call[r].other = None THEN @ ELSE call[r].other]

UpdateCategory(r) ==
  \/ At(r, "update_category", "start") /\ Check(r, Found(r, "category"))
  \/ At(r, "update_category", "write") /\ Change(r, {CategoryChanged(r)})

DeleteCategory(r) ==
  \/ At(r, "delete_category", "start") /\ Check(r, Found(r, "category"))
  \/ At(r, "delete_category", "write") /\ Delete(r)

NewRule(r) == [id |-> <<"rule", r>>, code |-> call[r].code, required |-> call[r].other]
RuleChanged(r) == [Target(r) EXCEPT !.required = call[r].other]

CreateRule(r) ==
  \/ At(r, "create_rule", "start") /\
     Check(r, IF CodeTaken(r, "rule") THEN "invalid" ELSE "none")
  \/ At(r, "create_rule", "write") /\ Insert(r, NewRule(r), Raised, "answer")

UpdateRule(r) ==
  \/ At(r, "update_rule", "start") /\ Check(r, Found(r, "rule"))
  \/ At(r, "update_rule", "write") /\ Change(r, {RuleChanged(r)})

DeleteRule(r) ==
  \/ At(r, "delete_rule", "start") /\ Check(r, Found(r, "rule"))
  \/ At(r, "delete_rule", "write") /\ Delete(r)

-----------------------------------------------------------------------------
(* Event schemas. *)

Versions(s, code) == {x \in Of(s, "event_schema") : x.code = code}

\* get_next_version: one more than the highest.
NextVersion(r) ==
  LET used == {x.version : x \in Versions(View(r), call[r].code)} IN
  CHOOSE v \in {1} \cup {u + 1 : u \in used} : \A u \in used : u < v

Tries(r) == IF got[r] = None THEN 0 ELSE got[r].tries      \* attempts that failed

NewSchema(r) == [id |-> <<"event_schema", r>>, code |-> call[r].code, version |-> got[r].version,
                 active |-> call[r].flag, definition |-> r]

\* Mutant: an attempt that lost is not repeated.
Retry_Never(r) == FALSE

\* Another attempt is left.
Retry(r) == got[r].tries < MaxAttempts - 1

\* Mutant: only the version before the new one is deactivated.
OtherActive_Previous(r) ==
  {x \in Versions(View(r), call[r].code) : x.active /\ x.version = got[r].version - 1}

\* The active versions but the new one.
OtherActive(r) ==
  {x \in Versions(View(r), call[r].code) : x.active /\ x.id # <<"event_schema", r>>}

\* One attempt, in a savepoint of its own.  A refused audit event kills the savepoint, which is
\* then left without an exception unless another statement follows.
InsertSchema(r) ==
  /\ pc[r] = "write"
  /\ UNCHANGED <<call, before>>
  /\ \/ /\ Flush(r, {NewSchema(r)}, {}, Chain(r)) /\ UNCHANGED got
        /\ Goto(r, IF call[r].flag THEN "others" ELSE "answer")
     \/ /\ IntegrityError(r, {NewSchema(r)}, {})
        /\ got' = [got EXCEPT ![r].tries = @ + 1]
        /\ IF Retry(r) THEN Goto(r, "start") /\ Untouched ELSE Fail(r, Raised)
     \/ /\ AuditRefused(r, {NewSchema(r)}, {}, Chain(r)) /\ UNCHANGED got
        /\ IF call[r].flag THEN Fail(r, "error") ELSE Drop(r, "inactive") /\ Goto(r, "answer")

\* deactivate_schema, for each of the others.
DeactivateOthers(r) ==
  LET new == {[x EXCEPT !.active = FALSE] : x \in OtherActive(r)} IN
  /\ pc[r] = "others"
  /\ IF new = {} THEN Goto(r, "answer") /\ Untouched
     ELSE \/ Flush(r, new, {}, Chain(r)) /\ Goto(r, "answer")
          \/ AuditRefused(r, new, {}, Chain(r)) /\ Drop(r, "inactive") /\ Goto(r, "answer")
  /\ UNCHANGED <<call, got, before>>

CreateSchema(r) ==
  /\ call[r].op = "create_schema"
  /\ \/ pc[r] = "start" /\ Look(r, "none", [version |-> NextVersion(r), tries |-> Tries(r)], "write")
     \/ InsertSchema(r)
     \/ DeactivateOthers(r)

SchemaChanged(r) == [Target(r) EXCEPT !.active = call[r].flag, !.definition = r]

UpdateSchema(r) ==
  \/ At(r, "update_schema", "start") /\ Check(r, Found(r, "event_schema"))
  \/ At(r, "update_schema", "write") /\ Change(r, {SchemaChanged(r)})

DeleteSchema(r) ==
  \/ At(r, "delete_schema", "start") /\ Check(r, Found(r, "event_schema"))
  \/ At(r, "delete_schema", "write") /\ Delete(r)

-----------------------------------------------------------------------------
(* Naming templates, flows and the documents a flow requires. *)

NewTemplate(r) == [id |-> <<"template", r>>, scope |-> call[r].target, names |-> call[r].other]

CreateTemplate(r) ==
  \/ At(r, "create_template", "start") /\ Check(r, "none")
  \/ At(r, "create_template", "write") /\ Insert(r, NewTemplate(r), "exists", "answer")

TemplateChanged(r) == [Target(r) EXCEPT !.names = call[r].other]

UpdateTemplate(r) ==
  \/ At(r, "update_template", "start") /\ Check(r, Found(r, "template"))
  \/ At(r, "update_template", "write") /\ Change(r, {TemplateChanged(r)})

DeleteTemplate(r) ==
  \/ At(r, "delete_template", "start") /\ Check(r, Found(r, "template"))
  \/ At(r, "delete_template", "write") /\ Delete(r)

\* The template of the flow's workflow, if there is one, matches the name.
NameFits(r) ==
  \A t \in Of(View(r), "template") : t.scope = call[r].target => call[r].code \in t.names

NewFlow(r) == [id |-> <<"flow", r>>, code |-> call[r].code, workflow |-> call[r].target]
FlowChanged(r) == [Target(r) EXCEPT !.code = call[r].code]
Link(r, flow, s) == [id |-> <<"flow_subject", r, s>>, flow |-> flow, subject |-> s]

RefuseFlow(r) == IF NameFits(r) THEN "none" ELSE "invalid"

CreateFlow(r) ==
  /\ call[r].op = "create_flow"
  /\ \/ pc[r] = "start" /\ Check(r, RefuseFlow(r))
     \/ pc[r] = "write" /\ Insert(r, NewFlow(r), Raised, "links")
     \/ pc[r] = "links" /\
        Save(r, {Link(r, <<"flow", r>>, s) : s \in call[r].other}, {}, Raised, "answer")

UpdateFlow(r) ==
  \/ At(r, "update_flow", "start") /\ Check(r, Found(r, "flow"))
  \/ At(r, "update_flow", "write") /\ Change(r, {FlowChanged(r)})

Members(s, flow) == {x.subject : x \in {y \in Of(s, "flow_subject") : y.flow = flow}}

\* Those that are members already are passed over.
AddSubjects(r) ==
  \/ /\ At(r, "add_subjects", "start")
     /\ LET refusal == IF Found(r, "flow") # "none" THEN "not_found"
                       ELSE IF call[r].other \subseteq Ids(View(r)) THEN "none" ELSE "invalid" IN
        Look(r, refusal, call[r].other \ Members(View(r), call[r].target), "write")
  \/ At(r, "add_subjects", "write") /\
     Save(r, {Link(r, call[r].target, s) : s \in got[r]}, {}, Raised, "answer")

Linked(r) ==
  {x \in Of(View(r), "flow_subject") : x.flow = call[r].target /\ x.subject = call[r].other}

RemoveSubject(r) ==
  LET link == Linked(r) IN
  \/ At(r, "remove_subject", "start") /\ Check(r, IF link = {} THEN "not_found" ELSE "none")
  \/ /\ At(r, "remove_subject", "write")
     /\ SaveIf(link # {}, r, {}, Ids(link), "answer")

NewRequirement(r) == [id |-> <<"requirement", r>>, workflow |-> call[r].target,
                      category |-> call[r].other, min |-> 1]

CreateRequirement(r) ==
  \/ At(r, "create_requirement", "start") /\ Check(r, Found(r, "workflow"))
  \/ At(r, "create_requirement", "write") /\ Insert(r, NewRequirement(r), Raised, "answer")

DeleteRequirement(r) ==
  \/ At(r, "delete_requirement", "start") /\ Check(r, Found(r, "requirement"))
  \/ At(r, "delete_requirement", "write") /\ Delete(r)

\* Mutant: deleted documents are counted as well.
Count_WithDeleted(s, subjects, code) ==
  Cardinality({d \in Of(s, "document") : d.subject \in subjects /\ d.code = code})

\* count_by_subjects_and_document_type.
Count(s, subjects, code) ==
  Cardinality({d \in Of(s, "document") : d.subject \in subjects /\ d.code = code /\ ~d.deleted})

\* A category that is gone counts as "unknown", which no document has.
CategoryCode(s, id) == IF id \in Ids(s) THEN Row(s, id).code ELSE "unknown"

Requirements(s, workflow) == {x \in Of(s, "requirement") : x.workflow = workflow}

\* A flow's compliance: its subjects, the requirements of its workflow, and for each of these the
\* category and the count, in a statement each, at READ COMMITTED.
ReadMembers(r) ==
  /\ pc[r] = "members"
  /\ Look(r, "none", [subjects |-> Members(rows, call[r].target), rest |-> {}, ok |-> TRUE,
                      code |-> None], "links")

ReadRequirements(r) ==
  /\ pc[r] = "links"
  /\ Look(r, "none", [got[r] EXCEPT !.rest = Requirements(rows, Target(r).workflow)], "category")

ReadCategory(r) ==
  /\ pc[r] = "category"
  /\ \E q \in got[r].rest :
       Look(r, "none", [got[r] EXCEPT !.rest = @ \ {q},
                                      !.code = <<CategoryCode(rows, q.category), q.min>>], "count")

ReadCount(r) ==
  LET code == got[r].code
      enough == Count(rows, got[r].subjects, code[1]) >= code[2] IN
  /\ pc[r] = "count"
  /\ Look(r, "none", [got[r] EXCEPT !.ok = @ /\ enough, !.code = None], "category")

Compliance(r) ==
  /\ call[r].op = "compliance"
  /\ \/ pc[r] = "start" /\ Look(r, Found(r, "flow"), None, "members")
     \/ ReadMembers(r) \/ ReadRequirements(r) \/ ReadCategory(r) \/ ReadCount(r)
     \/ /\ pc[r] = "category" /\ got[r].rest = {}
        /\ End(r, "commit", IF got[r].ok THEN "success" ELSE "unsatisfied")
        /\ Untouched /\ UNCHANGED <<call, got, before>>

-----------------------------------------------------------------------------

Route(r) ==
  \/ CreateSubject(r) \/ UpdateSubject(r) \/ DeleteSubject(r) \/ Erase(r) \/ Upload(r) \/ Export(r)
  \/ AddRelationship(r) \/ RemoveRelationship(r) \/ CreateKind(r) \/ UpdateKind(r) \/ DeleteKind(r)
  \/ CreateType(r) \/ UpdateType(r) \/ DeleteType(r)
  \/ CreateCategory(r) \/ UpdateCategory(r) \/ DeleteCategory(r)
  \/ CreateRule(r) \/ UpdateRule(r) \/ DeleteRule(r)
  \/ CreateSchema(r) \/ UpdateSchema(r) \/ DeleteSchema(r)
  \/ CreateTemplate(r) \/ UpdateTemplate(r) \/ DeleteTemplate(r)
  \/ CreateFlow(r) \/ UpdateFlow(r) \/ AddSubjects(r) \/ RemoveSubject(r)
  \/ CreateRequirement(r) \/ DeleteRequirement(r) \/ Compliance(r)

Next == (\E r \in Requests : Route(r) \/ Answer(r) \/ Commit(r) \/ Abort(r)) \/ AllDone

Spec == Init /\ [][Next]_vars

-----------------------------------------------------------------------------
(* Properties. *)

Did(op) == {r \in committed : call[r].op = op}

\* However creations race, with each other or with deletions, and whatever attempts they lose,
\* an event type has at most one active schema version, unless a PATCH has activated one.
OneActiveSchema ==
  (\A r \in Did("update_schema") : ~call[r].flag) =>
    \A x, y \in Of(rows, "event_schema") : x.code = y.code /\ x.active /\ y.active => x = y

\* A schema's creation loses an attempt only to another that has committed meanwhile: with no
\* more creations than attempts, none ends in the IntegrityError of its last attempt.
SchemaCreationSucceeds ==
  LET creations == {r \in Requests : call[r].op = "create_schema"} IN
  IsFiniteSet(creations) /\ Cardinality(creations) <= MaxAttempts =>
    \A r \in creations : outcome[r] # "integrity_error"

\* An erasure is whole: if a subject is redacted, so is every document it had when the erasure
\* listed them. (One that is stored while the erasure runs stays.)  Nor does an export, which
\* reads statement by statement, show such a document of a subject it shows redacted.
ErasureIsWhole ==
  LET spared(s, documents) ==
        \E r \in Did("anonymize") :
          /\ call[r].target = s
          /\ \A d \in documents : d.id[2] \in Requests \ before[r] IN
  /\ \A s \in Of(rows, "subject") :
       s.content = Redacted =>
         spared(s.id, {d \in Of(rows, "document") : d.subject = s.id /\ ~d.deleted})
  /\ \A q \in Requests :
       call[q].op = "export" /\ outcome[q] = "success" =>
         \A s \in got[q].subject : s.content = Redacted => spared(s.id, got[q].documents)

\* "All satisfied" is wrong of the store only if something other than an upload or a new member has
\* been committed since the request began: a deletion, a removal, a new requirement.  (A change of
\* a document's type, in module Documents, would be one more.)
ComplianceErrsOnlyByChange ==
  \A r \in Requests :
    /\ call[r].op = "compliance" /\ pc[r] = "commit" /\ outcome[r] = "success"
    /\ \A q \in committed \ before[r] : call[q].op \in {"upload_document", "add_subjects"}
    => \A x \in Of(rows, "requirement") :
         x.workflow = Row(rows, call[r].target).workflow =>
           Cardinality({d \in Of(rows, "document") :
             /\ d.subject \in Members(rows, call[r].target) /\ ~d.deleted
             /\ d.code = CategoryCode(rows, x.category)}) >= x.min

===============================================================================
