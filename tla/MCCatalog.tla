-------------------------------- MODULE MCCatalog --------------------------------
(***************************************************************************)
(* A small instance of Catalog: constants of its runs.                      *)
(***************************************************************************)
EXTENDS Catalog

CONSTANTS q1, q2, q3   \* requests

SmallTypes == {"person"}

S(n) == <<"subject", n>>
flow == <<"flow", "f">>
workflow == <<"workflow", "w">>
contract == <<"category", "contract">>
passport == <<"category", "passport">>
kind == <<"relationship_kind", "k">>
template == <<"template", "t">>

Doc(n, s, c, deleted) == [id |-> <<"document", n>>, subject |-> S(s), code |-> c, deleted |-> deleted]

\* Three subjects (the second has an event), two documents of the first and a deleted one of its
\* flow, which needs one document of each of two categories; and one row of everything else.
SmallSeed ==
  {[id |-> S(n), code |-> "person", ref |-> n, content |-> "data"] : n \in {"s1", "s2"}}
  \cup {[id |-> S("s3"), code |-> "patient", ref |-> "s3", content |-> "data"],
        [id |-> <<"event", "e">>, subject |-> S("s2")],
        Doc("d1", "s1", "contract", FALSE), Doc("d2", "s1", "other", FALSE),
        Doc("d3", "s1", "passport", TRUE),
        [id |-> flow, code |-> "f", workflow |-> workflow],
        [id |-> workflow], [id |-> <<"flow_subject", "l">>, flow |-> flow, subject |-> S("s1")],
        [id |-> contract, code |-> "contract", active |-> TRUE, schema |-> {"m"}],
        [id |-> passport, code |-> "passport", active |-> TRUE, schema |-> None],
        [id |-> <<"requirement", "r1">>, workflow |-> workflow, category |-> contract, min |-> 1],
        [id |-> <<"requirement", "r2">>, workflow |-> workflow, category |-> passport, min |-> 1],
        [id |-> kind, code |-> "parent", label |-> "p"],
        [id |-> <<"relationship", "r">>, source |-> S("s1"), target |-> S("s3"), code |-> "parent"],
        [id |-> template, scope |-> workflow, names |-> {"f"}],
        [id |-> <<"rule", "r">>, code |-> "visit", required |-> "a"],
        [id |-> <<"subject_type", "t">>, code |-> "patient", active |-> TRUE, version |-> 1,
         schema |-> {"a"}],
        [id |-> <<"event_schema", "v1">>, code |-> "visit", version |-> 1, active |-> TRUE,
         definition |-> "v1"]}

C(op, target, other, code) ==
  [op |-> op, target |-> target, other |-> other, code |-> code, ref |-> None, flag |-> FALSE]
With(c, ref, flag) == [c EXCEPT !.ref = ref, !.flag = flag]

Idle == C("idle", None, None, None)
NewVersion(flag) == With(C("create_schema", None, None, "visit"), None, flag)
V1(op, flag) == With(C(op, <<"event_schema", "v1">>, None, None), None, flag)
Anonymize(s) == C("anonymize", S(s), None, None)
Upload1(c) == C("upload_document", S("s1"), None, c)
Complies == C("compliance", flow, None, None)

\* What may happen to the first subject and to the flow it is in.
Disturb ==
  {Anonymize("s1"), C("erase", S("s1"), None, None), C("delete_subject", S("s1"), None, None),
   With(C("update_subject", S("s1"), None, None), "s4", FALSE), Upload1("passport"),
   C("export", S("s1"), None, None)}

FlowChanges ==
  {C("add_subjects", flow, {S("s1"), S("s3")}, None), C("remove_subject", flow, S("s1"), None),
   C("delete_category", passport, None, None), C("create_requirement", workflow, passport, None),
   C("delete_requirement", <<"requirement", "r2">>, None, None), Upload1("passport"),
   C("delete_subject", S("s1"), None, None)}

\* Everything else, each against the others that touch the same row or key.
Groups ==
  {{With(C("create_subject", None, "a", "patient"), "s4", FALSE),
    With(C("create_subject", None, None, "person"), "s4", FALSE),
    With(C("update_subject", S("s3"), "a", None), "s4", FALSE),
    With(C("update_type", <<"subject_type", "t">>, None, None), None, FALSE),
    With(C("update_type", <<"subject_type", "t">>, {"b"}, None), None, TRUE),
    C("delete_type", <<"subject_type", "t">>, None, None), C("create_type", None, None, "patient"),
    C("create_type", None, None, "client")},
   {C("add_relationship", S("s2"), S("s3"), "parent"), C("remove_relationship", S("s1"), S("s3"), "parent"),
    C("create_kind", None, None, "child"), C("update_kind", kind, None, None),
    C("delete_kind", kind, None, None), C("delete_subject", S("s3"), None, None),
    C("erase", S("s2"), None, None), C("erase", S("s3"), None, None)},
   {C("create_category", None, None, "photo"), C("update_category", contract, None, None),
    C("update_category", contract, {"n"}, None), C("upload_document", S("s1"), "m", "contract"),
    C("delete_category", contract, None, None), C("create_requirement", workflow, contract, None)},
   {C("create_rule", None, "a", "birth"), C("update_rule", <<"rule", "r">>, "b", None),
    C("delete_rule", <<"rule", "r">>, None, None)},
   {C("create_template", workflow, {"g"}, None), C("update_template", template, {"g"}, None),
    C("delete_template", template, None, None), C("create_flow", workflow, {S("s3")}, "f"),
    C("update_flow", flow, None, "g"), C("delete_subject", S("s3"), None, None)}}

Are(a, b, c) == [r \in Requests |-> IF r = q1 THEN a ELSE IF r = q2 THEN b ELSE c]

SmallScenarios ==
  {Are(NewVersion(TRUE), b, c) : b \in {NewVersion(TRUE), NewVersion(FALSE)},
     c \in {NewVersion(TRUE), V1("delete_schema", TRUE), V1("update_schema", FALSE),
            V1("update_schema", TRUE)}}
  \cup {Are(Anonymize("s1"), b, c) : b \in {Upload1("photo"), Anonymize("s3")}, c \in Disturb}
  \cup {Are(Complies, b, c) : b \in FlowChanges, c \in FlowChanges}
  \cup UNION {{Are(a, b, Idle) : a \in g, b \in g} : g \in Groups}

================================================================================
