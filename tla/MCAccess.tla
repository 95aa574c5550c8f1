--------------------------------- MODULE MCAccess ---------------------------------
(***************************************************************************)
(* A small instance of Access: constants of its runs.                       *)
(***************************************************************************)
EXTENDS Access

CONSTANTS q1, q2, q3   \* requests

All == <<"*", "*">>
Read == <<"subject", "read">>
Export == <<"subject", "export">>

SmallCodes == {All, Read, Export}
SmallSensitive == {Export}
SmallRoles == [admin |-> {All}, manager |-> {<<"subject", "*">>}]

t1 == <<"tenant", "t1">>
admin == <<"app_user", "admin">>
clerk == <<"app_user", "clerk">>
adminRole == <<"role", "admin">>
staff == <<"role", "staff">>
readPermission == <<"permission", "read">>
token == <<"token", "t">>

\* One tenant: an administrator, who has not used her token, and a clerk whose role may read.
SmallSeed ==
  {[id |-> t1, code |-> "t1", status |-> "active"],
   [id |-> admin, tenant |-> t1, name |-> "admin", email |-> "admin", password |-> None,
    active |-> TRUE],
   [id |-> clerk, tenant |-> t1, name |-> "clerk", email |-> "clerk", password |-> None,
    active |-> TRUE],
   [id |-> adminRole, tenant |-> t1, code |-> "admin", system |-> TRUE, active |-> TRUE],
   [id |-> staff, tenant |-> t1, code |-> "staff", system |-> FALSE, active |-> TRUE],
   [id |-> <<"permission", "all">>, tenant |-> t1, code |-> All],
   [id |-> readPermission, tenant |-> t1, code |-> Read],
   [id |-> <<"role_permission", "a">>, tenant |-> t1, role |-> adminRole,
    permission |-> <<"permission", "all">>],
   [id |-> <<"role_permission", "s">>, tenant |-> t1, role |-> staff,
    permission |-> readPermission],
   [id |-> <<"user_role", "a">>, tenant |-> t1, user |-> admin, role |-> adminRole],
   [id |-> <<"user_role", "s">>, tenant |-> t1, user |-> clerk, role |-> staff],
   [id |-> token, user |-> admin, expires |-> 1, used |-> FALSE]}

C(op, by, tenant, target, other, code, codes) ==
  [op |-> op, by |-> by, tenant |-> tenant, target |-> target, other |-> other, code |-> code,
   codes |-> codes, flag |-> FALSE]

A(op, target, other) == C(op, admin, t1, target, other, "x", << >>)
N(op, code, codes) == C(op, admin, t1, None, None, code, codes)

R == C("read", clerk, t1, None, None, "x", << >>)
Idle == C("idle", None, t1, None, None, "x", << >>)
UpdateMe == C("update_me", clerk, t1, None, None, "other", << >>)
DeleteMe == C("delete_me", clerk, t1, None, None, "x", << >>)
CreateRole == N("create_role", "staff2", <<Read, Read>>)
CreateTenant(r) == N("create_tenant", "t2", << >>)
ReadNew(r) == C("read", <<"app_user", r>>, <<"tenant", r>>, None, None, "x", << >>)
SetPassword == A("set_password", token, None)

Login(code, password) == C("login", None, t1, code, password, "admin", << >>)

Revocations ==
  {A("delete_permission", readPermission, None), A("remove_role", clerk, staff)}

OtherRevocations ==
  {A("delete_role", staff, None), A("update_role", staff, None),
   A("remove_permission", staff, readPermission), DeleteMe}

Others ==
  {A("update_role", adminRole, None), A("assign_role", clerk, adminRole),
   A("assign_permission", staff, <<"permission", "all">>), A("delete_permission", readPermission, None),
   N("create_role", "staff2", <<Read>>), N("create_permission", "x", <<Export>>),
   N("create_user", "clerk", << >>), N("register", "other", << >>), DeleteMe,
   C("update_tenant", admin, t1, t1, None, "archived", << >>)}

Are(a, b, c) == [r \in Requests |-> IF r = q1 THEN a ELSE IF r = q2 THEN b ELSE c]

\* One or two requests of the clerk's against a revocation; a tenant's creation, twice, and its
\* administrator's first request; any two of the other operations; three changes of one user.
SmallScenarios ==
  {Are(R, R, c) : c \in Revocations} \cup {Are(R, Idle, c) : c \in OtherRevocations}
  \cup {Are(CreateTenant(q1), b, ReadNew(q1)) : b \in {CreateTenant(q2), ReadNew(q1)}}
  \cup {Are(a, b, Idle) : a \in {CreateRole, UpdateMe, SetPassword}, b \in Others}
  \cup {Are(SetPassword, SetPassword, c) : c \in {Idle, DeleteMe}}
  \cup {Are(SetPassword, b, Idle) : b \in {Login("t1", None), Login("t1", q1), Login("t3", None)}}

================================================================================
