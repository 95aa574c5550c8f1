--------------------------------- MODULE Access ---------------------------------
(***************************************************************************)
(* Who may do what: tenants and what is set up for them, users, roles and     *)
(* permissions, the one-time token for the first password, and the check      *)
(* every protected request goes through, which takes the tenant and the       *)
(* user's permissions from a cache (Redis) when it can.                       *)
(*                                                                         *)
(* A request reads with one session (get_db, READ COMMITTED: the committed    *)
(* rows) and writes with another (Tables).  Rows have the columns the         *)
(* properties tell apart; a permission code is a pair <<resource, action>>.   *)
(***************************************************************************)
EXTENDS Integers, Sequences, FiniteSets

CONSTANTS
  Requests,
  Scenarios,       \* what the requests are called with together: functions on Requests
  Seed,            \* the rows at the start
  Codes,           \* permission codes
  SYSTEM_PERMISSIONS, DEFAULT_ROLES,   \* what a new tenant gets; role code -> patterns
  GDPR_SENSITIVE_PERMISSIONS,
  PERMISSION_TTL,  \* cache_ttl_permissions
  TENANT_TTL,      \* TENANT_VALIDATION_CACHE_TTL
  TOKEN_TTL,       \* DEFAULT_TOKEN_TTL_SECONDS
  MaxFlight,       \* bound: time between a read and its answer's way into the cache
  MaxNow,          \* bound on the clock
  None

Star == "*"

ASSUME AccessAssumption ==
  /\ None \notin Nat
  /\ SYSTEM_PERMISSIONS \subseteq Codes
  /\ GDPR_SENSITIVE_PERMISSIONS \subseteq SYSTEM_PERMISSIONS
  /\ DOMAIN DEFAULT_ROLES \subseteq STRING /\ "admin" \in DOMAIN DEFAULT_ROLES
  /\ {PERMISSION_TTL, TENANT_TTL, TOKEN_TTL} \subseteq Nat \ {0}
  /\ {MaxFlight, MaxNow} \subseteq Nat

VARIABLES
  rows, put, gone, audited, session, committed,   \* see Tables
  cache,      \* key -> [value, until], the entries of Redis
  now,
  call,       \* call[r]: what r was called with
  pc,         \* pc[r]: where r is
  got,        \* got[r]: what r has read and still needs: a cache value, a list of codes
  readAt,     \* readAt[r]: when r read what it is going to cache
  outcome,    \* outcome[r]: what r's client was told
  codesDone,  \* codesDone[r]: how many permission codes of its new role r is done with
  decidedAt,  \* decidedAt[r]: history, when r was let in or turned away
  lastHeld,   \* lastHeld[<<u, c>>]: history, when user u last held permission c
  lastAbsent  \* lastAbsent[t]: history, when tenant t last did not exist

store == <<rows, put, gone, audited, session, committed>>
process == <<cache, now>>
local == <<call, got, readAt, codesDone, decidedAt>>
history == <<lastHeld, lastAbsent>>
vars == <<rows, put, gone, audited, session, committed, cache, now, call, pc, got,
          readAt, codesDone, outcome, decidedAt, lastHeld, lastAbsent>>

-----------------------------------------------------------------------------
(* The tables. *)

Of(s, table) == {x \in s : x.id[1] = table}

\* Unique keys, and references ON DELETE CASCADE; no other kind matters, as no tenant is deleted.
T(keys, owners) == [keys |-> keys, owners |-> owners]
TenantTable(x) == T({<<"tenant_code", x.code>>}, {})
RoleTable(x) == T({<<"uq_role_tenant_code", x.tenant, x.code>>}, {})
PermissionTable(x) == T({<<"uq_permission_tenant_code", x.tenant, x.code>>}, {})
RolePermissionTable(x) ==
  T({<<"uq_role_permission", x.role, x.permission>>}, {x.role, x.permission})
UserRoleTable(x) == T({<<"uq_user_role", x.user, x.role>>}, {x.user, x.role})
UserTable(x) ==
  T({<<"uq_tenant_username", x.tenant, x.name>>, <<"uq_tenant_email", x.tenant, x.email>>}, {})
TokenTable(x) == T({}, {x.user})

Table(x) ==
  CASE x.id[1] = "tenant" -> TenantTable(x)
    [] x.id[1] = "role" -> RoleTable(x)
    [] x.id[1] = "permission" -> PermissionTable(x)
    [] x.id[1] = "role_permission" -> RolePermissionTable(x)
    [] x.id[1] = "user_role" -> UserRoleTable(x)
    [] x.id[1] = "app_user" -> UserTable(x)
    [] x.id[1] = "token" -> TokenTable(x)
    [] OTHER -> T({}, {})                  \* subject

Keys(x) == Table(x).keys
Owners(x) == Table(x).owners

INSTANCE Tables WITH Needs <- LAMBDA x : {}

\* PermissionResolver.get_user_permissions: the codes of u's active roles.  No assignment
\* expires, since nothing sets expires_at.
Granted(s, tenant, u) ==
  {p.code : p \in {x \in Of(s, "permission") :
     \E ur \in Of(s, "user_role"), rp \in Of(s, "role_permission") :
       /\ ur.user = u /\ ur.tenant = tenant
       /\ rp.role = ur.role /\ rp.permission = x.id
       /\ Row(s, ur.role).active}}

\* AuthorizationService.check_permission.
Allows(perms, need) == {need, <<need[1], Star>>, <<Star, Star>>} \cap perms # {}

\* Mutant: a resource's wildcard takes every permission of the resource.
Pattern_KeepsSensitive(p) == {c \in SYSTEM_PERMISSIONS : p[2] \in {Star, c[2]} /\ c[1] = p[1]}

\* _resolve_permission_pattern.
Pattern(p) == IF p[2] = Star
              THEN {c \in SYSTEM_PERMISSIONS : c[1] = p[1] /\ c \notin GDPR_SENSITIVE_PERMISSIONS}
              ELSE {p} \cap SYSTEM_PERMISSIONS

Find(s, table, tenant, code) == {x \in Of(s, table) : x.tenant = tenant /\ x.code = code}

-----------------------------------------------------------------------------
(* What a request writes. *)

\* The user whose own account or token the request is about, or the role's.
Subject(r) == IF call[r].op = "set_password" THEN Row(View(r), call[r].target).user
              ELSE IF call[r].op \in {"update_me", "delete_me"} THEN call[r].by
              ELSE call[r].target

\* Mutant: a change of one's own account writes back the whole row it has read.
EmailChanged_WholeRow(r, x) == [x EXCEPT !.email = call[r].code, !.active = TRUE]

\* The attributes each update assigns; the others keep their value in the row.
EmailChanged(r, x) == [x EXCEPT !.email = call[r].code]
RoleChanged(r, x) == [x EXCEPT !.active = call[r].flag]
RoleDeactivated(x) == [x EXCEPT !.active = FALSE]
UserDeactivated(x) == [x EXCEPT !.active = FALSE]
PasswordSet(r, x) == [x EXCEPT !.password = r]
TenantChanged(r, x) == [x EXCEPT !.status = call[r].code]

Assigned(r, x) ==
  CASE call[r].op = "update_role" -> RoleChanged(r, x)
    [] call[r].op = "delete_role" -> RoleDeactivated(x)
    [] call[r].op = "update_me" -> EmailChanged(r, x)
    [] call[r].op = "delete_me" -> UserDeactivated(x)
    [] call[r].op = "set_password" -> PasswordSet(r, x)
    [] call[r].op = "update_tenant" -> TenantChanged(r, x)

\* The rows that are inserted.
NewRole(r) ==
  [id |-> <<"role", r>>, tenant |-> call[r].tenant, code |-> call[r].code, system |-> FALSE,
   active |-> TRUE]
NewPermission(r) ==
  [id |-> <<"permission", r>>, tenant |-> call[r].tenant, code |-> call[r].codes[1]]
NewUser(r) ==
  [id |-> <<"app_user", r>>, tenant |-> call[r].tenant, name |-> call[r].code,
   email |-> call[r].code, password |-> r, active |-> TRUE]
NewRolePermission(r, n, role, permission) ==
  [id |-> <<"role_permission", r, n>>, tenant |-> call[r].tenant, role |-> role,
   permission |-> permission]
NewUserRole(r) ==
  [id |-> <<"user_role", r>>, tenant |-> call[r].tenant, user |-> call[r].target,
   role |-> call[r].other]
NewTenant(r) == [id |-> <<"tenant", r>>, code |-> call[r].code, status |-> "active"]

NewRow(r) ==
  CASE call[r].op = "create_role" -> NewRole(r)
    [] call[r].op = "create_permission" -> NewPermission(r)
    [] call[r].op \in {"create_user", "register"} -> NewUser(r)
    [] call[r].op = "assign_permission" -> NewRolePermission(r, 0, call[r].target, call[r].other)
    [] call[r].op = "assign_role" -> NewUserRole(r)
    [] call[r].op = "create_tenant" -> NewTenant(r)

\* The assignment a removal deletes, if it is there.
RolePermission(r) ==
  {x \in Of(View(r), "role_permission") : x.role = call[r].target /\ x.permission = call[r].other}
UserRole(r) ==
  {x \in Of(View(r), "user_role") : x.user = call[r].target /\ x.role = call[r].other}
Assignment(r) == IF call[r].op = "remove_permission" THEN RolePermission(r) ELSE UserRole(r)

\* TenantInitializationService: permissions, default roles and what they grant.
BuildPermissions(t) ==
  {[id |-> <<"permission", t, c>>, tenant |-> t, code |-> c] : c \in SYSTEM_PERMISSIONS}

DefaultRole(t, c) ==
  {[id |-> <<"role", t, c>>, tenant |-> t, code |-> c, system |-> TRUE, active |-> TRUE]}
  \cup {[id |-> <<"role_permission", t, c, p>>, tenant |-> t, role |-> <<"role", t, c>>,
          permission |-> <<"permission", t, p>>] :
            p \in UNION {Pattern(q) : q \in DEFAULT_ROLES[c]}}

BuildRoles(t) == UNION {DefaultRole(t, c) : c \in DOMAIN DEFAULT_ROLES}

\* The subject of the tenant's audit chain.
AuditSubject(t) == {[id |-> <<"subject", t>>, tenant |-> t]}

AdminOf(r) == [id |-> <<"app_user", r>>, tenant |-> <<"tenant", r>>, name |-> "admin",
               email |-> "admin", password |-> r, active |-> TRUE]

AdminRoleOf(r) == [id |-> <<"user_role", r>>, tenant |-> <<"tenant", r>>,
                   user |-> <<"app_user", r>>, role |-> <<"role", <<"tenant", r>>, "admin">>]

TokenOf(r) == [id |-> <<"token", r>>, user |-> <<"app_user", r>>, expires |-> now + TOKEN_TTL,
               used |-> FALSE]
-----------------------------------------------------------------------------
(* A request's control. *)

Ops == {"idle", "read", "create_role", "update_role", "delete_role", "assign_permission",
        "remove_permission", "create_permission", "delete_permission", "assign_role",
        "remove_role", "create_user", "register", "update_me", "delete_me", "set_password",
        "create_tenant", "update_tenant", "login"}

OwnAccount == {"update_me", "delete_me"}
ByRole == {"assign_role", "remove_role"}       \* the code they need depends on the role
Open == {"register", "set_password", "create_tenant"}   \* and login, with steps of its own

FirstStep(op) == CASE op = "idle" -> "done" [] op = "login" -> "login" [] op \in Open -> "check"
                   [] op \in OwnAccount -> "user" [] OTHER -> "tenant"
AfterUser(op) == IF op \in OwnAccount \cup ByRole THEN "check" ELSE "cache"
AfterCheck(op) == CASE op \in ByRole -> "cache" [] op = "set_password" -> "spend"
                    [] OTHER -> "write"
AfterAllowed(op) == CASE op = "read" -> "answer" [] op \in ByRole -> "write" [] OTHER -> "check"
AfterWrite(op) == CASE op = "create_role" -> "grants" [] op = "create_tenant" -> "initialise"
                    [] OTHER -> "answer"

-----------------------------------------------------------------------------
(* The columns that matter. *)

\* Ids of the seed, of the rows requests insert, and of what a new tenant is given.
Id(table) == {i \in Ids(Seed) : i[1] = table} \cup {<<table, r>> : r \in Requests}
TenantIds == Id("tenant")
PermissionIds == Id("permission") \cup {"permission"} \X TenantIds \X Codes
RoleIds == Id("role") \cup {"role"} \X TenantIds \X (DOMAIN DEFAULT_ROLES)
GrantIds == Id("role_permission") \cup {"role_permission"} \X Requests \X Nat
            \cup {"role_permission"} \X TenantIds \X (DOMAIN DEFAULT_ROLES) \X Codes

TenantRow == [id : TenantIds, code : STRING, status : {"active", "suspended", "archived"}]
UserRow == [id : Id("app_user"), tenant : TenantIds, name : STRING, email : STRING,
            password : {None} \cup Requests, active : BOOLEAN]
RoleRow == [id : RoleIds, tenant : TenantIds, code : STRING, system : BOOLEAN, active : BOOLEAN]
PermissionRow == [id : PermissionIds, tenant : TenantIds, code : Codes]
RolePermissionRow ==
  [id : GrantIds, tenant : TenantIds, role : RoleIds, permission : PermissionIds]
UserRoleRow == [id : Id("user_role"), tenant : TenantIds, user : Id("app_user"), role : RoleIds]
TokenRow == [id : Id("token"), user : Id("app_user"), expires : Nat, used : BOOLEAN]
SubjectRow == [id : {"subject"} \X TenantIds, tenant : TenantIds]
AnyRow == TenantRow \cup UserRow \cup RoleRow \cup PermissionRow \cup RolePermissionRow
          \cup UserRoleRow \cup TokenRow \cup SubjectRow

\* The rows at the start have ids of their own, and none that a request is to insert.
ASSUME SeedAssumption ==
  /\ Seed \subseteq AnyRow
  /\ \A x, y \in Seed : x.id = y.id => x = y
  /\ \A x \in Seed : \A r \in Requests : x.id \notin {<<"app_user", r>>, <<"token", r>>}

\* What the routes' schemas let through: ids are those of the table they are looked up in.
ASSUME ScenariosAssumption ==
  \A f \in Scenarios : \A r \in Requests :
    /\ f[r].op \in Ops /\ f[r].tenant \in TenantIds /\ f[r].code \in STRING
    /\ f[r].codes \in Seq(Codes) /\ f[r].flag \in BOOLEAN
    /\ f[r].op \in OwnAccount => f[r].by \in Id("app_user")
    /\ f[r].op \in {"update_role", "delete_role", "assign_permission", "remove_permission"} =>
         f[r].target \in RoleIds
    /\ f[r].op \in {"delete_permission"} => f[r].target \in PermissionIds
    /\ f[r].op \in {"assign_permission", "remove_permission"} => f[r].other \in PermissionIds
    /\ f[r].op \in ByRole => f[r].target \in Id("app_user") /\ f[r].other \in RoleIds
    /\ f[r].op = "set_password" => f[r].target \in Id("token")
    /\ f[r].op = "update_tenant" =>
         f[r].target \in TenantIds /\ f[r].code \in {"active", "suspended", "archived"}
    /\ f[r].op = "create_permission" => f[r].codes # << >>

PCs == {"login", "authenticate", "tenant", "find_tenant", "keep_tenant", "user", "cache", "resolve", "keep", "check",
        "spend", "write", "grants", "grant", "initialise", "admin", "member", "issue", "answer",
        "commit", "done"}
Outcomes == {"none", "success", "unknown_tenant", "unauthenticated", "forbidden", "not_found",
             "invalid", "exists", "error", "aborted"}

\* The code require_permission names in each route.
Required ==
  [read |-> <<"subject", "read">>, create_role |-> <<"role", "create">>,
   update_role |-> <<"role", "update">>, delete_role |-> <<"role", "delete">>,
   assign_permission |-> <<"role", "manage_permissions">>,
   remove_permission |-> <<"role", "manage_permissions">>,
   create_permission |-> <<"permission", "create">>,
   delete_permission |-> <<"permission", "delete">>,
   create_user |-> <<"user", "create">>, update_tenant |-> <<"tenant", "update">>]

\* The code a request needs; for the role of an assignment, that of the admin role or another.
Need(r) ==
  IF call[r].op \notin ByRole THEN Required[call[r].op]
  ELSE IF Row(rows, call[r].other).code = "admin" THEN <<"user_role", "assign_admin">>
  ELSE <<"user_role", "update">>

TenantKey(r) == <<"tenant", call[r].tenant>>
PermissionKey(r) == <<"permission", call[r].tenant, call[r].by>>

Tenants == UNION {{f[r].tenant : r \in Requests} : f \in Scenarios}
Users == UNION {{f[r].by : r \in Requests} : f \in Scenarios}
CacheKeys == {<<"tenant", t>> : t \in Tenants} \cup
             {<<"permission", t, u>> : t \in Tenants, u \in Users}

\* Types; and a session that is not active holds nothing it might still commit.
TypeOK ==
  /\ rows \subseteq AnyRow /\ put \in [Requests -> SUBSET AnyRow]
  /\ gone \in [Requests -> SUBSET Ids(rows)]
  /\ session \in [Requests -> {"active", "inactive", "closed"}]
  /\ committed \subseteq Requests
  /\ now \in 0..MaxNow
  /\ \A k \in CacheKeys : cache[k] = None \/ cache[k].until \in Nat
  /\ call \in Scenarios
  /\ pc \in [Requests -> PCs] /\ outcome \in [Requests -> Outcomes]
  /\ readAt \in [Requests -> 0..MaxNow] /\ decidedAt \in [Requests -> 0..MaxNow]
  /\ codesDone \in [Requests -> Nat]
  /\ lastHeld \in [Users \X Codes -> (0..MaxNow) \cup {None}]
  /\ lastAbsent \in [Tenants -> (0..MaxNow) \cup {None}]
  /\ \A r \in Requests : session[r] # "active" => put[r] = {} /\ gone[r] = {} /\ audited[r] = {}

HeldNow(s, t, old) ==
  LET held == [u \in Users |-> UNION {Granted(s, x, u) : x \in Tenants}] IN
  [h \in Users \X Codes |-> IF h[2] \in held[h[1]] THEN t ELSE old[h]]
AbsentNow(s, t, old) == [x \in Tenants |-> IF x \in Ids(s) THEN old[x] ELSE t]

Init ==
  /\ InitStore(Seed)
  /\ cache = [k \in CacheKeys |-> None]
  /\ now = 0
  /\ call \in Scenarios
  /\ pc = [r \in Requests |-> FirstStep(call[r].op)]
  /\ got = [r \in Requests |-> None]
  /\ readAt = [r \in Requests |-> 0]
  /\ outcome = [r \in Requests |-> "none"]
  /\ codesDone = [r \in Requests |-> 0]
  /\ decidedAt = [r \in Requests |-> 0]
  /\ lastHeld = HeldNow(Seed, 0, [h \in Users \X Codes |-> None])
  /\ lastAbsent = AbsentNow(Seed, 0, [x \in Tenants |-> None])

Goto(r, p) == pc' = [pc EXCEPT ![r] = p] /\ UNCHANGED <<outcome, history>>
Fail(r, o) ==
  /\ Drop(r, "closed")
  /\ pc' = [pc EXCEPT ![r] = "done"]
  /\ outcome' = [outcome EXCEPT ![r] = o]
  /\ UNCHANGED history
Record ==
  /\ lastHeld' = HeldNow(rows', now', lastHeld)
  /\ lastAbsent' = AbsentNow(rows', now', lastAbsent)
Keep == UNCHANGED <<store, process, local>>

-----------------------------------------------------------------------------
(* The way into a protected route. *)

\* Mutants: SET without its time to live, or with one that a read renews.
CacheSet_NoExpiry(k, value, ttl) ==
  cache' = [cache EXCEPT ![k] = [value |-> value, until |-> MaxNow + ttl]]
Hit_Renewed(k) == cache[k] # None

\* CacheService.get and .set.  A get may miss what is there (an error, no connection, or none
\* any more since a reconnection failed), so a set need not fail in the model.
Hit(k) == cache[k] # None /\ now < cache[k].until
CacheSet(k, value, ttl) == cache' = [cache EXCEPT ![k] = [value |-> value, until |-> now + ttl]]

Admit(r, known, p) ==
  IF known THEN Goto(r, p) /\ UNCHANGED <<store, decidedAt>>
  ELSE Fail(r, "unknown_tenant") /\ decidedAt' = [decidedAt EXCEPT ![r] = now]

LookUpTenant(r) ==
  /\ pc[r] = "tenant"
  /\ \/ Hit(TenantKey(r)) /\ Admit(r, cache[TenantKey(r)].value, "user")
     \/ Goto(r, "find_tenant") /\ UNCHANGED <<store, decidedAt>>
  /\ UNCHANGED <<process, call, got, readAt, codesDone>>

FindTenant(r) ==
  /\ pc[r] = "find_tenant"
  /\ got' = [got EXCEPT ![r] = call[r].tenant \in Ids(rows)]
  /\ readAt' = [readAt EXCEPT ![r] = now]
  /\ Goto(r, "keep_tenant")
  /\ UNCHANGED <<store, process, call, codesDone, decidedAt>>

KeepTenant(r) ==
  /\ pc[r] = "keep_tenant"
  /\ CacheSet(TenantKey(r), got[r], TENANT_TTL)
  /\ Admit(r, got[r], "user")
  /\ UNCHANGED <<now, call, got, readAt, codesDone>>

CurrentUser(r) ==
  /\ pc[r] = "user"
  /\ LET user == {u \in rows : u.id = call[r].by /\ u.active} IN
     IF user = {} THEN Fail(r, "unauthenticated")
     ELSE IF call[r].op \in DOMAIN Required /\ \A u \in user : u.tenant # call[r].tenant
     THEN Fail(r, "forbidden")
     ELSE Goto(r, AfterUser(call[r].op)) /\ UNCHANGED store
  /\ UNCHANGED <<process, local>>

Decide(r, perms) ==
  /\ decidedAt' = [decidedAt EXCEPT ![r] = now]
  /\ IF Allows(perms, Need(r)) THEN Goto(r, AfterAllowed(call[r].op)) /\ UNCHANGED store
                               ELSE Fail(r, "forbidden")

GetPermissions(r) ==
  /\ pc[r] = "cache"
  /\ \/ Hit(PermissionKey(r)) /\ Decide(r, cache[PermissionKey(r)].value)
     \/ Goto(r, "resolve") /\ UNCHANGED <<store, decidedAt>>
  /\ UNCHANGED <<process, call, got, readAt, codesDone>>

ResolvePermissions(r) ==
  /\ pc[r] = "resolve"
  /\ got' = [got EXCEPT ![r] = Granted(rows, call[r].tenant, call[r].by)]
  /\ readAt' = [readAt EXCEPT ![r] = now]
  /\ Goto(r, "keep")
  /\ UNCHANGED <<store, process, call, codesDone, decidedAt>>

KeepPermissions(r) ==
  /\ pc[r] = "keep"
  /\ CacheSet(PermissionKey(r), got[r], PERMISSION_TTL)
  /\ Decide(r, got[r])
  /\ UNCHANGED <<now, call, got, readAt, codesDone>>

-----------------------------------------------------------------------------
(* The routes. *)

\* Why each route answers before it writes, or "none".
Missing(s, i) == i \notin Ids(s)

\* The session a route looks its rows up with: get_.._repo has one of its own for each request,
\* which sees what is committed, get_.._repo_for_write the transaction of the write.
ReadsCommitted == {"assign_permission", "remove_permission", "assign_role", "remove_role",
                   "register"}
Seen(r) == IF call[r].op \in ReadsCommitted THEN rows ELSE View(r)

Found(r) == IF Missing(Seen(r), call[r].target) THEN "not_found" ELSE "none"
BothFound(r) == IF Missing(Seen(r), call[r].target) \/ Missing(Seen(r), call[r].other)
                THEN "not_found" ELSE "none"
RoleCodeTaken(r) == Find(View(r), "role", call[r].tenant, call[r].code) # {}
PermissionCodeTaken(r) == Find(View(r), "permission", call[r].tenant, call[r].codes[1]) # {}
TenantCodeTaken(r) == \E x \in Of(View(r), "tenant") : x.code = call[r].code

RefuseUpdateRole(r) ==
  IF Found(r) = "none" /\ Row(View(r), call[r].target).system THEN "invalid" ELSE Found(r)
RefuseDeleteRole(r) ==
  IF Found(r) = "none" /\ Row(View(r), call[r].target).system THEN "not_found" ELSE Found(r)
RefuseCreateRole(r) == IF RoleCodeTaken(r) THEN "invalid" ELSE "none"
RefuseRemovePermission(r) == Found(r)
RefuseRemoveRole(r) == IF Missing(Seen(r), call[r].other) THEN "not_found" ELSE "none"
RefuseRegister(r) == IF Missing(Seen(r), call[r].tenant) THEN "invalid" ELSE "none"
RefuseOwnAccount(r) == IF Missing(Seen(r), call[r].by) THEN "not_found" ELSE "none"

\* Mutant: a token is refused when it has expired, and used again when it has not.
RefuseToken_Expiry(r) ==
  IF \E x \in Of(View(r), "token") : x.id = call[r].target /\ now < x.expires
  THEN "none" ELSE "invalid"

RefuseToken(r) ==
  IF \E x \in Of(View(r), "token") : x.id = call[r].target /\ ~x.used /\ now < x.expires
  THEN "none" ELSE "invalid"

Refusal(r) ==
  CASE call[r].op = "create_role" -> RefuseCreateRole(r)
    [] call[r].op = "create_permission" -> IF PermissionCodeTaken(r) THEN "invalid" ELSE "none"
    [] call[r].op = "create_tenant" -> IF TenantCodeTaken(r) THEN "exists" ELSE "none"
    [] call[r].op = "register" -> RefuseRegister(r)
    [] call[r].op = "update_role" -> RefuseUpdateRole(r)
    [] call[r].op = "delete_role" -> RefuseDeleteRole(r)
    [] call[r].op \in {"delete_permission", "update_tenant"} -> Found(r)
    [] call[r].op \in {"assign_permission", "assign_role"} -> BothFound(r)
    [] call[r].op = "remove_permission" -> RefuseRemovePermission(r)
    [] call[r].op = "remove_role" -> RefuseRemoveRole(r)
    [] call[r].op \in OwnAccount -> RefuseOwnAccount(r)
    [] call[r].op = "set_password" -> RefuseToken(r)
    [] OTHER -> "none"

Check(r) ==
  /\ pc[r] = "check"
  /\ IF Refusal(r) = "none" THEN Goto(r, AfterCheck(call[r].op)) /\ UNCHANGED store
                            ELSE Fail(r, Refusal(r))
  /\ UNCHANGED <<process, local>>

Inserts == {"create_role", "create_permission", "create_user", "register", "assign_permission",
            "assign_role", "create_tenant"}
Removals == {"remove_permission", "remove_role"}

Written(r) ==
  CASE call[r].op \in Inserts -> {NewRow(r)}
    [] call[r].op \in Removals \cup {"delete_permission"} -> {}
    [] OTHER -> {Assigned(r, Row(View(r), Subject(r)))}

Deleted(r) ==
  Cascade(View(r), CASE call[r].op \in Removals -> Ids(Assignment(r))
                     [] call[r].op = "delete_permission" -> {call[r].target}
                     [] OTHER -> {})

\* The tenants whose audit chain the write extends; the insert of a tenant is not audited.
AuditOf(r) ==
  CASE call[r].op = "create_tenant" -> {}
    [] call[r].op = "update_tenant" ->
         IF Row(View(r), call[r].target).status = call[r].code THEN {} ELSE {call[r].target}
    [] call[r].op \in OwnAccount \cup {"set_password"} -> {Row(View(r), Subject(r)).tenant}
    [] OTHER -> {call[r].tenant}

\* What an IntegrityError becomes, in the repository or in the route.
IntegrityAnswer(op) ==
  CASE op \in {"create_permission", "register", "assign_permission"} -> "invalid"
    [] op \in {"create_user", "assign_role", "create_tenant", "update_me"} -> "exists"
    [] OTHER -> "error"

\* These answer without another look at the session that a refused audit event has killed.
Unaware == {"create_role", "create_permission", "create_user", "register", "delete_me"}

\* The rows a write is for have been deleted since they were looked up.
Stale(r) == /\ call[r].op \notin Inserts \cup Removals
            /\ Subject(r) \notin Ids(View(r))

Write(r) ==
  /\ pc[r] = "write"
  /\ UNCHANGED <<process, local>>
  /\ \/ Stale(r) /\ Fail(r, "error")
     \/ call[r].op \in Removals /\ Assignment(r) = {} /\ Fail(r, "not_found")
     \/ /\ ~Stale(r) /\ (call[r].op \in Removals => Assignment(r) # {})
        /\ \/ Flush(r, Written(r), Deleted(r), AuditOf(r)) /\ Goto(r, AfterWrite(call[r].op))
           \/ /\ IntegrityError(r, Written(r), Deleted(r))
              /\ Fail(r, IntegrityAnswer(call[r].op))
           \/ /\ AuditRefused(r, Written(r), Deleted(r), AuditOf(r))
              /\ IF call[r].op \in Unaware
                 THEN Drop(r, "inactive") /\ Goto(r, AfterWrite(call[r].op))
                 ELSE Fail(r, "error")

\* POST /login: the tenant by its code, its user by name, the password; and the claims of the
\* token, which no later change takes back (a request with the token looks its user up again).
LoginTenant(r) ==
  LET tenant == {x \in Of(rows, "tenant") : x.code = call[r].target} IN
  /\ pc[r] = "login"
  /\ IF tenant = {} THEN Fail(r, "unauthenticated") /\ UNCHANGED got
     ELSE /\ got' = [got EXCEPT ![r] = (CHOOSE x \in tenant : TRUE).id]
          /\ Goto(r, "authenticate") /\ UNCHANGED store
  /\ UNCHANGED <<process, call, readAt, codesDone, decidedAt>>

VerifyPassword(r, u) == u.password = call[r].other

Authenticated(r) ==
  {u \in Of(rows, "app_user") :
     u.tenant = got[r] /\ u.name = call[r].code /\ u.active /\ VerifyPassword(r, u)}

AccessToken(u) == [sub |-> u.id, tenant |-> u.tenant]

Authenticate(r) ==
  LET user == Authenticated(r) IN
  /\ pc[r] = "authenticate"
  /\ IF user = {} THEN Fail(r, "unauthenticated") /\ UNCHANGED got
     ELSE /\ got' = [got EXCEPT ![r] = AccessToken(CHOOSE u \in user : TRUE)]
          /\ Goto(r, "answer") /\ UNCHANGED store
  /\ UNCHANGED <<process, call, readAt, codesDone, decidedAt>>

\* RoleService: the permissions of a new role, one by one.  assign_permission_to_role takes
\* every IntegrityError for a duplicate and rolls the whole transaction back; the service
\* passes over the exception, and the session of its later calls is closed.
FindCode(r) ==
  /\ pc[r] = "grants"
  /\ IF codesDone[r] = Len(call[r].codes)
     THEN Goto(r, "answer") /\ Keep
     ELSE LET found == Find(rows, "permission", call[r].tenant, call[r].codes[codesDone[r] + 1]) IN
          IF found = {} THEN Fail(r, "invalid") /\ UNCHANGED <<process, local>>
          ELSE /\ got' = [got EXCEPT ![r] = (CHOOSE p \in found : TRUE).id]
               /\ Goto(r, "grant")
               /\ UNCHANGED <<store, process, call, codesDone, readAt, decidedAt>>

Grant(r) ==
  LET new == {NewRolePermission(r, codesDone[r], <<"role", r>>, got[r])}
      chain == {call[r].tenant} IN
  /\ pc[r] = "grant"
  /\ UNCHANGED <<process, call, got, readAt, decidedAt>>
  /\ \/ /\ session[r] # "active" \/ AuditRefused(r, new, {}, chain)
        /\ Fail(r, "error") /\ UNCHANGED codesDone
     \/ /\ Flush(r, new, {}, chain) \/ (IntegrityError(r, new, {}) /\ Drop(r, "closed"))
        /\ codesDone' = [codesDone EXCEPT ![r] = @ + 1] /\ Goto(r, "grants")

\* TenantCreationService after the tenant's row: what every tenant has, its first user, that
\* user's role and the token, the audit event.
CreateTenantStep(r, at, new, audits, next) ==
  /\ pc[r] = at
  /\ Flush(r, new, {}, audits)
  /\ Goto(r, next)
  /\ UNCHANGED <<process, local>>

Initialise(r) ==
  LET t == <<"tenant", r>> IN
  CreateTenantStep(r, "initialise", BuildPermissions(t) \cup BuildRoles(t) \cup AuditSubject(t), {},
                   "admin")
CreateAdmin(r) == CreateTenantStep(r, "admin", {AdminOf(r)}, {<<"tenant", r>>}, "member")
AssignAdminRole(r) == CreateTenantStep(r, "member", {AdminRoleOf(r)}, {}, "issue")
IssueToken(r) == CreateTenantStep(r, "issue", {TokenOf(r)}, {<<"tenant", r>>}, "answer")

\* PasswordSetTokenStore.redeem, after its select: used_at is set whatever it is by now.
Spend(r) ==
  LET token == {[Row(View(r), call[r].target) EXCEPT !.used = TRUE]} IN
  /\ pc[r] = "spend"
  /\ Flush(r, token, {}, {})
  /\ Goto(r, "write")
  /\ UNCHANGED <<process, local>>

Answer(r) ==
  /\ pc[r] = "answer"
  /\ pc' = [pc EXCEPT ![r] = "commit"]
  /\ outcome' = [outcome EXCEPT ![r] = "success"]
  /\ Keep /\ UNCHANGED history

Commit(r) ==
  /\ pc[r] = "commit"
  /\ Close(r)
  /\ pc' = [pc EXCEPT ![r] = "done"]
  /\ UNCHANGED <<process, local, outcome>>
  /\ Record

-----------------------------------------------------------------------------

\* The request takes too long and is cancelled, or its process dies, with something written: even
\* between the answer and the commit.  (Before that it is as good as never resumed.)
Abort(r) ==
  /\ pc[r] # "done" /\ put[r] \cup gone[r] # {}
  /\ Fail(r, IF outcome[r] = "none" THEN "aborted" ELSE outcome[r])
  /\ UNCHANGED <<process, local>>

Tick ==
  /\ now < MaxNow
  /\ \A r \in Requests : pc[r] \in {"keep_tenant", "keep"} => now - readAt[r] < MaxFlight
  /\ now' = now + 1
  /\ UNCHANGED <<store, cache, local, pc, outcome>>
  /\ Record

Step(r) ==
  \/ LookUpTenant(r) \/ FindTenant(r) \/ KeepTenant(r) \/ CurrentUser(r)
  \/ GetPermissions(r) \/ ResolvePermissions(r) \/ KeepPermissions(r)
  \/ Check(r) \/ Write(r) \/ FindCode(r) \/ Grant(r) \/ Spend(r)
  \/ Initialise(r) \/ CreateAdmin(r) \/ AssignAdminRole(r) \/ IssueToken(r)
  \/ LoginTenant(r) \/ Authenticate(r)
  \/ Answer(r) \/ Commit(r)

\* The system really stops once every request is done and the clock at its bound.
AllDone == (\A r \in Requests : pc[r] = "done") /\ now = MaxNow /\ UNCHANGED vars

Next == (\E r \in Requests : Step(r) \/ Abort(r)) \/ Tick \/ AllDone

Spec == Init /\ [][Next]_vars

-----------------------------------------------------------------------------
(* Properties. *)

Since(t, when) == t # None /\ t >= when

\* Nothing tells the cache of a revocation (a role taken away or deactivated, a permission
\* taken from a role or deleted): but whoever is let in held the permission at some time no
\* longer ago than an entry lives, plus the time its value was on the way into the cache.
RevocationTakesEffect ==
  \A r \in Requests :
    outcome[r] = "success" /\ call[r].op = "read" =>
      \E c \in Codes : /\ Allows({c}, Required["read"])
                       /\ Since(lastHeld[<<call[r].by, c>>],
                                decidedAt[r] - PERMISSION_TTL - MaxFlight + 1)

\* A tenant that get_tenant_id does not know was not there shortly before: the marker it keeps
\* for unknown tenants outlives the creation, but no longer than its own time.
UnknownTenantWasAbsent ==
  \A r \in Requests :
    outcome[r] = "unknown_tenant" =>
      Since(lastAbsent[call[r].tenant], decidedAt[r] - TENANT_TTL - MaxFlight + 1)

\* A tenant is created whole or not at all, wherever its creation fails: it has the subject of
\* its audit chain, a user in the role that may do everything, and no default role but that
\* one may export or erase.
TenantIsComplete ==
  \A t \in {x \in Of(rows, "tenant") : x.id \notin Ids(Seed)} :
    LET u == <<"app_user", t.id[2]>>
        codes(role) == {p.code : p \in {x \in Of(rows, "permission") :
          \E rp \in Of(rows, "role_permission") : rp.role = role /\ rp.permission = x.id}} IN
    /\ <<"subject", t.id>> \in Ids(rows)
    /\ <<"token", t.id[2]>> \in Ids(rows)
    /\ Allows(Granted(rows, t.id, u), <<"tenant", "delete">>)
    /\ \A x \in Of(rows, "role"), c \in GDPR_SENSITIVE_PERMISSIONS :
         x.tenant = t.id /\ x.code # "admin" => ~Allows(codes(x.id), c)

\* A user who has been deactivated stays so: an update of the account that was read before,
\* and is written after, sets only what it has changed.
DeactivationIsFinal ==
  [][\A x \in Of(rows, "app_user") : ~x.active => \A y \in rows' : y.id = x.id => ~y.active]_vars

\* A token that has set a password, in a transaction that was committed, is never taken for a
\* valid one again, by a request that looks it up after that.  (Requests that overlap may both
\* find it unused.)
SpentTokenServesNoLater ==
  [][\A r, q \in Requests :
       /\ call[r].op = "set_password" /\ pc[r] = "check" /\ pc'[r] = "spend"
       /\ call[q].op = "set_password" /\ q \in committed
       => call[q].target # call[r].target]_vars

===============================================================================
