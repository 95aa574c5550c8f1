----------------------------- MODULE Access_proofs -----------------------------
(***************************************************************************)
(* Proofs about Access, for every number of requests, every call, every seed  *)
(* and every time to live: how long a revocation takes, whom the marker for  *)
(* unknown tenants keeps out, and what a deactivation and a used token are    *)
(* worth.                                                                  *)
(***************************************************************************)
EXTENDS Access, TLAPS

\* Types of what TypeOK leaves open.
Types ==
  /\ TypeOK
  /\ DOMAIN audited = Requests /\ DOMAIN got = Requests /\ DOMAIN cache = CacheKeys

-----------------------------------------------------------------------------
(* Where a request is. *)

WayIn == {"tenant", "find_tenant", "keep_tenant", "user", "cache", "resolve", "keep"}
Ending == {"answer", "commit", "done"}

\* Until here, nothing has been written.
Unwritten(r) == pc[r] \in WayIn \cup {"login", "authenticate", "check"}

PathInv(r) ==
  /\ r \in committed => pc[r] = "done"
  /\ outcome[r] # "none" => pc[r] \in {"commit", "done"}
  /\ Unwritten(r) => put[r] = {} /\ gone[r] = {}
  /\ call[r].op = "idle" => pc[r] = "done"
  /\ call[r].op = "read" => pc[r] \in WayIn \cup Ending
  /\ call[r].op = "login" => pc[r] \in {"login", "authenticate"} \cup Ending
  /\ call[r].op = "set_password" => pc[r] \in {"check", "spend", "write"} \cup Ending
  /\ pc[r] = "spend" => call[r].op = "set_password"
  /\ pc[r] = "grant" => got[r] \in PermissionIds

-----------------------------------------------------------------------------
(* The tables. *)

Touched(r) == gone[r] \cup Ids(put[r])

\* The ids of the user and of the token that only r inserts.
Own(r) == {<<"app_user", r>>, <<"token", r>>}

\* Every row has an id of its own; no two transactions hold the same row; users and tokens are
\* never deleted, and what a request inserts is there no sooner than it has committed.
StoreInv ==
  /\ \A x, y \in rows : x.id = y.id => x = y
  /\ \A r \in Requests : \A x, y \in put[r] : x.id = y.id => x = y
  /\ \A q, r \in Requests : q # r => Touched(q) \cap Touched(r) = {}
  /\ \A r \in Requests : \A i \in gone[r] : i[1] \notin {"app_user", "token"}
  /\ \A x \in rows : \A r \in Requests : x.id \in Own(r) => r \in committed

\* A user who was deactivated stays so, and a token that was used.
Keeps(x, y) ==
  /\ y.id = x.id
  /\ y.id[1] = "app_user" /\ ~x.active => ~y.active
  /\ y.id[1] = "token" /\ x.used => y.used

\* A written user or token is the request's own new one, or keeps what the committed one says.
WriteInv(r) ==
  \A y \in put[r] : y.id[1] \in {"app_user", "token"} =>
    y.id \in Own(r) \/ \E x \in rows : Keeps(x, y)

\* The token a password is set with is there, and is used by the time the password is written.
UsedIn(s, i) == \E x \in s : x.id = i /\ x.used
TokenInv(r) ==
  call[r].op = "set_password" =>
    /\ pc[r] \in {"spend", "write", "answer", "commit"} => call[r].target \in Ids(rows)
    /\ pc[r] \in {"write", "answer", "commit"} /\ session[r] = "active" =>
         UsedIn(put[r], call[r].target)
    /\ r \in committed => UsedIn(rows, call[r].target)

-----------------------------------------------------------------------------
(* The caches. *)

Held(u, c) == c \in UNION {Granted(rows, t, u) : t \in Tenants}

\* What is so now is on record for now.
RecordInv ==
  /\ \A u \in Users : \A c \in Codes : Held(u, c) => lastHeld[<<u, c>>] = now
  /\ \A t \in Tenants : t \notin Ids(rows) => lastAbsent[t] = now
  /\ \A u \in Users : \A c \in Codes : lastHeld[<<u, c>>] = None \/ lastHeld[<<u, c>>] <= now
  /\ \A t \in Tenants : lastAbsent[t] = None \/ lastAbsent[t] <= now

\* A user held all these permissions, or a tenant was unknown, at that time or later.
HeldSince(u, perms, when) == \A c \in perms : c \in Codes /\ Since(lastHeld[<<u, c>>], when)
KnownOr(t, known, when) == known \in BOOLEAN /\ (known \/ Since(lastAbsent[t], when))

\* An entry is no older than its time to live and its way into the cache.
CacheInv ==
  \A t \in Tenants :
    /\ LET e == cache[<<"tenant", t>>] IN
       e # None => e.until \in Nat /\ KnownOr(t, e.value, e.until - TENANT_TTL - MaxFlight)
    /\ \A u \in Users :
       LET e == cache[<<"permission", t, u>>] IN
       e # None => e.until \in Nat /\ HeldSince(u, e.value, e.until - PERMISSION_TTL - MaxFlight)

\* What a request has read and is about to keep.
FlightInv(r) ==
  /\ pc[r] \in {"keep_tenant", "keep"} => readAt[r] <= now /\ now <= readAt[r] + MaxFlight
  /\ pc[r] = "keep_tenant" => KnownOr(call[r].tenant, got[r], readAt[r])
  /\ pc[r] = "keep" => HeldSince(call[r].by, got[r], readAt[r])

MayRead(u, when) ==
  \E c \in Codes : Allows({c}, Required["read"])
                   /\ Since(lastHeld[<<u, c>>], when - PERMISSION_TTL - MaxFlight + 1)
WasAbsent(t, when) == Since(lastAbsent[t], when - TENANT_TTL - MaxFlight + 1)

\* What let a request in, or kept it out.
DecisionInv(r) ==
  /\ call[r].op = "read" /\ (pc[r] \in {"answer", "commit"} \/ outcome[r] = "success") =>
       MayRead(call[r].by, decidedAt[r])
  /\ outcome[r] = "unknown_tenant" => WasAbsent(call[r].tenant, decidedAt[r])

Inv ==
  /\ Types /\ StoreInv /\ RecordInv /\ CacheInv
  /\ \A r \in Requests : /\ PathInv(r) /\ WriteInv(r) /\ TokenInv(r)
                         /\ FlightInv(r) /\ DecisionInv(r)

-----------------------------------------------------------------------------
(* Rows and their ids. *)

LEMMA IdTable == ASSUME NEW t, NEW i \in Id(t) PROVE i[1] = t
  BY DEF Id

LEMMA Kinds ==
  /\ \A x \in TenantRow : x.id[1] = "tenant"
  /\ \A x \in UserRow : x.id[1] = "app_user"
  /\ \A x \in RoleRow : x.id[1] = "role"
  /\ \A x \in PermissionRow : x.id[1] = "permission"
  /\ \A x \in RolePermissionRow : x.id[1] = "role_permission"
  /\ \A x \in UserRoleRow : x.id[1] = "user_role"
  /\ \A x \in TokenRow : x.id[1] = "token"
  /\ \A x \in SubjectRow : x.id[1] = "subject"
<1>1. \A x \in TenantRow : x.id[1] = "tenant" BY IdTable DEF TenantRow, TenantIds
<1>2. \A x \in UserRow : x.id[1] = "app_user" BY IdTable DEF UserRow
<1>3. \A x \in RoleRow : x.id[1] = "role" BY IdTable DEF RoleRow, RoleIds
<1>4. \A x \in PermissionRow : x.id[1] = "permission" BY IdTable DEF PermissionRow, PermissionIds
<1>5. \A x \in RolePermissionRow : x.id[1] = "role_permission"
  BY IdTable DEF RolePermissionRow, GrantIds
<1>6. \A x \in UserRoleRow : x.id[1] = "user_role" BY IdTable DEF UserRoleRow
<1>7. \A x \in TokenRow : x.id[1] = "token" BY IdTable DEF TokenRow
<1>8. \A x \in SubjectRow : x.id[1] = "subject" BY DEF SubjectRow
<1> QED BY <1>1, <1>2, <1>3, <1>4, <1>5, <1>6, <1>7, <1>8

LEMMA Sorts ==
  ASSUME NEW x \in AnyRow
  PROVE  /\ x.id[1] = "tenant" <=> x \in TenantRow
         /\ x.id[1] = "app_user" <=> x \in UserRow
         /\ x.id[1] = "role" <=> x \in RoleRow
         /\ x.id[1] = "permission" <=> x \in PermissionRow
         /\ x.id[1] = "role_permission" <=> x \in RolePermissionRow
         /\ x.id[1] = "user_role" <=> x \in UserRoleRow
         /\ x.id[1] = "token" <=> x \in TokenRow
  BY Kinds DEF AnyRow

LEMMA RowIs ==
  ASSUME NEW s, NEW i \in Ids(s)
  PROVE  Row(s, i) \in s /\ Row(s, i).id = i
  BY DEF Row, Ids

\* A request that has written nothing sees the committed rows.
LEMMA ViewOfNothing ==
  ASSUME NEW r \in Requests, put[r] = {}, gone[r] = {}
  PROVE  View(r) = rows
  BY DEF View, Ids

LEMMA ViewIsTyped ==
  ASSUME TypeOK, NEW r \in Requests
  PROVE  View(r) \subseteq AnyRow
  BY DEF View, TypeOK

\* A deletion takes assignments and grants along, but no user and no token.
Deletable(s) == \A i \in s : i[1] \in {"permission", "role_permission", "user_role"}

LEMMA DependentsOfDeletable ==
  ASSUME NEW s \in SUBSET AnyRow, NEW del, Deletable(del)
  PROVE  Deletable(Dependents(s, del))
<1> SUFFICES ASSUME NEW y \in s, Owners(y) \cap del # {}
             PROVE  y.id[1] \in {"permission", "role_permission", "user_role"}
  BY DEF Dependents, Deletable
<1>1. CASE y.id[1] = "token"
  <2>1. y.user[1] = "app_user" BY <1>1, Sorts, IdTable DEF TokenRow
  <2>2. Owners(y) = {y.user} BY <1>1 DEF Owners, Table, TokenTable, T
  <2> QED BY <2>1, <2>2 DEF Deletable
<1>2. CASE y.id[1] \in {"tenant", "role", "app_user", "permission"}
  <2>1. Owners(y) = {} BY <1>2 DEF Owners, Table, TenantTable, RoleTable, UserTable, PermissionTable, T
  <2> QED BY <2>1
<1>3. CASE y.id[1] \in {"role_permission", "user_role"}
  BY <1>3
<1>4. CASE y.id[1] = "subject"
  <2>1. Owners(y) = {} BY <1>4 DEF Owners, Table, T
  <2> QED BY <2>1
<1> QED BY <1>1, <1>2, <1>3, <1>4, Kinds DEF AnyRow

LEMMA CascadeOfDeletable ==
  ASSUME NEW s \in SUBSET AnyRow, NEW del, Deletable(del)
  PROVE  Deletable(Cascade(s, del))
<1> DEFINE one == del \cup Dependents(s, del)
<1>1. Deletable(one) BY DependentsOfDeletable DEF Deletable
<1>2. Deletable(Dependents(s, one)) BY <1>1, DependentsOfDeletable
<1> QED BY <1>1, <1>2 DEF Cascade, Deletable

-----------------------------------------------------------------------------
(* What a step does, in short. *)

StoreTypes ==
  /\ rows \subseteq AnyRow /\ put \in [Requests -> SUBSET AnyRow]
  /\ gone \in [Requests -> SUBSET Ids(rows)] /\ DOMAIN audited = Requests
  /\ session \in [Requests -> {"active", "inactive", "closed"}]
  /\ committed \subseteq Requests
  /\ \A r \in Requests : session[r] # "active" => put[r] = {} /\ gone[r] = {} /\ audited[r] = {}

ControlTypes ==
  /\ call \in Scenarios
  /\ pc \in [Requests -> PCs] /\ outcome \in [Requests -> Outcomes]
  /\ readAt \in [Requests -> 0..MaxNow] /\ decidedAt \in [Requests -> 0..MaxNow]
  /\ codesDone \in [Requests -> Nat] /\ DOMAIN got = Requests

CacheTypes ==
  /\ now \in 0..MaxNow /\ DOMAIN cache = CacheKeys
  /\ \A k \in CacheKeys : cache[k] = None \/ cache[k].until \in Nat
  /\ lastHeld \in [Users \X Codes -> (0..MaxNow) \cup {None}]
  /\ lastAbsent \in [Tenants -> (0..MaxNow) \cup {None}]

LEMMA TypesAre == Types <=> StoreTypes /\ ControlTypes /\ CacheTypes
  BY DEF Types, TypeOK, StoreTypes, ControlTypes, CacheTypes

\* The part of PathInv that is about control alone.
FlowInv(r) ==
  /\ outcome[r] # "none" => pc[r] \in {"commit", "done"}
  /\ call[r].op = "idle" => pc[r] = "done"
  /\ call[r].op = "read" => pc[r] \in WayIn \cup Ending
  /\ call[r].op = "login" => pc[r] \in {"login", "authenticate"} \cup Ending
  /\ call[r].op = "set_password" => pc[r] \in {"check", "spend", "write"} \cup Ending
  /\ pc[r] = "spend" => call[r].op = "set_password"
  /\ pc[r] = "grant" => got[r] \in PermissionIds

\* Nobody but r moves.
Moves(r) ==
  /\ pc[r] # "done" /\ call' = call
  /\ ControlTypes' /\ FlowInv(r)'
  /\ \A q \in Requests \ {r} :
       /\ pc'[q] = pc[q] /\ outcome'[q] = outcome[q] /\ got'[q] = got[q]
       /\ readAt'[q] = readAt[q] /\ decidedAt'[q] = decidedAt[q]

\* A row that r may write: its own new user or token, one that keeps what it has seen of them, or
\* another one.
Sound(r, y) ==
  /\ y \in AnyRow
  /\ y.id[1] \in {"app_user", "token"} => y.id \in Own(r) \/ \E x \in View(r) : Keeps(x, y)

\* r only looks; it loses what it has written; it writes; it commits.
Idles(r) == UNCHANGED store /\ (Unwritten(r)' => Unwritten(r))
Loses(r) == (\E as \in {"inactive", "closed"} : Drop(r, as)) /\ ~Unwritten(r)'
Puts(r, new, del) ==
  /\ \E tenants : Flush(r, new, del, tenants)
  /\ ~Unwritten(r)'
  /\ \A y \in new : Sound(r, y)
  /\ \A x, y \in new : x.id = y.id => x = y
  /\ Deletable(del)
Commits(r) == session[r] = "active" /\ Close(r) /\ pc[r] = "commit" /\ pc'[r] = "done"

Works(r) ==
  /\ Moves(r)
  /\ Idles(r) \/ Loses(r) \/ (\E new, del : Puts(r, new, del)) \/ Commits(r)

\* What is about the store.
Stored == StoreTypes /\ StoreInv /\ \A r \in Requests : PathInv(r) /\ WriteInv(r)

LEMMA PathIs ==
  ASSUME NEW r \in Requests
  PROVE  PathInv(r) <=> /\ FlowInv(r)
                        /\ r \in committed => pc[r] = "done"
                        /\ Unwritten(r) => put[r] = {} /\ gone[r] = {}
  BY DEF PathInv, FlowInv

-----------------------------------------------------------------------------
(* The store. *)

LEMMA IdlesKeepStore ==
  ASSUME Stored, ControlTypes, NEW r \in Requests, Moves(r), Idles(r)
  PROVE  Stored'
<1>0. /\ rows' = rows /\ put' = put /\ gone' = gone /\ audited' = audited /\ session' = session
      /\ committed' = committed /\ call' = call
  BY DEF Idles, store, Moves
<1>1. StoreTypes'
  <2>1. StoreTypes BY DEF Stored
  <2> QED BY ONLY <1>0, <2>1 DEF StoreTypes, Ids
<1>2. StoreInv'
  <2>1. \A q : Touched(q)' = Touched(q) BY ONLY <1>0 DEF Touched, Ids
  <2>2. StoreInv BY DEF Stored
  <2> QED BY ONLY <1>0, <2>1, <2>2 DEF StoreInv, Own
<1>3. ASSUME NEW q \in Requests PROVE PathInv(q)' /\ WriteInv(q)'
  <2>1. WriteInv(q) /\ PathInv(q) BY DEF Stored
  <2>2. WriteInv(q)' BY <1>0, <2>1 DEF WriteInv, Own
  <2>3. PathInv(q)'
    <3>1. CASE q = r
      <4>1. FlowInv(q)' /\ pc[q] # "done" BY <3>1 DEF Moves
      <4>2. (Unwritten(q)' => Unwritten(q)) BY <3>1 DEF Idles
      <4> QED BY <1>0, <2>1, <4>1, <4>2 DEF PathInv, FlowInv
    <3>2. CASE q # r
      <4>1. pc'[q] = pc[q] /\ outcome'[q] = outcome[q] /\ got'[q] = got[q]
        BY <3>2 DEF Moves
      <4> QED BY <1>0, <2>1, <4>1 DEF PathInv, Unwritten
    <3> QED BY <3>1, <3>2
  <2> QED BY <2>2, <2>3
<1> QED BY <1>1, <1>2, <1>3 DEF Stored

\* What the others are at, and r where it goes on.
LEMMA PathsOfOthers ==
  ASSUME Stored, ControlTypes, NEW r \in Requests, Moves(r), committed' \in {committed, committed \cup {r}},
         r \in committed' => pc'[r] = "done", Unwritten(r)' => put'[r] = {} /\ gone'[r] = {},
         \A q \in Requests \ {r} : put'[q] = put[q] /\ gone'[q] = gone[q]
  PROVE  \A q \in Requests : PathInv(q)'
<1> SUFFICES ASSUME NEW q \in Requests PROVE PathInv(q)'
  OBVIOUS
<1>1. PathInv(q) BY DEF Stored
<1>2. CASE q = r
  BY <1>2 DEF Moves, PathInv, FlowInv
<1>3. CASE q # r
  <2>1. /\ pc'[q] = pc[q] /\ outcome'[q] = outcome[q] /\ got'[q] = got[q] /\ call' = call
        /\ put'[q] = put[q] /\ gone'[q] = gone[q] /\ (q \in committed' => q \in committed)
    BY <1>3 DEF Moves
  <2> QED BY <1>1, <2>1 DEF PathInv, Unwritten
<1> QED BY <1>2, <1>3

\* r has nothing left, and the others have what they had.
Clears(r) ==
  /\ put' \in [Requests -> SUBSET AnyRow] /\ put'[r] = {}
  /\ gone'[r] = {} /\ DOMAIN gone' = Requests /\ DOMAIN audited' = Requests /\ audited'[r] = {}
  /\ session'[r] \in {"inactive", "closed"}
  /\ session' \in [Requests -> {"active", "inactive", "closed"}]
  /\ \A q \in Requests \ {r} : put'[q] = put[q] /\ gone'[q] = gone[q] /\ audited'[q] = audited[q]
                               /\ session'[q] = session[q]

LEMMA DropClears ==
  ASSUME StoreTypes, NEW r \in Requests, NEW as \in {"inactive", "closed"}, Drop(r, as)
  PROVE  Clears(r) /\ rows' = rows /\ committed' = committed
  BY DEF StoreTypes, Drop, Clears

LEMMA LosesKeepStore ==
  ASSUME Stored, ControlTypes, NEW r \in Requests, Moves(r), Loses(r)
  PROVE  Stored'
<1>0. Clears(r) /\ rows' = rows /\ committed' = committed BY DropClears DEF Loses, Stored
<1>1. StoreTypes /\ StoreInv /\ \A q \in Requests : PathInv(q) /\ WriteInv(q) BY DEF Stored
<1>2. StoreTypes'
  <2>1. Ids(rows)' = Ids(rows) BY <1>0 DEF Ids
  <2>2. \A q \in Requests : gone'[q] \in SUBSET Ids(rows) BY <1>0, <1>1 DEF StoreTypes, Clears
  <2>3. gone' \in [Requests -> SUBSET Ids(rows)]
    <3>1. gone' = [q \in Requests |-> gone'[q]] \/ gone' = [gone EXCEPT ![r] = {}]
      BY DEF Loses, Drop
    <3> QED BY <1>1, <2>2, <3>1 DEF StoreTypes
  <2>4. \A q \in Requests : session'[q] # "active" => put'[q] = {} /\ gone'[q] = {} /\ audited'[q] = {}
    BY <1>0, <1>1 DEF StoreTypes, Clears
  <2> QED BY <1>0, <1>1, <2>1, <2>3, <2>4 DEF StoreTypes, Clears
<1>3. Touched(r)' = {} /\ \A q \in Requests \ {r} : Touched(q)' = Touched(q)
  BY <1>0 DEF Touched, Ids, Clears
<1>4. StoreInv'
  <2>1. \A q, p \in Requests : q # p => Touched(q)' \cap Touched(p)' = {} BY <1>1, <1>3 DEF StoreInv
  <2>2. \A q \in Requests : \A x, y \in put'[q] : x.id = y.id => x = y
    BY <1>0, <1>1 DEF StoreInv, Clears
  <2>3. \A q \in Requests : \A i \in gone'[q] : i[1] \notin {"app_user", "token"}
    BY <1>0, <1>1 DEF StoreInv, Clears
  <2> QED BY <1>0, <1>1, <2>1, <2>2, <2>3 DEF StoreInv, Own
<1>5. \A q \in Requests : WriteInv(q)' BY <1>0, <1>1 DEF WriteInv, Own, Clears
<1>6. \A q \in Requests : PathInv(q)'
  <2>1. r \notin committed BY <1>1 DEF PathInv, Moves
  <2> QED BY <1>0, <2>1, PathsOfOthers DEF Clears, Loses
<1> QED BY <1>2, <1>4, <1>5, <1>6 DEF Stored

-----------------------------------------------------------------------------
(* A write. *)

LEMMA FlushEffect ==
  ASSUME StoreTypes, NEW r \in Requests, NEW new \in SUBSET AnyRow, NEW del, NEW tenants,
         Flush(r, new, del, tenants)
  PROVE  /\ rows' = rows /\ committed' = committed /\ session' = session
         /\ session[r] = "active"
         /\ put' = [put EXCEPT ![r] = new \cup {x \in put[r] : x.id \notin del \cup Ids(new)}]
         /\ gone' = [gone EXCEPT ![r] = gone[r] \cup (del \cap Ids(rows))]
         /\ DOMAIN audited' = Requests
         /\ \A q \in Requests \ {r} : audited'[q] = audited[q]
         /\ \A q \in Requests \ {r} : (Ids(new) \cup del) \cap Touched(q) = {}
<1>1. /\ rows' = rows /\ committed' = committed /\ session' = session /\ session[r] = "active"
      /\ Holders(r, new, del, tenants) = {}
      /\ put' = [put EXCEPT ![r] = {x \in After(r, new, del) : x \in new \/ x \in @}]
      /\ gone' = [gone EXCEPT ![r] = @ \cup (del \cap Ids(rows))]
      /\ audited' = [audited EXCEPT ![r] = @ \cup tenants]
  BY DEF Flush
<1>2. put[r] \subseteq View(r) BY DEF View
<1>3. {x \in After(r, new, del) : x \in new \/ x \in put[r]}
        = new \cup {x \in put[r] : x.id \notin del \cup Ids(new)}
  BY <1>2 DEF After
<1>4. put' = [put EXCEPT ![r] = new \cup {x \in put[r] : x.id \notin del \cup Ids(new)}]
  BY <1>1, <1>3
<1>5. ASSUME NEW q \in Requests \ {r} PROVE (Ids(new) \cup del) \cap Touched(q) = {}
  BY <1>1 DEF Holders, Touched
<1> QED BY <1>1, <1>4, <1>5 DEF StoreTypes

LEMMA PutsKeepStore ==
  ASSUME Stored, ControlTypes, NEW r \in Requests, Moves(r), NEW new, NEW del, Puts(r, new, del)
  PROVE  Stored'
<1>1. StoreTypes /\ StoreInv /\ \A q \in Requests : PathInv(q) /\ WriteInv(q) BY DEF Stored
<1> new \in SUBSET AnyRow BY DEF Puts, Sound
<1>2. PICK tenants : Flush(r, new, del, tenants) BY DEF Puts
<1>3. /\ rows' = rows /\ committed' = committed /\ session' = session
      /\ session[r] = "active"
      /\ put' = [put EXCEPT ![r] = new \cup {x \in put[r] : x.id \notin del \cup Ids(new)}]
      /\ gone' = [gone EXCEPT ![r] = gone[r] \cup (del \cap Ids(rows))]
      /\ DOMAIN audited' = Requests
      /\ \A q \in Requests \ {r} : audited'[q] = audited[q]
      /\ \A q \in Requests \ {r} : (Ids(new) \cup del) \cap Touched(q) = {}
  BY <1>1, <1>2, FlushEffect
<1>4. /\ put'[r] = new \cup {x \in put[r] : x.id \notin del \cup Ids(new)}
      /\ gone'[r] = gone[r] \cup (del \cap Ids(rows))
      /\ \A q \in Requests \ {r} : put'[q] = put[q] /\ gone'[q] = gone[q]
      /\ DOMAIN put' = Requests /\ DOMAIN gone' = Requests
  BY <1>1, <1>3 DEF StoreTypes
<1>5. StoreTypes'
  <2>1. put' \in [Requests -> SUBSET AnyRow] BY <1>1, <1>3 DEF StoreTypes
  <2>2. gone' \in [Requests -> SUBSET Ids(rows)]
    <3>1. gone[r] \cup (del \cap Ids(rows)) \in SUBSET Ids(rows) BY <1>1 DEF StoreTypes
    <3> QED BY <1>1, <1>3, <3>1 DEF StoreTypes
  <2>3. \A q \in Requests : session'[q] # "active" =>
          put'[q] = {} /\ gone'[q] = {} /\ audited'[q] = {}
    BY <1>1, <1>3, <1>4 DEF StoreTypes
  <2>4. Ids(rows)' = Ids(rows) BY <1>3 DEF Ids
  <2> QED BY <1>1, <1>3, <2>1, <2>2, <2>3, <2>4 DEF StoreTypes
<1>6. Touched(r)' \subseteq Touched(r) \cup Ids(new) \cup del BY <1>4 DEF Touched, Ids
<1>7. \A q \in Requests \ {r} : Touched(q)' = Touched(q) BY <1>4 DEF Touched, Ids
<1>8. StoreInv'
  <2>1. \A q, p \in Requests : q # p => Touched(q)' \cap Touched(p)' = {}
    <3>1. ASSUME NEW q \in Requests \ {r} PROVE Touched(q)' \cap Touched(r)' = {}
      <4>1. Touched(q) \cap Touched(r) = {} BY <1>1 DEF StoreInv
      <4> QED BY <1>3, <1>6, <1>7, <4>1
    <3> QED BY <1>1, <1>7, <3>1 DEF StoreInv
  <2>2. \A q \in Requests : \A x, y \in put'[q] : x.id = y.id => x = y
    <3>1. ASSUME NEW x \in put'[r], NEW y \in put'[r], x.id = y.id PROVE x = y
      <4>1. CASE x \in new /\ y \in new BY <4>1, <3>1 DEF Puts
      <4>2. CASE x \notin new /\ y \notin new BY <4>2, <3>1, <1>1, <1>4 DEF StoreInv
      <4>3. CASE x \in new /\ y \notin new BY <4>3, <3>1, <1>4 DEF Ids
      <4>4. CASE x \notin new /\ y \in new BY <4>4, <3>1, <1>4 DEF Ids
      <4> QED BY <4>1, <4>2, <4>3, <4>4
    <3> QED BY <3>1, <1>1, <1>4 DEF StoreInv
  <2>3. \A q \in Requests : \A i \in gone'[q] : i[1] \notin {"app_user", "token"}
    <3>1. \A i \in del : i[1] \notin {"app_user", "token"} BY DEF Puts, Deletable
    <3> QED BY <1>1, <1>4, <3>1 DEF StoreInv
  <2> QED BY <1>1, <1>3, <2>1, <2>2, <2>3 DEF StoreInv, Own
<1>9. ASSUME NEW q \in Requests PROVE WriteInv(q)'
  <2>1. CASE q # r BY <2>1, <1>1, <1>3, <1>4 DEF WriteInv, Own
  <2>2. CASE q = r
    <3> SUFFICES ASSUME NEW y \in put'[r], y.id[1] \in {"app_user", "token"}
                 PROVE  y.id \in Own(r) \/ \E x \in rows : Keeps(x, y)
      BY <2>2, <1>3 DEF WriteInv, Own
    <3>1. CASE y \in put[r] BY <1>1, <3>1 DEF WriteInv
    <3>2. CASE y \in new /\ y.id \notin Own(r)
      <4>1. PICK x \in View(r) : Keeps(x, y) BY <3>2 DEF Puts, Sound
      <4>2. CASE x \in rows BY <4>1, <4>2
      <4>3. CASE x \in put[r]
        <5>1. x.id = y.id BY <4>1 DEF Keeps
        <5>2. x.id \in Own(r) \/ \E z \in rows : Keeps(z, x)
          BY <1>1, <4>3, <5>1 DEF WriteInv
        <5>3. PICK z \in rows : Keeps(z, x) BY <5>1, <5>2, <3>2
        <5>4. Keeps(z, y) BY <4>1, <5>3 DEF Keeps
        <5> QED BY <5>4
      <4> QED BY <4>2, <4>3 DEF View
    <3> QED BY <1>4, <3>1, <3>2
  <2> QED BY <2>1, <2>2
<1>10. \A q \in Requests : PathInv(q)'
  <2>1. r \notin committed BY <1>1 DEF PathInv, Moves
  <2> QED BY <1>3, <1>4, <2>1, PathsOfOthers DEF Puts
<1> QED BY <1>5, <1>8, <1>9, <1>10 DEF Stored

-----------------------------------------------------------------------------
(* A commit. *)

LEMMA CloseEffect ==
  ASSUME StoreTypes, NEW r \in Requests, session[r] = "active", Close(r)
  PROVE  Clears(r) /\ rows' = View(r) /\ committed' = committed \cup {r}
  BY DEF StoreTypes, Close, Clears

\* Users and tokens stay in their tables, and keep what Keeps says.
LEMMA CommitKeepsRows ==
  ASSUME Stored, NEW r \in Requests, r \notin committed, NEW x \in rows,
         x.id[1] \in {"app_user", "token"}
  PROVE  \E y \in View(r) : Keeps(x, y)
<1>1. StoreTypes /\ StoreInv /\ WriteInv(r) BY DEF Stored
<1>2. x.id \notin gone[r] BY <1>1 DEF StoreInv
<1>3. CASE x.id \notin Ids(put[r]) BY <1>2, <1>3 DEF View, Keeps
<1>4. CASE x.id \in Ids(put[r])
  <2>1. PICK y \in put[r] : y.id = x.id BY <1>4 DEF Ids
  <2>2. y.id \notin Own(r) BY <1>1, <2>1 DEF StoreInv
  <2>3. PICK z \in rows : Keeps(z, y) BY <1>1, <2>1, <2>2 DEF WriteInv
  <2>4. z = x BY <1>1, <2>1, <2>3 DEF StoreInv, Keeps
  <2> QED BY <2>1, <2>3, <2>4 DEF View
<1> QED BY <1>3, <1>4

LEMMA CommitsKeepStore ==
  ASSUME Stored, ControlTypes, NEW r \in Requests, Moves(r), Commits(r)
  PROVE  Stored'
<1>0. Clears(r) /\ rows' = View(r) /\ committed' = committed \cup {r}
  BY CloseEffect DEF Commits, Stored
<1>1. StoreTypes /\ StoreInv /\ \A q \in Requests : PathInv(q) /\ WriteInv(q) BY DEF Stored
<1>2. \A x \in View(r) : x \in put[r] \/ (x \in rows /\ x.id \notin Touched(r))
  BY DEF View, Touched
<1>3. \A x \in rows : x.id \notin Touched(r) => x \in View(r) BY DEF View, Touched
<1>4. View(r) \subseteq AnyRow BY <1>1 DEF View, StoreTypes
<1>5. ASSUME NEW q \in Requests \ {r}
      PROVE /\ Touched(q) \cap Touched(r) = {}
            /\ put'[q] = put[q] /\ gone'[q] = gone[q] /\ audited'[q] = audited[q]
            /\ session'[q] = session[q] /\ Touched(q)' = Touched(q)
  BY <1>0, <1>1 DEF StoreInv, Clears, Touched, Ids
<1>6. StoreTypes'
  <2>1. ASSUME NEW q \in Requests PROVE gone'[q] \in SUBSET Ids(View(r))
    <3>1. CASE q = r BY <3>1, <1>0 DEF Clears
    <3>2. CASE q # r
      <4> SUFFICES ASSUME NEW i \in gone[q] PROVE i \in Ids(View(r)) BY <3>2, <1>5
      <4>1. i \in Ids(rows) BY <1>1 DEF StoreTypes
      <4>2. i \notin Touched(r) BY <3>2, <1>5 DEF Touched
      <4> QED BY <4>1, <4>2, <1>3 DEF Ids
    <3> QED BY <3>1, <3>2
  <2>2. gone' = [gone EXCEPT ![r] = {}] BY DEF Commits, Close
  <2>3. gone' \in [Requests -> SUBSET Ids(View(r))] BY <1>1, <2>1, <2>2 DEF StoreTypes
  <2>4. Ids(rows)' = Ids(View(r)) BY <1>0 DEF Ids
  <2>5. \A q \in Requests : session'[q] # "active" => put'[q] = {} /\ gone'[q] = {} /\ audited'[q] = {}
    BY <1>0, <1>1, <1>5 DEF StoreTypes, Clears
  <2>6. committed' \subseteq Requests BY <1>0, <1>1 DEF StoreTypes
  <2> QED BY <1>0, <1>4, <2>3, <2>4, <2>5, <2>6 DEF StoreTypes, Clears
<1>7. StoreInv'
  <2>1. \A x, y \in View(r) : x.id = y.id => x = y
    <3> SUFFICES ASSUME NEW x \in View(r), NEW y \in View(r), x.id = y.id PROVE x = y
      OBVIOUS
    <3>1. CASE x \in put[r] /\ y \in put[r] BY <3>1, <1>1 DEF StoreInv
    <3>2. CASE x \in rows /\ y \in rows BY <3>2, <1>1 DEF StoreInv
    <3>3. CASE x \in put[r] /\ y \notin put[r] BY <3>3, <1>2 DEF Touched, Ids
    <3>4. CASE x \notin put[r] /\ y \in put[r] BY <3>4, <1>2 DEF Touched, Ids
    <3> QED BY <1>2, <3>1, <3>2, <3>3, <3>4
  <2>2. \A q, p \in Requests : q # p => Touched(q)' \cap Touched(p)' = {}
    <3>1. Touched(r)' = {} BY <1>0 DEF Touched, Ids, Clears
    <3> QED BY <1>1, <1>5, <3>1 DEF StoreInv
  <2>3. \A q \in Requests : \A x, y \in put'[q] : x.id = y.id => x = y
    BY <1>0, <1>1 DEF StoreInv, Clears
  <2>4. \A q \in Requests : \A i \in gone'[q] : i[1] \notin {"app_user", "token"}
    BY <1>0, <1>1 DEF StoreInv, Clears
  <2>5. \A x \in View(r) : \A q \in Requests : x.id \in Own(q) => q \in committed \cup {r}
    <3> SUFFICES ASSUME NEW x \in View(r), NEW q \in Requests, x.id \in Own(q), q # r
                 PROVE  q \in committed
      OBVIOUS
    <3>1. CASE x \in rows BY <3>1, <1>1 DEF StoreInv
    <3>2. CASE x \in put[r]
      <4>1. x.id[1] \in {"app_user", "token"} /\ x.id \notin Own(r) BY DEF Own
      <4>2. PICK z \in rows : Keeps(z, x) BY <3>2, <4>1, <1>1 DEF WriteInv
      <4> QED BY <4>2, <1>1 DEF StoreInv, Keeps
    <3> QED BY <1>2, <3>1, <3>2
  <2> QED BY <1>0, <2>1, <2>2, <2>3, <2>4, <2>5 DEF StoreInv, Own
<1>8. ASSUME NEW q \in Requests PROVE WriteInv(q)'
  <2> SUFFICES ASSUME NEW y \in put'[q], y.id[1] \in {"app_user", "token"}, y.id \notin Own(q)
               PROVE  \E x \in View(r) : Keeps(x, y)
    BY <1>0 DEF WriteInv, Own
  <2>1. q # r /\ y \in put[q] BY <1>0, <1>5 DEF Clears
  <2>2. PICK x \in rows : Keeps(x, y) BY <2>1, <1>1 DEF WriteInv
  <2>3. x.id \in Touched(q) BY <2>1, <2>2 DEF Touched, Ids, Keeps
  <2>4. x \in View(r) BY <2>1, <2>3, <1>3, <1>5
  <2> QED BY <2>2, <2>4
<1>9. \A q \in Requests : PathInv(q)' BY <1>0, PathsOfOthers DEF Commits, Clears
<1> QED BY <1>6, <1>7, <1>8, <1>9 DEF Stored

LEMMA StoreKept ==
  ASSUME Stored, ControlTypes, NEW r \in Requests, Works(r)
  PROVE  Stored'
  BY IdlesKeepStore, LosesKeepStore, PutsKeepStore, CommitsKeepStore DEF Works

-----------------------------------------------------------------------------
(* Tokens. *)

\* What r's next place says of its token.
TokenNext(r) ==
  call[r].op = "set_password" =>
    /\ pc'[r] \in {"spend", "write", "answer", "commit"} => call[r].target \in Ids(rows)
    /\ pc'[r] \in {"write", "answer", "commit"} /\ session'[r] = "active" =>
         UsedIn(put'[r], call[r].target)

LEMMA Called ==
  ASSUME ControlTypes, NEW r \in Requests
  PROVE  /\ call[r].op \in Ops /\ call[r].tenant \in TenantIds /\ call[r].code \in STRING
         /\ call[r].codes \in Seq(Codes) /\ call[r].flag \in BOOLEAN
         /\ call[r].op \in OwnAccount => call[r].by \in Id("app_user")
         /\ call[r].op \in {"update_role", "delete_role", "assign_permission", "remove_permission"} =>
              call[r].target \in RoleIds
         /\ call[r].op = "delete_permission" => call[r].target \in PermissionIds
         /\ call[r].op \in {"assign_permission", "remove_permission"} =>
              call[r].other \in PermissionIds
         /\ call[r].op \in ByRole => call[r].target \in Id("app_user") /\ call[r].other \in RoleIds
         /\ call[r].op = "set_password" => call[r].target \in Id("token")
         /\ call[r].op = "update_tenant" =>
              call[r].target \in TenantIds /\ call[r].code \in {"active", "suspended", "archived"}
         /\ call[r].op = "create_permission" => call[r].codes # << >>
         /\ call[r].tenant \in Tenants /\ call[r].by \in Users
<1>1. call \in Scenarios BY DEF ControlTypes
<1>2. call[r].tenant \in Tenants BY <1>1 DEF Tenants
<1>3. call[r].by \in Users BY <1>1 DEF Users
<1> QED BY <1>1, <1>2, <1>3, ScenariosAssumption

\* A token or a user that is there stays, and stays used, or deactivated.
LEMMA RowsKept ==
  ASSUME Stored, NEW r \in Requests, Works(r), NEW x \in rows, x.id[1] \in {"app_user", "token"}
  PROVE  \E y \in rows' : Keeps(x, y)
<1>1. CASE rows' = rows BY <1>1 DEF Keeps
<1>2. CASE Commits(r)
  <2>1. rows' = View(r) BY <1>2, CloseEffect DEF Commits, Stored
  <2>2. r \notin committed BY <1>2 DEF Commits, Stored, PathInv
  <2> QED BY <2>1, <2>2, CommitKeepsRows
<1>3. Idles(r) => rows' = rows BY DEF Idles, store
<1>4. Loses(r) => rows' = rows BY DEF Loses, Drop
<1>5. (\E new, del : Puts(r, new, del)) => rows' = rows BY DEF Puts, Flush
<1> QED BY <1>1, <1>2, <1>3, <1>4, <1>5 DEF Works

\* What a step leaves alone.
LEMMA Leaves ==
  ASSUME Stored, NEW r \in Requests, Works(r)
  PROVE  /\ \A q \in Requests \ {r} : put'[q] = put[q] /\ session'[q] = session[q]
         /\ \A q \in Requests \ {r} : q \in committed' <=> q \in committed
         /\ r \in committed' => Commits(r)
<1>1. r \notin committed BY DEF Stored, PathInv, Works, Moves
<1>2. StoreTypes BY DEF Stored
<1>3. CASE Idles(r) BY <1>1, <1>3 DEF Idles, store
<1>4. CASE Loses(r) BY <1>1, <1>2, <1>4 DEF Loses, Drop, StoreTypes
<1>5. ASSUME NEW new, NEW del, Puts(r, new, del)
      PROVE  /\ \A q \in Requests \ {r} : put'[q] = put[q]
             /\ session' = session /\ committed' = committed
  BY <1>2, <1>5 DEF Puts, Flush, StoreTypes
<1>6. CASE Commits(r)
  <2>1. Clears(r) /\ committed' = committed \cup {r} BY <1>2, <1>6, CloseEffect DEF Commits
  <2> QED BY <1>6, <2>1 DEF Clears
<1> QED BY <1>1, <1>3, <1>4, <1>5, <1>6 DEF Works

LEMMA TokensKept ==
  ASSUME Stored, ControlTypes, NEW r \in Requests, Works(r), TokenNext(r),
         \A q \in Requests : TokenInv(q)
  PROVE  \A q \in Requests : TokenInv(q)'
<1> SUFFICES ASSUME NEW q \in Requests, call[q].op = "set_password" PROVE TokenInv(q)'
  BY DEF TokenInv, Works, Moves
<1> DEFINE t == call[q].target
<1>1. call' = call /\ t[1] = "token" BY Called, IdTable DEF Works, Moves
<1>2. t \in Ids(rows) => t \in Ids(rows)'
  <2> SUFFICES ASSUME t \in Ids(rows) PROVE t \in Ids(rows)'
    OBVIOUS
  <2>1. PICK x \in rows : x.id = t BY DEF Ids
  <2>2. PICK y \in rows' : Keeps(x, y) BY <1>1, <2>1, RowsKept
  <2> QED BY <2>1, <2>2 DEF Ids, Keeps
<1>3. UsedIn(rows, t) => UsedIn(rows', t)
  <2> SUFFICES ASSUME UsedIn(rows, t) PROVE UsedIn(rows', t)
    OBVIOUS
  <2>1. PICK x \in rows : x.id = t /\ x.used BY DEF UsedIn
  <2>2. PICK y \in rows' : Keeps(x, y) BY <1>1, <2>1, RowsKept
  <2> QED BY <1>1, <2>1, <2>2 DEF UsedIn, Keeps
<1>4. CASE q # r
  <2>1. /\ pc'[q] = pc[q] /\ put'[q] = put[q] /\ session'[q] = session[q]
        /\ (q \in committed' <=> q \in committed)
    BY <1>4, Leaves DEF Works, Moves
  <2> QED BY <1>1, <1>2, <1>3, <2>1 DEF TokenInv, UsedIn
<1>5. CASE q = r
  <2>1. CASE r \in committed'
    <3>1. Commits(r) BY <2>1, Leaves
    <3>2. UsedIn(put[r], t) BY <1>5, <3>1 DEF TokenInv, Commits
    <3>3. rows' = View(r) /\ pc'[r] = "done" BY <3>1, CloseEffect DEF Commits, Stored
    <3>4. UsedIn(rows', t) BY <3>2, <3>3 DEF UsedIn, View
    <3> QED BY <1>1, <1>5, <3>3, <3>4 DEF TokenInv, UsedIn
  <2>2. CASE r \notin committed'
    BY <1>1, <1>2, <1>5, <2>2 DEF TokenNext, TokenInv, UsedIn
  <2> QED BY <2>1, <2>2
<1> QED BY <1>4, <1>5

-----------------------------------------------------------------------------
(* Records. *)

TimeInv ==
  /\ RecordInv /\ CacheInv
  /\ \A r \in Requests : FlightInv(r) /\ DecisionInv(r)

\* A step of r's that says nothing about time.
Quiet(r) ==
  /\ rows' = rows /\ now' = now /\ cache' = cache /\ lastHeld' = lastHeld
  /\ lastAbsent' = lastAbsent
  /\ pc'[r] \notin {"keep_tenant", "keep"} /\ decidedAt'[r] = decidedAt[r]
  /\ \/ outcome'[r] \notin {"unknown_tenant", "success"} \/ outcome'[r] = outcome[r]
     \/ pc[r] = "answer" /\ outcome'[r] = "success"
  /\ call[r].op = "read" /\ pc'[r] \in {"answer", "commit"} => pc[r] \in {"answer", "commit"}

LEMMA QuietKeepsTime ==
  ASSUME CacheTypes, TimeInv, NEW r \in Requests, Moves(r), Quiet(r)
  PROVE  CacheTypes' /\ TimeInv'
<1>0. /\ rows' = rows /\ now' = now /\ cache' = cache /\ lastHeld' = lastHeld
      /\ lastAbsent' = lastAbsent /\ call' = call
  BY DEF Quiet, Moves
<1>1. CacheTypes' BY ONLY <1>0, CacheTypes DEF CacheTypes
<1>2. RecordInv'
  <2>1. RecordInv BY DEF TimeInv
  <2> QED BY ONLY <1>0, <2>1 DEF RecordInv, Held, Granted, Of, Row, Ids
<1>3. CacheInv'
  <2>1. CacheInv BY DEF TimeInv
  <2> QED BY ONLY <1>0, <2>1 DEF CacheInv, HeldSince, KnownOr, Since
<1>4. ASSUME NEW q \in Requests PROVE FlightInv(q)' /\ DecisionInv(q)'
  <2>1. FlightInv(q) /\ DecisionInv(q) BY DEF TimeInv
  <2>2. CASE q # r
    <3>1. /\ pc'[q] = pc[q] /\ outcome'[q] = outcome[q] /\ got'[q] = got[q]
          /\ readAt'[q] = readAt[q] /\ decidedAt'[q] = decidedAt[q]
      BY <2>2 DEF Moves
    <3>2. FlightInv(q)' BY ONLY <1>0, <2>1, <3>1 DEF FlightInv, KnownOr, HeldSince, Since
    <3>3. DecisionInv(q)' BY ONLY <1>0, <2>1, <3>1 DEF DecisionInv, MayRead, WasAbsent, Since
    <3> QED BY <3>2, <3>3
  <2>3. CASE q = r
    <3>1. FlightInv(q)' BY <2>3 DEF Quiet, FlightInv
    <3>2. /\ MayRead(call[r].by, decidedAt[r])' <=> MayRead(call[r].by, decidedAt[r])
          /\ WasAbsent(call[r].tenant, decidedAt[r])' <=> WasAbsent(call[r].tenant, decidedAt[r])
      BY <1>0 DEF Quiet, MayRead, WasAbsent, Since
    <3>3. DecisionInv(q)' BY <1>0, <2>1, <2>3, <3>2 DEF Quiet, DecisionInv
    <3> QED BY <3>1, <3>3
  <2> QED BY <2>2, <2>3
<1> QED BY <1>1, <1>2, <1>3, <1>4 DEF TimeInv

\* What is on record stays so, however late it gets.
LEMMA RecordsGetLater ==
  ASSUME CacheTypes, RecordInv, Record, now' \in {now, now + 1}, now' \in 0..MaxNow
  PROVE  /\ RecordInv'
         /\ lastHeld' \in [Users \X Codes -> (0..MaxNow) \cup {None}]
         /\ lastAbsent' \in [Tenants -> (0..MaxNow) \cup {None}]
         /\ \A u \in Users : \A c \in Codes : \A w \in Int :
              Since(lastHeld[<<u, c>>], w) => Since(lastHeld'[<<u, c>>], w)
         /\ \A t \in Tenants : \A w \in Int :
              Since(lastAbsent[t], w) => Since(lastAbsent'[t], w)
<1> DEFINE held == [u \in Users |-> UNION {Granted(rows', x, u) : x \in Tenants}]
<1>0. MaxNow \in Nat /\ None \notin Nat BY AccessAssumption
<1>1. lastHeld' = [h \in Users \X Codes |-> IF h[2] \in held[h[1]] THEN now' ELSE lastHeld[h]]
  BY DEF Record, HeldNow
<1>2. lastAbsent' = [x \in Tenants |-> IF x \in Ids(rows') THEN lastAbsent[x] ELSE now']
  BY DEF Record, AbsentNow
<1>3. ASSUME NEW u \in Users, NEW c \in Codes
      PROVE  /\ Held(u, c)' => lastHeld'[<<u, c>>] = now'
             /\ lastHeld'[<<u, c>>] \in {now', lastHeld[<<u, c>>]}
  <2>1. Held(u, c)' <=> c \in held[u] BY DEF Held, Granted, Of, Row
  <2>2. lastHeld'[<<u, c>>] = IF c \in held[u] THEN now' ELSE lastHeld[<<u, c>>]
    <3> HIDE DEF held
    <3> QED BY <1>1
  <2> QED BY <2>1, <2>2
<1>4. ASSUME NEW t \in Tenants
      PROVE  /\ t \notin Ids(rows)' => lastAbsent'[t] = now'
             /\ lastAbsent'[t] \in {now', lastAbsent[t]}
  BY <1>2 DEF Ids
<1> HIDE DEF held
<1>5. lastHeld' \in [Users \X Codes -> (0..MaxNow) \cup {None}]
  BY <1>1 DEF CacheTypes
<1>6. lastAbsent' \in [Tenants -> (0..MaxNow) \cup {None}]
  BY <1>2 DEF CacheTypes
<1>7. now \in Nat /\ now' \in Nat /\ now <= now' BY <1>0 DEF CacheTypes
<1>8. ASSUME NEW u \in Users, NEW c \in Codes
      PROVE  /\ lastHeld[<<u, c>>] \in Nat \cup {None} /\ lastHeld'[<<u, c>>] \in Nat \cup {None}
             /\ lastHeld[<<u, c>>] = None \/ lastHeld[<<u, c>>] <= now
  BY <1>0, <1>5 DEF CacheTypes, RecordInv
<1>9. ASSUME NEW t \in Tenants
      PROVE  /\ lastAbsent[t] \in Nat \cup {None} /\ lastAbsent'[t] \in Nat \cup {None}
             /\ lastAbsent[t] = None \/ lastAbsent[t] <= now
  BY <1>0, <1>6 DEF CacheTypes, RecordInv
<1>10. ASSUME NEW u \in Users, NEW c \in Codes
       PROVE  /\ lastHeld'[<<u, c>>] = None \/ lastHeld'[<<u, c>>] <= now'
              /\ \A w \in Int : Since(lastHeld[<<u, c>>], w) => Since(lastHeld'[<<u, c>>], w)
  BY <1>0, <1>3, <1>7, <1>8 DEF Since
<1>11. ASSUME NEW t \in Tenants
       PROVE  /\ lastAbsent'[t] = None \/ lastAbsent'[t] <= now'
              /\ \A w \in Int : Since(lastAbsent[t], w) => Since(lastAbsent'[t], w)
  BY <1>0, <1>4, <1>7, <1>9 DEF Since
<1>12. RecordInv' BY <1>3, <1>4, <1>10, <1>11 DEF RecordInv
<1> QED BY <1>5, <1>6, <1>10, <1>11, <1>12

LEMMA RecordKeepsTime ==
  ASSUME CacheTypes, ControlTypes, TimeInv, Record, cache' = cache,
         now' \in {now, now + 1}, now' \in 0..MaxNow, call' = call,
         \A q \in Requests :
           /\ got'[q] = got[q] /\ readAt'[q] = readAt[q] /\ decidedAt'[q] = decidedAt[q]
           /\ outcome'[q] = outcome[q] /\ pc'[q] \in {pc[q], "done"}
           /\ pc'[q] \in {"keep_tenant", "keep"} => now' <= readAt[q] + MaxFlight
  PROVE  CacheTypes' /\ TimeInv'
<1>0. {MaxFlight, PERMISSION_TTL, TENANT_TTL} \subseteq Nat BY AccessAssumption
<1>1. RecordInv BY DEF TimeInv
<1>2. /\ RecordInv'
      /\ lastHeld' \in [Users \X Codes -> (0..MaxNow) \cup {None}]
      /\ lastAbsent' \in [Tenants -> (0..MaxNow) \cup {None}]
      /\ \A u \in Users : \A c \in Codes : \A w \in Int :
           Since(lastHeld[<<u, c>>], w) => Since(lastHeld'[<<u, c>>], w)
      /\ \A t \in Tenants : \A w \in Int :
           Since(lastAbsent[t], w) => Since(lastAbsent'[t], w)
  BY <1>1, RecordsGetLater
<1>3. CacheTypes' BY <1>2 DEF CacheTypes
<1>4. ASSUME NEW u \in Users, NEW p, NEW w \in Int, HeldSince(u, p, w)
      PROVE  HeldSince(u, p, w)'
  BY <1>2, <1>4 DEF HeldSince
<1>5. ASSUME NEW t \in Tenants, NEW k, NEW w \in Int, KnownOr(t, k, w)
      PROVE  KnownOr(t, k, w)'
  BY <1>2, <1>5 DEF KnownOr
<1>6. CacheInv'
  <2>1. CacheInv BY DEF TimeInv
  <2>2. ASSUME NEW t \in Tenants, NEW e, e = cache[<<"tenant", t>>], e # None
        PROVE  e.until \in Nat /\ KnownOr(t, e.value, e.until - TENANT_TTL - MaxFlight)'
    <3>1. e.until \in Nat /\ KnownOr(t, e.value, e.until - TENANT_TTL - MaxFlight)
      BY <2>1, <2>2 DEF CacheInv
    <3> QED BY <1>0, <1>5, <3>1
  <2>3. ASSUME NEW t \in Tenants, NEW u \in Users, NEW e, e = cache[<<"permission", t, u>>], e # None
        PROVE  e.until \in Nat /\ HeldSince(u, e.value, e.until - PERMISSION_TTL - MaxFlight)'
    <3>1. e.until \in Nat /\ HeldSince(u, e.value, e.until - PERMISSION_TTL - MaxFlight)
      BY <2>1, <2>3 DEF CacheInv
    <3> QED BY <1>0, <1>4, <3>1
  <2> QED BY <2>2, <2>3 DEF CacheInv, KnownOr, HeldSince
<1>7. ASSUME NEW q \in Requests PROVE FlightInv(q)' /\ DecisionInv(q)'
  <2>1. FlightInv(q) /\ DecisionInv(q) BY DEF TimeInv
  <2>2. /\ readAt[q] \in Nat /\ decidedAt[q] \in Nat /\ call[q].by \in Users
        /\ call[q].tenant \in Tenants /\ now \in Nat /\ now' \in Nat /\ now <= now'
    BY Called, AccessAssumption DEF ControlTypes, CacheTypes
  <2>3. FlightInv(q)'
    <3>1. CASE pc'[q] = "done" BY <3>1 DEF FlightInv
    <3>2. CASE pc'[q] = pc[q]
      <4>1. pc[q] = "keep_tenant" => KnownOr(call[q].tenant, got[q], readAt[q])'
        BY <1>5, <2>1, <2>2 DEF FlightInv
      <4>2. pc[q] = "keep" => HeldSince(call[q].by, got[q], readAt[q])'
        BY <1>4, <2>1, <2>2 DEF FlightInv
      <4>3. pc[q] \in {"keep_tenant", "keep"} => readAt[q] <= now' /\ now' <= readAt[q] + MaxFlight
        BY <2>1, <2>2, <3>2 DEF FlightInv
      <4> QED BY <3>2, <4>1, <4>2, <4>3 DEF FlightInv, KnownOr, HeldSince
    <3> QED BY <3>1, <3>2
  <2>4. MayRead(call[q].by, decidedAt[q]) => MayRead(call[q].by, decidedAt[q])'
    <3> SUFFICES ASSUME MayRead(call[q].by, decidedAt[q])
                 PROVE  MayRead(call[q].by, decidedAt[q])'
      OBVIOUS
    <3>1. PICK w \in Int : w = decidedAt[q] - PERMISSION_TTL - MaxFlight + 1 BY <1>0, <2>2
    <3>2. PICK c \in Codes : Allows({c}, Required["read"]) /\ Since(lastHeld[<<call[q].by, c>>], w)
      BY <3>1 DEF MayRead
    <3>3. Since(lastHeld'[<<call[q].by, c>>], w) BY <1>2, <2>2, <3>2
    <3> QED BY <3>1, <3>2, <3>3 DEF MayRead, Since
  <2>5. WasAbsent(call[q].tenant, decidedAt[q]) => WasAbsent(call[q].tenant, decidedAt[q])'
    <3>1. decidedAt[q] - TENANT_TTL - MaxFlight + 1 \in Int BY <1>0, <2>2
    <3> QED BY <1>2, <2>2, <3>1 DEF WasAbsent
  <2>6. DecisionInv(q)' BY <2>1, <2>4, <2>5 DEF DecisionInv
  <2> QED BY <2>3, <2>6
<1> QED BY <1>2, <1>3, <1>6, <1>7 DEF TimeInv

-----------------------------------------------------------------------------
(* The way in: what r reads, keeps and is told. *)

Timeless == rows' = rows /\ now' = now /\ lastHeld' = lastHeld /\ lastAbsent' = lastAbsent

LEMMA WayInKeepsTime ==
  ASSUME TimeInv, NEW r \in Requests, Moves(r), Timeless, CacheInv', FlightInv(r)', DecisionInv(r)'
  PROVE  TimeInv'
<1>1. RecordInv'
  <2>1. RecordInv BY DEF TimeInv
  <2> QED BY ONLY Timeless, <2>1 DEF Timeless, RecordInv, Held, Granted, Of, Row, Ids
<1>2. ASSUME NEW q \in Requests \ {r} PROVE FlightInv(q)' /\ DecisionInv(q)'
  <2>1. FlightInv(q) /\ DecisionInv(q) BY DEF TimeInv
  <2>2. /\ pc'[q] = pc[q] /\ outcome'[q] = outcome[q] /\ got'[q] = got[q]
        /\ readAt'[q] = readAt[q] /\ decidedAt'[q] = decidedAt[q] /\ call' = call
    BY DEF Moves
  <2>3. FlightInv(q)'
    BY ONLY Timeless, <2>1, <2>2 DEF Timeless, FlightInv, KnownOr, HeldSince, Since
  <2>4. DecisionInv(q)'
    BY ONLY Timeless, <2>1, <2>2 DEF Timeless, DecisionInv, MayRead, WasAbsent, Since
  <2> QED BY <2>3, <2>4
<1> QED BY <1>1, <1>2 DEF TimeInv

LEMMA CacheStays ==
  ASSUME CacheTypes, TimeInv, Timeless, cache' = cache
  PROVE  CacheTypes' /\ CacheInv'
<1>1. CacheTypes' BY DEF Timeless, CacheTypes
<1>2. CacheInv'
  <2>1. CacheInv BY DEF TimeInv
  <2> QED BY ONLY <2>1, Timeless, cache' = cache DEF Timeless, CacheInv, HeldSince, KnownOr, Since
<1> QED BY <1>1, <1>2

LEMMA KnownIsKept ==
  ASSUME CacheTypes, TimeInv, Timeless, NEW t \in Tenants, NEW k, NEW at \in Nat,
         KnownOr(t, k, at), now <= at + MaxFlight, CacheSet(<<"tenant", t>>, k, TENANT_TTL)
  PROVE  CacheTypes' /\ CacheInv'
<1>0. {MaxFlight, PERMISSION_TTL, TENANT_TTL} \subseteq Nat /\ now \in Nat
  BY AccessAssumption DEF CacheTypes
<1>1. <<"tenant", t>> \in CacheKeys BY DEF CacheKeys
<1>2. /\ cache'[<<"tenant", t>>] = [value |-> k, until |-> now + TENANT_TTL]
      /\ \A i \in CacheKeys : i # <<"tenant", t>> => cache'[i] = cache[i]
      /\ DOMAIN cache' = CacheKeys
  BY <1>1 DEF CacheSet, CacheTypes
<1>3. CacheTypes' BY <1>0, <1>2 DEF CacheTypes, Timeless
<1>4. KnownOr(t, k, now - MaxFlight) BY <1>0 DEF KnownOr, Since, TimeInv, RecordInv, CacheTypes
<1>5. ASSUME NEW s \in Tenants
      PROVE  LET e == cache'[<<"tenant", s>>] IN
             e # None => e.until \in Nat /\ KnownOr(s, e.value, e.until - TENANT_TTL - MaxFlight)
  <2>1. CASE s = t BY <1>0, <1>2, <1>4, <2>1
  <2>2. CASE s # t
    <3>1. cache'[<<"tenant", s>>] = cache[<<"tenant", s>>] BY <1>2, <2>2 DEF CacheKeys
    <3> QED BY <3>1 DEF TimeInv, CacheInv
  <2> QED BY <2>1, <2>2
<1>6. ASSUME NEW s \in Tenants, NEW u \in Users
      PROVE  LET e == cache'[<<"permission", s, u>>] IN
             e # None => e.until \in Nat
                         /\ HeldSince(u, e.value, e.until - PERMISSION_TTL - MaxFlight)
  <2>1. cache'[<<"permission", s, u>>] = cache[<<"permission", s, u>>] BY <1>2 DEF CacheKeys
  <2> QED BY <2>1 DEF TimeInv, CacheInv
<1>7. CacheInv' BY <1>5, <1>6 DEF CacheInv, KnownOr, HeldSince, Since, Timeless
<1> QED BY <1>3, <1>7

LEMMA HeldIsKept ==
  ASSUME CacheTypes, TimeInv, Timeless, NEW t \in Tenants, NEW u \in Users, NEW p, NEW at \in Nat,
         HeldSince(u, p, at), now <= at + MaxFlight,
         CacheSet(<<"permission", t, u>>, p, PERMISSION_TTL)
  PROVE  CacheTypes' /\ CacheInv'
<1>0. {MaxFlight, PERMISSION_TTL, TENANT_TTL} \subseteq Nat /\ now \in Nat
  BY AccessAssumption DEF CacheTypes
<1>1. <<"permission", t, u>> \in CacheKeys BY DEF CacheKeys
<1>2. /\ cache'[<<"permission", t, u>>] = [value |-> p, until |-> now + PERMISSION_TTL]
      /\ \A i \in CacheKeys : i # <<"permission", t, u>> => cache'[i] = cache[i]
      /\ DOMAIN cache' = CacheKeys
  BY <1>1 DEF CacheSet, CacheTypes
<1>3. CacheTypes' BY <1>0, <1>2 DEF CacheTypes, Timeless
<1>4. HeldSince(u, p, now - MaxFlight)
  <2> SUFFICES ASSUME NEW c \in p PROVE c \in Codes /\ Since(lastHeld[<<u, c>>], now - MaxFlight)
    BY DEF HeldSince
  <2>1. c \in Codes /\ Since(lastHeld[<<u, c>>], at) BY DEF HeldSince
  <2>2. lastHeld[<<u, c>>] \in (0..MaxNow) \cup {None} BY <2>1 DEF CacheTypes
  <2> QED BY <1>0, <2>1, <2>2, AccessAssumption DEF Since
<1>5. ASSUME NEW s \in Tenants
      PROVE  LET e == cache'[<<"tenant", s>>] IN
             e # None => e.until \in Nat /\ KnownOr(s, e.value, e.until - TENANT_TTL - MaxFlight)
  <2>1. cache'[<<"tenant", s>>] = cache[<<"tenant", s>>] BY <1>2 DEF CacheKeys
  <2> QED BY <2>1 DEF TimeInv, CacheInv
<1>6. ASSUME NEW s \in Tenants, NEW v \in Users
      PROVE  LET e == cache'[<<"permission", s, v>>] IN
             e # None => e.until \in Nat
                         /\ HeldSince(v, e.value, e.until - PERMISSION_TTL - MaxFlight)
  <2>1. CASE s = t /\ v = u BY <1>0, <1>2, <1>4, <2>1
  <2>2. CASE ~(s = t /\ v = u)
    <3>1. cache'[<<"permission", s, v>>] = cache[<<"permission", s, v>>]
      BY <1>2, <2>2 DEF CacheKeys
    <3> QED BY <3>1 DEF TimeInv, CacheInv
  <2> QED BY <2>1, <2>2
<1>7. CacheInv' BY <1>5, <1>6 DEF CacheInv, KnownOr, HeldSince, Since, Timeless
<1> QED BY <1>3, <1>7

LEMMA InvIs ==
  Inv <=> /\ Stored /\ ControlTypes /\ CacheTypes /\ TimeInv
          /\ \A r \in Requests : TokenInv(r)
  BY TypesAre DEF Inv, Stored, TimeInv

LEMMA InvNextIs ==
  Inv' <=> /\ Stored' /\ ControlTypes' /\ CacheTypes' /\ TimeInv'
           /\ \A r \in Requests : TokenInv(r)'
<1>1. Types' <=> StoreTypes' /\ ControlTypes' /\ CacheTypes'
  BY DEF Types, TypeOK, StoreTypes, ControlTypes, CacheTypes
<1> QED BY <1>1 DEF Inv, Stored, TimeInv

\* What the others have read is left alone.
Carries(r) ==
  /\ call' = call /\ DOMAIN got' = Requests
  /\ readAt' \in [Requests -> 0..MaxNow] /\ decidedAt' \in [Requests -> 0..MaxNow]
  /\ codesDone' \in [Requests -> Nat]
  /\ \A q \in Requests \ {r} :
       got'[q] = got[q] /\ readAt'[q] = readAt[q] /\ decidedAt'[q] = decidedAt[q]

LEMMA SameCarries ==
  ASSUME ControlTypes, NEW r \in Requests,
         call' = call /\ got' = got /\ readAt' = readAt /\ decidedAt' = decidedAt
         /\ codesDone' = codesDone
  PROVE  Carries(r)
  BY DEF Carries, ControlTypes

\* Where an operation may be.
MayBe(r, p) ==
  /\ call[r].op = "read" => p \in WayIn \cup Ending
  /\ call[r].op = "login" => p \in {"login", "authenticate"} \cup Ending
  /\ call[r].op = "set_password" => p \in {"check", "spend", "write"} \cup Ending
  /\ p = "spend" => call[r].op = "set_password"
  /\ p = "grant" => got'[r] \in PermissionIds

LEMMA GotoMoves ==
  ASSUME ControlTypes, NEW r \in Requests, FlowInv(r), pc[r] \notin {"commit", "done"},
         NEW p \in PCs, Goto(r, p), Carries(r), MayBe(r, p)
  PROVE  /\ Moves(r) /\ pc'[r] = p /\ outcome'[r] = outcome[r] /\ outcome[r] = "none"
         /\ lastHeld' = lastHeld /\ lastAbsent' = lastAbsent
<1>1. /\ pc' = [pc EXCEPT ![r] = p] /\ outcome' = outcome
      /\ lastHeld' = lastHeld /\ lastAbsent' = lastAbsent
  BY DEF Goto, history
<1>2. pc'[r] = p /\ pc' \in [Requests -> PCs] /\ \A q \in Requests \ {r} : pc'[q] = pc[q]
  BY <1>1 DEF ControlTypes
<1>3. ControlTypes' BY <1>1, <1>2 DEF ControlTypes, Carries
<1>4. outcome[r] = "none" /\ call[r].op # "idle" BY DEF FlowInv
<1>5. FlowInv(r)' BY <1>1, <1>2, <1>4 DEF FlowInv, MayBe, Carries
<1> QED BY <1>1, <1>2, <1>3, <1>4, <1>5 DEF Moves, Carries

LEMMA FailMoves ==
  ASSUME ControlTypes, NEW r \in Requests, pc[r] # "done", NEW o \in Outcomes, Fail(r, o), Carries(r)
  PROVE  /\ Moves(r) /\ Loses(r) /\ pc'[r] = "done" /\ outcome'[r] = o /\ rows' = rows
         /\ lastHeld' = lastHeld /\ lastAbsent' = lastAbsent
<1>1. /\ pc' = [pc EXCEPT ![r] = "done"] /\ outcome' = [outcome EXCEPT ![r] = o]
      /\ lastHeld' = lastHeld /\ lastAbsent' = lastAbsent /\ Drop(r, "closed") /\ rows' = rows
  BY DEF Fail, history, Drop
<1>2. /\ pc'[r] = "done" /\ pc' \in [Requests -> PCs] /\ outcome'[r] = o
      /\ outcome' \in [Requests -> Outcomes]
      /\ \A q \in Requests \ {r} : pc'[q] = pc[q] /\ outcome'[q] = outcome[q]
  BY <1>1 DEF ControlTypes, PCs
<1>3. ControlTypes' BY <1>2 DEF ControlTypes, Carries
<1>4. FlowInv(r)' BY <1>2 DEF FlowInv, Ending
<1>5. Loses(r) BY <1>1, <1>2 DEF Loses, Unwritten, WayIn
<1> QED BY <1>1, <1>2, <1>3, <1>4, <1>5 DEF Moves, Carries

LEMMA FlowOf ==
  ASSUME Inv, NEW r \in Requests
  PROVE  /\ ControlTypes /\ CacheTypes /\ FlowInv(r) /\ PathInv(r) /\ TokenInv(r) /\ FlightInv(r)
         /\ DecisionInv(r) /\ StoreTypes /\ StoreInv /\ TimeInv /\ CacheInv /\ RecordInv
  BY InvIs, PathIs DEF Inv, Stored

\* A step of r's on its way in, after which it knows what it needs.
WaysIn(r) ==
  Works(r) /\ TokenNext(r) /\ Timeless /\ FlightInv(r)' /\ DecisionInv(r)'

\* On the way in, r has the tenant's or the user's record to show for what it is told.
LEMMA AdmitEffect ==
  ASSUME Inv, NEW r \in Requests, pc[r] \in WayIn, NEW known, now' = now,
         KnownOr(call[r].tenant, known, now - TENANT_TTL - MaxFlight + 1),
         Admit(r, known, "user"), call' = call, got' = got, readAt' = readAt, codesDone' = codesDone
  PROVE  WaysIn(r)
<1>0. /\ ControlTypes /\ CacheTypes /\ FlowInv(r) /\ pc[r] \notin {"commit", "done", "answer"}
      /\ call[r].op # "set_password"
  BY FlowOf DEF WayIn, FlowInv, Ending
<1>1. CASE known
  <2>1. Goto(r, "user") /\ UNCHANGED store /\ decidedAt' = decidedAt BY <1>1 DEF Admit
  <2>2. Carries(r) BY <1>0, <2>1, SameCarries
  <2>3. MayBe(r, "user") BY <1>0 DEF MayBe, FlowInv, WayIn, Ending
  <2>4. /\ Moves(r) /\ pc'[r] = "user" /\ outcome'[r] = "none"
        /\ lastHeld' = lastHeld /\ lastAbsent' = lastAbsent
    BY <1>0, <2>1, <2>2, <2>3, GotoMoves DEF PCs
  <2>5. Idles(r) BY <2>1 DEF Idles, Unwritten
  <2>6. Timeless BY <2>1, <2>4 DEF Timeless, store
  <2> QED BY <1>0, <2>4, <2>5, <2>6
       DEF WaysIn, Works, TokenNext, FlightInv, DecisionInv
<1>2. CASE ~known
  <2>1. Fail(r, "unknown_tenant") /\ decidedAt' = [decidedAt EXCEPT ![r] = now]
    BY <1>2 DEF Admit
  <2>2. Carries(r) /\ decidedAt'[r] = now
    BY <1>0, <2>1 DEF Carries, ControlTypes, CacheTypes
  <2>3. /\ Moves(r) /\ Loses(r) /\ pc'[r] = "done" /\ outcome'[r] = "unknown_tenant"
        /\ rows' = rows /\ lastHeld' = lastHeld /\ lastAbsent' = lastAbsent
    BY <1>0, <2>1, <2>2, FailMoves DEF Outcomes
  <2>4. WasAbsent(call[r].tenant, now)'
    BY <1>2, <2>3 DEF KnownOr, WasAbsent, Since, Moves
  <2>5. DecisionInv(r)' BY <2>2, <2>3, <2>4 DEF DecisionInv, WasAbsent
  <2> QED BY <1>0, <2>3, <2>5 DEF WaysIn, Works, TokenNext, FlightInv, Timeless
<1> QED BY <1>1, <1>2

LEMMA DecideEffect ==
  ASSUME Inv, NEW r \in Requests, pc[r] \in WayIn, NEW perms, now' = now,
         HeldSince(call[r].by, perms, now - PERMISSION_TTL - MaxFlight + 1),
         Decide(r, perms), call' = call, got' = got, readAt' = readAt, codesDone' = codesDone
  PROVE  WaysIn(r)
<1>0. /\ ControlTypes /\ CacheTypes /\ FlowInv(r) /\ pc[r] \notin {"commit", "done", "answer"}
      /\ call[r].op # "set_password"
  BY FlowOf DEF WayIn, FlowInv, Ending
<1>1. Carries(r) /\ decidedAt'[r] = now BY <1>0 DEF Decide, Carries, ControlTypes, CacheTypes
<1>2. CASE Allows(perms, Need(r))
  <2>1. Goto(r, AfterAllowed(call[r].op)) /\ UNCHANGED store BY <1>2 DEF Decide
  <2> DEFINE p == AfterAllowed(call[r].op)
  <2>2. p \in {"answer", "write", "check"} /\ (call[r].op = "read" => p = "answer")
    BY DEF AfterAllowed, ByRole
  <2>3. MayBe(r, p) BY <1>0, <2>2 DEF MayBe, FlowInv, WayIn, Ending
  <2>4. p \in PCs BY <2>2 DEF PCs
  <2> HIDE DEF p
  <2>5. /\ Moves(r) /\ pc'[r] = p /\ outcome'[r] = "none"
        /\ lastHeld' = lastHeld /\ lastAbsent' = lastAbsent
    BY <1>0, <1>1, <2>1, <2>3, <2>4, GotoMoves DEF p
  <2>6. Idles(r) BY <2>1 DEF Idles, Unwritten
  <2>7. Timeless BY <2>1, <2>5 DEF Timeless, store
  <2>8. call[r].op = "read" => MayRead(call[r].by, now)
    <3> SUFFICES ASSUME call[r].op = "read" PROVE MayRead(call[r].by, now)
      OBVIOUS
    <3>1. Need(r) = Required["read"] BY DEF Need, ByRole
    <3>2. PICK c \in perms : c \in {Required["read"], <<Required["read"][1], Star>>, <<Star, Star>>}
      BY <1>2, <3>1 DEF Allows
    <3>3. Allows({c}, Required["read"]) BY <3>2 DEF Allows
    <3> QED BY <3>2, <3>3 DEF HeldSince, MayRead
  <2>9. DecisionInv(r)' BY <1>1, <2>5, <2>8 DEF DecisionInv, MayRead, Since, Moves
  <2> QED BY <1>0, <2>2, <2>5, <2>6, <2>7, <2>9
       DEF WaysIn, Works, TokenNext, FlightInv, p
<1>3. CASE ~Allows(perms, Need(r))
  <2>1. Fail(r, "forbidden") BY <1>3 DEF Decide
  <2>2. /\ Moves(r) /\ Loses(r) /\ pc'[r] = "done" /\ outcome'[r] = "forbidden"
        /\ rows' = rows /\ lastHeld' = lastHeld /\ lastAbsent' = lastAbsent
    BY <1>0, <1>1, <2>1, FailMoves DEF Outcomes
  <2> QED BY <1>0, <2>2 DEF WaysIn, Works, TokenNext, FlightInv, DecisionInv, Timeless
<1> QED BY <1>2, <1>3

LEMMA WaysInKeep ==
  ASSUME Inv, NEW r \in Requests, WaysIn(r), CacheTypes', CacheInv'
  PROVE  Inv'
<1>1. Stored /\ ControlTypes /\ TimeInv /\ \A q \in Requests : TokenInv(q) BY InvIs
<1>2. Stored' BY <1>1, StoreKept DEF WaysIn
<1>3. \A q \in Requests : TokenInv(q)' BY <1>1, TokensKept DEF WaysIn
<1>4. ControlTypes' /\ Moves(r) BY DEF WaysIn, Works, Moves
<1>5. TimeInv' BY <1>1, <1>4, WayInKeepsTime DEF WaysIn
<1> QED BY <1>2, <1>3, <1>4, <1>5, InvNextIs

\* An entry that is used has not expired.
LEMMA HitIsKnown ==
  ASSUME Inv, NEW r \in Requests, Hit(TenantKey(r))
  PROVE  KnownOr(call[r].tenant, cache[TenantKey(r)].value, now - TENANT_TTL - MaxFlight + 1)
<1> DEFINE e == cache[<<"tenant", call[r].tenant>>]
<1>0. ControlTypes /\ CacheTypes /\ CacheInv BY FlowOf
<1>1. call[r].tenant \in Tenants /\ now \in Nat /\ {MaxFlight, TENANT_TTL} \subseteq Nat
  BY <1>0, Called, AccessAssumption DEF CacheTypes
<1>2. e # None /\ now < e.until BY DEF Hit, TenantKey
<1>3. e.until \in Nat /\ KnownOr(call[r].tenant, e.value, e.until - TENANT_TTL - MaxFlight)
  BY <1>0, <1>1, <1>2 DEF CacheInv
<1>4. lastAbsent[call[r].tenant] \in Nat \cup {None} BY <1>0, <1>1, AccessAssumption DEF CacheTypes
<1> HIDE DEF e
<1>5. KnownOr(call[r].tenant, e.value, now - TENANT_TTL - MaxFlight + 1)
  BY <1>1, <1>2, <1>3, <1>4 DEF KnownOr, Since
<1> QED BY <1>5 DEF e, TenantKey

LEMMA HitIsHeld ==
  ASSUME Inv, NEW r \in Requests, Hit(PermissionKey(r))
  PROVE  HeldSince(call[r].by, cache[PermissionKey(r)].value, now - PERMISSION_TTL - MaxFlight + 1)
<1> DEFINE u == call[r].by
           e == cache[<<"permission", call[r].tenant, u>>]
<1>0. ControlTypes /\ CacheTypes /\ CacheInv BY FlowOf
<1>1. /\ call[r].tenant \in Tenants /\ u \in Users
      /\ now \in Nat /\ {MaxFlight, PERMISSION_TTL} \subseteq Nat
  BY <1>0, Called, AccessAssumption DEF CacheTypes
<1>2. e # None /\ now < e.until BY DEF Hit, PermissionKey
<1>3. e.until \in Nat /\ HeldSince(u, e.value, e.until - PERMISSION_TTL - MaxFlight)
  BY <1>0, <1>1, <1>2 DEF CacheInv
<1>4. \A c \in Codes : lastHeld[<<u, c>>] \in Nat \cup {None}
  BY <1>0, <1>1, AccessAssumption DEF CacheTypes
<1> HIDE DEF e, u
<1>5. HeldSince(u, e.value, now - PERMISSION_TTL - MaxFlight + 1)
  BY <1>1, <1>2, <1>3, <1>4 DEF HeldSince, Since
<1> QED BY <1>5 DEF e, u, PermissionKey

\* To look elsewhere tells r nothing.
LEMMA LooksOn ==
  ASSUME Inv, NEW r \in Requests, pc[r] \in WayIn, NEW p \in WayIn \ {"keep", "keep_tenant"},
         Goto(r, p), UNCHANGED <<store, process, call, got, readAt, codesDone, decidedAt>>
  PROVE  Inv'
<1>0. /\ ControlTypes /\ CacheTypes /\ FlowInv(r) /\ pc[r] \notin {"commit", "done", "answer"}
      /\ call[r].op # "set_password" /\ TimeInv
  BY FlowOf DEF WayIn, FlowInv, Ending
<1>1. Carries(r) BY <1>0, SameCarries
<1>2. MayBe(r, p) BY <1>0 DEF MayBe, FlowInv, WayIn, Ending
<1>3. /\ Moves(r) /\ pc'[r] = p /\ outcome'[r] = "none"
      /\ lastHeld' = lastHeld /\ lastAbsent' = lastAbsent
  BY <1>0, <1>1, <1>2, GotoMoves DEF WayIn, PCs
<1>4. Idles(r) BY DEF Idles, Unwritten
<1>5. Timeless /\ cache' = cache BY <1>3 DEF Timeless, store, process
<1>6. WaysIn(r)
  BY <1>0, <1>3, <1>4, <1>5 DEF WaysIn, Works, TokenNext, FlightInv, DecisionInv, WayIn
<1> QED BY <1>0, <1>5, <1>6, CacheStays, WaysInKeep

LEMMA LookUpTenantKeeps ==
  ASSUME Inv, NEW r \in Requests, LookUpTenant(r) PROVE Inv'
<1>0. /\ pc[r] \in WayIn /\ now' = now /\ cache' = cache
      /\ call' = call /\ got' = got /\ readAt' = readAt /\ codesDone' = codesDone
  BY DEF LookUpTenant, WayIn, process
<1>1. CASE Hit(TenantKey(r)) /\ Admit(r, cache[TenantKey(r)].value, "user")
  <2>1. WaysIn(r)
    <3> DEFINE known == cache[TenantKey(r)].value
    <3>1. KnownOr(call[r].tenant, known, now - TENANT_TTL - MaxFlight + 1)
      BY <1>1, HitIsKnown
    <3>2. Admit(r, known, "user") BY <1>1
    <3> HIDE DEF known
    <3> QED BY <1>0, <3>1, <3>2, AdmitEffect
  <2>2. Timeless BY <2>1 DEF WaysIn
  <2> QED BY <1>0, <2>1, <2>2, CacheStays, WaysInKeep, FlowOf
<1>2. CASE Goto(r, "find_tenant") /\ UNCHANGED <<store, decidedAt>>
  <2>1. UNCHANGED <<store, process, call, got, readAt, codesDone, decidedAt>>
    BY <1>0, <1>2 DEF process
  <2> QED BY <1>0, <1>2, <2>1, LooksOn DEF WayIn
<1> QED BY <1>1, <1>2 DEF LookUpTenant

LEMMA GetPermissionsKeeps ==
  ASSUME Inv, NEW r \in Requests, GetPermissions(r) PROVE Inv'
<1>0. /\ pc[r] \in WayIn /\ now' = now /\ cache' = cache
      /\ call' = call /\ got' = got /\ readAt' = readAt /\ codesDone' = codesDone
  BY DEF GetPermissions, WayIn, process
<1>1. CASE Hit(PermissionKey(r)) /\ Decide(r, cache[PermissionKey(r)].value)
  <2>1. WaysIn(r)
    <3> DEFINE perms == cache[PermissionKey(r)].value
    <3>1. HeldSince(call[r].by, perms, now - PERMISSION_TTL - MaxFlight + 1) BY <1>1, HitIsHeld
    <3>2. Decide(r, perms) BY <1>1
    <3> HIDE DEF perms
    <3> QED BY <1>0, <3>1, <3>2, DecideEffect
  <2>2. Timeless BY <2>1 DEF WaysIn
  <2> QED BY <1>0, <2>1, <2>2, CacheStays, WaysInKeep, FlowOf
<1>2. CASE Goto(r, "resolve") /\ UNCHANGED <<store, decidedAt>>
  <2>1. UNCHANGED <<store, process, call, got, readAt, codesDone, decidedAt>>
    BY <1>0, <1>2 DEF process
  <2> QED BY <1>0, <1>2, <2>1, LooksOn DEF WayIn
<1> QED BY <1>1, <1>2 DEF GetPermissions

\* A read of the database is on record for now.
LEMMA ReadsKeep ==
  ASSUME Inv, NEW r \in Requests, pc[r] \in WayIn, NEW p \in {"keep_tenant", "keep"}, NEW g,
         got' = [got EXCEPT ![r] = g], readAt' = [readAt EXCEPT ![r] = now], Goto(r, p),
         UNCHANGED <<store, process, call, codesDone, decidedAt>>,
         p = "keep_tenant" => KnownOr(call[r].tenant, g, now),
         p = "keep" => HeldSince(call[r].by, g, now)
  PROVE  Inv'
<1>0. /\ ControlTypes /\ CacheTypes /\ FlowInv(r) /\ pc[r] \notin {"commit", "done", "answer"}
      /\ call[r].op # "set_password" /\ TimeInv /\ now \in 0..MaxNow
  BY FlowOf DEF WayIn, FlowInv, Ending, CacheTypes
<1>1. /\ Carries(r) /\ got'[r] = g /\ readAt'[r] = now
  BY <1>0 DEF Carries, ControlTypes
<1>2. MayBe(r, p) BY <1>0 DEF MayBe, FlowInv, WayIn, Ending
<1>3. /\ Moves(r) /\ pc'[r] = p /\ outcome'[r] = "none"
      /\ lastHeld' = lastHeld /\ lastAbsent' = lastAbsent
  BY <1>0, <1>1, <1>2, GotoMoves DEF PCs
<1>4. Idles(r) BY DEF Idles, Unwritten
<1>5. Timeless /\ cache' = cache /\ call' = call BY <1>3 DEF Timeless, store, process
<1>6. now <= now /\ now <= now + MaxFlight BY <1>0, AccessAssumption
<1>7. FlightInv(r)'
  <2>1. CASE p = "keep_tenant"
    BY <1>1, <1>3, <1>5, <1>6, <2>1 DEF FlightInv, Timeless, KnownOr, Since
  <2>2. CASE p = "keep"
    BY <1>1, <1>3, <1>5, <1>6, <2>2 DEF FlightInv, Timeless, HeldSince, Since
  <2> QED BY <2>1, <2>2
<1>8. WaysIn(r) BY <1>0, <1>3, <1>4, <1>5, <1>7 DEF WaysIn, Works, TokenNext, DecisionInv
<1> QED BY <1>0, <1>5, <1>8, CacheStays, WaysInKeep

LEMMA FindTenantKeeps ==
  ASSUME Inv, NEW r \in Requests, FindTenant(r) PROVE Inv'
<1>1. call[r].tenant \in Tenants /\ now \in Nat
  BY FlowOf, Called, AccessAssumption DEF CacheTypes
<1>2. KnownOr(call[r].tenant, call[r].tenant \in Ids(rows), now)
  BY <1>1, FlowOf, AccessAssumption DEF KnownOr, Since, RecordInv
<1> QED BY <1>2, ReadsKeep DEF FindTenant, WayIn

LEMMA ResolvePermissionsKeeps ==
  ASSUME Inv, NEW r \in Requests, ResolvePermissions(r) PROVE Inv'
<1> DEFINE perms == Granted(rows, call[r].tenant, call[r].by)
<1>1. call[r].tenant \in Tenants /\ call[r].by \in Users /\ now \in Nat
  BY FlowOf, Called, AccessAssumption DEF CacheTypes
<1>2. HeldSince(call[r].by, perms, now)
  <2> SUFFICES ASSUME NEW c \in perms
               PROVE  c \in Codes /\ Since(lastHeld[<<call[r].by, c>>], now)
    BY DEF HeldSince
  <2>1. PICK x \in Of(rows, "permission") : c = x.code BY DEF Granted
  <2>2. x \in PermissionRow BY <2>1, FlowOf, Sorts DEF Of, StoreTypes
  <2>3. c \in Codes BY <2>1, <2>2 DEF PermissionRow
  <2>4. Held(call[r].by, c) BY <1>1 DEF Held
  <2> QED BY <1>1, <2>3, <2>4, FlowOf, AccessAssumption DEF RecordInv, Since
<1>3. /\ pc[r] \in WayIn /\ got' = [got EXCEPT ![r] = perms]
      /\ readAt' = [readAt EXCEPT ![r] = now] /\ Goto(r, "keep")
      /\ UNCHANGED <<store, process, call, codesDone, decidedAt>>
  BY DEF ResolvePermissions, WayIn
<1> HIDE DEF perms
<1> QED BY <1>2, <1>3, ReadsKeep

LEMMA KeepTenantKeeps ==
  ASSUME Inv, NEW r \in Requests, KeepTenant(r) PROVE Inv'
<1>1. /\ call[r].tenant \in Tenants /\ now \in Nat /\ readAt[r] \in Nat
      /\ {MaxFlight, TENANT_TTL} \subseteq Nat /\ TENANT_TTL > 0
      /\ lastAbsent[call[r].tenant] \in Nat \cup {None}
  BY FlowOf, Called, AccessAssumption DEF CacheTypes, ControlTypes
<1>2. /\ pc[r] = "keep_tenant" /\ now' = now /\ call' = call /\ got' = got /\ readAt' = readAt
      /\ codesDone' = codesDone
      /\ CacheSet(<<"tenant", call[r].tenant>>, got[r], TENANT_TTL) /\ Admit(r, got[r], "user")
  BY DEF KeepTenant, TenantKey
<1>3. /\ KnownOr(call[r].tenant, got[r], readAt[r]) /\ now <= readAt[r] + MaxFlight
  BY <1>2, FlowOf DEF FlightInv
<1>4. KnownOr(call[r].tenant, got[r], now - TENANT_TTL - MaxFlight + 1)
  BY <1>1, <1>3 DEF KnownOr, Since
<1>5. WaysIn(r) BY <1>2, <1>4, AdmitEffect DEF WayIn
<1>6. CacheTypes' /\ CacheInv' BY <1>1, <1>2, <1>3, <1>5, FlowOf, KnownIsKept DEF WaysIn
<1> QED BY <1>5, <1>6, WaysInKeep

LEMMA KeepPermissionsKeeps ==
  ASSUME Inv, NEW r \in Requests, KeepPermissions(r) PROVE Inv'
<1>1. /\ call[r].tenant \in Tenants /\ call[r].by \in Users /\ now \in Nat /\ readAt[r] \in Nat
      /\ {MaxFlight, PERMISSION_TTL} \subseteq Nat /\ PERMISSION_TTL > 0
      /\ \A c \in Codes : lastHeld[<<call[r].by, c>>] \in Nat \cup {None}
  BY FlowOf, Called, AccessAssumption DEF CacheTypes, ControlTypes
<1>2. /\ pc[r] = "keep" /\ now' = now /\ call' = call /\ got' = got /\ readAt' = readAt
      /\ codesDone' = codesDone /\ Decide(r, got[r])
      /\ CacheSet(<<"permission", call[r].tenant, call[r].by>>, got[r], PERMISSION_TTL)
  BY DEF KeepPermissions, PermissionKey
<1>3. /\ HeldSince(call[r].by, got[r], readAt[r]) /\ now <= readAt[r] + MaxFlight
  BY <1>2, FlowOf DEF FlightInv
<1>4. HeldSince(call[r].by, got[r], now - PERMISSION_TTL - MaxFlight + 1)
  BY <1>1, <1>3 DEF HeldSince, Since
<1>5. WaysIn(r) BY <1>2, <1>4, DecideEffect DEF WayIn
<1>6. CacheTypes' /\ CacheInv' BY <1>1, <1>2, <1>3, <1>5, FlowOf, HeldIsKept DEF WaysIn
<1> QED BY <1>5, <1>6, WaysInKeep

-----------------------------------------------------------------------------
(* The routes. *)

LEMMA QuietlyKeeps ==
  ASSUME Inv, NEW r \in Requests, Works(r), TokenNext(r), Quiet(r)
  PROVE  Inv'
<1>1. /\ Stored /\ ControlTypes /\ CacheTypes /\ TimeInv /\ \A q \in Requests : TokenInv(q)
      /\ Moves(r)
  BY InvIs DEF Works
<1>2. Stored' BY <1>1, StoreKept
<1>3. \A q \in Requests : TokenInv(q)' BY <1>1, TokensKept
<1>4. ControlTypes' BY <1>1 DEF Moves
<1>5. CacheTypes' /\ TimeInv' BY <1>1, QuietKeepsTime
<1> QED BY <1>2, <1>3, <1>4, <1>5, InvNextIs

LEMMA FailsQuietly ==
  ASSUME Inv, NEW r \in Requests, pc[r] # "done", NEW o \in Outcomes,
         o = outcome[r] \/ o \notin {"unknown_tenant", "success"}, Fail(r, o),
         UNCHANGED <<process, local>>
  PROVE  Inv'
<1>1. ControlTypes BY FlowOf
<1>2. /\ now' = now /\ cache' = cache /\ call' = call /\ got' = got /\ readAt' = readAt
      /\ decidedAt' = decidedAt /\ codesDone' = codesDone
  BY DEF process, local
<1>3. /\ Moves(r) /\ Loses(r) /\ pc'[r] = "done" /\ outcome'[r] = o /\ rows' = rows
      /\ lastHeld' = lastHeld /\ lastAbsent' = lastAbsent
  BY <1>1, <1>2, SameCarries, FailMoves
<1>4. Works(r) /\ TokenNext(r) BY <1>3 DEF Works, TokenNext
<1>5. Quiet(r) BY <1>2, <1>3 DEF Quiet
<1> QED BY <1>4, <1>5, QuietlyKeeps

\* r goes on to p; it may have written, or lost what it had, on the way.
Writes(r) == Idles(r) \/ Loses(r) \/ \E new, del : Puts(r, new, del)

LEMMA GoesQuietly ==
  ASSUME Inv, NEW r \in Requests, pc[r] \notin {"commit", "done"},
         NEW p \in PCs \ {"keep", "keep_tenant"}, Goto(r, p), Carries(r), MayBe(r, p),
         now' = now, cache' = cache, decidedAt' = decidedAt,
         call[r].op = "read" => p \notin {"answer", "commit"},
         pc'[r] = p => Writes(r) /\ TokenNext(r)
  PROVE  Inv'
<1>1. ControlTypes /\ FlowInv(r) BY FlowOf
<1>2. /\ Moves(r) /\ pc'[r] = p /\ outcome'[r] = outcome[r] /\ outcome[r] = "none"
      /\ lastHeld' = lastHeld /\ lastAbsent' = lastAbsent
  BY <1>1, GotoMoves
<1>3. Works(r) BY <1>2 DEF Works, Writes
<1>4. rows' = rows BY <1>2 DEF Writes, Idles, Loses, Puts, store, Drop, Flush
<1>5. Quiet(r) BY <1>2, <1>4 DEF Quiet
<1> QED BY <1>2, <1>3, <1>5, QuietlyKeeps

LEMMA CurrentUserKeeps ==
  ASSUME Inv, NEW r \in Requests, CurrentUser(r) PROVE Inv'
<1>0. pc[r] = "user" /\ UNCHANGED <<process, local>> BY DEF CurrentUser
<1>1. /\ ControlTypes /\ FlowInv(r) /\ call[r].op \notin {"idle", "login", "set_password"}
  BY <1>0, FlowOf DEF FlowInv, WayIn, Ending
<1>2. ASSUME NEW o \in {"unauthenticated", "forbidden"}, Fail(r, o) PROVE Inv'
  BY <1>0, <1>2, FailsQuietly DEF Outcomes
<1>3. CASE Goto(r, AfterUser(call[r].op)) /\ UNCHANGED store
  <2>1. PICK p : p = AfterUser(call[r].op) OBVIOUS
  <2>2. p \in {"check", "cache"} /\ (call[r].op = "read" => p = "cache")
    BY <2>1 DEF AfterUser, OwnAccount, ByRole
  <2>3. MayBe(r, p) BY <1>1, <2>2 DEF MayBe, WayIn
  <2>4. /\ now' = now /\ cache' = cache /\ call' = call /\ got' = got /\ readAt' = readAt
        /\ decidedAt' = decidedAt /\ codesDone' = codesDone
    BY <1>0 DEF process, local
  <2>5. Writes(r) /\ TokenNext(r)
    BY <1>0, <1>1, <1>3 DEF Writes, Idles, Unwritten, WayIn, TokenNext
  <2> QED BY <1>0, <1>1, <1>3, <2>1, <2>2, <2>3, <2>4, <2>5, SameCarries, GoesQuietly DEF PCs
<1> QED BY <1>2, <1>3 DEF CurrentUser

LEMMA RefusalIs ==
  ASSUME NEW r \in Requests
  PROVE  Refusal(r) \in {"none", "invalid", "exists", "not_found"}
  BY DEF Refusal, RefuseCreateRole, RefuseRegister, RefuseUpdateRole, RefuseDeleteRole, Found,
         BothFound, RefuseRemovePermission, RefuseRemoveRole, RefuseOwnAccount, RefuseToken

\* A token that is not refused is there, and not used.
LEMMA TokenIsThere ==
  ASSUME NEW r \in Requests, call[r].op = "set_password", Refusal(r) = "none"
  PROVE  \E x \in Of(View(r), "token") : x.id = call[r].target /\ ~x.used
<1>1. Refusal(r) = RefuseToken(r) BY DEF Refusal, ByRole, OwnAccount
<1> QED BY <1>1 DEF RefuseToken

LEMMA CheckKeeps ==
  ASSUME Inv, NEW r \in Requests, Check(r) PROVE Inv'
<1>0. pc[r] = "check" /\ UNCHANGED <<process, local>> BY DEF Check
<1>1. /\ ControlTypes /\ FlowInv(r) /\ PathInv(r)
      /\ call[r].op \notin {"idle", "login", "read"}
  BY <1>0, FlowOf DEF FlowInv, WayIn, Ending
<1>2. CASE Refusal(r) # "none" /\ Fail(r, Refusal(r))
  <2>1. PICK o \in {"invalid", "exists", "not_found"} : o = Refusal(r) BY <1>2, RefusalIs
  <2>2. Fail(r, o) BY <1>2, <2>1
  <2> QED BY <1>0, <2>2, FailsQuietly DEF Outcomes
<1>3. CASE Refusal(r) = "none" /\ Goto(r, AfterCheck(call[r].op)) /\ UNCHANGED store
  <2>1. PICK p : p = AfterCheck(call[r].op) OBVIOUS
  <2>2. p \in {"cache", "spend", "write"} /\ (p = "spend" <=> call[r].op = "set_password")
    BY <2>1 DEF AfterCheck, ByRole
  <2>3. MayBe(r, p) BY <1>1, <2>2 DEF MayBe
  <2>4. /\ now' = now /\ cache' = cache /\ call' = call /\ got' = got /\ readAt' = readAt
        /\ decidedAt' = decidedAt /\ codesDone' = codesDone
    BY <1>0 DEF process, local
  <2>5. Writes(r) BY <1>0, <1>3 DEF Writes, Idles, Unwritten
  <2>6. pc'[r] = p => TokenNext(r)
    <3> SUFFICES ASSUME pc'[r] = p, call[r].op = "set_password"
                 PROVE  call[r].target \in Ids(rows) /\ pc'[r] = "spend"
      BY DEF TokenNext
    <3>1. View(r) = rows BY <1>0, <1>1, ViewOfNothing DEF PathInv, Unwritten
    <3> QED BY <1>3, <2>2, <3>1, TokenIsThere DEF Of, Ids
  <2> QED BY <1>0, <1>1, <1>3, <2>1, <2>2, <2>3, <2>4, <2>5, <2>6, SameCarries, GoesQuietly DEF PCs
<1> QED BY <1>2, <1>3 DEF Check


-----------------------------------------------------------------------------
(* What a request writes. *)

LEMMA OwnIds ==
  ASSUME NEW r \in Requests
  PROVE  /\ <<"tenant", r>> \in TenantIds /\ <<"permission", r>> \in PermissionIds
         /\ <<"role", r>> \in RoleIds /\ <<"app_user", r>> \in Id("app_user")
         /\ <<"user_role", r>> \in Id("user_role") /\ <<"token", r>> \in Id("token")
  BY DEF Id, TenantIds, PermissionIds, RoleIds

LEMMA GrantIsTyped ==
  ASSUME ControlTypes, NEW r \in Requests, NEW n \in Nat, NEW role \in RoleIds,
         NEW p \in PermissionIds
  PROVE  NewRolePermission(r, n, role, p) \in RolePermissionRow
<1>1. <<"role_permission", r, n>> \in GrantIds BY DEF GrantIds
<1>2. call[r].tenant \in TenantIds BY Called
<1> QED BY <1>1, <1>2 DEF NewRolePermission, RolePermissionRow

\* A row that is neither a user nor a token.
LEMMA OthersAreSound ==
  ASSUME NEW r \in Requests, NEW y \in TenantRow \cup RoleRow \cup PermissionRow
                                       \cup RolePermissionRow \cup UserRoleRow \cup SubjectRow
  PROVE  Sound(r, y)
  BY Kinds DEF Sound, AnyRow

LEMMA NewRowIsSound ==
  ASSUME ControlTypes, NEW r \in Requests, call[r].op \in Inserts
  PROVE  Sound(r, NewRow(r))
<1>0. /\ call[r].tenant \in TenantIds /\ call[r].code \in STRING
      /\ <<"tenant", r>> \in TenantIds /\ <<"permission", r>> \in PermissionIds
      /\ <<"role", r>> \in RoleIds /\ <<"app_user", r>> \in Id("app_user")
      /\ <<"user_role", r>> \in Id("user_role")
  BY Called, OwnIds
<1>1. CASE call[r].op = "create_role"
  <2>1. NewRole(r) \in RoleRow BY <1>0 DEF NewRole, RoleRow
  <2> QED BY <1>1, <2>1, OthersAreSound DEF NewRow
<1>2. CASE call[r].op = "create_permission"
  <2>1. call[r].codes \in Seq(Codes) /\ call[r].codes # << >> BY <1>2, Called
  <2>2. call[r].codes[1] \in Codes BY <2>1
  <2>3. NewPermission(r) \in PermissionRow BY <1>0, <2>2 DEF NewPermission, PermissionRow
  <2> QED BY <1>2, <2>3, OthersAreSound DEF NewRow
<1>3. CASE call[r].op \in {"create_user", "register"}
  <2>1. NewUser(r) \in UserRow /\ NewUser(r).id \in Own(r) BY <1>0 DEF NewUser, UserRow, Own
  <2> QED BY <1>3, <2>1 DEF NewRow, Sound, AnyRow
<1>4. CASE call[r].op = "assign_permission"
  <2>1. call[r].target \in RoleIds /\ call[r].other \in PermissionIds BY <1>4, Called
  <2>2. NewRow(r) \in RolePermissionRow BY <1>4, <2>1, GrantIsTyped DEF NewRow
  <2> QED BY <2>2, OthersAreSound
<1>5. CASE call[r].op = "assign_role"
  <2>1. call[r].target \in Id("app_user") /\ call[r].other \in RoleIds BY <1>5, Called DEF ByRole
  <2>2. NewUserRole(r) \in UserRoleRow BY <1>0, <2>1 DEF NewUserRole, UserRoleRow
  <2> QED BY <1>5, <2>2, OthersAreSound DEF NewRow
<1>6. CASE call[r].op = "create_tenant"
  <2>1. NewTenant(r) \in TenantRow BY <1>0 DEF NewTenant, TenantRow
  <2> QED BY <1>6, <2>1, OthersAreSound DEF NewRow
<1> QED BY <1>1, <1>2, <1>3, <1>4, <1>5, <1>6 DEF Inserts

Assigns == {"update_role", "delete_role", "update_me", "delete_me", "set_password",
            "update_tenant"}

\* An update of what r has seen.
LEMMA AssignedIsSound ==
  ASSUME ControlTypes, NEW r \in Requests, call[r].op \in Assigns,
         NEW x \in View(r), x \in AnyRow, x.id = Subject(r),
         call[r].op = "set_password" => x.id \in Id("app_user")
  PROVE  /\ Sound(r, Assigned(r, x)) /\ Assigned(r, x).id = x.id
         /\ call[r].op = "set_password" => x.id[1] = "app_user"
<1>1. CASE call[r].op \in {"update_role", "delete_role"}
  <2>1. x.id \in RoleIds /\ call[r].flag \in BOOLEAN
    BY <1>1, Called DEF Subject, OwnAccount
  <2>2. x.id[1] = "role" BY <2>1, IdTable DEF RoleIds
  <2>3. x \in RoleRow BY <2>2, Sorts
  <2>4. Assigned(r, x) \in RoleRow /\ Assigned(r, x).id = x.id
    BY <1>1, <2>1, <2>3 DEF Assigned, RoleChanged, RoleDeactivated, RoleRow
  <2> QED BY <1>1, <2>4, OthersAreSound
<1>2. CASE call[r].op \in {"update_me", "delete_me", "set_password"}
  <2>1. x.id \in Id("app_user") /\ call[r].code \in STRING
    BY <1>2, Called DEF Subject, OwnAccount
  <2>2. x.id[1] = "app_user" BY <2>1, IdTable
  <2>3. x \in UserRow BY <2>2, Sorts
  <2>4. /\ Assigned(r, x) \in UserRow /\ Assigned(r, x).id = x.id
        /\ ~x.active => ~Assigned(r, x).active
    BY <1>2, <2>1, <2>3 DEF Assigned, EmailChanged, UserDeactivated, PasswordSet, UserRow
  <2>5. Keeps(x, Assigned(r, x)) BY <2>2, <2>4 DEF Keeps
  <2> QED BY <2>2, <2>4, <2>5 DEF Sound, AnyRow
<1>3. CASE call[r].op = "update_tenant"
  <2>1. x.id \in TenantIds /\ call[r].code \in {"active", "suspended", "archived"}
    BY <1>3, Called DEF Subject, OwnAccount
  <2>2. x.id[1] = "tenant" BY <2>1, IdTable DEF TenantIds
  <2>3. x \in TenantRow BY <2>2, Sorts
  <2>4. Assigned(r, x) \in TenantRow /\ Assigned(r, x).id = x.id
    BY <1>3, <2>1, <2>3 DEF Assigned, TenantChanged, TenantRow
  <2> QED BY <1>3, <2>4, OthersAreSound
<1> QED BY <1>1, <1>2, <1>3 DEF Assigns

LEMMA DeletedIsDeletable ==
  ASSUME Inv, NEW r \in Requests
  PROVE  Deletable(Deleted(r))
<1>1. View(r) \subseteq AnyRow BY ViewIsTyped DEF Inv, Types
<1>2. PICK del : del = CASE call[r].op \in Removals -> Ids(Assignment(r))
                         [] call[r].op = "delete_permission" -> {call[r].target}
                         [] OTHER -> {}
  OBVIOUS
<1>3. Deletable(del)
  <2>1. CASE call[r].op \in Removals
    <3>1. \A x \in Assignment(r) : x.id[1] \in {"role_permission", "user_role"}
      BY DEF Assignment, RolePermission, UserRole, Of
    <3> QED BY <1>2, <2>1, <3>1 DEF Deletable, Ids, Removals
  <2>2. CASE call[r].op = "delete_permission"
    <3>1. call[r].target \in PermissionIds BY <2>2, FlowOf, Called
    <3>2. call[r].target[1] = "permission" BY <3>1, IdTable DEF PermissionIds
    <3> QED BY <1>2, <2>2, <3>2 DEF Deletable, Removals
  <2>3. CASE call[r].op \notin Removals \cup {"delete_permission"}
    BY <1>2, <2>3 DEF Deletable
  <2> QED BY <2>1, <2>2, <2>3
<1> QED BY <1>1, <1>2, <1>3, CascadeOfDeletable DEF Deleted

LEMMA WrittenIsSound ==
  ASSUME Inv, NEW r \in Requests, pc[r] = "write", session[r] = "active", ~Stale(r)
  PROVE  /\ \A y \in Written(r) : Sound(r, y)
         /\ \A x, y \in Written(r) : x = y
         /\ call[r].op = "set_password" => \A y \in Written(r) : y.id[1] = "app_user"
<1>0. /\ ControlTypes /\ call[r].op \in Ops \ {"idle", "read", "login"}
      /\ View(r) \subseteq AnyRow
  BY FlowOf, Called, ViewIsTyped DEF FlowInv, WayIn, Ending, Inv, Types
<1>1. CASE call[r].op \in Inserts
  <2>1. Written(r) = {NewRow(r)} BY <1>1 DEF Written, Inserts, Removals
  <2>2. call[r].op # "set_password" BY <1>1 DEF Inserts
  <2> QED BY <1>0, <1>1, <2>1, <2>2, NewRowIsSound
<1>2. CASE call[r].op \in Removals \cup {"delete_permission"}
  <2>1. Written(r) = {} BY <1>2 DEF Written, Inserts, Removals
  <2> QED BY <2>1
<1>3. CASE call[r].op \in Assigns
  <2>1. PICK x : x = Row(View(r), Subject(r)) OBVIOUS
  <2>2. Written(r) = {Assigned(r, x)}
    BY <1>3, <2>1 DEF Written, Inserts, Removals, Assigns
  <2>3. Subject(r) \in Ids(View(r)) BY <1>3 DEF Stale, Assigns, Inserts, Removals
  <2>4. x \in View(r) /\ x.id = Subject(r) BY <2>1, <2>3, RowIs
  <2>5. call[r].op = "set_password" => Subject(r) \in Id("app_user")
    <3> SUFFICES ASSUME call[r].op = "set_password" PROVE Subject(r) \in Id("app_user")
      OBVIOUS
    <3>1. UsedIn(put[r], call[r].target) BY FlowOf DEF TokenInv
    <3>2. call[r].target \in Ids(View(r)) BY <3>1 DEF UsedIn, Ids, View
    <3>3. PICK t : t = Row(View(r), call[r].target) OBVIOUS
    <3>4. t \in View(r) /\ t.id = call[r].target BY <3>2, <3>3, RowIs
    <3>5. t.id[1] = "token" BY <1>0, <3>4, Called, IdTable
    <3>6. t \in TokenRow BY <1>0, <3>4, <3>5, Sorts
    <3> QED BY <3>3, <3>6 DEF Subject, TokenRow
  <2>6. Sound(r, Assigned(r, x)) /\ Assigned(r, x).id = x.id
        /\ (call[r].op = "set_password" => x.id[1] = "app_user")
    BY <1>0, <1>3, <2>4, <2>5, AssignedIsSound
  <2>7. \A y \in Written(r) : y = Assigned(r, x) BY <2>2
  <2> QED BY <2>6, <2>7
<1> QED BY <1>0, <1>1, <1>2, <1>3 DEF Ops, Inserts, Removals, Assigns

\* What is written does not put the used token back.
LEMMA TokenStaysUsed ==
  ASSUME StoreTypes, NEW r \in Requests, NEW new \in SUBSET AnyRow, NEW del, NEW tenants, NEW t,
         Flush(r, new, del, tenants), UsedIn(put[r], t), t[1] = "token", Deletable(del),
         \A y \in new : y.id[1] = "app_user"
  PROVE  UsedIn(put'[r], t)
<1>1. /\ rows' = rows /\ committed' = committed /\ session' = session
      /\ session[r] = "active"
      /\ put' = [put EXCEPT ![r] = new \cup {x \in put[r] : x.id \notin del \cup Ids(new)}]
      /\ gone' = [gone EXCEPT ![r] = gone[r] \cup (del \cap Ids(rows))]
      /\ DOMAIN audited' = Requests
      /\ \A q \in Requests \ {r} : audited'[q] = audited[q]
      /\ \A q \in Requests \ {r} : (Ids(new) \cup del) \cap Touched(q) = {}
  BY FlushEffect
<1>2. put'[r] = new \cup {x \in put[r] : x.id \notin del \cup Ids(new)}
  BY <1>1 DEF StoreTypes
<1>3. PICK x \in put[r] : x.id = t /\ x.used BY DEF UsedIn
<1>4. x.id \notin Ids(new) /\ x.id \notin del BY <1>3 DEF Ids, Deletable
<1> QED BY <1>2, <1>3, <1>4 DEF UsedIn

LEMMA WriteKeeps ==
  ASSUME Inv, NEW r \in Requests, Write(r) PROVE Inv'
<1>0. /\ pc[r] = "write" /\ UNCHANGED <<process, local>>
      /\ now' = now /\ cache' = cache /\ call' = call /\ got' = got /\ readAt' = readAt
      /\ decidedAt' = decidedAt /\ codesDone' = codesDone
  BY DEF Write, process, local
<1>1. /\ ControlTypes /\ FlowInv(r) /\ StoreTypes /\ TokenInv(r)
      /\ call[r].op \in Ops \ {"idle", "read", "login"}
  BY <1>0, FlowOf, Called DEF FlowInv, WayIn, Ending
<1>2. ASSUME NEW o \in {"error", "not_found", "invalid", "exists"}, Fail(r, o) PROVE Inv'
  BY <1>0, <1>2, FailsQuietly DEF Outcomes
<1>3. IntegrityAnswer(call[r].op) \in {"error", "invalid", "exists"} BY DEF IntegrityAnswer
<1>4. PICK p : p = AfterWrite(call[r].op) OBVIOUS
<1>5. /\ p \in {"grants", "initialise", "answer"}
      /\ call[r].op = "set_password" => p = "answer"
      /\ call[r].op = "create_role" <=> p = "grants"
  BY <1>4 DEF AfterWrite
<1>6. MayBe(r, p) /\ p \in PCs \ {"keep", "keep_tenant"} BY <1>1, <1>5 DEF MayBe, Ending, PCs
<1>7. ASSUME ~Stale(r), Flush(r, Written(r), Deleted(r), AuditOf(r)), Goto(r, p) PROVE Inv'
  <2>0. session[r] = "active" BY <1>7 DEF Flush
  <2>1. /\ \A y \in Written(r) : Sound(r, y)
        /\ \A x, y \in Written(r) : x = y
        /\ call[r].op = "set_password" => \A y \in Written(r) : y.id[1] = "app_user"
    BY <1>0, <1>7, <2>0, WrittenIsSound
  <2>2. Deletable(Deleted(r)) BY DeletedIsDeletable
  <2>3. pc'[r] = p => Puts(r, Written(r), Deleted(r))
    BY <1>5, <1>7, <2>1, <2>2 DEF Puts, Unwritten, WayIn
  <2>4. pc'[r] = p => TokenNext(r)
    <3> SUFFICES ASSUME pc'[r] = p, call[r].op = "set_password" PROVE TokenNext(r)
      BY DEF TokenNext
    <3>1. UsedIn(put[r], call[r].target) /\ call[r].target \in Ids(rows)
      BY <1>0, <1>1, <2>0 DEF TokenInv
    <3>2. call[r].target[1] = "token" BY <1>1, Called, IdTable
    <3>3. Written(r) \in SUBSET AnyRow BY <2>1 DEF Sound
    <3>4. UsedIn(put'[r], call[r].target)
      BY <1>1, <1>7, <2>1, <2>2, <3>1, <3>2, <3>3, TokenStaysUsed
    <3> QED BY <3>1, <3>4 DEF TokenNext
  <2>5. pc'[r] = p => Writes(r) BY <2>3 DEF Writes
  <2> QED BY <1>0, <1>1, <1>5, <1>6, <1>7, <2>4, <2>5, SameCarries, GoesQuietly
<1>8. ASSUME call[r].op \in Unaware, Drop(r, "inactive"), Goto(r, p) PROVE Inv'
  <2>1. call[r].op # "set_password" BY <1>8 DEF Unaware
  <2>2. pc'[r] = p => Writes(r) /\ TokenNext(r)
    BY <1>5, <1>8, <2>1 DEF Writes, Loses, Unwritten, WayIn, TokenNext
  <2> QED BY <1>0, <1>1, <1>5, <1>6, <1>8, <2>2, SameCarries, GoesQuietly
<1> QED BY <1>2, <1>3, <1>4, <1>7, <1>8 DEF Write

\* Logging in, r only reads.
LEMMA LoginGoes ==
  ASSUME Inv, NEW r \in Requests, pc[r] \in {"login", "authenticate"},
         NEW p \in {"authenticate", "answer"}, NEW g, got' = [got EXCEPT ![r] = g], Goto(r, p),
         UNCHANGED <<store, process, call, readAt, codesDone, decidedAt>>
  PROVE  Inv'
<1>1. /\ ControlTypes /\ FlowInv(r) /\ call[r].op \notin {"idle", "read", "set_password"}
  BY FlowOf DEF FlowInv, WayIn, Ending
<1>2. now' = now /\ cache' = cache /\ Carries(r) BY <1>1 DEF process, Carries, ControlTypes
<1>3. MayBe(r, p) BY <1>1 DEF MayBe, Ending
<1>4. Writes(r) /\ TokenNext(r) BY <1>1 DEF Writes, Idles, Unwritten, TokenNext
<1> QED BY <1>1, <1>2, <1>3, <1>4, GoesQuietly DEF PCs

LEMMA LoginTenantKeeps ==
  ASSUME Inv, NEW r \in Requests, LoginTenant(r) PROVE Inv'
<1>1. pc[r] = "login" /\ UNCHANGED <<process, call, readAt, codesDone, decidedAt>>
  BY DEF LoginTenant
<1>2. CASE Fail(r, "unauthenticated") /\ UNCHANGED got
  BY <1>1, <1>2, FailsQuietly DEF Outcomes, local
<1>3. ASSUME NEW g, got' = [got EXCEPT ![r] = g], Goto(r, "authenticate"), UNCHANGED store
      PROVE  Inv'
  BY <1>1, <1>3, LoginGoes
<1> QED BY <1>2, <1>3 DEF LoginTenant

LEMMA AuthenticateKeeps ==
  ASSUME Inv, NEW r \in Requests, Authenticate(r) PROVE Inv'
<1>1. pc[r] = "authenticate" /\ UNCHANGED <<process, call, readAt, codesDone, decidedAt>>
  BY DEF Authenticate
<1>2. CASE Fail(r, "unauthenticated") /\ UNCHANGED got
  BY <1>1, <1>2, FailsQuietly DEF Outcomes, local
<1>3. ASSUME NEW g, got' = [got EXCEPT ![r] = g], Goto(r, "answer"), UNCHANGED store
      PROVE  Inv'
  BY <1>1, <1>3, LoginGoes
<1> QED BY <1>2, <1>3 DEF Authenticate

LEMMA FindCodeKeeps ==
  ASSUME Inv, NEW r \in Requests, FindCode(r) PROVE Inv'
<1>0. pc[r] = "grants" BY DEF FindCode
<1>1. /\ ControlTypes /\ FlowInv(r) /\ StoreTypes
      /\ call[r].op \notin {"idle", "read", "login", "set_password"}
  BY <1>0, FlowOf DEF FlowInv, WayIn, Ending
<1>2. CASE Goto(r, "answer") /\ Keep
  <2>1. /\ now' = now /\ cache' = cache /\ call' = call /\ got' = got /\ readAt' = readAt
        /\ decidedAt' = decidedAt /\ codesDone' = codesDone /\ UNCHANGED store
    BY <1>2 DEF Keep, process, local
  <2>2. MayBe(r, "answer") BY <1>1 DEF MayBe
  <2>3. pc'[r] = "answer" => Writes(r) /\ TokenNext(r)
    BY <1>1, <2>1 DEF Writes, Idles, Unwritten, TokenNext, WayIn
  <2> QED BY <1>0, <1>1, <1>2, <2>1, <2>2, <2>3, SameCarries, GoesQuietly DEF PCs
<1>3. CASE Fail(r, "invalid") /\ UNCHANGED <<process, local>>
  BY <1>0, <1>3, FailsQuietly DEF Outcomes
<1>4. ASSUME NEW p \in Of(rows, "permission"), got' = [got EXCEPT ![r] = p.id], Goto(r, "grant"),
             UNCHANGED <<store, process, call, codesDone, readAt, decidedAt>>
      PROVE  Inv'
  <2>1. p \in PermissionRow BY <1>1, Sorts DEF Of, StoreTypes
  <2>2. got'[r] \in PermissionIds BY <1>1, <1>4, <2>1 DEF PermissionRow, ControlTypes
  <2>3. now' = now /\ cache' = cache /\ Carries(r)
    BY <1>1, <1>4 DEF process, Carries, ControlTypes
  <2>4. MayBe(r, "grant") BY <1>1, <2>2 DEF MayBe
  <2>5. pc'[r] = "grant" => Writes(r) /\ TokenNext(r)
    BY <1>1, <1>4 DEF Writes, Idles, Unwritten, TokenNext, WayIn
  <2> QED BY <1>0, <1>1, <1>4, <2>3, <2>4, <2>5, GoesQuietly DEF PCs
<1>5. PICK found : found = Find(rows, "permission", call[r].tenant, call[r].codes[codesDone[r] + 1])
  OBVIOUS
<1>6. found # {} => (CHOOSE p \in found : TRUE) \in Of(rows, "permission") BY <1>5 DEF Find
<1>7. \/ Goto(r, "answer") /\ Keep
      \/ Fail(r, "invalid") /\ UNCHANGED <<process, local>>
      \/ /\ found # {} /\ got' = [got EXCEPT ![r] = (CHOOSE p \in found : TRUE).id]
         /\ Goto(r, "grant") /\ UNCHANGED <<store, process, call, codesDone, readAt, decidedAt>>
  BY <1>5 DEF FindCode
<1> QED BY <1>2, <1>3, <1>4, <1>6, <1>7

LEMMA GrantKeeps ==
  ASSUME Inv, NEW r \in Requests, Grant(r) PROVE Inv'
<1> DEFINE x == NewRolePermission(r, codesDone[r], <<"role", r>>, got[r])
<1>0. pc[r] = "grant" /\ UNCHANGED <<process, call, got, readAt, decidedAt>> BY DEF Grant
<1>1. /\ ControlTypes /\ FlowInv(r) /\ got[r] \in PermissionIds /\ codesDone[r] \in Nat
      /\ call[r].op \notin {"idle", "read", "login", "set_password"}
  BY <1>0, FlowOf DEF FlowInv, WayIn, Ending, ControlTypes
<1>2. Sound(r, x) BY <1>1, OwnIds, GrantIsTyped, OthersAreSound
<1> HIDE DEF x
<1>3. CASE Fail(r, "error") /\ UNCHANGED codesDone
  BY <1>0, <1>3, FailsQuietly DEF Outcomes, local
<1>4. CASE /\ (\E tenants : Flush(r, {x}, {}, tenants)) \/ Drop(r, "closed")
           /\ codesDone' = [codesDone EXCEPT ![r] = @ + 1] /\ Goto(r, "grants")
  <2>1. now' = now /\ cache' = cache /\ Carries(r)
    BY <1>0, <1>1, <1>4 DEF process, Carries, ControlTypes
  <2>2. MayBe(r, "grants") BY <1>1 DEF MayBe
  <2>3. pc'[r] = "grants" => Writes(r) /\ TokenNext(r)
    <3> SUFFICES ASSUME pc'[r] = "grants" PROVE Writes(r)
      BY <1>1 DEF TokenNext
    <3>1. CASE \E tenants : Flush(r, {x}, {}, tenants)
      <4>1. Puts(r, {x}, {}) BY <1>2, <3>1 DEF Puts, Unwritten, WayIn, Deletable
      <4> QED BY <4>1 DEF Writes
    <3>2. CASE Drop(r, "closed") BY <3>2 DEF Writes, Loses, Unwritten, WayIn
    <3> QED BY <1>4, <3>1, <3>2
  <2> QED BY <1>0, <1>1, <1>4, <2>1, <2>2, <2>3, GoesQuietly DEF PCs
<1> QED BY <1>3, <1>4 DEF Grant, x

-----------------------------------------------------------------------------
(* What a new tenant is given. *)

LEMMA CreateTenantKeeps ==
  ASSUME Inv, NEW r \in Requests, NEW at \in {"initialise", "admin", "member", "issue"},
         NEW next \in {"admin", "member", "issue", "answer"}, NEW new, NEW audits,
         CreateTenantStep(r, at, new, audits, next), \A y \in new : Sound(r, y),
         \A x, y \in new : x.id = y.id => x = y
  PROVE  Inv'
<1>1. /\ pc[r] = at /\ Flush(r, new, {}, audits) /\ Goto(r, next) /\ UNCHANGED <<process, local>>
      /\ now' = now /\ cache' = cache /\ call' = call /\ got' = got /\ readAt' = readAt
      /\ decidedAt' = decidedAt /\ codesDone' = codesDone
  BY DEF CreateTenantStep, process, local
<1>2. /\ ControlTypes /\ FlowInv(r)
      /\ call[r].op \notin {"idle", "read", "login", "set_password"}
  BY <1>1, FlowOf DEF FlowInv, WayIn, Ending
<1>3. MayBe(r, next) BY <1>2 DEF MayBe
<1>4. pc'[r] = next => Puts(r, new, {})
  BY <1>1 DEF Puts, Unwritten, WayIn, Deletable
<1>5. pc'[r] = next => Writes(r) /\ TokenNext(r) BY <1>2, <1>4 DEF Writes, TokenNext
<1> QED BY <1>1, <1>2, <1>3, <1>5, SameCarries, GoesQuietly DEF PCs

LEMMA PatternIs == ASSUME NEW p PROVE Pattern(p) \subseteq SYSTEM_PERMISSIONS
  BY DEF Pattern

LEMMA InitialRowsAreSound ==
  ASSUME NEW r \in Requests, NEW t \in TenantIds
  PROVE  LET new == BuildPermissions(t) \cup BuildRoles(t) \cup AuditSubject(t) IN
         /\ \A y \in new : Sound(r, y)
         /\ \A x, y \in new : x.id = y.id => x = y
<1> DEFINE p(c) == [id |-> <<"permission", t, c>>, tenant |-> t, code |-> c]
           role(c) == [id |-> <<"role", t, c>>, tenant |-> t, code |-> c, system |-> TRUE,
                       active |-> TRUE]
           grant(c, q) == [id |-> <<"role_permission", t, c, q>>, tenant |-> t,
                           role |-> <<"role", t, c>>, permission |-> <<"permission", t, q>>]
           s == [id |-> <<"subject", t>>, tenant |-> t]
           D == DOMAIN DEFAULT_ROLES
           S == SYSTEM_PERMISSIONS
<1>0. S \subseteq Codes /\ D \subseteq STRING BY AccessAssumption
<1>1. \A y \in BuildPermissions(t) : \E c \in S : y = p(c) BY DEF BuildPermissions
<1>2. \A y \in BuildRoles(t) : \E c \in D : y = role(c) \/ \E q \in S : y = grant(c, q)
  <2> SUFFICES ASSUME NEW c \in D, NEW y \in DefaultRole(t, c)
               PROVE  y = role(c) \/ \E q \in S : y = grant(c, q)
    BY DEF BuildRoles
  <2>1. UNION {Pattern(q) : q \in DEFAULT_ROLES[c]} \subseteq S BY PatternIs
  <2> QED BY <2>1 DEF DefaultRole
<1>3. \A y \in AuditSubject(t) : y = s BY DEF AuditSubject
<1>4. ASSUME NEW c \in S PROVE p(c) \in PermissionRow
  BY <1>0 DEF PermissionRow, PermissionIds
<1>5. ASSUME NEW c \in D PROVE role(c) \in RoleRow
  BY <1>0 DEF RoleRow, RoleIds
<1>6. ASSUME NEW c \in D, NEW q \in S PROVE grant(c, q) \in RolePermissionRow
  <2>1. <<"role_permission", t, c, q>> \in GrantIds BY <1>0 DEF GrantIds
  <2>2. <<"role", t, c>> \in RoleIds /\ <<"permission", t, q>> \in PermissionIds
    BY <1>0 DEF RoleIds, PermissionIds
  <2> QED BY <2>1, <2>2 DEF RolePermissionRow
<1>7. s \in SubjectRow BY DEF SubjectRow
<1>8. PICK new : new = BuildPermissions(t) \cup BuildRoles(t) \cup AuditSubject(t) OBVIOUS
<1>9. ASSUME NEW y \in new
      PROVE  \/ \E c \in S : y = p(c)
             \/ \E c \in D : y = role(c)
             \/ \E c \in D : \E q \in S : y = grant(c, q)
             \/ y = s
  BY <1>1, <1>2, <1>3, <1>8
<1>10. ASSUME NEW y \in new PROVE Sound(r, y)
  <2> HIDE DEF p, role, grant, s, S, D
  <2> QED BY <1>4, <1>5, <1>6, <1>7, <1>9, OthersAreSound
<1>11. ASSUME NEW x \in new, NEW y \in new, x.id = y.id PROVE x = y
  <2>1. x.id[1] = y.id[1] BY <1>11
  <2>2. CASE \E c \in S : x = p(c)
    <3>1. PICK c \in S : x = p(c) BY <2>2
    <3>2. PICK d \in S : y = p(d) BY <1>9, <2>1, <3>1
    <3> QED BY <1>11, <3>1, <3>2
  <2>3. CASE \E c \in D : x = role(c)
    <3>1. PICK c \in D : x = role(c) BY <2>3
    <3>2. PICK d \in D : y = role(d) BY <1>9, <2>1, <3>1
    <3> QED BY <1>11, <3>1, <3>2
  <2>4. CASE \E c \in D : \E q \in S : x = grant(c, q)
    <3>1. PICK c \in D, q \in S : x = grant(c, q) BY <2>4
    <3>2. PICK d \in D, o \in S : y = grant(d, o) BY <1>9, <2>1, <3>1
    <3> QED BY <1>11, <3>1, <3>2
  <2>5. CASE x = s
    <3>1. y = s BY <1>9, <2>1, <2>5
    <3> QED BY <2>5, <3>1
  <2> QED BY <1>9, <2>2, <2>3, <2>4, <2>5
<1> QED BY <1>8, <1>10, <1>11

LEMMA InitialiseKeeps ==
  ASSUME Inv, NEW r \in Requests, Initialise(r) PROVE Inv'
<1>1. PICK t : t = <<"tenant", r>> OBVIOUS
<1>2. t \in TenantIds BY <1>1, OwnIds
<1>3. PICK new : new = BuildPermissions(t) \cup BuildRoles(t) \cup AuditSubject(t) OBVIOUS
<1>4. /\ \A y \in new : Sound(r, y)
      /\ \A x, y \in new : x.id = y.id => x = y
  BY <1>2, <1>3, InitialRowsAreSound
<1>5. CreateTenantStep(r, "initialise", new, {}, "admin") BY <1>1, <1>3 DEF Initialise
<1> QED BY <1>4, <1>5, CreateTenantKeeps

\* One row, of r's own.
LEMMA OneRowIsCreated ==
  ASSUME Inv, NEW r \in Requests, NEW at \in {"initialise", "admin", "member", "issue"},
         NEW next \in {"admin", "member", "issue", "answer"}, NEW y, NEW audits,
         CreateTenantStep(r, at, {y}, audits, next), Sound(r, y)
  PROVE  Inv'
<1>1. \A x \in {y} : Sound(r, x) OBVIOUS
<1>2. \A x, z \in {y} : x.id = z.id => x = z OBVIOUS
<1> QED BY <1>1, <1>2, CreateTenantKeeps

LEMMA CreateAdminKeeps ==
  ASSUME Inv, NEW r \in Requests, CreateAdmin(r) PROVE Inv'
<1>0. <<"tenant", r>> \in TenantIds /\ <<"app_user", r>> \in Id("app_user") BY OwnIds
<1>a. "admin" \in STRING BY AccessAssumption
<1>1. AdminOf(r) \in UserRow /\ AdminOf(r).id \in Own(r)
  BY <1>0, <1>a DEF AdminOf, UserRow, Own
<1>2. Sound(r, AdminOf(r)) BY <1>1 DEF Sound, AnyRow
<1> QED BY <1>2, OneRowIsCreated DEF CreateAdmin

LEMMA AssignAdminRoleKeeps ==
  ASSUME Inv, NEW r \in Requests, AssignAdminRole(r) PROVE Inv'
<1>0. <<"tenant", r>> \in TenantIds /\ <<"app_user", r>> \in Id("app_user")
      /\ <<"user_role", r>> \in Id("user_role")
  BY OwnIds
<1>1. <<"role", <<"tenant", r>>, "admin">> \in RoleIds BY <1>0, AccessAssumption DEF RoleIds
<1>2. AdminRoleOf(r) \in UserRoleRow BY <1>0, <1>1 DEF AdminRoleOf, UserRoleRow
<1>3. Sound(r, AdminRoleOf(r)) BY <1>2, OthersAreSound
<1> QED BY <1>3, OneRowIsCreated DEF AssignAdminRole

LEMMA IssueTokenKeeps ==
  ASSUME Inv, NEW r \in Requests, IssueToken(r) PROVE Inv'
<1>1. now + TOKEN_TTL \in Nat BY FlowOf, AccessAssumption DEF CacheTypes
<1>2. TokenOf(r) \in TokenRow /\ TokenOf(r).id \in Own(r)
  BY <1>1, OwnIds DEF TokenOf, TokenRow, Own
<1>3. Sound(r, TokenOf(r)) BY <1>2 DEF Sound, AnyRow
<1> QED BY <1>3, OneRowIsCreated DEF IssueToken

-----------------------------------------------------------------------------
(* The token is used, the answer sent, the transaction committed or given up. *)

LEMMA SpendKeeps ==
  ASSUME Inv, NEW r \in Requests, Spend(r) PROVE Inv'
<1>1. PICK x : x = Row(View(r), call[r].target) OBVIOUS
<1>2. PICK y : y = [x EXCEPT !.used = TRUE] OBVIOUS
<1>3. /\ pc[r] = "spend" /\ Flush(r, {y}, {}, {}) /\ Goto(r, "write")
      /\ UNCHANGED <<process, local>>
      /\ now' = now /\ cache' = cache /\ call' = call /\ got' = got /\ readAt' = readAt
      /\ decidedAt' = decidedAt /\ codesDone' = codesDone
  BY <1>1, <1>2 DEF Spend, process, local
<1>4. /\ ControlTypes /\ FlowInv(r) /\ StoreTypes /\ StoreInv /\ call[r].op = "set_password"
      /\ call[r].target \in Id("token") /\ call[r].target \in Ids(rows)
      /\ View(r) \subseteq AnyRow
  BY <1>3, FlowOf, Called, ViewIsTyped DEF FlowInv, TokenInv, Inv, Types
<1>5. call[r].target[1] = "token" BY <1>4, IdTable
<1>6. x \in View(r) /\ x.id = call[r].target
  <2>1. call[r].target \notin gone[r] BY <1>4, <1>5 DEF StoreInv
  <2>2. call[r].target \in Ids(View(r)) BY <1>4, <2>1 DEF View, Ids
  <2> QED BY <1>1, <2>2, RowIs
<1>7. x \in TokenRow BY <1>4, <1>5, <1>6, Sorts
<1>8. y \in TokenRow /\ y.id = x.id /\ y.used BY <1>2, <1>7 DEF TokenRow
<1>9. Keeps(x, y) BY <1>5, <1>6, <1>8 DEF Keeps
<1>10. Sound(r, y) BY <1>6, <1>8, <1>9 DEF Sound, AnyRow
<1>11. MayBe(r, "write") BY <1>4 DEF MayBe
<1>12. pc'[r] = "write" => Writes(r) /\ TokenNext(r)
  <2> SUFFICES ASSUME pc'[r] = "write" PROVE Writes(r) /\ TokenNext(r)
    OBVIOUS
  <2>1. Puts(r, {y}, {}) BY <1>3, <1>10 DEF Puts, Unwritten, WayIn, Deletable
  <2>2. y \in put'[r] BY <1>3, <1>4 DEF Flush, After, StoreTypes
  <2>3. UsedIn(put'[r], call[r].target) BY <1>6, <1>8, <2>2 DEF UsedIn
  <2> QED BY <1>4, <2>1, <2>3 DEF Writes, TokenNext
<1> QED BY <1>3, <1>4, <1>11, <1>12, SameCarries, GoesQuietly DEF PCs

LEMMA AnswerKeeps ==
  ASSUME Inv, NEW r \in Requests, Answer(r) PROVE Inv'
<1>1. /\ pc[r] = "answer" /\ pc' = [pc EXCEPT ![r] = "commit"]
      /\ outcome' = [outcome EXCEPT ![r] = "success"] /\ UNCHANGED store
      /\ now' = now /\ cache' = cache /\ call' = call /\ got' = got /\ readAt' = readAt
      /\ decidedAt' = decidedAt /\ codesDone' = codesDone
      /\ lastHeld' = lastHeld /\ lastAbsent' = lastAbsent
  BY DEF Answer, Keep, process, local, history
<1>2. ControlTypes /\ FlowInv(r) /\ TokenInv(r) BY FlowOf
<1>3. /\ pc'[r] = "commit" /\ outcome'[r] = "success"
      /\ pc' \in [Requests -> PCs] /\ outcome' \in [Requests -> Outcomes]
      /\ \A q \in Requests \ {r} : pc'[q] = pc[q] /\ outcome'[q] = outcome[q]
  BY <1>1, <1>2 DEF ControlTypes, PCs, Outcomes
<1>4. ControlTypes' BY <1>1, <1>2, <1>3 DEF ControlTypes
<1>5. FlowInv(r)' BY <1>1, <1>2, <1>3 DEF FlowInv, Ending
<1>6. Moves(r) BY <1>1, <1>3, <1>4, <1>5 DEF Moves
<1>7. Works(r) BY <1>1, <1>3, <1>6 DEF Works, Idles, Unwritten, WayIn
<1>8. TokenNext(r) BY <1>1, <1>2 DEF TokenNext, TokenInv, store
<1>9. Quiet(r) BY <1>1, <1>3 DEF Quiet, store
<1> QED BY <1>7, <1>8, <1>9, QuietlyKeeps

LEMMA CommitKeeps ==
  ASSUME Inv, NEW r \in Requests, Commit(r) PROVE Inv'
<1>1. /\ pc[r] = "commit" /\ Close(r) /\ pc' = [pc EXCEPT ![r] = "done"] /\ Record
      /\ outcome' = outcome
      /\ now' = now /\ cache' = cache /\ call' = call /\ got' = got /\ readAt' = readAt
      /\ decidedAt' = decidedAt /\ codesDone' = codesDone
  BY DEF Commit, process, local
<1>2. /\ ControlTypes /\ CacheTypes /\ FlowInv(r) /\ TimeInv /\ Stored
      /\ \A q \in Requests : TokenInv(q)
  BY FlowOf, InvIs
<1>3. /\ pc'[r] = "done" /\ pc' \in [Requests -> PCs]
      /\ \A q \in Requests \ {r} : pc'[q] = pc[q]
  BY <1>1, <1>2 DEF ControlTypes, PCs
<1>4. ControlTypes' BY <1>1, <1>2, <1>3 DEF ControlTypes
<1>5. FlowInv(r)' BY <1>1, <1>2, <1>3 DEF FlowInv, Ending
<1>6. Moves(r) BY <1>1, <1>3, <1>4, <1>5 DEF Moves
<1>7. Works(r)
  <2>1. CASE session[r] = "active" BY <1>1, <1>3, <1>6, <2>1 DEF Works, Commits
  <2>2. CASE session[r] # "active"
    <3>1. Drop(r, "closed") BY <1>1, <2>2 DEF Close
    <3> QED BY <1>3, <1>6, <3>1 DEF Works, Loses, Unwritten, WayIn
  <2> QED BY <2>1, <2>2
<1>8. TokenNext(r) BY <1>3 DEF TokenNext
<1>9. Stored' BY <1>2, <1>7, StoreKept
<1>10. \A q \in Requests : TokenInv(q)' BY <1>2, <1>7, <1>8, TokensKept
<1>11. CacheTypes' /\ TimeInv'
  <2>1. now \in 0..MaxNow BY <1>2 DEF CacheTypes
  <2>2. \A q \in Requests :
          /\ got'[q] = got[q] /\ readAt'[q] = readAt[q] /\ decidedAt'[q] = decidedAt[q]
          /\ outcome'[q] = outcome[q] /\ pc'[q] \in {pc[q], "done"}
          /\ pc'[q] \in {"keep_tenant", "keep"} => now' <= readAt[q] + MaxFlight
    BY <1>1, <1>2, <1>3 DEF TimeInv, FlightInv
  <2> QED BY <1>1, <1>2, <2>1, <2>2, RecordKeepsTime
<1> QED BY <1>4, <1>9, <1>10, <1>11, InvNextIs

LEMMA AbortKeeps ==
  ASSUME Inv, NEW r \in Requests, Abort(r) PROVE Inv'
<1>1. PICK o : o = IF outcome[r] = "none" THEN "aborted" ELSE outcome[r] OBVIOUS
<1>2. outcome[r] \in Outcomes BY FlowOf DEF ControlTypes
<1>3. o \in Outcomes /\ (o = outcome[r] \/ o \notin {"unknown_tenant", "success"})
  BY <1>1, <1>2 DEF Outcomes
<1>4. pc[r] # "done" /\ Fail(r, o) /\ UNCHANGED <<process, local>> BY <1>1 DEF Abort
<1> QED BY <1>3, <1>4, FailsQuietly

\* What stays when nobody does anything.
LEMMA Still ==
  ASSUME Inv, UNCHANGED <<store, local, pc, outcome>>
  PROVE  Stored' /\ ControlTypes' /\ \A q \in Requests : TokenInv(q)'
<1>0. /\ rows' = rows /\ put' = put /\ gone' = gone /\ audited' = audited /\ session' = session
      /\ committed' = committed /\ call' = call /\ got' = got /\ readAt' = readAt
      /\ codesDone' = codesDone /\ decidedAt' = decidedAt /\ pc' = pc /\ outcome' = outcome
  BY DEF store, local
<1>1. Stored /\ ControlTypes /\ \A q \in Requests : TokenInv(q) BY InvIs
<1>2. StoreTypes'
  <2>1. StoreTypes BY <1>1 DEF Stored
  <2> QED BY ONLY <1>0, <2>1 DEF StoreTypes, Ids
<1>3. StoreInv'
  <2>1. \A q : Touched(q)' = Touched(q) BY ONLY <1>0 DEF Touched, Ids
  <2>2. StoreInv BY <1>1 DEF Stored
  <2> QED BY ONLY <1>0, <2>1, <2>2 DEF StoreInv, Own
<1>4. ASSUME NEW q \in Requests PROVE PathInv(q)' /\ WriteInv(q)' /\ TokenInv(q)'
  <2>1. PathInv(q) /\ WriteInv(q) /\ TokenInv(q) BY <1>1 DEF Stored
  <2>2. PathInv(q)' BY ONLY <1>0, <2>1 DEF PathInv, Unwritten
  <2>3. WriteInv(q)' BY ONLY <1>0, <2>1 DEF WriteInv, Own
  <2>4. TokenInv(q)' BY ONLY <1>0, <2>1 DEF TokenInv, UsedIn, Ids
  <2> QED BY <2>2, <2>3, <2>4
<1>5. ControlTypes' BY ONLY <1>0, <1>1 DEF ControlTypes
<1> QED BY <1>2, <1>3, <1>4, <1>5 DEF Stored

LEMMA TickKeeps ==
  ASSUME Inv, Tick PROVE Inv'
<1>1. /\ UNCHANGED <<store, local, pc, outcome>> /\ cache' = cache /\ now' = now + 1
      /\ now < MaxNow /\ Record
      /\ \A q \in Requests : pc[q] \in {"keep_tenant", "keep"} => now - readAt[q] < MaxFlight
  BY DEF Tick
<1>2. call' = call /\ got' = got /\ readAt' = readAt /\ decidedAt' = decidedAt /\ pc' = pc
      /\ outcome' = outcome
  BY <1>1 DEF local
<1>3. Stored' /\ ControlTypes' /\ \A q \in Requests : TokenInv(q)' BY <1>1, Still
<1>4. ControlTypes /\ CacheTypes /\ TimeInv BY InvIs
<1>5. now \in Nat /\ MaxFlight \in Nat /\ MaxNow \in Nat /\ \A q \in Requests : readAt[q] \in Nat
  BY <1>4, AccessAssumption DEF CacheTypes, ControlTypes
<1>6. now' \in 0..MaxNow BY <1>1, <1>5
<1>7. \A q \in Requests :
        /\ got'[q] = got[q] /\ readAt'[q] = readAt[q] /\ decidedAt'[q] = decidedAt[q]
        /\ outcome'[q] = outcome[q] /\ pc'[q] \in {pc[q], "done"}
        /\ pc'[q] \in {"keep_tenant", "keep"} => now' <= readAt[q] + MaxFlight
  BY <1>1, <1>2, <1>5
<1>8. CacheTypes' /\ TimeInv' BY <1>1, <1>2, <1>4, <1>6, <1>7, RecordKeepsTime
<1> QED BY <1>3, <1>8, InvNextIs

LEMMA StutterKeeps ==
  ASSUME Inv, UNCHANGED vars PROVE Inv'
<1>0. /\ UNCHANGED <<store, local, pc, outcome>> /\ cache' = cache /\ now' = now
      /\ rows' = rows /\ call' = call /\ got' = got /\ readAt' = readAt
      /\ decidedAt' = decidedAt /\ pc' = pc /\ outcome' = outcome
      /\ lastHeld' = lastHeld /\ lastAbsent' = lastAbsent
  BY DEF vars, store, local
<1>1. Stored' /\ ControlTypes' /\ \A q \in Requests : TokenInv(q)' BY <1>0, Still
<1>2. CacheTypes /\ TimeInv BY InvIs
<1>3. CacheTypes' BY ONLY <1>0, <1>2 DEF CacheTypes
<1>4. RecordInv'
  <2>1. RecordInv BY <1>2 DEF TimeInv
  <2> QED BY ONLY <1>0, <2>1 DEF RecordInv, Held, Granted, Of, Row, Ids
<1>5. CacheInv'
  <2>1. CacheInv BY <1>2 DEF TimeInv
  <2> QED BY ONLY <1>0, <2>1 DEF CacheInv, HeldSince, KnownOr, Since
<1>6. ASSUME NEW q \in Requests PROVE FlightInv(q)' /\ DecisionInv(q)'
  <2>1. FlightInv(q) /\ DecisionInv(q) BY <1>2 DEF TimeInv
  <2>2. FlightInv(q)' BY ONLY <1>0, <2>1 DEF FlightInv, KnownOr, HeldSince, Since
  <2>3. DecisionInv(q)' BY ONLY <1>0, <2>1 DEF DecisionInv, MayRead, WasAbsent, Since
  <2> QED BY <2>2, <2>3
<1> QED BY <1>1, <1>3, <1>4, <1>5, <1>6, InvNextIs DEF TimeInv

-----------------------------------------------------------------------------
(* The invariant. *)

LEMMA InvInit ==
  ASSUME Init PROVE Inv
<1>0. /\ MaxNow \in Nat /\ MaxFlight \in Nat /\ None \notin Nat
      /\ {PERMISSION_TTL, TENANT_TTL} \subseteq Nat
  BY AccessAssumption
<1>1. /\ rows = Seed /\ put = [r \in Requests |-> {}] /\ gone = [r \in Requests |-> {}]
      /\ audited = [r \in Requests |-> {}] /\ session = [r \in Requests |-> "active"]
      /\ committed = {} /\ cache = [k \in CacheKeys |-> None] /\ now = 0 /\ call \in Scenarios
      /\ pc = [r \in Requests |-> FirstStep(call[r].op)] /\ got = [r \in Requests |-> None]
      /\ readAt = [r \in Requests |-> 0] /\ outcome = [r \in Requests |-> "none"]
      /\ codesDone = [r \in Requests |-> 0] /\ decidedAt = [r \in Requests |-> 0]
      /\ lastHeld = HeldNow(Seed, 0, [h \in Users \X Codes |-> None])
      /\ lastAbsent = AbsentNow(Seed, 0, [x \in Tenants |-> None])
  BY DEF Init, InitStore
<1>2. StoreTypes BY ONLY <1>1, SeedAssumption DEF StoreTypes, SeedAssumption
<1>3. \A r \in Requests :
        /\ pc[r] = FirstStep(call[r].op) /\ outcome[r] = "none" /\ put[r] = {} /\ gone[r] = {}
        /\ pc[r] \in {"done", "login", "check", "user", "tenant"}
  BY <1>1 DEF FirstStep
<1>4. ControlTypes
  <2>1. pc \in [Requests -> PCs] BY <1>1, <1>3 DEF PCs
  <2> QED BY <1>0, <1>1, <2>1 DEF ControlTypes, Outcomes
<1>5. StoreInv
  BY <1>1, SeedAssumption DEF StoreInv, Touched, Ids, Own
<1>6. ASSUME NEW r \in Requests
      PROVE  PathInv(r) /\ WriteInv(r) /\ TokenInv(r) /\ FlightInv(r) /\ DecisionInv(r)
  <2>1. call[r].op = "set_password" => pc[r] = "check"
    BY <1>3 DEF FirstStep, Open, OwnAccount
  <2>3. /\ call[r].op = "idle" => pc[r] = "done"
        /\ call[r].op = "read" => pc[r] = "tenant"
        /\ call[r].op = "login" => pc[r] = "login"
    BY <1>3 DEF FirstStep, Open, OwnAccount
  <2>4. PathInv(r) BY <1>1, <1>3, <2>1, <2>3 DEF PathInv, WayIn, Ending
  <2>5. WriteInv(r) BY <1>3 DEF WriteInv
  <2>6. TokenInv(r) BY <1>1, <2>1 DEF TokenInv
  <2>7. FlightInv(r) BY <1>3 DEF FlightInv
  <2>8. DecisionInv(r) BY <1>3, <2>3 DEF DecisionInv
  <2> QED BY <2>4, <2>5, <2>6, <2>7, <2>8
<1>7. RecordInv /\ CacheTypes
  <2> DEFINE held == [u \in Users |-> UNION {Granted(Seed, x, u) : x \in Tenants}]
  <2>1. lastHeld = [h \in Users \X Codes |-> IF h[2] \in held[h[1]] THEN 0 ELSE None]
    <3>1. lastHeld = [h \in Users \X Codes |-> IF h[2] \in held[h[1]] THEN 0
                                               ELSE [k \in Users \X Codes |-> None][h]]
      BY <1>1 DEF HeldNow
    <3> HIDE DEF held
    <3> QED BY <3>1
  <2>2. lastAbsent = [x \in Tenants |-> IF x \in Ids(Seed) THEN None ELSE 0]
    BY <1>1 DEF AbsentNow
  <2>3. ASSUME NEW u \in Users, NEW c \in Codes
        PROVE  /\ Held(u, c) <=> c \in held[u]
               /\ lastHeld[<<u, c>>] = IF c \in held[u] THEN 0 ELSE None
    <3>1. Held(u, c) <=> c \in held[u] BY <1>1 DEF Held
    <3> HIDE DEF held
    <3> QED BY <2>1, <3>1
  <2> HIDE DEF held
  <2>4. RecordInv
    <3>1. \A t \in Tenants : lastAbsent[t] = IF t \in Ids(rows) THEN None ELSE 0
      BY <1>1, <2>2
    <3> QED BY <1>1, <2>3, <3>1 DEF RecordInv
  <2>5. lastHeld \in [Users \X Codes -> (0..MaxNow) \cup {None}] BY <1>0, <2>1
  <2>6. lastAbsent \in [Tenants -> (0..MaxNow) \cup {None}] BY <1>0, <2>2
  <2> QED BY <1>0, <1>1, <2>4, <2>5, <2>6 DEF CacheTypes
<1>8. CacheInv BY <1>1 DEF CacheInv, CacheKeys
<1> QED BY <1>2, <1>4, <1>5, <1>6, <1>7, <1>8, InvIs DEF Stored, TimeInv

LEMMA InvNext ==
  ASSUME Inv, [Next]_vars PROVE Inv'
<1>1. ASSUME NEW r \in Requests, Step(r) PROVE Inv'
  BY <1>1, LookUpTenantKeeps, FindTenantKeeps, KeepTenantKeeps, CurrentUserKeeps,
     GetPermissionsKeeps, ResolvePermissionsKeeps, KeepPermissionsKeeps, CheckKeeps, WriteKeeps,
     FindCodeKeeps, GrantKeeps, SpendKeeps, InitialiseKeeps, CreateAdminKeeps,
     AssignAdminRoleKeeps, IssueTokenKeeps, LoginTenantKeeps, AuthenticateKeeps, AnswerKeeps,
     CommitKeeps
  DEF Step
<1>2. CASE Tick BY <1>2, TickKeeps
<1>3. CASE AllDone BY <1>3, StutterKeeps DEF AllDone
<1>4. CASE UNCHANGED vars BY <1>4, StutterKeeps
<1> QED BY <1>1, <1>2, <1>3, <1>4, AbortKeeps DEF Next

THEOREM Invariance == Spec => []Inv
<1>1. Init => Inv BY InvInit
<1>2. Inv /\ [Next]_vars => Inv' BY InvNext
<1> QED BY <1>1, <1>2, PTL DEF Spec

-----------------------------------------------------------------------------
(* The theorems. *)

\* Every variable has its type: in particular, every row ever written has the columns of its
\* table and an id that no other table uses, and a closed session holds nothing.
THEOREM TypeCorrect == Spec => []TypeOK
<1>1. Inv => TypeOK BY DEF Inv, Types
<1> QED BY <1>1, Invariance, PTL

\* AuthorizationService and its cache: a user who was let in to read held a permission for it no
\* longer ago than an entry lives and was on its way.
THEOREM RevocationIsFelt == Spec => []RevocationTakesEffect
<1>1. Inv => RevocationTakesEffect
  BY DEF Inv, DecisionInv, MayRead, RevocationTakesEffect
<1> QED BY <1>1, Invariance, PTL

\* get_tenant_id and its marker: who was told that the tenant is unknown asked for one that was
\* not there no longer ago than the marker lives and was on its way.
THEOREM UnknownTenantsWereAbsent == Spec => []UnknownTenantWasAbsent
<1>1. Inv => UnknownTenantWasAbsent
  BY DEF Inv, DecisionInv, WasAbsent, UnknownTenantWasAbsent
<1> QED BY <1>1, Invariance, PTL

\* Only a commit changes what others see.
LEMMA RowsAreCommitted ==
  ASSUME Next, rows' # rows
  PROVE  \E r \in Requests : Commit(r)
<1>1. ASSUME NEW r \in Requests, Step(r), ~Commit(r) PROVE rows' = rows
  <2>1. /\ \A p : Goto(r, p) /\ UNCHANGED store => rows' = rows
        /\ \A o : Fail(r, o) => rows' = rows
        /\ \A new, del, audits : Flush(r, new, del, audits) => rows' = rows
        /\ \A as : Drop(r, as) => rows' = rows
        /\ UNCHANGED store => rows' = rows
    BY DEF store, Fail, Flush, Drop
  <2>2. LookUpTenant(r) => rows' = rows BY <2>1 DEF LookUpTenant, Admit, store
  <2>3. FindTenant(r) => rows' = rows BY DEF FindTenant, store
  <2>4. KeepTenant(r) => rows' = rows BY <2>1 DEF KeepTenant, Admit, store
  <2>5. CurrentUser(r) => rows' = rows BY <2>1 DEF CurrentUser
  <2>6. GetPermissions(r) => rows' = rows BY <2>1 DEF GetPermissions, Decide, store
  <2>7. ResolvePermissions(r) => rows' = rows BY DEF ResolvePermissions, store
  <2>8. KeepPermissions(r) => rows' = rows BY <2>1 DEF KeepPermissions, Decide
  <2>9. Check(r) => rows' = rows BY <2>1 DEF Check
  <2>10. Write(r) => rows' = rows BY <2>1 DEF Write
  <2>11. FindCode(r) => rows' = rows BY <2>1 DEF FindCode, Keep, store
  <2>12. Grant(r) => rows' = rows BY <2>1 DEF Grant
  <2>13. Spend(r) => rows' = rows BY <2>1 DEF Spend
  <2>14. Initialise(r) \/ CreateAdmin(r) \/ AssignAdminRole(r) \/ IssueToken(r) => rows' = rows
    BY <2>1 DEF Initialise, CreateAdmin, AssignAdminRole, IssueToken, CreateTenantStep
  <2>15. LoginTenant(r) \/ Authenticate(r) => rows' = rows
    BY <2>1 DEF LoginTenant, Authenticate
  <2>16. Answer(r) => rows' = rows BY DEF Answer, Keep, store
  <2> QED BY <1>1, <2>2, <2>3, <2>4, <2>5, <2>6, <2>7, <2>8, <2>9, <2>10, <2>11, <2>12, <2>13,
             <2>14, <2>15, <2>16 DEF Step
<1>2. ASSUME NEW r \in Requests, Abort(r) PROVE rows' = rows BY <1>2 DEF Abort, Fail, Drop
<1>3. Tick => rows' = rows BY DEF Tick, store
<1>4. AllDone => rows' = rows BY DEF AllDone, vars
<1> QED BY <1>1, <1>2, <1>3, <1>4 DEF Next

\* UserDeactivated and what is written later: a deactivated account never becomes active again,
\* whatever update of it was already under way.
THEOREM DeactivationsAreFinal == Spec => DeactivationIsFinal
<1>1. ASSUME Inv, Inv', [Next]_vars, NEW x \in Of(rows, "app_user"), ~x.active,
             NEW y \in rows', y.id = x.id
      PROVE  ~y.active
  <2>1. StoreInv /\ x \in rows /\ x.id[1] = "app_user" BY <1>1 DEF Inv, Of
  <2>2. CASE rows' = rows
    <3>1. y = x BY <1>1, <2>1, <2>2 DEF StoreInv
    <3> QED BY <1>1, <3>1
  <2>3. CASE rows' # rows
    <3>1. Next BY <1>1, <2>3 DEF vars
    <3>2. PICK r \in Requests : Commit(r) BY <2>3, <3>1, RowsAreCommitted
    <3>3. Stored /\ StoreTypes /\ r \notin committed
      BY <1>1, <3>2, FlowOf, InvIs DEF PathInv, Commit
    <3>4. rows' = View(r) BY <2>3, <3>2, <3>3, CloseEffect DEF Commit, Close, Drop
    <3>5. PICK z \in View(r) : Keeps(x, z) BY <2>1, <3>3, CommitKeepsRows
    <3>6. \A u, v \in rows' : u.id = v.id => u = v BY <1>1 DEF Inv, StoreInv
    <3>7. z = y BY <1>1, <3>4, <3>5, <3>6 DEF Keeps
    <3> QED BY <1>1, <2>1, <3>5, <3>7 DEF Keeps
  <2> QED BY <2>2, <2>3
<1>2. Inv /\ Inv' /\ [Next]_vars =>
        [\A x \in Of(rows, "app_user") : ~x.active => \A y \in rows' : y.id = x.id => ~y.active]_vars
  BY <1>1
<1> QED BY <1>2, Invariance, PTL DEF Spec, DeactivationIsFinal

\* A request goes on from the check of its token by Check alone.
LEMMA SpendsByCheck ==
  ASSUME ControlTypes, [Next]_vars, NEW r \in Requests, pc[r] = "check", pc'[r] = "spend"
  PROVE  Check(r)
<1>1. /\ \A q \in Requests : \A p : Goto(q, p) => pc' = [pc EXCEPT ![q] = p]
      /\ \A q \in Requests : \A o : Fail(q, o) => pc' = [pc EXCEPT ![q] = "done"]
  BY DEF Goto, Fail
<1>2. \A q \in Requests : \A p : pc' = [pc EXCEPT ![q] = p] =>
        \A s \in Requests : pc'[s] = IF s = q THEN p ELSE pc[s]
  BY DEF ControlTypes
<1>3. ASSUME NEW q \in Requests, NEW p, pc' = [pc EXCEPT ![q] = p] PROVE q = r
  BY <1>2, <1>3
<1>4. ASSUME NEW q \in Requests, Step(q) PROVE q = r
  <2>1. LookUpTenant(q) => q = r BY <1>1, <1>3 DEF LookUpTenant, Admit
  <2>2. FindTenant(q) => q = r BY <1>1, <1>3 DEF FindTenant
  <2>3. KeepTenant(q) => q = r BY <1>1, <1>3 DEF KeepTenant, Admit
  <2>4. CurrentUser(q) => q = r BY <1>1, <1>3 DEF CurrentUser
  <2>5. GetPermissions(q) => q = r BY <1>1, <1>3 DEF GetPermissions, Decide
  <2>6. ResolvePermissions(q) => q = r BY <1>1, <1>3 DEF ResolvePermissions
  <2>7. KeepPermissions(q) => q = r BY <1>1, <1>3 DEF KeepPermissions, Decide
  <2>8. Check(q) => q = r BY <1>1, <1>3 DEF Check
  <2>9. Write(q) => q = r BY <1>1, <1>3 DEF Write
  <2>10. FindCode(q) => q = r BY <1>1, <1>3 DEF FindCode
  <2>11. Grant(q) => q = r BY <1>1, <1>3 DEF Grant
  <2>12. Spend(q) => q = r BY <1>1, <1>3 DEF Spend
  <2>13. Initialise(q) \/ CreateAdmin(q) \/ AssignAdminRole(q) \/ IssueToken(q) => q = r
    BY <1>1, <1>3 DEF Initialise, CreateAdmin, AssignAdminRole, IssueToken, CreateTenantStep
  <2>14. LoginTenant(q) \/ Authenticate(q) => q = r BY <1>1, <1>3 DEF LoginTenant, Authenticate
  <2>15. Answer(q) \/ Commit(q) => q = r BY <1>3 DEF Answer, Commit
  <2> QED BY <1>4, <2>1, <2>2, <2>3, <2>4, <2>5, <2>6, <2>7, <2>8, <2>9, <2>10, <2>11, <2>12,
             <2>13, <2>14, <2>15 DEF Step
<1>5. ASSUME Step(r) PROVE Check(r)
  BY <1>5 DEF Step, LookUpTenant, FindTenant, KeepTenant, CurrentUser, GetPermissions,
              ResolvePermissions, KeepPermissions, Write, FindCode, Grant, Spend, Initialise,
              CreateAdmin, AssignAdminRole, IssueToken, CreateTenantStep, LoginTenant,
              Authenticate, Answer, Commit
<1>6. ASSUME NEW q \in Requests, Abort(q) PROVE FALSE
  <2>1. pc' = [pc EXCEPT ![q] = "done"] BY <1>1, <1>6 DEF Abort
  <2> QED BY <1>2, <2>1
<1>7. ~Tick /\ ~AllDone /\ ~UNCHANGED vars BY DEF Tick, AllDone, vars
<1> QED BY <1>4, <1>5, <1>6, <1>7 DEF Next

\* RefuseToken and Spend: once a password has been set and committed with a token, no request
\* that looks the token up after that takes it for a valid one.
THEOREM SpentTokensServeNoLater == Spec => SpentTokenServesNoLater
<1>1. ASSUME Inv, [Next]_vars, NEW r \in Requests, NEW q \in Requests,
             call[r].op = "set_password", pc[r] = "check", pc'[r] = "spend",
             call[q].op = "set_password", q \in committed
      PROVE  call[q].target # call[r].target
  <2>1. ControlTypes /\ StoreInv /\ PathInv(r) /\ TokenInv(q) BY <1>1, FlowOf
  <2>2. Check(r) BY <1>1, <2>1, SpendsByCheck
  <2>3. Refusal(r) = "none"
    <3>1. \A o : Fail(r, o) => pc'[r] = "done" BY <2>1 DEF Fail, ControlTypes
    <3> QED BY <1>1, <2>2, <3>1 DEF Check
  <2>4. View(r) = rows BY <1>1, <2>1, ViewOfNothing DEF PathInv, Unwritten
  <2>5. PICK x \in rows : x.id = call[r].target /\ ~x.used
    BY <1>1, <2>3, <2>4, TokenIsThere DEF Of
  <2>6. PICK y \in rows : y.id = call[q].target /\ y.used BY <1>1, <2>1 DEF TokenInv, UsedIn
  <2> QED BY <2>1, <2>5, <2>6 DEF StoreInv
<1>2. Inv /\ [Next]_vars =>
        [\A r, q \in Requests :
           /\ call[r].op = "set_password" /\ pc[r] = "check" /\ pc'[r] = "spend"
           /\ call[q].op = "set_password" /\ q \in committed
           => call[q].target # call[r].target]_vars
  BY <1>1
<1> QED BY <1>2, Invariance, PTL DEF Spec, SpentTokenServesNoLater

=============================================================================
