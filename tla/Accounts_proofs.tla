---------------------------- MODULE Accounts_proofs ----------------------------
(***************************************************************************)
(* Proofs about Accounts, for every number of requests, every call and every  *)
(* seed: the versions of configurations, what a state can be used for, and   *)
(* the secrets that can be read.                                            *)
(***************************************************************************)
EXTENDS Accounts, TLAPS

Row_ == ConfigRow \cup StateRow \cup AccountRow \cup [id : Id("subject")]
Makes == {"create_config", "rotate"}

\* Types of what TypeOK leaves open.
Types ==
  /\ TypeOK
  /\ put \in [Requests -> SUBSET Row_]
  /\ DOMAIN audited = Requests
  /\ DOMAIN got = Requests

-----------------------------------------------------------------------------
(* Where a request is. *)

\* Until here, nothing has been written.
Unwritten(r) ==
  \/ pc[r] \in {"start", "open_salt", "write_salt", "read", "write", "background", "done"}
  \/ call[r].op = "rotate" /\ pc[r] = "current"

\* A configuration that was read is there, and is the same version.
Known(g) ==
  g \in ConfigRow /\ \E y \in rows : y.id = g.id /\ y.provider = g.provider /\ y.version = g.version

\* The provider that a version is made for.
ForProvider(r, provider) ==
  \/ call[r].op = "create_config" /\ provider = call[r].provider
  \/ call[r].op = "rotate" /\ \E y \in rows : y.id = call[r].target /\ y.provider = provider

\* What a request works on, where it is.
PathInv(r) ==
  /\ Unwritten(r) => put[r] = {} /\ gone[r] = {}
  /\ r \in committed => pc[r] = "done"
  /\ before[r] \subseteq committed
  /\ pc[r] = "start" => key[r] = None
  /\ call[r].op \in OAuth /\ pc[r] \notin {"start", "done"} => key[r] # None
  /\ call[r].op \in {"update_config", "delete_config"} /\ pc[r] = "write" =>
       call[r].target[1] = "config"
  /\ call[r].op \in {"update_account", "delete_account", "sync"} /\ pc[r] = "write" =>
       call[r].target[1] = "account"
  /\ call[r].op = "callback" /\ pc[r] \notin {"start", "open_salt", "write_salt", "read", "done"} =>
       call[r].target \in Ids(Of(rows, "state"))
  /\ call[r].op = "rotate" /\ pc[r] \in {"current", "write"} => call[r].target \in Ids(Configs(rows))
  /\ call[r].op \in Makes /\ pc[r] \in {"write", "supersede", "answer", "commit"} =>
       got[r] = None \/ Known(got[r])
  /\ call[r].op \in Makes /\ pc[r] = "write" /\ got[r] # None => ForProvider(r, got[r].provider)
  /\ pc[r] = "supersede" => got[r] # None
  /\ call[r].op = "authorize" /\ pc[r] = "write" => Known(got[r])

-----------------------------------------------------------------------------
(* What is in the tables, and what transactions have written. *)

Touched(r) == gone[r] \cup Ids(put[r])

\* Every row has an id of its own; no two transactions hold the same row; only accounts are
\* deleted; and what a request inserts is there when it has committed, and no sooner.
StoreInv ==
  /\ \A x, y \in rows : x.id = y.id => x = y
  /\ \A r \in Requests : \A x, y \in put[r] : x.id = y.id => x = y
  /\ \A q, r \in Requests : q # r => Touched(q) \cap Touched(r) = {}
  /\ \A r \in Requests : \A i \in gone[r] : i[1] = "account"
  /\ \A x \in rows : \A r \in Requests :
       x.id \in {<<"config", r>>, <<"state", r>>} => r \in committed

\* A written configuration is the request's new version, or a version that is there, as it was or
\* superseded by the new one.
IsNew(r, x) ==
  /\ call[r].op \in Makes
  /\ x.id = <<"config", r>> /\ x.active /\ ~x.deleted /\ x.next = None /\ x.key = key[r]
  /\ x.version = VersionAfter(got[r])
  /\ got[r] # None => x.provider = got[r].provider
Supersedes(r, x) ==
  /\ call[r].op \in Makes /\ got[r] # None
  /\ x.id = got[r].id /\ x.next = <<"config", r>> /\ ~x.active
IsChange(r, x) ==
  \E y \in rows :
    /\ y.id = x.id /\ y.provider = x.provider /\ y.version = x.version /\ y.key = x.key
    /\ y.deleted => x.deleted
    /\ (x.next = y.next /\ x.active = y.active) \/ Supersedes(r, x)

\* A written state is a new one, or one that is there, of the same configuration, and consumed if
\* it was.
IsState(r, x) ==
  \/ x.id = <<"state", r>>
  \/ \E y \in rows : y.id = x.id /\ y.config = x.config /\ (y.consumed => x.consumed)

WriteInv(r) ==
  \A x \in put[r] :
    /\ x.id[1] = "config" => IsNew(r, x) \/ IsChange(r, x)
    /\ x.id[1] = "state" => IsState(r, x)

\* An active version that was there, committed, when r began; and r has found it.
Earlier(r, c) ==
  /\ c \in Live(rows) /\ c.active
  /\ c.id \in Ids(Seed) \/ \E a \in before[r] : c.id = <<"config", a>>
Got(r, c) == got[r] # None /\ got[r].id = c.id

\* The version found is the only such one of the provider, and still is when the next is written.
Seen(r) ==
  \A c \in rows : Earlier(r, c) =>
    /\ pc[r] = "write" /\ ForProvider(r, c.provider) => Got(r, c)
    /\ \A x \in put[r] : IsNew(r, x) /\ x.provider = c.provider => Got(r, c)

\* A request that makes a version writes it, and supersedes the one before it, before it commits.
MakeInv(r) ==
  call[r].op \in Makes =>
    /\ session[r] = "active" =>
         /\ pc[r] \in {"supersede", "answer", "commit"} => \E x \in put[r] : IsNew(r, x)
         /\ pc[r] \in {"answer", "commit"} /\ got[r] # None => \E x \in put[r] : Supersedes(r, x)
    /\ Seen(r)

-----------------------------------------------------------------------------
(* The versions. *)

AllConfigs == Configs(rows \cup UNION {put[r] : r \in Requests})

VersionsInv == RotationIsWhole /\ SecondActiveNeedsOverlap

-----------------------------------------------------------------------------
(* States and deletions. *)

\* Past the look at the state; past the look at its configuration.
PastState == {"write", "current", "decrypt", "exchange", "answer", "commit"}
PastConfig == {"decrypt", "exchange", "answer", "commit"}

\* A callback marks its state, and began before any other callback that has committed with it.
StateInv(r) ==
  call[r].op = "callback" =>
    /\ \A x \in put[r] : x.id[1] = "state"
    /\ pc[r] \in PastState \ {"write"} /\ session[r] = "active" =>
         \E x \in put[r] : x.id = call[r].target /\ x.consumed
    /\ r \in committed => \E x \in Of(rows, "state") : x.id = call[r].target /\ x.consumed
    /\ pc[r] \in PastState \/ r \in committed =>
         \A a \in Did("callback") : a # r /\ call[a].target = call[r].target => a \notin before[r]

\* A deletion marks its configuration, and a callback that found it there had begun before.
DeleteInv(r) ==
  /\ call[r].op = "delete_config" =>
       /\ pc[r] \in {"answer", "commit"} /\ session[r] = "active" =>
            \E x \in put[r] : x.id = call[r].target /\ x.id[1] = "config" /\ x.deleted
       /\ r \in committed => \E x \in Configs(rows) : x.id = call[r].target /\ x.deleted
  /\ call[r].op = "callback" /\ (pc[r] \in PastConfig \/ r \in committed) =>
       \A d \in Did("delete_config") : \A x \in rows :
         x.id = call[r].target /\ x.config = call[d].target => d \notin before[r]

-----------------------------------------------------------------------------
(* The salt. *)

Maker(r) == key[r] = r

\* Two requests have made a salt, at once; or one has, or none, and every key is that of the file.
SaltsCrossed == \E a, b \in Requests : a # b /\ Maker(a) /\ Maker(b) /\ Overlapped(a, b)
OneSalt ==
  /\ \A a, b \in Requests : Maker(a) /\ Maker(b) => a = b
  /\ \A a \in Requests : Maker(a) =>
       /\ pc[a] = "open_salt" => salt \in {None, Blank}
       /\ pc[a] = "write_salt" => salt = Blank
       /\ pc[a] \notin {"open_salt", "write_salt"} =>
            salt = a \/ (salt = Blank /\ pc[a] = "done" /\ a \notin committed)
  /\ \A r \in Requests : key[r] \in {None, r, salt}
  /\ salt \in Requests => Maker(salt)
  /\ \A c \in AllConfigs : c.key = salt
SaltInv ==
  /\ \A r \in Requests : pc[r] \in {"open_salt", "write_salt"} => Maker(r)
  /\ SaltsCrossed \/ OneSalt

Own(r) == PathInv(r) /\ MakeInv(r) /\ StateInv(r) /\ DeleteInv(r)
Inv ==
  /\ Types /\ StoreInv /\ VersionsInv /\ SaltInv
  /\ \A r \in Requests : WriteInv(r) /\ Own(r)

-----------------------------------------------------------------------------
(* Rows and their ids. *)

LEMMA IdTable == ASSUME NEW t, NEW i \in Id(t) PROVE i[1] = t
  BY DEF Id

LEMMA Sorts ==
  ASSUME NEW x \in Row_
  PROVE  /\ x.id[1] = "config" <=> x \in ConfigRow
         /\ x.id[1] = "state" <=> x \in StateRow
         /\ x.id[1] = "account" <=> x \in AccountRow
<1>1. CASE x \in ConfigRow
  <2>1. x.id[1] = "config" BY <1>1, IdTable DEF ConfigRow
  <2>2. \A y \in StateRow : y.id[1] = "state" BY IdTable DEF StateRow
  <2>3. \A y \in AccountRow : y.id[1] = "account" BY IdTable DEF AccountRow
  <2> QED BY <1>1, <2>1, <2>2, <2>3
<1>2. CASE x \in StateRow
  <2>1. x.id[1] = "state" BY <1>2, IdTable DEF StateRow
  <2>2. \A y \in ConfigRow : y.id[1] = "config" BY IdTable DEF ConfigRow
  <2>3. \A y \in AccountRow : y.id[1] = "account" BY IdTable DEF AccountRow
  <2> QED BY <1>2, <2>1, <2>2, <2>3
<1>3. CASE x \in AccountRow
  <2>1. x.id[1] = "account" BY <1>3, IdTable DEF AccountRow
  <2>2. \A y \in StateRow : y.id[1] = "state" BY IdTable DEF StateRow
  <2>3. \A y \in ConfigRow : y.id[1] = "config" BY IdTable DEF ConfigRow
  <2> QED BY <1>3, <2>1, <2>2, <2>3
<1>4. CASE x \in [id : Id("subject")]
  <2>1. x.id[1] = "subject" BY <1>4, IdTable
  <2>2. \A y \in StateRow : y.id[1] = "state" BY IdTable DEF StateRow
  <2>3. \A y \in ConfigRow : y.id[1] = "config" BY IdTable DEF ConfigRow
  <2>4. \A y \in AccountRow : y.id[1] = "account" BY IdTable DEF AccountRow
  <2> QED BY <1>4, <2>1, <2>2, <2>3, <2>4
<1> QED BY <1>1, <1>2, <1>3, <1>4 DEF Row_

LEMMA RowIs ==
  ASSUME NEW s, NEW i \in Ids(s)
  PROVE  Row(s, i) \in s /\ Row(s, i).id = i
  BY DEF Row, Ids

\* A request that has written nothing sees the committed rows.
LEMMA ViewOfNothing ==
  ASSUME NEW r \in Requests, put[r] = {}, gone[r] = {}
  PROVE  View(r) = rows
  BY DEF View, Ids

\* An account references a subject: its deletion takes nothing along.
LEMMA CascadeOfAccount ==
  ASSUME NEW s \in SUBSET Row_, NEW i, i[1] = "account"
  PROVE  Cascade(s, {i}) = {i}
<1>1. \A y \in s : Owners(y) \cap {i} = {}
  <2> SUFFICES ASSUME NEW y \in s PROVE Owners(y) \cap {i} = {}
    OBVIOUS
  <2>1. CASE y.id[1] = "account"
    <3>1. y.subject[1] = "subject" BY <2>1, Sorts, IdTable DEF AccountRow
    <3>2. Owners(y) = {y.subject} BY <2>1 DEF Owners, Table, AccountTable, T
    <3> QED BY <3>1, <3>2
  <2>2. CASE y.id[1] # "account"
    <3>1. Owners(y) = {} BY <2>2 DEF Owners, Table, ConfigTable, StateTable, T
    <3> QED BY <3>1
  <2> QED BY <2>1, <2>2
<1>2. Dependents(s, {i}) = {} BY <1>1 DEF Dependents
<1> QED BY <1>2 DEF Cascade

-----------------------------------------------------------------------------
(* What the steps of a request do, as far as the others can tell. *)

\* r goes on; the others stay where they are.
Goes(r) ==
  /\ pc[r] # "done"
  /\ call' = call
  /\ pc' \in [Requests -> PCs] /\ outcome' \in [Requests -> Outcomes]
  /\ before' \in [Requests -> SUBSET Requests] /\ DOMAIN got' = Requests
  /\ \A q \in Requests \ {r} : pc'[q] = pc[q] /\ got'[q] = got[q] /\ before'[q] = before[q]
  /\ before'[r] = before[r] \/ (pc[r] = "start" /\ before'[r] = committed)

Ends(r) == Goes(r) /\ Drop(r, "closed") /\ pc'[r] = "done"
Loses(r) ==
  /\ Goes(r) /\ Drop(r, "inactive") /\ got'[r] = got[r]
  /\ call[r].op \in Creates /\ pc'[r] \in {"answer", "supersede"}
Looks(r, p, g) == Goes(r) /\ Untouched /\ pc'[r] = p /\ got'[r] = g

\* The row x is r's, and no transaction's else.
Puts(r, x, p) ==
  /\ Goes(r) /\ pc'[r] = p /\ got'[r] = got[r]
  /\ session[r] = "active"
  /\ put' = [put EXCEPT ![r] = {x} \cup {y \in put[r] : y.id # x.id}]
  /\ gone' = gone
  /\ DOMAIN audited' = Requests /\ \A q \in Requests \ {r} : audited'[q] = audited[q]
  /\ UNCHANGED <<rows, session, committed>>
  /\ \A q \in Requests \ {r} : x.id \notin Touched(q)

\* An account is gone.
Deletes(r, i) ==
  /\ Goes(r) /\ pc'[r] = "answer" /\ got'[r] = got[r]
  /\ session[r] = "active" /\ i[1] = "account"
  /\ put' = [put EXCEPT ![r] = {y \in put[r] : y.id # i}]
  /\ gone' = [gone EXCEPT ![r] = @ \cup ({i} \cap Ids(rows))]
  /\ DOMAIN audited' = Requests /\ \A q \in Requests \ {r} : audited'[q] = audited[q]
  /\ UNCHANGED <<rows, session, committed>>
  /\ \A q \in Requests \ {r} : i \notin Touched(q)

LEMMA Typed ==
  ASSUME Types
  PROVE  /\ put \in [Requests -> SUBSET Row_] /\ gone \in [Requests -> SUBSET Ids(rows)]
         /\ DOMAIN audited = Requests /\ DOMAIN got = Requests
         /\ session \in [Requests -> {"active", "inactive", "closed"}]
         /\ committed \subseteq Requests /\ call \in Scenarios
         /\ before \in [Requests -> SUBSET Requests] /\ outcome \in [Requests -> Outcomes]
         /\ pc \in [Requests -> PCs] /\ rows \subseteq Row_
         /\ salt \in {None, Blank, Old} \cup Requests
         /\ key \in [Requests -> {None, Old} \cup Requests]
         /\ \A r \in Requests : session[r] # "active" =>
              put[r] = {} /\ gone[r] = {} /\ audited[r] = {}
  BY DEF Types, TypeOK, StoreOK, Row_

LEMMA FailEffect ==
  ASSUME Types, NEW r \in Requests, NEW o \in Outcomes, pc[r] # "done", Fail(r, o),
         UNCHANGED <<call, got, before>>
  PROVE  Ends(r)
  BY Typed DEF Fail, End, Ends, Goes, PCs

LEMMA LookEffect ==
  ASSUME Types, NEW r \in Requests, NEW o \in Outcomes, NEW g, NEW p \in PCs, pc[r] # "done",
         Look(r, o, g, p)
  PROVE  Ends(r) \/ (o = "none" /\ Looks(r, p, g))
<1> USE Typed
<1>1. /\ call' = call /\ DOMAIN got' = Requests
      /\ \A q \in Requests \ {r} : got'[q] = got[q] /\ before'[q] = before[q]
      /\ got'[r] = g
      /\ before'[r] = before[r] \/ (pc[r] = "start" /\ before'[r] = committed)
      /\ before' \in [Requests -> SUBSET Requests]
  BY DEF Look
<1>2. CASE o = "none"
  <2>1. Goto(r, p) /\ Untouched BY <1>2 DEF Look
  <2> QED BY <1>1, <1>2, <2>1 DEF Goto, Looks, Goes
<1>3. CASE o # "none"
  <2>1. Fail(r, o) BY <1>3 DEF Look
  <2>2. Drop(r, "closed") /\ pc' = [pc EXCEPT ![r] = "done"] /\ outcome' = [outcome EXCEPT ![r] = o]
    BY <2>1 DEF Fail, End
  <2>3. pc' \in [Requests -> PCs] /\ outcome' \in [Requests -> Outcomes]
    BY <2>2 DEF PCs
  <2> QED BY <1>1, <2>2, <2>3 DEF Ends, Goes
<1> QED BY <1>2, <1>3

\* Every configuration is committed or in a transaction.
LEMMA AllConfigsAre ==
  ASSUME NEW d
  PROVE  d \in AllConfigs <=>
           d.id[1] = "config" /\ (d \in rows \/ \E r \in Requests : d \in put[r])
  BY DEF AllConfigs, Configs, Of

LEMMA FlushEffect ==
  ASSUME Types, NEW r \in Requests, NEW x \in Row_, NEW ts, NEW p \in PCs, pc[r] # "done",
         Flush(r, {x}, {}, ts), Goto(r, p), UNCHANGED <<call, got, before>>
  PROVE  Puts(r, x, p)
<1> USE Typed
<1>1. Goes(r) /\ pc'[r] = p /\ got'[r] = got[r] BY DEF Goto, Goes
<1>2. /\ session[r] = "active" /\ UNCHANGED <<rows, session, committed>>
      /\ Holders(r, {x}, {}, ts) = {} /\ ~Refused(r, {x}, {})
      /\ put' = [put EXCEPT ![r] = {y \in After(r, {x}, {}) : y \in {x} \/ y \in put[r]}]
      /\ gone' = [gone EXCEPT ![r] = @ \cup ({} \cap Ids(rows))]
      /\ audited' = [audited EXCEPT ![r] = @ \cup ts]
  BY DEF Flush
<1>3. gone' = gone BY <1>2
<1>4. {y \in After(r, {x}, {}) : y \in {x} \/ y \in put[r]} = {x} \cup {y \in put[r] : y.id # x.id}
  BY DEF After, View, Ids
<1>5. DOMAIN audited' = Requests /\ \A q \in Requests \ {r} : audited'[q] = audited[q]
  BY <1>2
<1>6. ASSUME NEW q \in Requests \ {r} PROVE x.id \notin Touched(q)
  <2>1. ~(({x.id} \cup {}) \cap (gone[q] \cup Ids(put[q])) # {})
    BY <1>2 DEF Holders, Ids
  <2> QED BY <2>1 DEF Touched
<1> QED BY <1>1, <1>2, <1>3, <1>4, <1>5, <1>6 DEF Puts

LEMMA SaveEffect ==
  ASSUME Types, NEW r \in Requests, NEW x \in Row_, NEW o \in Outcomes, NEW p \in PCs,
         pc[r] # "done", p \in {"answer", "supersede"} \/ call[r].op \notin Creates,
         Save(r, {x}, {}, o, p)
  PROVE  Ends(r) \/ (Loses(r) /\ pc'[r] = p) \/ Puts(r, x, p)
<1> USE Typed
<1>0. UNCHANGED <<call, got, before>> BY DEF Save
<1>1. CASE Flush(r, {x}, {}, Chain(r)) /\ Goto(r, p)
  BY <1>0, <1>1, FlushEffect
<1>2. CASE Fail(r, o) BY <1>0, <1>2, FailEffect
<1>3. CASE call[r].op \in Creates /\ Drop(r, "inactive") /\ Goto(r, p)
  BY <1>0, <1>3 DEF Goto, Loses, Goes, Drop
<1>4. CASE Fail(r, "error")
  <2>1. "error" \in Outcomes BY DEF Outcomes
  <2> QED BY <1>0, <1>4, <2>1, FailEffect
<1> QED BY <1>1, <1>2, <1>3, <1>4 DEF Save

LEMMA SaveIfEffect ==
  ASSUME Types, NEW r \in Requests, NEW x, NEW found, NEW p \in PCs, found => x \in Row_,
         pc[r] # "done", p \in {"answer", "supersede"} \/ call[r].op \notin Creates,
         SaveIf(found, r, {x}, {}, p)
  PROVE  Ends(r) \/ (Loses(r) /\ pc'[r] = p) \/ (found /\ Puts(r, x, p))
<1>1. Raised \in Outcomes /\ "error" \in Outcomes BY DEF Raised, Outcomes
<1>2. CASE found
  BY <1>1, <1>2, SaveEffect DEF SaveIf
<1>3. CASE ~found
  BY <1>1, <1>3, FailEffect DEF SaveIf
<1> QED BY <1>2, <1>3

LEMMA DeleteEffect ==
  ASSUME Types, NEW r \in Requests, pc[r] # "done", call[r].target[1] = "account",
         call[r].op \notin Creates, Delete(r)
  PROVE  Ends(r) \/ Deletes(r, call[r].target)
<1> DEFINE i == call[r].target
<1> USE Typed
<1>1. View(r) \subseteq Row_ BY DEF View
<1>2. Cascade(View(r), {i}) = {i} BY <1>1, CascadeOfAccount
<1>3. CASE ~Present(r)
  <2>1. "error" \in Outcomes BY DEF Outcomes
  <2> QED BY <1>3, <2>1, FailEffect DEF Delete, SaveIf
<1>4. CASE Present(r)
  <2>1. Save(r, {}, {i}, Raised, "answer") BY <1>2, <1>4 DEF Delete, SaveIf
  <2>2. UNCHANGED <<call, got, before>> BY <2>1 DEF Save
  <2>3. CASE Fail(r, Raised) \/ Fail(r, "error")
    <3>1. Raised \in Outcomes /\ "error" \in Outcomes BY DEF Raised, Outcomes
    <3> QED BY <2>2, <2>3, <3>1, FailEffect
  <2>4. CASE Flush(r, {}, {i}, Chain(r)) /\ Goto(r, "answer")
    <3>1. Goes(r) /\ pc'[r] = "answer" /\ got'[r] = got[r] BY <2>2, <2>4 DEF Goto, Goes, PCs
    <3>2. /\ session[r] = "active" /\ UNCHANGED <<rows, session, committed>>
          /\ Holders(r, {}, {i}, Chain(r)) = {}
          /\ put' = [put EXCEPT ![r] = {y \in After(r, {}, {i}) : y \in {} \/ y \in put[r]}]
          /\ gone' = [gone EXCEPT ![r] = @ \cup ({i} \cap Ids(rows))]
          /\ audited' = [audited EXCEPT ![r] = @ \cup Chain(r)]
      BY <2>4 DEF Flush
    <3>3. {y \in After(r, {}, {i}) : y \in {} \/ y \in put[r]} = {y \in put[r] : y.id # i}
      BY DEF After, View, Ids
    <3>4. DOMAIN audited' = Requests /\ \A q \in Requests \ {r} : audited'[q] = audited[q]
      BY <3>2
    <3>5. ASSUME NEW q \in Requests \ {r} PROVE i \notin Touched(q)
      <4>1. ~(({} \cup {i}) \cap (gone[q] \cup Ids(put[q])) # {})
        BY <3>2 DEF Holders, Ids
      <4> QED BY <4>1 DEF Touched
    <3> QED BY <3>1, <3>2, <3>3, <3>4, <3>5 DEF Deletes
  <2> QED BY <2>1, <2>3, <2>4 DEF Save
<1> QED BY <1>3, <1>4

-----------------------------------------------------------------------------
(* The tables after a step. *)

\* What a request may write.
Allowed(r, x) ==
  \/ x \in ConfigRow /\ (IsNew(r, x) \/ IsChange(r, x))
  \/ x \in StateRow /\ IsState(r, x)
  \/ x \in AccountRow

\* r writes, rolls back, or does neither; nothing is committed.
Works(r) ==
  /\ UNCHANGED <<rows, committed>>
  /\ put' \in [Requests -> SUBSET Row_] /\ gone' \in [Requests -> SUBSET Ids(rows)]
  /\ session' \in [Requests -> {"active", "inactive", "closed"}] /\ DOMAIN audited' = Requests
  /\ \A q \in Requests \ {r} :
       put'[q] = put[q] /\ gone'[q] = gone[q] /\ session'[q] = session[q] /\ audited'[q] = audited[q]
  /\ session'[r] # "active" => put'[r] = {} /\ gone'[r] = {} /\ audited'[r] = {}
  /\ \A x \in put'[r] : x \in put[r] \/ (Allowed(r, x) /\ \A q \in Requests \ {r} : x.id \notin Touched(q))
  /\ \A x, y \in put'[r] : x.id = y.id => x = y
  /\ \A i \in gone'[r] : i \in gone[r] \/ (i[1] = "account" /\ \A q \in Requests \ {r} : i \notin Touched(q))
  /\ put'[r] # {} /\ call[r].op \in Makes => got'[r] = got[r]

Commits(r) ==
  /\ Goes(r) /\ pc[r] = "commit" /\ pc'[r] = "done" /\ got'[r] = got[r]
  /\ session[r] = "active"
  /\ rows' = View(r)
  /\ put' = [put EXCEPT ![r] = {}] /\ gone' = [gone EXCEPT ![r] = {}]
  /\ audited' = [audited EXCEPT ![r] = {}] /\ session' = [session EXCEPT ![r] = "closed"]
  /\ committed' = committed \cup {r}

LEMMA EndWorks ==
  ASSUME Types, StoreInv, NEW r \in Requests, Ends(r) \/ Loses(r)
  PROVE  Works(r) /\ committed' = committed /\ put'[r] = {}
  BY Typed DEF Ends, Loses, Drop, Works

LEMMA LookWorks ==
  ASSUME Types, StoreInv, NEW r \in Requests, Goes(r), Untouched,
         put[r] # {} /\ call[r].op \in Makes => got'[r] = got[r]
  PROVE  Works(r)
  BY Typed DEF Untouched, Works, StoreInv

LEMMA PutWorks ==
  ASSUME Types, StoreInv, NEW r \in Requests, NEW x \in Row_, NEW p, Puts(r, x, p), Allowed(r, x)
  PROVE  Works(r)
<1> USE Typed
<1>1. put'[r] = {x} \cup {y \in put[r] : y.id # x.id} /\ \A q \in Requests \ {r} : put'[q] = put[q]
  BY DEF Puts
<1>2. put' \in [Requests -> SUBSET Row_] BY DEF Puts
<1>3. \A y, z \in put'[r] : y.id = z.id => y = z BY <1>1 DEF StoreInv
<1>4. \A y \in put'[r] : y \in put[r] \/ (Allowed(r, y) /\ \A q \in Requests \ {r} : y.id \notin Touched(q))
  BY <1>1 DEF Puts
<1> QED BY <1>1, <1>2, <1>3, <1>4 DEF Puts, Works

LEMMA DeleteWorks ==
  ASSUME Types, StoreInv, NEW r \in Requests, NEW i, Deletes(r, i)
  PROVE  Works(r)
<1> USE Typed
<1>1. put'[r] = {y \in put[r] : y.id # i} /\ \A q \in Requests \ {r} : put'[q] = put[q]
  BY DEF Deletes
<1>2. put' \in [Requests -> SUBSET Row_] BY DEF Deletes
<1>3. gone'[r] = gone[r] \cup ({i} \cap Ids(rows)) /\ \A q \in Requests \ {r} : gone'[q] = gone[q]
  BY DEF Deletes
<1>4. gone' \in [Requests -> SUBSET Ids(rows)] BY DEF Deletes
<1>5. \A y, z \in put'[r] : y.id = z.id => y = z BY <1>1 DEF StoreInv
<1>6. \A j \in gone'[r] : j \in gone[r] \/ (j[1] = "account" /\ \A q \in Requests \ {r} : j \notin Touched(q))
  BY <1>3 DEF Deletes
<1> QED BY <1>1, <1>2, <1>3, <1>4, <1>5, <1>6 DEF Deletes, Works

LEMMA CommitEffect ==
  ASSUME Types, NEW r \in Requests, Commit(r), pc[r] # "done"
  PROVE  Ends(r) \/ Commits(r)
<1> USE Typed
<1>1. Goes(r) /\ pc[r] = "commit" /\ pc'[r] = "done" /\ got'[r] = got[r]
  BY DEF Commit, Goto, Goes, PCs
<1> QED BY <1>1 DEF Commit, Close, Ends, Commits

\* The rows after a commit.
LEMMA CommittedRows ==
  ASSUME NEW r \in Requests, Commits(r), NEW x
  PROVE  x \in rows' <=> x \in put[r] \/ (x \in rows /\ x.id \notin Touched(r))
  BY DEF Commits, View, Touched

LEMMA TypesNext ==
  ASSUME Types, StoreInv, NEW r \in Requests, Goes(r), Works(r) \/ Commits(r),
         salt' \in {None, Blank, Old} \cup Requests, key' \in [Requests -> {None, Old} \cup Requests]
  PROVE  Types'
<1> USE Typed
<1>1. CASE Works(r)
  <2>1. put' \in [Requests -> SUBSET (rows' \cup UNION {put'[q] : q \in Requests})]
    BY <1>1 DEF Works
  <2>2. gone' \in [Requests -> SUBSET Ids(rows')] BY <1>1 DEF Works
  <2>3. \A q \in Requests : session'[q] # "active" => put'[q] = {} /\ gone'[q] = {} /\ audited'[q] = {}
    BY <1>1 DEF Works
  <2>4. committed' \subseteq Requests /\ call' \in Scenarios /\ rows' \subseteq Row_
    BY <1>1 DEF Works, Goes
  <2>5. put' \in [Requests -> SUBSET Row_] /\ DOMAIN audited' = Requests
        /\ session' \in [Requests -> {"active", "inactive", "closed"}]
    BY <1>1 DEF Works
  <2> QED BY <2>1, <2>2, <2>3, <2>4, <2>5 DEF Goes, Types, TypeOK, StoreOK, Row_
<1>2. CASE Commits(r)
  <2>1. put' \in [Requests -> SUBSET Row_] /\ DOMAIN audited' = Requests
        /\ session' \in [Requests -> {"active", "inactive", "closed"}]
        /\ put'[r] = {} /\ gone'[r] = {} /\ audited'[r] = {}
        /\ \A q \in Requests \ {r} :
             put'[q] = put[q] /\ gone'[q] = gone[q] /\ session'[q] = session[q] /\ audited'[q] = audited[q]
    BY <1>2 DEF Commits
  <2>2. put' \in [Requests -> SUBSET (rows' \cup UNION {put'[q] : q \in Requests})]
    BY <2>1
  <2>3. ASSUME NEW q \in Requests, NEW i \in gone'[q] PROVE i \in Ids(rows')
    <3>1. q # r /\ i \in gone[q] BY <2>1, <2>3
    <3>2. i \notin Touched(r) BY <3>1 DEF StoreInv, Touched
    <3>3. PICK x \in rows : x.id = i BY <3>1 DEF Ids
    <3>4. x \in rows' BY <1>2, <3>2, <3>3, CommittedRows
    <3> QED BY <3>3, <3>4 DEF Ids
  <2>4. gone' \in [Requests -> SUBSET Ids(rows')]
    <3>1. DOMAIN gone' = Requests /\ gone' = [q \in Requests |-> gone'[q]] BY <1>2 DEF Commits
    <3> QED BY <2>3, <3>1
  <2>5. \A q \in Requests : session'[q] # "active" => put'[q] = {} /\ gone'[q] = {} /\ audited'[q] = {}
    BY <2>1
  <2>6. committed' \subseteq Requests /\ call' \in Scenarios BY <1>2 DEF Commits, Goes
  <2>7. rows' \subseteq Row_ BY <1>2 DEF Commits, View
  <2> QED BY <2>1, <2>2, <2>4, <2>5, <2>6, <2>7 DEF Goes, Types, TypeOK, StoreOK, Row_
<1> QED BY <1>1, <1>2

\* An id that a request gives to what it inserts is no other's.
LEMMA NewIds ==
  ASSUME NEW q \in Requests, NEW r \in Requests
  PROVE  /\ <<"config", q>> # <<"state", r>>
         /\ <<"config", q>> = <<"config", r>> => q = r
         /\ <<"state", q>> = <<"state", r>> => q = r
  OBVIOUS

LEMMA StoreNext ==
  ASSUME Types, StoreInv, NEW r \in Requests, WriteInv(r), Works(r) \/ Commits(r)
  PROVE  StoreInv'
<1> USE Typed
<1>1. CASE Works(r)
  <2>1. \A x, y \in rows' : x.id = y.id => x = y BY <1>1 DEF Works, StoreInv
  <2>2. \A q \in Requests : \A x, y \in put'[q] : x.id = y.id => x = y BY <1>1 DEF Works, StoreInv
  <2>3. \A q \in Requests \ {r} : Touched(q)' = Touched(q) BY <1>1 DEF Works, Touched
  <2>4. ASSUME NEW i \in Touched(r)', NEW q \in Requests \ {r} PROVE i \notin Touched(q)
    <3>1. CASE i \in gone'[r] BY <1>1, <3>1 DEF Works, StoreInv, Touched
    <3>2. CASE i \notin gone'[r]
      <4>1. PICK x \in put'[r] : x.id = i BY <3>2 DEF Touched, Ids
      <4>2. CASE x \in put[r] BY <4>1, <4>2 DEF StoreInv, Touched, Ids
      <4>3. CASE x \notin put[r] BY <1>1, <4>1, <4>3 DEF Works
      <4> QED BY <4>2, <4>3
    <3> QED BY <3>1, <3>2
  <2>5. \A p, q \in Requests : p # q => Touched(p)' \cap Touched(q)' = {}
    <3> SUFFICES ASSUME NEW p \in Requests, NEW q \in Requests, p # q, NEW i \in Touched(p)', i \in Touched(q)'
                 PROVE  FALSE
      OBVIOUS
    <3>1. CASE p # r /\ q # r BY <2>3, <3>1 DEF StoreInv
    <3>2. CASE p = r BY <2>3, <2>4, <3>2
    <3>3. CASE q = r BY <2>3, <2>4, <3>3
    <3> QED BY <3>1, <3>2, <3>3
  <2>6. \A q \in Requests : \A i \in gone'[q] : i[1] = "account" BY <1>1 DEF Works, StoreInv
  <2>7. \A x \in rows' : \A q \in Requests :
          x.id \in {<<"config", q>>, <<"state", q>>} => q \in committed'
    BY <1>1 DEF Works, StoreInv
  <2> QED BY <2>1, <2>2, <2>5, <2>6, <2>7 DEF StoreInv
<1>2. CASE Commits(r)
  <2>0. \A x : x \in rows' <=> x \in put[r] \/ (x \in rows /\ x.id \notin Touched(r))
    BY <1>2, CommittedRows
  <2>1. \A x, y \in rows' : x.id = y.id => x = y
    <3>1. \A x \in put[r] : x.id \in Touched(r) BY DEF Touched, Ids
    <3> QED BY <2>0, <3>1 DEF StoreInv
  <2>2. /\ put'[r] = {} /\ gone'[r] = {}
        /\ \A q \in Requests \ {r} : put'[q] = put[q] /\ gone'[q] = gone[q]
    BY <1>2 DEF Commits
  <2>3. Touched(r)' = {} /\ \A q \in Requests \ {r} : Touched(q)' = Touched(q)
    BY <2>2 DEF Touched, Ids
  <2>4. \A p, q \in Requests : p # q => Touched(p)' \cap Touched(q)' = {}
    BY <2>3 DEF StoreInv
  <2>5. \A q \in Requests : \A x, y \in put'[q] : x.id = y.id => x = y BY <2>2 DEF StoreInv
  <2>6. \A q \in Requests : \A i \in gone'[q] : i[1] = "account" BY <2>2 DEF StoreInv
  <2>7. ASSUME NEW x \in rows', NEW q \in Requests, x.id \in {<<"config", q>>, <<"state", q>>}
        PROVE  q \in committed'
    <3>1. committed' = committed \cup {r} BY <1>2 DEF Commits
    <3>2. CASE x \in rows BY <2>7, <3>1, <3>2 DEF StoreInv
    <3>3. CASE x \notin rows
      <4>1. x \in put[r] BY <2>0, <3>3
      <4>2. \A y \in rows : y.id = x.id => q \in committed BY <2>7 DEF StoreInv
      <4>3. CASE x.id = <<"config", q>>
        <5>1. x.id[1] = "config" BY <4>3
        <5>2. CASE IsNew(r, x) BY <3>1, <4>3, <5>2 DEF IsNew
        <5>3. CASE IsChange(r, x) BY <3>1, <4>2, <5>3 DEF IsChange
        <5> QED BY <4>1, <5>1, <5>2, <5>3 DEF WriteInv
      <4>4. CASE x.id = <<"state", q>>
        <5>1. x.id[1] = "state" BY <4>4
        <5>2. IsState(r, x) BY <4>1, <5>1 DEF WriteInv
        <5> QED BY <3>1, <4>2, <4>4, <5>2 DEF IsState
      <4> QED BY <2>7, <4>3, <4>4
    <3> QED BY <3>2, <3>3
  <2> QED BY <2>1, <2>4, <2>5, <2>6, <2>7 DEF StoreInv
<1> QED BY <1>1, <1>2

-----------------------------------------------------------------------------
(* The rows of configurations and of states stay, and what they say of others with them. *)

LEMMA RowsStay ==
  ASSUME Types, StoreInv, NEW r \in Requests, PathInv(r), WriteInv(r), Works(r) \/ Commits(r)
  PROVE  /\ \A y \in rows : y.id[1] = "config" =>
              \E z \in rows' : /\ z.id = y.id /\ z.provider = y.provider /\ z.version = y.version
                               /\ y.deleted => z.deleted
         /\ \A y \in rows : y.id[1] = "state" =>
              \E z \in rows' : z.id = y.id /\ z.config = y.config /\ (y.consumed => z.consumed)
         /\ \A z \in rows' : z.id[1] = "state" =>
              z.id = <<"state", r>> \/ \E y \in rows : y.id = z.id /\ y.config = z.config
<1> USE Typed
<1>1. CASE Works(r)
  BY <1>1 DEF Works
<1>2. CASE Commits(r)
  <2>0. \A x : x \in rows' <=> x \in put[r] \/ (x \in rows /\ x.id \notin Touched(r))
    BY <1>2, CommittedRows
  <2>1. r \notin committed BY <1>2 DEF Commits, PathInv
  <2>2. ASSUME NEW y \in rows, y.id[1] \in {"config", "state"}, y.id \in Touched(r)
        PROVE  \E x \in put[r] : x.id = y.id
    <3>1. y.id \notin gone[r] BY <2>2 DEF StoreInv
    <3> QED BY <2>2, <3>1 DEF Touched, Ids
  <2>3. ASSUME NEW y \in rows, y.id[1] = "config"
        PROVE  \E z \in rows' : /\ z.id = y.id /\ z.provider = y.provider /\ z.version = y.version
                                /\ y.deleted => z.deleted
    <3>1. CASE y.id \notin Touched(r) BY <2>0, <3>1
    <3>2. CASE y.id \in Touched(r)
      <4>1. PICK x \in put[r] : x.id = y.id BY <2>2, <2>3, <3>2
      <4>2. ~IsNew(r, x) BY <2>1, <4>1 DEF IsNew, StoreInv
      <4>3. IsChange(r, x) BY <2>3, <4>1, <4>2 DEF WriteInv
      <4>4. PICK w \in rows : w.id = x.id /\ w.provider = x.provider /\ w.version = x.version
                               /\ (w.deleted => x.deleted)
        BY <4>3 DEF IsChange
      <4>5. w = y BY <4>1, <4>4 DEF StoreInv
      <4> QED BY <2>0, <4>1, <4>4, <4>5
    <3> QED BY <3>1, <3>2
  <2>4. ASSUME NEW y \in rows, y.id[1] = "state"
        PROVE  \E z \in rows' : z.id = y.id /\ z.config = y.config /\ (y.consumed => z.consumed)
    <3>1. CASE y.id \notin Touched(r) BY <2>0, <3>1
    <3>2. CASE y.id \in Touched(r)
      <4>1. PICK x \in put[r] : x.id = y.id BY <2>2, <2>4, <3>2
      <4>2. x.id # <<"state", r>> BY <2>1, <4>1 DEF StoreInv
      <4>3. IsState(r, x) BY <2>4, <4>1 DEF WriteInv
      <4>4. PICK w \in rows : w.id = x.id /\ w.config = x.config /\ (w.consumed => x.consumed)
        BY <4>2, <4>3 DEF IsState
      <4>5. w = y BY <4>1, <4>4 DEF StoreInv
      <4> QED BY <2>0, <4>1, <4>4, <4>5
    <3> QED BY <3>1, <3>2
  <2>5. ASSUME NEW z \in rows', z.id[1] = "state"
        PROVE  z.id = <<"state", r>> \/ \E y \in rows : y.id = z.id /\ y.config = z.config
    <3>1. CASE z \in rows BY <3>1
    <3>2. CASE z \in put[r] BY <2>5, <3>2 DEF WriteInv, IsState
    <3> QED BY <2>0, <3>1, <3>2
  <2> QED BY <2>3, <2>4, <2>5
<1> QED BY <1>1, <1>2

LEMMA KnownStays ==
  ASSUME Types, StoreInv, NEW r \in Requests, PathInv(r), WriteInv(r), Works(r) \/ Commits(r),
         NEW g, Known(g)
  PROVE  Known(g)'
<1>1. PICK y \in rows : y.id = g.id /\ y.provider = g.provider /\ y.version = g.version
  BY DEF Known
<1>2. g \in ConfigRow BY DEF Known
<1>3. y.id[1] = "config" BY <1>1, <1>2, IdTable DEF ConfigRow
<1>4. \E z \in rows' : z.id = y.id /\ z.provider = y.provider /\ z.version = y.version
  BY <1>3, RowsStay
<1> QED BY <1>1, <1>2, <1>4 DEF Known

LEMMA WriteNext ==
  ASSUME Types, StoreInv, NEW r \in Requests, Goes(r), Works(r) \/ Commits(r),
         NEW q \in Requests, WriteInv(q), key'[q] = key[q] \/ put'[q] = {}
  PROVE  WriteInv(q)'
<1> USE Typed
<1>0. call' = call BY DEF Goes
<1>1. CASE q # r
  <2>1. put'[q] = put[q] BY <1>1 DEF Works, Commits
  <2>2. got'[q] = got[q] BY <1>1 DEF Goes
  <2>3. ASSUME NEW x \in put[q], NEW y \in rows, y.id = x.id PROVE y \in rows'
    <3>1. x.id \in Touched(q) BY DEF Touched, Ids
    <3>2. x.id \notin Touched(r) BY <1>1, <3>1 DEF StoreInv
    <3>3. CASE Works(r) BY <3>3 DEF Works
    <3>4. CASE Commits(r) BY <2>3, <3>2, <3>4, CommittedRows
    <3> QED BY <3>3, <3>4
  <2>4. ASSUME NEW x \in put[q], x.id[1] = "config" PROVE IsNew(q, x)' \/ IsChange(q, x)'
    <3>0. key'[q] = key[q] BY <2>1
    <3>1. CASE IsNew(q, x) BY <1>0, <2>2, <3>0, <3>1 DEF IsNew
    <3>2. CASE IsChange(q, x)
      <4>1. PICK y \in rows :
              /\ y.id = x.id /\ y.provider = x.provider /\ y.version = x.version /\ y.key = x.key
              /\ y.deleted => x.deleted
              /\ (x.next = y.next /\ x.active = y.active) \/ Supersedes(q, x)
        BY <3>2 DEF IsChange
      <4>2. Supersedes(q, x)' <=> Supersedes(q, x) BY <1>0, <2>2 DEF Supersedes
      <4>3. y \in rows' BY <2>3, <4>1
      <4> QED BY <4>1, <4>2, <4>3 DEF IsChange
    <3> QED BY <2>4, <3>1, <3>2 DEF WriteInv
  <2>5. ASSUME NEW x \in put[q], x.id[1] = "state" PROVE IsState(q, x)'
    <3>1. IsState(q, x) BY <2>5 DEF WriteInv
    <3> QED BY <2>3, <3>1 DEF IsState
  <2> QED BY <2>1, <2>4, <2>5 DEF WriteInv
<1>2. CASE q = r /\ Works(r)
  <2>1. ASSUME NEW x \in put'[r]
        PROVE  /\ x.id[1] = "config" => IsNew(r, x) \/ IsChange(r, x)
               /\ x.id[1] = "state" => IsState(r, x)
    <3>1. CASE x \in put[r] BY <1>2, <3>1 DEF WriteInv
    <3>2. CASE x \notin put[r]
      <4>1. Allowed(r, x) /\ x \in Row_ BY <1>2, <3>2 DEF Works
      <4> QED BY <4>1, Sorts DEF Allowed
    <3> QED BY <3>1, <3>2
  <2>2. ASSUME NEW x \in put'[r], x.id[1] = "config" PROVE IsNew(r, x)' \/ IsChange(r, x)'
    <3>0. key'[r] = key[r] /\ rows' = rows BY <1>2, <2>2 DEF Works
    <3>1. call[r].op \in Makes => got'[r] = got[r] BY <1>2, <2>2 DEF Works
    <3>2. CASE IsNew(r, x) BY <1>0, <3>0, <3>1, <3>2 DEF IsNew
    <3>3. CASE IsChange(r, x)
      <4>1. Supersedes(r, x) => Supersedes(r, x)' BY <1>0, <3>1 DEF Supersedes
      <4> QED BY <3>0, <3>3, <4>1 DEF IsChange
    <3>4. IsNew(r, x) \/ IsChange(r, x) BY <2>1, <2>2
    <3> QED BY <3>2, <3>3, <3>4
  <2>3. ASSUME NEW x \in put'[r], x.id[1] = "state" PROVE IsState(r, x)'
    BY <1>2, <2>1, <2>3 DEF IsState, Works
  <2> QED BY <1>2, <2>2, <2>3 DEF WriteInv
<1>3. CASE q = r /\ Commits(r)
  BY <1>3 DEF Commits, WriteInv
<1> QED BY <1>1, <1>2, <1>3

-----------------------------------------------------------------------------
(* The configurations of a step are those before it, and the new version. *)

LEMMA ConfigsFrom ==
  ASSUME Types, StoreInv, NEW r \in Requests, WriteInv(r), Works(r) \/ Commits(r),
         NEW c \in rows', c.id[1] = "config"
  PROVE  \/ c \in put[r] /\ IsNew(r, c) /\ c.id = <<"config", r>>
         \/ \E y \in rows : /\ y.id = c.id /\ y.provider = c.provider
                            /\ y.deleted => c.deleted
                            /\ c.active => y.active
<1>1. CASE c \in rows BY <1>1
<1>2. CASE c \notin rows
  <2>1. Commits(r) BY <1>2 DEF Works
  <2>2. c \in put[r] BY <1>2, <2>1, CommittedRows
  <2>3. IsNew(r, c) \/ IsChange(r, c) BY <2>2 DEF WriteInv
  <2>4. CASE IsNew(r, c) BY <2>2, <2>4 DEF IsNew
  <2>5. CASE IsChange(r, c) BY <2>5 DEF IsChange, Supersedes
  <2> QED BY <2>3, <2>4, <2>5
<1> QED BY <1>1, <1>2

\* An id of the seed is no request's.
LEMMA SeedIds == ASSUME NEW r \in Requests PROVE <<"config", r>> \notin Ids(Seed)
<1>1. \A x \in Seed : x.id \notin {<<t, r>> : t \in {"config", "state", "account"}}
  BY AccountsAssumption
<1> QED BY <1>1 DEF Ids

\* What another request has found of the versions that were there when it began stays so.
LEMMA SeenStays ==
  ASSUME Types, StoreInv, NEW r \in Requests, WriteInv(r), r \notin committed, Works(r) \/ Commits(r),
         NEW q \in Requests, call' = call, pc'[q] = pc[q], got'[q] = got[q], put'[q] = put[q],
         before'[q] = before[q], before[q] \subseteq committed, \A x : IsNew(q, x)' <=> IsNew(q, x),
         call[q].op = "rotate" /\ pc[q] = "write" => call[q].target \in Ids(Configs(rows)),
         Seen(q)
  PROVE  Seen(q)'
<1> SUFFICES ASSUME NEW c \in rows', Earlier(q, c)'
             PROVE  /\ pc[q] = "write" /\ ForProvider(q, c.provider)' => Got(q, c)
                    /\ \A x \in put[q] : IsNew(q, x) /\ x.provider = c.provider => Got(q, c)
  BY DEF Seen, Got
<1>1. /\ c.id[1] = "config" /\ ~c.deleted /\ c.active
      /\ c.id \in Ids(Seed) \/ \E a \in before[q] : c.id = <<"config", a>>
  BY DEF Earlier, Live, Configs, Of
<1>2. c.id # <<"config", r>>
  <2>1. \A a \in before[q] : <<"config", a>> # <<"config", r>> OBVIOUS
  <2> QED BY <1>1, <2>1, SeedIds
<1>3. PICK y \in rows : y.id = c.id /\ y.provider = c.provider /\ (y.deleted => c.deleted)
                         /\ (c.active => y.active)
  BY <1>1, <1>2, ConfigsFrom
<1>4. Earlier(q, y) BY <1>1, <1>3 DEF Earlier, Live, Configs, Of
<1>5. Got(q, y) => Got(q, c) BY <1>3 DEF Got
<1>6. ASSUME pc[q] = "write", ForProvider(q, c.provider)' PROVE ForProvider(q, y.provider)
  <2>1. CASE call[q].op = "rotate" /\ call[q].op # "create_config"
    <3>1. PICK z \in rows' : z.id = call[q].target /\ z.provider = c.provider
      BY <1>6, <2>1 DEF ForProvider
    <3>2. PICK w \in rows : w.id = z.id /\ w.id[1] = "config"
      BY <1>6, <2>1, <3>1 DEF Ids, Configs, Of
    <3>3. z.id # <<"config", r>> BY <3>2 DEF StoreInv
    <3>4. PICK v \in rows : v.id = z.id /\ v.provider = z.provider
      BY <3>2, <3>3, ConfigsFrom
    <3> QED BY <1>3, <2>1, <3>1, <3>4 DEF ForProvider
  <2>2. CASE call[q].op = "create_config" BY <1>3, <1>6, <2>2 DEF ForProvider
  <2> QED BY <1>6, <2>1, <2>2 DEF ForProvider
<1> QED BY <1>3, <1>4, <1>5, <1>6 DEF Seen

\* A commit keeps the versions whole: with a version it stores the one that supersedes it.
LEMMA RotationNext ==
  ASSUME Types, StoreInv, RotationIsWhole, NEW r \in Requests, PathInv(r), WriteInv(r), MakeInv(r),
         Commits(r)
  PROVE  RotationIsWhole'
<1> USE Typed
<1> SUFFICES ASSUME NEW c \in rows', c.id[1] = "config", c.next # None
             PROVE  /\ ~c.active
                    /\ \E d \in rows' : /\ d.id[1] = "config" /\ d.id = c.next
                                        /\ d.provider = c.provider /\ d.version = c.version + 1
  BY DEF RotationIsWhole, Superseding, Configs, Of
<1>1. pc[r] = "commit" /\ session[r] = "active" BY DEF Commits
<1>2. \A x : x \in rows' <=> x \in put[r] \/ (x \in rows /\ x.id \notin Touched(r))
  BY CommittedRows
<1>3. ASSUME NEW y \in rows, y.id[1] = "config", y.provider = c.provider, y.version = c.version,
             y.next = c.next, y.active = c.active
      PROVE  /\ ~c.active
             /\ \E d \in rows' : /\ d.id[1] = "config" /\ d.id = c.next
                                 /\ d.provider = c.provider /\ d.version = c.version + 1
  <2>1. ~y.active /\ \E d \in Configs(rows) : d.id = y.next /\ d.provider = y.provider /\ d.version = y.version + 1
    BY <1>3 DEF RotationIsWhole, Superseding, Configs, Of
  <2>2. PICK d \in rows : d.id[1] = "config" /\ d.id = y.next /\ d.provider = y.provider /\ d.version = y.version + 1
    BY <2>1 DEF Configs, Of
  <2>3. PICK e \in rows' : e.id = d.id /\ e.provider = d.provider /\ e.version = d.version
    BY <2>2, RowsStay
  <2> QED BY <1>3, <2>1, <2>2, <2>3
<1>4. CASE c \in rows BY <1>3, <1>4
<1>5. CASE c \in put[r]
  <2>1. IsChange(r, c) BY <1>5 DEF WriteInv, IsNew
  <2>2. PICK y \in rows : /\ y.id = c.id /\ y.provider = c.provider /\ y.version = c.version
                          /\ (c.next = y.next /\ c.active = y.active) \/ Supersedes(r, c)
    BY <2>1 DEF IsChange
  <2>3. CASE c.next = y.next /\ c.active = y.active BY <1>3, <2>2, <2>3
  <2>4. CASE Supersedes(r, c)
    <3>1. /\ call[r].op \in Makes /\ got[r] # None /\ c.id = got[r].id /\ c.next = <<"config", r>>
          /\ ~c.active
      BY <2>4 DEF Supersedes
    <3>2. PICK n \in put[r] : IsNew(r, n) BY <1>1, <3>1 DEF MakeInv
    <3>3. Known(got[r]) BY <1>1, <3>1 DEF PathInv
    <3>4. PICK z \in rows : z.id = got[r].id /\ z.provider = got[r].provider /\ z.version = got[r].version
      BY <3>3 DEF Known
    <3>5. z = y BY <2>2, <3>1, <3>4 DEF StoreInv
    <3>6. n.id = <<"config", r>> /\ n.provider = c.provider /\ n.version = c.version + 1
      BY <2>2, <3>1, <3>2, <3>4, <3>5 DEF IsNew, VersionAfter
    <3>7. n.id[1] = "config" /\ n \in rows' BY <1>2, <3>2, <3>6
    <3> QED BY <3>1, <3>6, <3>7
  <2> QED BY <2>2, <2>3, <2>4
<1> QED BY <1>2, <1>4, <1>5

\* The active versions that a commit finds, other than that which it supersedes, are of requests that
\* had not committed when it began.
LEMMA NewAndOther ==
  ASSUME Types, StoreInv, StoreInv', NEW r \in Requests, PathInv(r), WriteInv(r), MakeInv(r), Commits(r),
         \A a \in Requests : before[a] \subseteq committed,
         NEW c \in put[r], IsNew(r, c), NEW d \in rows', d.active, ~d.deleted, d.provider = c.provider,
         NEW y \in rows, y.id[1] = "config", y.id = d.id, y.provider = d.provider, ~y.deleted, y.active
  PROVE  \E a \in Requests : d.id = <<"config", a>> /\ Overlapped(r, a) /\ Overlapped(a, r)
<1> USE Typed
<1>1. call[r].op \in Makes /\ pc[r] = "commit" /\ session[r] = "active" /\ r \notin committed
  BY DEF IsNew, Commits, PathInv
<1>2. ~Earlier(r, y)
  <2> SUFFICES ASSUME Earlier(r, y) PROVE FALSE
    OBVIOUS
  <2>1. got[r] # None /\ got[r].id = y.id BY <1>1 DEF MakeInv, Seen, Got
  <2>2. PICK x \in put[r] : Supersedes(r, x) BY <1>1, <2>1 DEF MakeInv
  <2>3. x.id = d.id /\ ~x.active BY <2>1, <2>2 DEF Supersedes
  <2>4. x \in rows' BY CommittedRows
  <2> QED BY <2>3, <2>4 DEF StoreInv
<1>3. y.id \notin Ids(Seed) /\ \A a \in before[r] : y.id # <<"config", a>>
  BY <1>2 DEF Earlier, Live, Configs, Of
<1>4. y \in ConfigRow BY Sorts
<1>5. PICK a \in Requests : y.id = <<"config", a>> BY <1>3, <1>4 DEF ConfigRow, Id
<1>6. r \notin before[a] /\ a \notin before[r] BY <1>1, <1>3, <1>5
<1> QED BY <1>5, <1>6 DEF Overlapped

LEMMA ActiveNext ==
  ASSUME Types, StoreInv, StoreInv', SecondActiveNeedsOverlap, NEW r \in Requests, Goes(r),
         PathInv(r), WriteInv(r), MakeInv(r), Works(r) \/ Commits(r),
         \A a \in Requests : before[a] \subseteq committed
  PROVE  SecondActiveNeedsOverlap'
<1> USE Typed
<1> SUFFICES ASSUME NEW c \in rows', NEW d \in rows', c.id[1] = "config", d.id[1] = "config",
                    ~c.deleted, ~d.deleted, c # d, c.provider = d.provider, c.active, d.active
             PROVE  \/ {c.id, d.id} \subseteq Ids(Seed)
                    \/ \E a, b \in Requests :
                         c.id = <<"config", a>> /\ d.id = <<"config", b>> /\ Overlapped(a, b)'
  BY DEF SecondActiveNeedsOverlap, Live, Configs, Of
<1>1. c.id # d.id BY DEF StoreInv
<1>2. r \notin committed BY DEF PathInv, Goes
<1>3. \A a \in Requests : before'[a] = before[a] \/ (a = r /\ Works(r)) BY DEF Goes, Commits
<1>4. /\ \/ c \in put[r] /\ IsNew(r, c) /\ c.id = <<"config", r>>
         \/ \E y \in rows : y.id = c.id /\ y.provider = c.provider /\ ~y.deleted /\ y.active
      /\ \/ d \in put[r] /\ IsNew(r, d) /\ d.id = <<"config", r>>
         \/ \E z \in rows : z.id = d.id /\ z.provider = d.provider /\ ~z.deleted /\ z.active
  BY ConfigsFrom
<1>5. ASSUME NEW y \in rows, NEW z \in rows,
             y.id = c.id, y.provider = c.provider, ~y.deleted, y.active,
             z.id = d.id, z.provider = d.provider, ~z.deleted, z.active
      PROVE  \/ {c.id, d.id} \subseteq Ids(Seed)
             \/ \E a, b \in Requests :
                  c.id = <<"config", a>> /\ d.id = <<"config", b>> /\ Overlapped(a, b)'
  <2>1. \/ {y.id, z.id} \subseteq Ids(Seed)
        \/ \E a, b \in Requests :
             y.id = <<"config", a>> /\ z.id = <<"config", b>> /\ Overlapped(a, b)
    BY <1>1, <1>5 DEF SecondActiveNeedsOverlap, Live, Configs, Of
  <2>2. ASSUME NEW a \in Requests, NEW b \in Requests, y.id = <<"config", a>>, z.id = <<"config", b>>,
               Overlapped(a, b)
        PROVE  Overlapped(a, b)'
    <3>1. a # r /\ b # r BY <1>2, <1>5, <2>2 DEF StoreInv
    <3> QED BY <1>3, <2>2, <3>1 DEF Overlapped
  <2> QED BY <1>5, <2>1, <2>2
<1>6. CASE Works(r)
  <2>1. rows' = rows BY <1>6 DEF Works
  <2> QED BY <1>5, <2>1
<1>7. CASE Commits(r)
  <2>0. \A a \in Requests : before'[a] = before[a] BY <1>7 DEF Goes, Commits
  <2>1. CASE c \in put[r] /\ IsNew(r, c) /\ c.id = <<"config", r>>
    <3>1. PICK z \in rows : z.id = d.id /\ z.provider = d.provider /\ ~z.deleted /\ z.active
      BY <1>1, <1>4, <2>1
    <3>2. PICK a \in Requests : d.id = <<"config", a>> /\ Overlapped(r, a)
      BY <1>7, <2>1, <3>1, NewAndOther
    <3> QED BY <2>0, <2>1, <3>2 DEF Overlapped
  <2>2. CASE d \in put[r] /\ IsNew(r, d) /\ d.id = <<"config", r>>
    <3>1. PICK y \in rows : y.id = c.id /\ y.provider = c.provider /\ ~y.deleted /\ y.active
      BY <1>1, <1>4, <2>2
    <3>2. PICK a \in Requests : c.id = <<"config", a>> /\ Overlapped(a, r)
      BY <1>7, <2>2, <3>1, NewAndOther
    <3> QED BY <2>0, <2>2, <3>2 DEF Overlapped
  <2> QED BY <1>4, <1>5, <2>1, <2>2
<1> QED BY <1>6, <1>7

LEMMA VersionsNext ==
  ASSUME Types, StoreInv, StoreInv', VersionsInv, NEW r \in Requests, Goes(r),
         PathInv(r), WriteInv(r), MakeInv(r), Works(r) \/ Commits(r),
         \A a \in Requests : before[a] \subseteq committed
  PROVE  VersionsInv'
<1>1. RotationIsWhole'
  <2>1. CASE Works(r)
    <3>1. rows' = rows BY <2>1 DEF Works
    <3> QED BY <3>1 DEF VersionsInv, RotationIsWhole, Superseding, Configs, Of
  <2>2. CASE Commits(r) BY <2>2, RotationNext DEF VersionsInv
  <2> QED BY <2>1, <2>2
<1>2. SecondActiveNeedsOverlap' BY ActiveNext DEF VersionsInv
<1> QED BY <1>1, <1>2 DEF VersionsInv

-----------------------------------------------------------------------------
(* The requests that do not step. *)

LEMMA OthersNext ==
  ASSUME Inv, NEW r \in Requests, Goes(r), Works(r) \/ Commits(r), NEW q \in Requests \ {r},
         key'[q] = key[q]
  PROVE  Own(q)'
<1> USE Typed
<1>0. Types /\ StoreInv /\ PathInv(r) /\ WriteInv(r) /\ Own(q) BY DEF Inv, Own
<1>1. /\ call' = call /\ pc'[q] = pc[q] /\ got'[q] = got[q] /\ before'[q] = before[q] BY DEF Goes
<1>2. put'[q] = put[q] /\ gone'[q] = gone[q] /\ session'[q] = session[q]
  BY <1>0 DEF Works, Commits
<1>3. committed \subseteq committed' /\ committed' \subseteq committed \cup {r}
  BY DEF Works, Commits
<1>4. r \notin committed BY <1>0 DEF PathInv, Goes
<1>5. /\ \A y \in rows : y.id[1] = "config" =>
              \E z \in rows' : /\ z.id = y.id /\ z.provider = y.provider /\ z.version = y.version
                               /\ y.deleted => z.deleted
      /\ \A y \in rows : y.id[1] = "state" =>
              \E z \in rows' : z.id = y.id /\ z.config = y.config /\ (y.consumed => z.consumed)
      /\ \A z \in rows' : z.id[1] = "state" =>
              z.id = <<"state", r>> \/ \E y \in rows : y.id = z.id /\ y.config = z.config
  BY <1>0, RowsStay
<1>6. \A g : Known(g) => Known(g)' BY <1>0, KnownStays
<1>7. \A i : i \in Ids(Configs(rows)) => i \in Ids(Configs(rows'))
  BY <1>5 DEF Ids, Configs, Of
<1>8. \A i : i \in Ids(Of(rows, "state")) => i \in Ids(Of(rows', "state"))
  BY <1>5 DEF Ids, Of
<1>9. PathInv(q)'
  <2>1. Unwritten(q)' <=> Unwritten(q) BY <1>1 DEF Unwritten
  <2>2. q \in committed' => q \in committed BY <1>3
  <2>3. ASSUME NEW p, ForProvider(q, p), call[q].op = "rotate" => call[q].target \in Ids(Configs(rows))
        PROVE  ForProvider(q, p)'
    <3>1. CASE call[q].op = "rotate"
      <4>1. PICK y \in rows : y.id = call[q].target /\ y.provider = p BY <2>3, <3>1 DEF ForProvider
      <4>2. y.id[1] = "config" BY <2>3, <3>1, <4>1 DEF Ids, Configs, Of
      <4> QED BY <1>1, <1>5, <3>1, <4>1, <4>2 DEF ForProvider
    <3>2. CASE call[q].op # "rotate" BY <1>1, <2>3, <3>2 DEF ForProvider
    <3> QED BY <3>1, <3>2
  <2>4. call[q].op = "rotate" /\ pc[q] = "write" => call[q].target \in Ids(Configs(rows))
    BY <1>0 DEF Own, PathInv
  <2>5. PathInv(q) BY <1>0 DEF Own
  <2> QED BY <1>1, <1>2, <1>3, <1>6, <1>7, <1>8, <2>1, <2>2, <2>3, <2>4, <2>5 DEF PathInv
<1>10. MakeInv(q)'
  <2>1. \A x : IsNew(q, x)' <=> IsNew(q, x) BY <1>1 DEF IsNew, VersionAfter
  <2>2. \A x : Supersedes(q, x)' <=> Supersedes(q, x) BY <1>1 DEF Supersedes
  <2>3. MakeInv(q) /\ PathInv(q) BY <1>0 DEF Own
  <2>4. ASSUME Seen(q) PROVE Seen(q)'
    <3>1. before'[q] = before[q] /\ before[q] \subseteq committed BY <1>1, <2>3 DEF PathInv
    <3>2. call[q].op = "rotate" /\ pc[q] = "write" => call[q].target \in Ids(Configs(rows))
      BY <2>3 DEF PathInv
    <3> QED BY <1>0, <1>1, <1>2, <1>4, <2>1, <2>4, <3>1, <3>2, SeenStays
  <2> QED BY <1>1, <1>2, <2>1, <2>2, <2>3, <2>4 DEF MakeInv
<1>11. ASSUME NEW op, NEW d \in Did(op)' PROVE d \in Did(op) \/ d = r
  BY <1>1, <1>3 DEF Did
<1>12. r \notin before[q] BY <1>0, <1>4 DEF Own, PathInv
<1>13. q \in committed' <=> q \in committed BY <1>3
<1>14. StateInv(q)'
  <2>1. SUFFICES ASSUME call[q].op = "callback"
                 PROVE  /\ \A x \in put[q] : x.id[1] = "state"
                        /\ pc[q] \in PastState \ {"write"} /\ session[q] = "active" =>
                             \E x \in put[q] : x.id = call[q].target /\ x.consumed
                        /\ q \in committed =>
                             \E x \in Of(rows', "state") : x.id = call[q].target /\ x.consumed
                        /\ pc[q] \in PastState \/ q \in committed =>
                             \A a \in Did("callback")' :
                               a # q /\ call[a].target = call[q].target => a \notin before[q]
    BY <1>1, <1>2, <1>13 DEF StateInv
  <2>2. StateInv(q) BY <1>0 DEF Own
  <2>3. ASSUME q \in committed PROVE \E x \in Of(rows', "state") : x.id = call[q].target /\ x.consumed
    <3>1. PICK x \in Of(rows, "state") : x.id = call[q].target /\ x.consumed
      BY <2>1, <2>2, <2>3 DEF StateInv
    <3> QED BY <1>5, <3>1 DEF Of
  <2>4. ASSUME pc[q] \in PastState \/ q \in committed, NEW a \in Did("callback")', a # q,
               call[a].target = call[q].target
        PROVE  a \notin before[q]
    BY <1>11, <1>12, <2>1, <2>2, <2>4 DEF StateInv
  <2> QED BY <2>1, <2>2, <2>3, <2>4 DEF StateInv
<1>15. DeleteInv(q)'
  <2>1. DeleteInv(q) /\ StateInv(q) /\ PathInv(q) BY <1>0 DEF Own
  <2>2. ASSUME call[q].op = "delete_config", q \in committed
        PROVE  \E x \in Configs(rows') : x.id = call[q].target /\ x.deleted
    <3>1. PICK x \in Configs(rows) : x.id = call[q].target /\ x.deleted BY <2>1, <2>2 DEF DeleteInv
    <3> QED BY <1>5, <3>1 DEF Configs, Of
  <2>3. ASSUME call[q].op = "callback", pc[q] \in PastConfig \/ q \in committed,
               NEW d \in Did("delete_config")', NEW x \in rows', x.id = call[q].target,
               x.config = call[d].target
        PROVE  d \notin before[q]
    <3>1. PICK w \in rows : w.id = call[q].target /\ w.id[1] = "state"
      <4>1. CASE pc[q] \in PastConfig
        <5>1. call[q].target \in Ids(Of(rows, "state"))
          BY <2>1, <2>3, <4>1 DEF PathInv, PastConfig
        <5> QED BY <5>1 DEF Ids, Of
      <4>2. CASE q \in committed BY <2>1, <2>3, <4>2 DEF StateInv, Of
      <4> QED BY <2>3, <4>1, <4>2
    <3>2. x.id # <<"state", r>> BY <1>0, <1>4, <2>3, <3>1 DEF StoreInv
    <3>3. PICK y \in rows : y.id = x.id /\ y.config = x.config BY <1>5, <2>3, <3>1, <3>2
    <3>4. d = r \/ d \in Did("delete_config") BY <1>11
    <3> QED BY <1>12, <2>1, <2>3, <3>3, <3>4 DEF DeleteInv
  <2> QED BY <1>1, <1>2, <1>13, <2>1, <2>2, <2>3 DEF DeleteInv
<1> QED BY <1>9, <1>10, <1>14, <1>15 DEF Own

-----------------------------------------------------------------------------
(* The request that steps. *)

StepOK(r) == Goes(r) /\ (Works(r) \/ Commits(r)) /\ Own(r)'

LEMMA EndsOK ==
  ASSUME Inv, NEW r \in Requests, Ends(r)
  PROVE  StepOK(r)
<1> USE Typed
<1>0. Types /\ StoreInv /\ Own(r) BY DEF Inv
<1>1. Works(r) /\ committed' = committed /\ put'[r] = {} BY <1>0, EndWorks
<1>2. Goes(r) /\ pc'[r] = "done" /\ gone'[r] = {} /\ session'[r] = "closed"
  BY <1>0 DEF Ends, Drop
<1>3. r \notin committed' BY <1>0, <1>1, <1>2 DEF Own, PathInv, Goes
<1>4. before'[r] \subseteq committed' BY <1>0, <1>1, <1>2 DEF Own, PathInv, Goes
<1>5. PathInv(r)' BY <1>1, <1>2, <1>3, <1>4 DEF PathInv
<1>6. MakeInv(r)' BY <1>1, <1>2 DEF MakeInv, Seen
<1>7. StateInv(r)' BY <1>1, <1>2, <1>3 DEF StateInv, PastState
<1>8. DeleteInv(r)' BY <1>2, <1>3 DEF DeleteInv, PastConfig
<1> QED BY <1>1, <1>2, <1>5, <1>6, <1>7, <1>8 DEF StepOK, Own

LEMMA LosesOK ==
  ASSUME Inv, NEW r \in Requests, Loses(r), key'[r] = key[r], pc[r] # "start",
         pc'[r] = "supersede" => got[r] # None,
         call[r].op \in Makes => got[r] = None \/ Known(got[r])
  PROVE  StepOK(r)
<1> USE Typed
<1>0. Types /\ StoreInv /\ Own(r) BY DEF Inv
<1>1. Works(r) /\ committed' = committed /\ put'[r] = {} /\ rows' = rows
  BY <1>0, EndWorks DEF Works
<1>2. /\ Goes(r) /\ pc'[r] \in {"answer", "supersede"} /\ got'[r] = got[r]
      /\ call[r].op \in {"create_config", "rotate", "delete_config"} /\ call' = call
  BY DEF Loses, Goes, Creates
<1>3. gone'[r] = {} /\ session'[r] = "inactive" BY <1>0 DEF Loses, Drop
<1>4. r \notin committed' BY <1>0, <1>1, <1>2 DEF Own, PathInv, Goes
<1>5. before'[r] \subseteq committed' BY <1>0, <1>1, <1>2 DEF Own, PathInv, Goes
<1>6. Known(got[r]) => Known(got[r])' BY <1>1, <1>2 DEF Known
<1>7. call[r].op \in OAuth => key'[r] # None BY <1>0, <1>2 DEF Own, PathInv, Goes
<1>8. PathInv(r)'
  BY <1>1, <1>2, <1>3, <1>4, <1>5, <1>6, <1>7 DEF PathInv
<1>9. MakeInv(r)' BY <1>1, <1>2, <1>3 DEF MakeInv, Seen
<1>10. StateInv(r)' BY <1>2 DEF StateInv
<1>11. DeleteInv(r)' BY <1>2, <1>3, <1>4 DEF DeleteInv
<1> QED BY <1>1, <1>2, <1>8, <1>9, <1>10, <1>11 DEF StepOK, Own

-----------------------------------------------------------------------------
(* The routes, one by one. *)

AtSalt(p) == p \in {"open_salt", "write_salt"}
RouteOK(r) == StepOK(r) /\ ~AtSalt(pc[r]) /\ ~AtSalt(pc'[r])

LEMMA EndsRoute ==
  ASSUME Inv, NEW r \in Requests, Ends(r), ~AtSalt(pc[r])
  PROVE  RouteOK(r)
  BY EndsOK DEF RouteOK, AtSalt, Ends

LEMMA LosesRoute ==
  ASSUME Inv, NEW r \in Requests, Loses(r), key'[r] = key[r], pc[r] # "start", ~AtSalt(pc[r]),
         pc'[r] = "supersede" => got[r] # None,
         call[r].op \in Makes => got[r] = None \/ Known(got[r])
  PROVE  RouteOK(r)
  BY LosesOK DEF RouteOK, AtSalt, Loses

\* What the invariant says of the request that steps.
LEMMA Mine ==
  ASSUME Inv, NEW r \in Requests
  PROVE  /\ Types /\ StoreInv /\ PathInv(r) /\ WriteInv(r) /\ MakeInv(r) /\ StateInv(r) /\ DeleteInv(r)
         /\ Unwritten(r) => put[r] = {} /\ gone[r] = {} /\ View(r) = rows
         /\ pc[r] # "done" => r \notin committed
  BY ViewOfNothing DEF Inv, Own, PathInv

\* A request that looks keeps what the invariant says of it, but for what its new place asks.
LEMMA LooksPath ==
  ASSUME Inv, NEW r \in Requests, NEW p, NEW g, Looks(r, p, g), key'[r] = key[r],
         pc[r] = "start" => call[r].op \notin OAuth,
         put[r] # {} /\ call[r].op \in Makes => g = got[r]
  PROVE  /\ Goes(r) /\ Works(r) /\ pc'[r] = p /\ got'[r] = g /\ call' = call
         /\ rows' = rows /\ put' = put /\ gone' = gone /\ session' = session /\ committed' = committed
         /\ p # "done" => r \notin committed'
         /\ before'[r] \subseteq committed'
         /\ call[r].op \in OAuth => key'[r] # None
<1> USE Mine
<1>1. Goes(r) /\ Untouched /\ pc'[r] = p /\ got'[r] = g BY DEF Looks
<1>2. Works(r) BY <1>1, LookWorks
<1>3. call' = call /\ pc[r] # "done" BY <1>1 DEF Goes
<1>4. before'[r] \subseteq committed BY <1>1 DEF Goes, PathInv
<1>5. call[r].op \in OAuth => key[r] # None BY <1>3 DEF PathInv
<1> QED BY <1>1, <1>2, <1>3, <1>4, <1>5 DEF Untouched

LEMMA RotateOK ==
  ASSUME Inv, NEW r \in Requests, Rotate(r), UNCHANGED <<salt, key>>
  PROVE  RouteOK(r)
<1> USE Mine, Typed
<1>1. call[r].op = "rotate" /\ pc[r] = "read" /\ Look(r, FoundConfig(r), None, "current")
  BY DEF Rotate, At
<1>2. View(r) = rows /\ put[r] = {} BY <1>1 DEF Unwritten
<1>3. FoundConfig(r) \in Outcomes /\ "current" \in PCs BY DEF FoundConfig, Outcomes, PCs
<1>4. Ends(r) \/ (FoundConfig(r) = "none" /\ Looks(r, "current", None))
  BY <1>1, <1>3, LookEffect
<1>5. CASE Ends(r) BY <1>1, <1>5, EndsRoute DEF AtSalt
<1>6. CASE FoundConfig(r) = "none" /\ Looks(r, "current", None)
  <2>1. call[r].target \in Ids(Configs(rows)) BY <1>2, <1>6 DEF FoundConfig, Live, Ids
  <2>2. /\ Goes(r) /\ Works(r) /\ pc'[r] = "current" /\ got'[r] = None /\ call' = call
        /\ rows' = rows /\ put' = put /\ gone' = gone /\ r \notin committed'
        /\ before'[r] \subseteq committed' /\ key'[r] # None
    BY <1>1, <1>2, <1>6, LooksPath DEF OAuth
  <2>3. PathInv(r)' BY <1>1, <1>2, <2>1, <2>2 DEF PathInv, Unwritten
  <2>4. MakeInv(r)' BY <1>2, <2>2 DEF MakeInv, Seen
  <2>5. StateInv(r)' BY <1>1, <2>2 DEF StateInv
  <2>6. DeleteInv(r)' BY <1>1, <2>2 DEF DeleteInv
  <2> QED BY <1>1, <2>2, <2>3, <2>4, <2>5, <2>6 DEF RouteOK, AtSalt, StepOK, Own
<1> QED BY <1>4, <1>5, <1>6

\* What get_active_config finds is a row, of the provider asked for, and its only active one.
LEMMA LookActiveEffect ==
  ASSUME Inv, NEW r \in Requests, NEW provider, NEW absent \in Outcomes, Unwritten(r), pc[r] # "done",
         LookActive(r, provider, absent, "write")
  PROVE  \/ Ends(r)
         \/ \E g : /\ Looks(r, "write", g)
                   /\ \/ g = None /\ absent = "none"
                      \/ Known(g) /\ g.provider = provider /\ g # None
                   /\ \A c \in Live(rows) : c.active /\ c.provider = provider => g # None /\ g.id = c.id
<1> USE Mine, Typed
<1> DEFINE found == Active(r, provider)
           o == IF found = {} THEN absent ELSE IF \E c, d \in found : c # d THEN "error" ELSE "none"
           g == IF found = {} THEN None ELSE CHOOSE c \in found : TRUE
<1>1. o \in Outcomes /\ "write" \in PCs BY DEF Outcomes, PCs
<1>2. Look(r, o, g, "write") BY DEF LookActive
<1>3. found # {} => g \in rows /\ g.id[1] = "config" /\ g.provider = provider
  BY DEF Active, Live, Configs, Of
<1>4. found # {} => Known(g) /\ g # None
  BY <1>3, Sorts, AccountsAssumption DEF Known
<1>5. o = "none" /\ found = {} => absent = "none" /\ g = None OBVIOUS
<1>7. ASSUME o = "none", NEW c \in Live(rows), c.active, c.provider = provider
      PROVE  g # None /\ g.id = c.id
  <2>1. c \in found BY <1>7 DEF Active
  <2>2. \A d, e \in found : d = e BY <1>7, <2>1
  <2>3. g \in found BY <2>1
  <2> QED BY <1>4, <2>1, <2>2, <2>3
<1> HIDE DEF o, g
<1>6. Ends(r) \/ (o = "none" /\ Looks(r, "write", g)) BY <1>1, <1>2, LookEffect
<1> QED BY <1>3, <1>4, <1>5, <1>6, <1>7

LEMMA NewConfigTyped ==
  ASSUME Inv, NEW r \in Requests, call[r].op \in Makes, pc[r] = "write"
  PROVE  /\ NewConfig(r) \in ConfigRow /\ IsNew(r, NewConfig(r))
         /\ ForProvider(r, NewConfig(r).provider)
<1> USE Mine, Typed
<1> DEFINE x == NewConfig(r)
<1>1. View(r) = rows BY DEF Unwritten
<1>2. got[r] = None \/ Known(got[r]) BY DEF PathInv
<1>3. call[r].op \in {"create_config", "rotate"} BY DEF Makes
<1>4. /\ ProviderOf(r) \in STRING /\ (got[r] # None => ProviderOf(r) = got[r].provider)
      /\ ForProvider(r, ProviderOf(r))
  <2>1. CASE call[r].op = "rotate"
    <3>1. call[r].target \in Ids(Configs(rows)) BY <2>1 DEF PathInv
    <3>2. call[r].target \in Ids(rows) /\ call[r].target[1] = "config"
      BY <3>1 DEF Configs, Of, Ids
    <3>3. Target(r) \in rows /\ Target(r).id = call[r].target BY <1>1, <3>2, RowIs DEF Target
    <3>4. Target(r) \in ConfigRow BY <3>2, <3>3, Sorts
    <3>5. ProviderOf(r) = Target(r).provider BY <2>1 DEF ProviderOf
    <3>6. Target(r).provider \in STRING BY <3>4 DEF ConfigRow
    <3>7. ASSUME got[r] # None PROVE Target(r).provider = got[r].provider
      <4>1. PICK y \in rows : y.id = call[r].target /\ y.provider = got[r].provider
        BY <2>1, <3>7, <1>3 DEF PathInv, ForProvider
      <4>2. y = Target(r) BY <3>3, <4>1 DEF StoreInv
      <4> QED BY <4>1, <4>2
    <3> QED BY <2>1, <3>3, <3>5, <3>6, <3>7 DEF ForProvider
  <2>2. CASE call[r].op = "create_config"
    <3>1. ProviderOf(r) = call[r].provider BY <2>2 DEF ProviderOf
    <3>2. call[r].provider \in STRING BY <2>2, ScenariosAssumption
    <3>3. got[r] # None => got[r].provider = call[r].provider BY <2>2 DEF PathInv, Makes, ForProvider
    <3> QED BY <2>2, <3>1, <3>2, <3>3 DEF ForProvider
  <2> QED BY <1>3, <2>1, <2>2
<1>5. VersionAfter(got[r]) \in Nat \ {0}
  <2>1. CASE got[r] = None BY <2>1 DEF VersionAfter
  <2>2. CASE got[r] # None
    <3>1. got[r].version \in Nat \ {0} BY <1>2, <2>2 DEF Known, ConfigRow
    <3> QED BY <2>2, <3>1 DEF VersionAfter
  <2> QED BY <2>1, <2>2
<1>6. key[r] \in {Old} \cup Requests BY <1>3 DEF PathInv, OAuth
<1>7. <<"config", r>> \in Id("config") BY DEF Id
<1>8. x = [id |-> <<"config", r>>, provider |-> ProviderOf(r), version |-> VersionAfter(got[r]),
           active |-> TRUE, deleted |-> FALSE, next |-> None, key |-> key[r]]
  BY DEF NewConfig, Encrypt
<1>9. x \in ConfigRow BY <1>4, <1>5, <1>6, <1>7, <1>8 DEF ConfigRow
<1>10. IsNew(r, x) BY <1>4, <1>8 DEF IsNew
<1> QED BY <1>4, <1>8, <1>9, <1>10

LEMMA SupersededTyped ==
  ASSUME Inv, NEW r \in Requests, call[r].op \in Makes, pc[r] = "supersede"
  PROVE  /\ Superseded(r) \in ConfigRow /\ IsChange(r, Superseded(r)) /\ Supersedes(r, Superseded(r))
         /\ got[r] # None /\ Known(got[r]) /\ got[r].id # <<"config", r>>
<1> USE Mine, Typed
<1> DEFINE x == Superseded(r)
           w == Row(View(r), got[r].id)
<1>1. got[r] # None /\ Known(got[r]) BY DEF PathInv
<1>2. PICK y \in rows : y.id = got[r].id BY <1>1 DEF Known
<1>3. got[r].id[1] = "config" BY <1>1, IdTable DEF Known, ConfigRow
<1>4. got[r].id \in Ids(View(r))
  <2>1. got[r].id \notin gone[r] BY <1>3 DEF StoreInv
  <2> QED BY <1>2, <2>1 DEF View, Ids
<1>5. w \in View(r) /\ w.id = got[r].id BY <1>4, RowIs
<1>6. w \in Row_ BY <1>5 DEF View
<1>7. w \in ConfigRow BY <1>3, <1>5, <1>6, Sorts
<1>8. <<"config", r>> \in Id("config") BY DEF Id
<1>9. x = [w EXCEPT !.active = FALSE, !.next = <<"config", r>>] BY DEF Superseded
<1>10. x \in ConfigRow BY <1>7, <1>8, <1>9 DEF ConfigRow
<1>11. /\ x.id = w.id /\ x.provider = w.provider /\ x.version = w.version /\ x.deleted = w.deleted
       /\ x.key = w.key /\ ~x.active /\ x.next = <<"config", r>>
  BY <1>7, <1>9 DEF ConfigRow
<1>12. got[r].id # <<"config", r>> BY <1>2 DEF StoreInv
<1> HIDE DEF x, w
<1>13. Supersedes(r, x) BY <1>1, <1>5, <1>11 DEF Supersedes
<1>14. IsChange(r, x)
  <2>1. CASE w \in rows BY <1>11, <1>13, <2>1 DEF IsChange
  <2>2. CASE w \notin rows
    <3>1. w \in put[r] BY <1>5, <2>2 DEF View
    <3>2. ~IsNew(r, w) BY <1>5, <1>12 DEF IsNew
    <3>3. IsChange(r, w) BY <1>3, <1>5, <3>1, <3>2 DEF WriteInv
    <3>4. PICK z \in rows :
            /\ z.id = w.id /\ z.provider = w.provider /\ z.version = w.version /\ z.key = w.key
            /\ z.deleted => w.deleted
      BY <3>3 DEF IsChange
    <3> QED BY <1>11, <1>13, <3>4 DEF IsChange
  <2> QED BY <2>1, <2>2
<1> QED BY <1>1, <1>10, <1>12, <1>13, <1>14 DEF x

\* What a write does to the rest of what the invariant says of the request.
LEMMA PutsPath ==
  ASSUME Inv, NEW r \in Requests, NEW x \in Row_, NEW p, Puts(r, x, p), Allowed(r, x),
         key'[r] = key[r], pc[r] = "start" => call[r].op \notin OAuth
  PROVE  /\ Goes(r) /\ Works(r) /\ pc'[r] = p /\ got'[r] = got[r] /\ call' = call
         /\ rows' = rows /\ gone' = gone /\ session' = session /\ committed' = committed
         /\ put'[r] = {x} \cup {y \in put[r] : y.id # x.id}
         /\ r \notin committed'
         /\ before'[r] \subseteq committed'
         /\ call[r].op \in OAuth => key'[r] # None
<1> USE Mine
<1>1. Goes(r) BY DEF Puts
<1>2. Works(r) BY PutWorks
<1>3. call' = call /\ pc[r] # "done" BY <1>1 DEF Goes
<1>4. before'[r] \subseteq committed BY <1>1 DEF Goes, PathInv
<1>5. call[r].op \in OAuth => key[r] # None BY <1>3 DEF PathInv
<1>6. put'[r] = {x} \cup {y \in put[r] : y.id # x.id} BY Typed DEF Puts
<1> QED BY <1>1, <1>2, <1>3, <1>4, <1>5, <1>6 DEF Puts

LEMMA NewVersionOK ==
  ASSUME Inv, NEW r \in Requests, NewVersion(r), UNCHANGED <<salt, key>>
  PROVE  RouteOK(r)
<1> USE Mine, Typed
<1>0. call[r].op \in Makes /\ call[r].op \in {"create_config", "rotate"} /\ call[r].op \in OAuth
  BY DEF NewVersion, Makes, OAuth
<1>1. CASE /\ pc[r] = IF call[r].op = "rotate" THEN "current" ELSE "read"
           /\ LookActive(r, ProviderOf(r), FirstVersion(r), "write")
  <2>1. Unwritten(r) /\ pc[r] \notin {"start", "done", "open_salt", "write_salt"}
    BY <1>1 DEF Unwritten
  <2>2. FirstVersion(r) \in Outcomes BY DEF FirstVersion, Outcomes
  <2>3. \/ Ends(r)
        \/ \E g : /\ Looks(r, "write", g)
                  /\ g = None \/ (Known(g) /\ g.provider = ProviderOf(r) /\ g # None)
                  /\ \A c \in Live(rows) :
                       c.active /\ c.provider = ProviderOf(r) => g # None /\ g.id = c.id
    BY <1>1, <2>1, <2>2, LookActiveEffect
  <2>4. CASE Ends(r) BY <2>1, <2>4, EndsRoute DEF AtSalt
  <2>5. CASE ~Ends(r)
    <3>1. PICK g : /\ Looks(r, "write", g)
                   /\ g = None \/ (Known(g) /\ g.provider = ProviderOf(r) /\ g # None)
                   /\ \A c \in Live(rows) :
                        c.active /\ c.provider = ProviderOf(r) => g # None /\ g.id = c.id
      BY <2>3, <2>5
    <3>2. /\ Goes(r) /\ Works(r) /\ pc'[r] = "write" /\ got'[r] = g /\ call' = call
          /\ rows' = rows /\ put' = put /\ gone' = gone /\ r \notin committed'
          /\ before'[r] \subseteq committed' /\ key'[r] # None
      BY <1>0, <2>1, <3>1, LooksPath
    <3>3. g = None \/ Known(g)' BY <3>1, <3>2 DEF Known
    <3>4. call[r].op = "rotate" => call[r].target \in Ids(Configs(rows))
      BY <1>1 DEF PathInv
    <3>5. ASSUME NEW provider PROVE ForProvider(r, provider)' <=> provider = ProviderOf(r)
      <4>1. CASE call[r].op = "create_config"
        BY <3>2, <4>1 DEF ProviderOf, ForProvider
      <4>2. CASE call[r].op = "rotate"
        <5>1. call[r].target \in Ids(rows) BY <3>4, <4>2 DEF Ids, Configs, Of
        <5>2. Target(r) \in rows /\ Target(r).id = call[r].target BY <2>1, <5>1, RowIs DEF Target
        <5>3. \A y \in rows : y.id = call[r].target => y = Target(r) BY <5>2 DEF StoreInv
        <5> QED BY <3>2, <4>2, <5>2, <5>3 DEF ProviderOf, ForProvider
      <4> QED BY <1>0, <4>1, <4>2
    <3>6. PathInv(r)' BY <1>0, <2>1, <3>1, <3>2, <3>3, <3>4, <3>5 DEF PathInv
    <3>7. MakeInv(r)'
      <4>1. put'[r] = {} BY <2>1, <3>2
      <4>2. Seen(r)' BY <3>1, <3>2, <3>5, <4>1 DEF Seen, Earlier, Got, Live, Configs, Of
      <4> QED BY <3>2, <4>2 DEF MakeInv
    <3>8. StateInv(r)' BY <1>0, <3>2 DEF StateInv
    <3>9. DeleteInv(r)' BY <1>0, <3>2 DEF DeleteInv
    <3> QED BY <2>1, <3>2, <3>6, <3>7, <3>8, <3>9 DEF RouteOK, AtSalt, StepOK, Own
  <2> QED BY <2>4, <2>5
<1>2. CASE pc[r] = "write" /\ Insert(r, NewConfig(r), Raised, IF got[r] = None THEN "answer" ELSE "supersede")
  <2>0. PICK x : x = NewConfig(r) OBVIOUS
  <2> DEFINE p == IF got[r] = None THEN "answer" ELSE "supersede"
  <2>1. x \in ConfigRow /\ IsNew(r, x) /\ ForProvider(r, x.provider) BY <1>0, <1>2, <2>0, NewConfigTyped
  <2>2. put[r] = {} /\ gone[r] = {} BY <1>2 DEF Unwritten
  <2>3. x \in Row_ /\ x.id[1] = "config" BY <2>1, Sorts DEF Row_
  <2>4. Save(r, {x}, {}, Raised, p) BY <1>2, <2>0 DEF Insert
  <2>5. Raised \in Outcomes /\ p \in PCs /\ p \in {"answer", "supersede"}
    BY DEF Raised, Outcomes, PCs
  <2>6. got[r] = None \/ Known(got[r]) BY <1>0, <1>2 DEF PathInv
  <2>7. Ends(r) \/ (Loses(r) /\ pc'[r] = p) \/ Puts(r, x, p)
    BY <1>2, <2>3, <2>4, <2>5, SaveEffect
  <2>8. CASE Ends(r) BY <1>2, <2>8, EndsRoute DEF AtSalt
  <2>9. CASE Loses(r) /\ pc'[r] = p BY <1>2, <2>6, <2>9, LosesRoute DEF AtSalt
  <2>10. CASE Puts(r, x, p)
    <3>1. Allowed(r, x) BY <2>1 DEF Allowed
    <3>2. /\ Goes(r) /\ Works(r) /\ pc'[r] = p /\ got'[r] = got[r] /\ call' = call
          /\ rows' = rows /\ gone' = gone /\ session' = session
          /\ put'[r] = {x} /\ r \notin committed'
          /\ before'[r] \subseteq committed' /\ key'[r] # None
      BY <1>0, <1>2, <2>2, <2>3, <2>10, <3>1, PutsPath
    <3>3. got[r] = None \/ Known(got[r])' BY <2>6, <3>2 DEF Known
    <3>4. PathInv(r)' BY <1>0, <2>5, <3>2, <3>3 DEF PathInv, Unwritten
    <3>5. IsNew(r, x)' BY <2>1, <3>2 DEF IsNew
    <3>9. before'[r] = before[r] BY <1>2, <3>2 DEF Goes
    <3>10. ASSUME NEW c \in rows', Earlier(r, c)', c.provider = x.provider PROVE Got(r, c)'
      <4>1. Earlier(r, c) BY <3>2, <3>9, <3>10 DEF Earlier, Live, Configs, Of
      <4>2. Seen(r) BY <1>0 DEF MakeInv
      <4>3. Got(r, c) BY <1>2, <2>1, <3>2, <3>10, <4>1, <4>2 DEF Seen
      <4> QED BY <3>2, <4>3 DEF Got
    <3>11. Seen(r)' BY <2>5, <3>2, <3>10 DEF Seen
    <3>6. MakeInv(r)' BY <2>5, <3>2, <3>5, <3>11 DEF MakeInv
    <3>7. StateInv(r)' BY <1>0, <3>2 DEF StateInv
    <3>8. DeleteInv(r)' BY <1>0, <3>2 DEF DeleteInv
    <3> QED BY <1>2, <2>5, <3>2, <3>4, <3>6, <3>7, <3>8 DEF RouteOK, AtSalt, StepOK, Own
  <2> QED BY <2>7, <2>8, <2>9, <2>10
<1>3. CASE pc[r] = "supersede" /\ SaveIf(session[r] = "active", r, {Superseded(r)}, {}, "answer")
  <2>0. PICK x : x = Superseded(r) OBVIOUS
  <2>1. /\ x \in ConfigRow /\ IsChange(r, x) /\ Supersedes(r, x)
        /\ got[r] # None /\ Known(got[r]) /\ got[r].id # <<"config", r>>
    BY <1>0, <1>3, <2>0, SupersededTyped
  <2>2. x \in Row_ BY <2>1 DEF Row_
  <2>3. SaveIf(session[r] = "active", r, {x}, {}, "answer") BY <1>3, <2>0
  <2>4. "answer" \in PCs BY DEF PCs
  <2>5. Ends(r) \/ (Loses(r) /\ pc'[r] = "answer") \/ (session[r] = "active" /\ Puts(r, x, "answer"))
    BY <1>3, <2>2, <2>3, <2>4, SaveIfEffect
  <2>6. CASE Ends(r) BY <1>3, <2>6, EndsRoute DEF AtSalt
  <2>7. CASE Loses(r) /\ pc'[r] = "answer" BY <1>3, <2>1, <2>7, LosesRoute DEF AtSalt
  <2>8. CASE session[r] = "active" /\ Puts(r, x, "answer")
    <3>1. Allowed(r, x) BY <2>1 DEF Allowed
    <3>2. /\ Goes(r) /\ Works(r) /\ pc'[r] = "answer" /\ got'[r] = got[r] /\ call' = call
          /\ rows' = rows /\ gone' = gone /\ session' = session
          /\ put'[r] = {x} \cup {y \in put[r] : y.id # x.id} /\ r \notin committed'
          /\ before'[r] \subseteq committed' /\ key'[r] # None
      BY <1>0, <1>3, <2>2, <2>8, <3>1, PutsPath
    <3>3. Known(got[r])' BY <2>1, <3>2 DEF Known
    <3>4. PathInv(r)' BY <1>0, <3>2, <3>3 DEF PathInv, Unwritten
    <3>5. PICK n \in put[r] : IsNew(r, n) BY <1>0, <1>3, <2>8 DEF MakeInv
    <3>6. n \in put'[r] /\ IsNew(r, n)'
      <4>1. n.id # x.id BY <2>1, <3>5 DEF IsNew, Supersedes
      <4>2. n \in put'[r] BY <3>2, <3>5, <4>1
      <4>3. IsNew(r, n)' BY <3>2, <3>5 DEF IsNew
      <4> QED BY <4>2, <4>3
    <3>7. x \in put'[r] /\ Supersedes(r, x)' BY <2>1, <3>2 DEF Supersedes
    <3>11. before'[r] = before[r] BY <1>3, <3>2 DEF Goes
    <3>12. ASSUME NEW c \in rows', Earlier(r, c)', NEW y \in put'[r], IsNew(r, y)', y.provider = c.provider
           PROVE  Got(r, c)'
      <4>1. Earlier(r, c) BY <3>2, <3>11, <3>12 DEF Earlier, Live, Configs, Of
      <4>2. IsNew(r, y) BY <3>2, <3>12 DEF IsNew
      <4>3. y \in put[r] BY <2>1, <3>2, <4>2 DEF IsNew, Supersedes
      <4>4. Seen(r) BY <1>0 DEF MakeInv
      <4>5. Got(r, c) BY <3>2, <3>12, <4>1, <4>2, <4>3, <4>4 DEF Seen
      <4> QED BY <3>2, <4>5 DEF Got
    <3>13. Seen(r)' BY <3>2, <3>12 DEF Seen
    <3>8. MakeInv(r)' BY <3>6, <3>7, <3>13 DEF MakeInv
    <3>9. StateInv(r)' BY <1>0, <3>2 DEF StateInv
    <3>10. DeleteInv(r)' BY <1>0, <3>2 DEF DeleteInv
    <3> QED BY <1>3, <3>2, <3>4, <3>8, <3>9, <3>10 DEF RouteOK, AtSalt, StepOK, Own
  <2> QED BY <2>5, <2>6, <2>7, <2>8
<1> QED BY <1>1, <1>2, <1>3 DEF NewVersion

\* The operations that the invariant says the least of.
Plain(r) == call[r].op \notin Makes \cup {"callback", "delete_config"}

LEMMA PlainLooks ==
  ASSUME Inv, NEW r \in Requests, Plain(r), NEW p, NEW g, Looks(r, p, g), UNCHANGED <<salt, key>>,
         pc[r] = "start" => call[r].op \notin OAuth, ~AtSalt(pc[r]),
         p \in {"write", "background"} => Unwritten(r),
         p \notin {"start", "open_salt", "write_salt", "read", "current", "supersede", "done"},
         p = "write" =>
           /\ call[r].op = "update_config" => call[r].target[1] = "config"
           /\ call[r].op \in {"update_account", "delete_account", "sync"} => call[r].target[1] = "account"
           /\ call[r].op = "authorize" => Known(g)
  PROVE  RouteOK(r)
<1> USE Mine, Typed
<1>1. call[r].op \notin {"create_config", "rotate", "callback", "delete_config"}
  BY DEF Plain, Makes
<1>2. /\ Goes(r) /\ Works(r) /\ pc'[r] = p /\ got'[r] = g /\ call' = call
      /\ rows' = rows /\ put' = put /\ gone' = gone /\ r \notin committed'
      /\ before'[r] \subseteq committed' /\ (call[r].op \in OAuth => key'[r] # None)
  BY <1>1, LooksPath DEF Makes
<1>3. Known(g) => Known(g)' BY <1>2 DEF Known
<1>4. PathInv(r)' BY <1>1, <1>2, <1>3 DEF PathInv, Unwritten, Makes
<1>5. MakeInv(r)' BY <1>1, <1>2 DEF MakeInv, Makes
<1>6. StateInv(r)' BY <1>1, <1>2 DEF StateInv
<1>7. DeleteInv(r)' BY <1>1, <1>2 DEF DeleteInv
<1> QED BY <1>2, <1>4, <1>5, <1>6, <1>7 DEF RouteOK, AtSalt, StepOK, Own

LEMMA PlainWorks ==
  ASSUME Inv, NEW r \in Requests, Plain(r), NEW p \in {"decrypt", "answer", "commit"},
         Goes(r), Works(r), pc'[r] = p, UNCHANGED <<salt, key>>, ~AtSalt(pc[r]),
         pc[r] = "start" => call[r].op \notin OAuth
  PROVE  RouteOK(r)
<1> USE Mine, Typed
<1>1. call[r].op \notin {"create_config", "rotate", "callback", "delete_config"}
  BY DEF Plain, Makes
<1>2. call' = call /\ committed' = committed /\ pc[r] # "done" /\ r \notin committed
  BY DEF Goes, Works
<1>3. before'[r] \subseteq committed' BY <1>2 DEF Goes, PathInv
<1>4. call[r].op \in OAuth => key'[r] # None BY <1>2 DEF PathInv
<1>5. PathInv(r)' BY <1>1, <1>2, <1>3, <1>4 DEF PathInv, Unwritten, Makes
<1>6. MakeInv(r)' BY <1>1, <1>2 DEF MakeInv, Makes
<1>7. StateInv(r)' BY <1>1, <1>2 DEF StateInv
<1>8. DeleteInv(r)' BY <1>1, <1>2 DEF DeleteInv
<1> QED BY <1>5, <1>6, <1>7, <1>8 DEF RouteOK, AtSalt, StepOK, Own

LEMMA PlainPuts ==
  ASSUME Inv, NEW r \in Requests, Plain(r), NEW x \in Row_, NEW p \in {"decrypt", "answer", "commit"},
         Puts(r, x, p), Allowed(r, x), UNCHANGED <<salt, key>>, ~AtSalt(pc[r]),
         pc[r] = "start" => call[r].op \notin OAuth
  PROVE  RouteOK(r)
  BY PutsPath, PlainWorks

\* A request that finds its row, and changes it.
LEMMA TargetOf ==
  ASSUME Inv, NEW r \in Requests, Unwritten(r), Present(r)
  PROVE  /\ View(r) = rows /\ Target(r) \in rows /\ Target(r) \in Row_
         /\ Target(r).id = call[r].target
  BY Mine, Typed, RowIs DEF Present, Target

LEMMA UpdateConfigOK ==
  ASSUME Inv, NEW r \in Requests, UpdateConfig(r), UNCHANGED <<salt, key>>
  PROVE  RouteOK(r)
<1> USE Mine, Typed
<1>0. call[r].op = "update_config" /\ Plain(r) BY DEF UpdateConfig, At, Plain, Makes
<1>1. CASE pc[r] = "read" /\ Check(r, FoundConfig(r))
  <2>1. View(r) = rows /\ Unwritten(r) BY <1>1 DEF Unwritten
  <2>2. FoundConfig(r) \in Outcomes /\ "write" \in PCs BY DEF FoundConfig, Outcomes, PCs
  <2>3. Ends(r) \/ (FoundConfig(r) = "none" /\ Looks(r, "write", None))
    BY <1>1, <2>2, LookEffect DEF Check
  <2>4. CASE Ends(r) BY <1>1, <2>4, EndsRoute DEF AtSalt
  <2>5. CASE FoundConfig(r) = "none" /\ Looks(r, "write", None)
    <3>1. call[r].target[1] = "config" BY <2>5 DEF FoundConfig, Live, Configs, Of, Ids
    <3> QED BY <1>0, <1>1, <2>1, <2>5, <3>1, PlainLooks DEF AtSalt
  <2> QED BY <2>3, <2>4, <2>5
<1>2. CASE pc[r] = "write" /\ Change(r, {Target(r)})
  <2>0. PICK x : x = Target(r) OBVIOUS
  <2>1. Unwritten(r) BY <1>2 DEF Unwritten
  <2>2. Present(r) => x \in rows /\ x \in Row_ /\ x.id = call[r].target
    BY <2>0, <2>1, TargetOf
  <2>3. call[r].target[1] = "config" BY <1>0, <1>2 DEF PathInv
  <2>4. SaveIf(Present(r), r, {x}, {}, "answer") BY <1>2, <2>0 DEF Change
  <2>5. "answer" \in PCs /\ call[r].op \notin Creates BY <1>0 DEF PCs, Creates
  <2>6. Ends(r) \/ (Loses(r) /\ pc'[r] = "answer") \/ (Present(r) /\ Puts(r, x, "answer"))
    BY <1>2, <2>2, <2>4, <2>5, SaveIfEffect
  <2>7. CASE Ends(r) BY <1>2, <2>7, EndsRoute DEF AtSalt
  <2>8. CASE Present(r) /\ Puts(r, x, "answer")
    <3>1. x \in ConfigRow BY <2>2, <2>3, <2>8, Sorts
    <3>2. Allowed(r, x) BY <2>2, <2>8, <3>1 DEF Allowed, IsChange
    <3> QED BY <1>0, <1>2, <2>2, <2>8, <3>2, PlainPuts DEF AtSalt
  <2> QED BY <2>5, <2>6, <2>7, <2>8 DEF Loses
<1> QED BY <1>1, <1>2 DEF UpdateConfig, At

LEMMA DeleteConfigOK ==
  ASSUME Inv, NEW r \in Requests, DeleteConfig(r), UNCHANGED <<salt, key>>
  PROVE  RouteOK(r)
<1> USE Mine, Typed
<1>0. call[r].op = "delete_config" BY DEF DeleteConfig, At
<1>1. CASE pc[r] = "start" /\ Check(r, FoundConfig(r))
  <2>1. View(r) = rows /\ put[r] = {} /\ gone[r] = {} BY <1>1 DEF Unwritten
  <2>2. FoundConfig(r) \in Outcomes /\ "write" \in PCs BY DEF FoundConfig, Outcomes, PCs
  <2>3. Ends(r) \/ (FoundConfig(r) = "none" /\ Looks(r, "write", None))
    BY <1>1, <2>2, LookEffect DEF Check
  <2>4. CASE Ends(r) BY <1>1, <2>4, EndsRoute DEF AtSalt
  <2>5. CASE FoundConfig(r) = "none" /\ Looks(r, "write", None)
    <3>1. call[r].target[1] = "config" BY <2>5 DEF FoundConfig, Live, Configs, Of, Ids
    <3>2. /\ Goes(r) /\ Works(r) /\ pc'[r] = "write" /\ call' = call
          /\ put' = put /\ gone' = gone /\ r \notin committed' /\ before'[r] \subseteq committed'
      BY <1>0, <2>1, <2>5, LooksPath DEF OAuth
    <3>3. PathInv(r)' BY <1>0, <2>1, <3>1, <3>2 DEF PathInv, OAuth, Makes
    <3>4. MakeInv(r)' BY <1>0, <3>2 DEF MakeInv, Makes
    <3>5. StateInv(r)' BY <1>0, <3>2 DEF StateInv
    <3>6. DeleteInv(r)' BY <1>0, <3>2 DEF DeleteInv
    <3> QED BY <1>1, <3>2, <3>3, <3>4, <3>5, <3>6 DEF RouteOK, AtSalt, StepOK, Own
  <2> QED BY <2>3, <2>4, <2>5
<1>2. CASE pc[r] = "write" /\ Change(r, {[Target(r) EXCEPT !.deleted = TRUE]})
  <2>0. PICK x : x = [Target(r) EXCEPT !.deleted = TRUE] OBVIOUS
  <2>1. Unwritten(r) BY <1>2 DEF Unwritten
  <2>2. call[r].target[1] = "config" BY <1>0, <1>2 DEF PathInv
  <2>3. ASSUME Present(r)
        PROVE  x \in ConfigRow /\ IsChange(r, x) /\ x.id = call[r].target /\ x.deleted
    <3>1. Target(r) \in rows /\ Target(r) \in Row_ /\ Target(r).id = call[r].target
      BY <2>1, <2>3, TargetOf
    <3>2. Target(r) \in ConfigRow BY <2>2, <3>1, Sorts
    <3>3. /\ x \in ConfigRow /\ x.id = Target(r).id /\ x.provider = Target(r).provider
          /\ x.version = Target(r).version /\ x.key = Target(r).key /\ x.deleted
          /\ x.next = Target(r).next /\ x.active = Target(r).active
      BY <2>0, <3>2 DEF ConfigRow
    <3>4. IsChange(r, x) BY <3>1, <3>3 DEF IsChange
    <3> QED BY <3>1, <3>3, <3>4
  <2>4. SaveIf(Present(r), r, {x}, {}, "answer") BY <1>2, <2>0 DEF Change
  <2>5. "answer" \in PCs /\ (Present(r) => x \in Row_) BY <2>3 DEF PCs, Row_
  <2>6. Ends(r) \/ (Loses(r) /\ pc'[r] = "answer") \/ (Present(r) /\ Puts(r, x, "answer"))
    BY <1>2, <2>4, <2>5, SaveIfEffect
  <2>7. CASE Ends(r) BY <1>2, <2>7, EndsRoute DEF AtSalt
  <2>8. CASE Loses(r) /\ pc'[r] = "answer" BY <1>0, <1>2, <2>8, LosesRoute DEF AtSalt, Makes
  <2>9. CASE Present(r) /\ Puts(r, x, "answer")
    <3>1. Allowed(r, x) BY <2>3, <2>9 DEF Allowed
    <3>2. /\ Goes(r) /\ Works(r) /\ pc'[r] = "answer" /\ call' = call
          /\ x \in put'[r] /\ r \notin committed' /\ before'[r] \subseteq committed'
      BY <1>0, <1>2, <2>5, <2>9, <3>1, PutsPath
    <3>3. PathInv(r)' BY <1>0, <3>2 DEF PathInv, OAuth, Makes, Unwritten
    <3>4. MakeInv(r)' BY <1>0, <3>2 DEF MakeInv, Makes
    <3>5. StateInv(r)' BY <1>0, <3>2 DEF StateInv
    <3>6. DeleteInv(r)' BY <1>0, <2>2, <2>3, <2>9, <3>2 DEF DeleteInv
    <3> QED BY <1>2, <3>2, <3>3, <3>4, <3>5, <3>6 DEF RouteOK, AtSalt, StepOK, Own
  <2> QED BY <2>6, <2>7, <2>8, <2>9
<1> QED BY <1>1, <1>2 DEF DeleteConfig, At

LEMMA DecryptEffect ==
  ASSUME Inv, NEW r \in Requests, NEW p \in PCs, Decrypt(r, p), pc[r] = "decrypt"
  PROVE  Ends(r) \/ Looks(r, p, got[r])
<1> USE Mine, Typed
<1>1. CASE Goto(r, p) /\ Untouched
  BY <1>1 DEF Decrypt, Goto, Looks, Goes
<1>2. CASE Fail(r, "unreadable")
  <2>1. "unreadable" \in Outcomes BY DEF Outcomes
  <2> QED BY <1>2, <2>1, FailEffect DEF Decrypt
<1> QED BY <1>1, <1>2 DEF Decrypt

LEMMA AuthorizeOK ==
  ASSUME Inv, NEW r \in Requests, Authorize(r), UNCHANGED <<salt, key>>
  PROVE  RouteOK(r)
<1> USE Mine, Typed
<1>0. call[r].op = "authorize" /\ Plain(r) BY DEF Authorize, Plain, Makes
<1>1. CASE pc[r] = "read" /\ LookActive(r, call[r].provider, "not_found", "write")
  <2>1. Unwritten(r) /\ "not_found" \in Outcomes BY <1>1 DEF Unwritten, Outcomes
  <2>2. Ends(r) \/ \E g : Looks(r, "write", g) /\ Known(g)
    BY <1>1, <2>1, LookActiveEffect
  <2>3. CASE Ends(r) BY <1>1, <2>3, EndsRoute DEF AtSalt
  <2>4. ASSUME NEW g, Looks(r, "write", g), Known(g) PROVE RouteOK(r)
    BY <1>0, <1>1, <2>1, <2>4, PlainLooks DEF AtSalt
  <2> QED BY <2>2, <2>3, <2>4
<1>2. CASE IssueState(r)
  <2>0. PICK x : x = NewState(r) OBVIOUS
  <2>1. pc[r] = "write" /\ Save(r, {x}, {}, Raised, "decrypt") BY <1>2, <2>0 DEF IssueState, Insert
  <2>2. got[r] \in ConfigRow BY <1>0, <2>1 DEF PathInv, Known
  <2>3. <<"state", r>> \in Id("state") BY DEF Id
  <2>4. x \in StateRow /\ x.id = <<"state", r>> BY <2>0, <2>2, <2>3 DEF NewState, StateRow, ConfigRow
  <2>5. x \in Row_ /\ Allowed(r, x) BY <2>4 DEF Row_, Allowed, IsState
  <2>6. Raised \in Outcomes /\ "decrypt" \in PCs /\ call[r].op \notin Creates
    BY <1>0 DEF Raised, Outcomes, PCs, Creates
  <2>7. Ends(r) \/ Loses(r) \/ Puts(r, x, "decrypt") BY <2>1, <2>5, <2>6, SaveEffect
  <2>8. CASE Ends(r) BY <2>1, <2>8, EndsRoute DEF AtSalt
  <2>9. CASE Puts(r, x, "decrypt") BY <1>0, <2>1, <2>5, <2>9, PlainPuts DEF AtSalt
  <2> QED BY <2>6, <2>7, <2>8, <2>9 DEF Loses
<1>3. CASE BuildUrl(r)
  <2>1. pc[r] = "decrypt" /\ Decrypt(r, "answer") BY <1>3 DEF BuildUrl
  <2>2. Ends(r) \/ Looks(r, "answer", got[r]) BY <2>1, DecryptEffect DEF PCs
  <2>3. CASE Ends(r) BY <2>1, <2>3, EndsRoute DEF AtSalt
  <2>4. CASE Looks(r, "answer", got[r]) BY <1>0, <2>1, <2>4, PlainLooks DEF AtSalt
  <2> QED BY <2>2, <2>3, <2>4
<1> QED BY <1>1, <1>2, <1>3 DEF Authorize

LEMMA CallbackLooks ==
  ASSUME Inv, NEW r \in Requests, call[r].op = "callback", NEW p \in PastState, NEW g, Looks(r, p, g),
         UNCHANGED <<salt, key>>, pc[r] # "start", ~AtSalt(pc[r]),
         call[r].target \in Ids(Of(rows, "state")),
         p = "write" => put[r] = {} /\ gone[r] = {},
         p # "write" => pc[r] \in PastState \ {"write"},
         \A a \in Did("callback") : a # r /\ call[a].target = call[r].target => a \notin before[r],
         p \in PastConfig =>
           \A d \in Did("delete_config") : \A x \in rows :
             x.id = call[r].target /\ x.config = call[d].target => d \notin before[r]
  PROVE  RouteOK(r)
<1> USE Mine, Typed
<1>1. /\ Goes(r) /\ Works(r) /\ pc'[r] = p /\ call' = call /\ rows' = rows /\ session' = session
      /\ put' = put /\ gone' = gone /\ committed' = committed /\ r \notin committed'
      /\ before'[r] \subseteq committed' /\ key'[r] # None
  BY LooksPath DEF Makes, OAuth, PastState
<1>2. before'[r] = before[r] BY <1>1 DEF Goes
<1>3. PathInv(r)' BY <1>1 DEF PathInv, Unwritten, Makes, PastState
<1>4. MakeInv(r)' BY <1>1 DEF MakeInv, Makes
<1>5. Did("callback")' = Did("callback") /\ Did("delete_config")' = Did("delete_config")
  BY <1>1 DEF Did
<1>6. StateInv(r)'
  <2>1. \A x \in put[r] : x.id[1] = "state" BY DEF StateInv
  <2>2. p # "write" /\ session[r] = "active" => \E x \in put[r] : x.id = call[r].target /\ x.consumed
    BY DEF StateInv
  <2> QED BY <1>1, <1>2, <1>5, <2>1, <2>2 DEF StateInv
<1>7. DeleteInv(r)' BY <1>1, <1>2, <1>5 DEF DeleteInv
<1> QED BY <1>1, <1>3, <1>4, <1>6, <1>7 DEF RouteOK, AtSalt, StepOK, Own, PastState

LEMMA ConsumeOK ==
  ASSUME Inv, NEW r \in Requests, call[r].op = "callback", Consume(r), UNCHANGED <<salt, key>>
  PROVE  RouteOK(r)
<1> USE Mine, Typed
<1>1. ASSUME pc[r] = "read", NEW expired \in BOOLEAN,
             Check(r, IF Found(r, "state") # "none" \/ Target(r).consumed \/ expired
                      THEN "invalid" ELSE "none")
      PROVE  RouteOK(r)
  <2> DEFINE o == IF Found(r, "state") # "none" \/ Target(r).consumed \/ expired
                  THEN "invalid" ELSE "none"
  <2>1. View(r) = rows /\ put[r] = {} /\ gone[r] = {} BY <1>1 DEF Unwritten
  <2>2. o \in Outcomes /\ "write" \in PCs BY DEF Outcomes, PCs
  <2>3. Look(r, o, None, "write") BY <1>1 DEF Check
  <2>4. o = "none" => Found(r, "state") = "none" /\ ~Target(r).consumed OBVIOUS
  <2> HIDE DEF o
  <2>5. Ends(r) \/ (o = "none" /\ Looks(r, "write", None)) BY <1>1, <2>2, <2>3, LookEffect
  <2>6. CASE Ends(r) BY <1>1, <2>6, EndsRoute DEF AtSalt
  <2>7. CASE o = "none" /\ Looks(r, "write", None)
    <3>1. PICK x \in Of(rows, "state") : x.id = call[r].target BY <2>1, <2>4, <2>7 DEF Found
    <3>2. call[r].target \in Ids(Of(rows, "state")) BY <3>1 DEF Ids
    <3>3. Target(r) = x
      <4>1. call[r].target \in Ids(rows) BY <3>1 DEF Ids, Of
      <4>2. Target(r) \in rows /\ Target(r).id = call[r].target BY <2>1, <4>1, RowIs DEF Target
      <4> QED BY <3>1, <4>2 DEF StoreInv, Of
    <3>4. ASSUME NEW a \in Did("callback"), call[a].target = call[r].target PROVE FALSE
      <4>1. a \in Requests /\ a \in committed /\ call[a].op = "callback" BY <3>4 DEF Did
      <4>2. StateInv(a) BY <4>1, Mine
      <4>3. PICK z \in Of(rows, "state") : z.id = call[a].target /\ z.consumed
        BY <4>1, <4>2 DEF StateInv
      <4>4. z = x BY <3>1, <3>4, <4>3 DEF StoreInv, Of
      <4> QED BY <2>4, <2>7, <3>3, <4>3, <4>4
    <3> QED BY <1>1, <2>1, <2>7, <3>2, <3>4, CallbackLooks DEF AtSalt, PastState, PastConfig
  <2> QED BY <2>5, <2>6, <2>7
<1>2. CASE pc[r] = "write" /\ SaveIf(Present(r), r, {Consumed(Target(r))}, {}, "current")
  <2>0. PICK x : x = Consumed(Target(r)) OBVIOUS
  <2>1. Unwritten(r) /\ put[r] = {} BY <1>2 DEF Unwritten
  <2>2. call[r].target \in Ids(Of(rows, "state")) BY <1>2 DEF PathInv
  <2>3. call[r].target[1] = "state" BY <2>2 DEF Ids, Of
  <2>4. ASSUME Present(r)
        PROVE  x \in StateRow /\ IsState(r, x) /\ x.id = call[r].target /\ x.consumed
    <3>1. Target(r) \in rows /\ Target(r) \in Row_ /\ Target(r).id = call[r].target
      BY <2>1, <2>4, TargetOf
    <3>2. Target(r) \in StateRow BY <2>3, <3>1, Sorts
    <3>3. x \in StateRow /\ x.id = Target(r).id /\ x.config = Target(r).config /\ x.consumed
      BY <2>0, <3>2 DEF StateRow, Consumed
    <3> QED BY <3>1, <3>3 DEF IsState
  <2>5. SaveIf(Present(r), r, {x}, {}, "current") BY <1>2, <2>0
  <2>6. "current" \in PCs /\ (Present(r) => x \in Row_) /\ call[r].op \notin Creates
    BY <2>4 DEF PCs, Row_, Creates
  <2>7. Ends(r) \/ (Loses(r) /\ pc'[r] = "current") \/ (Present(r) /\ Puts(r, x, "current"))
    BY <1>2, <2>5, <2>6, SaveIfEffect
  <2>8. CASE Ends(r) BY <1>2, <2>8, EndsRoute DEF AtSalt
  <2>9. CASE Present(r) /\ Puts(r, x, "current")
    <3>1. Allowed(r, x) BY <2>4, <2>9 DEF Allowed
    <3>2. /\ Goes(r) /\ Works(r) /\ pc'[r] = "current" /\ call' = call /\ rows' = rows
          /\ put'[r] = {x} \cup {y \in put[r] : y.id # x.id} /\ committed' = committed
          /\ r \notin committed' /\ before'[r] \subseteq committed' /\ key'[r] # None
      BY <1>2, <2>6, <2>9, <3>1, PutsPath DEF OAuth
    <3>3. put'[r] = {x} BY <2>1, <3>2
    <3>4. before'[r] = before[r] BY <1>2, <3>2 DEF Goes
    <3>5. PathInv(r)' BY <2>2, <3>2 DEF PathInv, Unwritten, Makes
    <3>6. MakeInv(r)' BY <3>2 DEF MakeInv, Makes
    <3>7. Did("callback")' = Did("callback") BY <3>2 DEF Did
    <3>8. \A a \in Did("callback") : a # r /\ call[a].target = call[r].target => a \notin before[r]
      BY <1>2 DEF StateInv, PastState
    <3>9. StateInv(r)'
      BY <2>3, <2>4, <2>9, <3>2, <3>3, <3>4, <3>7, <3>8 DEF StateInv
    <3>10. DeleteInv(r)' BY <3>2 DEF DeleteInv, PastConfig
    <3> QED BY <1>2, <3>2, <3>5, <3>6, <3>9, <3>10 DEF RouteOK, AtSalt, StepOK, Own
  <2> QED BY <2>6, <2>7, <2>8, <2>9 DEF Loses
<1> QED BY <1>1, <1>2 DEF Consume

LEMMA StateConfigOK ==
  ASSUME Inv, NEW r \in Requests, call[r].op = "callback", StateConfig(r), UNCHANGED <<salt, key>>
  PROVE  RouteOK(r)
<1> USE Mine, Typed
<1> DEFINE found == {c \in Live(View(r)) : c.id = Target(r).config}
           o == IF found = {} THEN "not_found"
                ELSE IF \E c \in found : c.provider # call[r].provider THEN "invalid" ELSE "none"
           g == IF found = {} THEN None ELSE CHOOSE c \in found : TRUE
<1>1. pc[r] = "current" /\ Look(r, o, g, "decrypt") BY DEF StateConfig
<1>2. o \in Outcomes /\ "decrypt" \in PCs BY DEF Outcomes, PCs
<1>3. o = "none" => found # {} OBVIOUS
<1>4. Ends(r) \/ (o = "none" /\ Looks(r, "decrypt", g))
  <2> HIDE DEF o, g
  <2> QED BY <1>1, <1>2, LookEffect
<1>5. CASE Ends(r) BY <1>1, <1>5, EndsRoute DEF AtSalt
<1>6. CASE o = "none" /\ Looks(r, "decrypt", g)
  <2>1. call[r].target \in Ids(Of(rows, "state")) BY <1>1 DEF PathInv
  <2>2. ASSUME NEW d \in Did("delete_config"), NEW x \in rows, x.id = call[r].target,
               x.config = call[d].target
        PROVE  FALSE
    <3>1. x.id[1] = "state" BY <2>1, <2>2 DEF Ids, Of
    <3>2. call[r].target \in Ids(View(r))
      <4>1. x.id \notin gone[r] BY <3>1 DEF StoreInv
      <4> QED BY <2>2, <4>1 DEF View, Ids
    <3>3. Target(r) \in View(r) /\ Target(r).id = x.id BY <2>2, <3>2, RowIs DEF Target
    <3>4. Target(r).config = x.config
      <4>1. CASE Target(r) \in rows BY <2>2, <3>3, <4>1 DEF StoreInv
      <4>2. CASE Target(r) \in put[r]
        <5>1. IsState(r, Target(r)) BY <3>1, <3>3, <4>2 DEF WriteInv
        <5>2. x.id # <<"state", r>> BY <1>1 DEF StoreInv
        <5>3. PICK y \in rows : y.id = Target(r).id /\ y.config = Target(r).config
          BY <3>3, <5>1, <5>2 DEF IsState
        <5> QED BY <2>2, <3>3, <5>3 DEF StoreInv
      <4> QED BY <3>3, <4>1, <4>2 DEF View
    <3>5. PICK c \in Live(View(r)) : c.id = x.config BY <1>3, <1>6, <3>4
    <3>6. c \in View(r) /\ c.id[1] = "config" /\ ~c.deleted BY <3>5 DEF Live, Configs, Of
    <3>7. c \in rows BY <3>6 DEF View, StateInv
    <3>8. d \in Requests /\ d \in committed /\ call[d].op = "delete_config" BY <2>2 DEF Did
    <3>9. DeleteInv(d) BY <3>8, Mine
    <3>10. PICK z \in Configs(rows) : z.id = call[d].target /\ z.deleted BY <3>8, <3>9 DEF DeleteInv
    <3>11. z = c BY <2>2, <3>5, <3>7, <3>10 DEF StoreInv, Configs, Of
    <3> QED BY <3>6, <3>10, <3>11
  <2>3. \A a \in Did("callback") : a # r /\ call[a].target = call[r].target => a \notin before[r]
    BY <1>1 DEF StateInv, PastState
  <2> HIDE DEF g
  <2> QED BY <1>1, <1>6, <2>1, <2>2, <2>3, CallbackLooks DEF AtSalt, PastState, PastConfig
<1> QED BY <1>4, <1>5, <1>6

LEMMA CallbackOK ==
  ASSUME Inv, NEW r \in Requests, Callback(r), UNCHANGED <<salt, key>>
  PROVE  RouteOK(r)
<1> USE Mine, Typed
<1>0. call[r].op = "callback" BY DEF Callback
<1>1. ASSUME NEW p \in {"exchange", "answer"}, NEW g, Looks(r, p, g), pc[r] \in {"decrypt", "exchange"}
      PROVE  RouteOK(r)
  <2>1. call[r].target \in Ids(Of(rows, "state")) BY <1>0, <1>1 DEF PathInv
  <2>2. \A a \in Did("callback") : a # r /\ call[a].target = call[r].target => a \notin before[r]
    BY <1>0, <1>1 DEF StateInv, PastState
  <2>3. \A d \in Did("delete_config") : \A x \in rows :
          x.id = call[r].target /\ x.config = call[d].target => d \notin before[r]
    BY <1>0, <1>1 DEF DeleteInv, PastConfig
  <2> QED BY <1>0, <1>1, <2>1, <2>2, <2>3, CallbackLooks DEF AtSalt, PastState
<1>2. CASE pc[r] = "decrypt" /\ Decrypt(r, "exchange")
  <2>1. Ends(r) \/ Looks(r, "exchange", got[r]) BY <1>2, DecryptEffect DEF PCs
  <2>2. CASE Ends(r) BY <1>2, <2>2, EndsRoute DEF AtSalt
  <2> QED BY <1>1, <1>2, <2>1, <2>2
<1>3. CASE Exchange(r)
  <2>1. PICK o \in {"none", "invalid", "error"} : Look(r, o, None, "answer") BY <1>3 DEF Exchange
  <2>2. pc[r] = "exchange" /\ o \in Outcomes /\ "answer" \in PCs BY <1>3 DEF Exchange, Outcomes, PCs
  <2>3. Ends(r) \/ Looks(r, "answer", None) BY <2>1, <2>2, LookEffect
  <2>4. CASE Ends(r) BY <2>2, <2>4, EndsRoute DEF AtSalt
  <2> QED BY <1>1, <2>2, <2>3, <2>4
<1> QED BY <1>0, <1>2, <1>3, ConsumeOK, StateConfigOK DEF Callback

\* An account is looked for, and then changed.
LEMMA FindAccountOK ==
  ASSUME Inv, NEW r \in Requests, call[r].op \in {"update_account", "delete_account", "sync"},
         pc[r] = "start", Check(r, Found(r, "account")), UNCHANGED <<salt, key>>
  PROVE  RouteOK(r)
<1> USE Mine, Typed
<1>1. Plain(r) /\ call[r].op \notin OAuth BY DEF Plain, Makes, OAuth
<1>2. View(r) = rows /\ Unwritten(r) BY DEF Unwritten
<1>3. Found(r, "account") \in Outcomes /\ "write" \in PCs BY DEF Found, Outcomes, PCs
<1>4. Ends(r) \/ (Found(r, "account") = "none" /\ Looks(r, "write", None))
  BY <1>3, LookEffect DEF Check
<1>5. CASE Ends(r) BY <1>5, EndsRoute DEF AtSalt
<1>6. CASE Found(r, "account") = "none" /\ Looks(r, "write", None)
  <2>1. call[r].target[1] = "account" BY <1>6 DEF Found, Of
  <2> QED BY <1>1, <1>2, <1>6, <2>1, PlainLooks DEF AtSalt
<1> QED BY <1>4, <1>5, <1>6

LEMMA ChangeAccountOK ==
  ASSUME Inv, NEW r \in Requests, call[r].op \in {"update_account", "sync"}, pc[r] = "write",
         NEW x, Present(r) /\ Target(r) \in AccountRow => x \in AccountRow,
         Change(r, {x}), UNCHANGED <<salt, key>>
  PROVE  RouteOK(r)
<1> USE Mine, Typed
<1>1. Plain(r) /\ call[r].op \notin Creates BY DEF Plain, Makes, Creates
<1>2. call[r].target[1] = "account" BY DEF PathInv
<1>3. Present(r) => x \in AccountRow
  <2>1. Present(r) => Target(r) \in Row_ /\ Target(r).id = call[r].target
    BY TargetOf DEF Unwritten
  <2> QED BY <1>2, <2>1, Sorts
<1>4. SaveIf(Present(r), r, {x}, {}, "answer") BY DEF Change
<1>5. "answer" \in PCs /\ (Present(r) => x \in Row_) BY <1>3 DEF PCs, Row_
<1>6. Ends(r) \/ Loses(r) \/ (Present(r) /\ Puts(r, x, "answer"))
  BY <1>1, <1>4, <1>5, SaveIfEffect
<1>7. CASE Ends(r) BY <1>7, EndsRoute DEF AtSalt
<1>8. CASE Present(r) /\ Puts(r, x, "answer")
  <2>1. Allowed(r, x) BY <1>3, <1>8 DEF Allowed
  <2> QED BY <1>1, <1>5, <1>8, <2>1, PlainPuts DEF AtSalt
<1> QED BY <1>1, <1>6, <1>7, <1>8 DEF Loses

LEMMA CreateAccountOK ==
  ASSUME Inv, NEW r \in Requests, CreateAccount(r), UNCHANGED <<salt, key>>
  PROVE  RouteOK(r)
<1> USE Mine, Typed
<1>0. call[r].op = "create_account" /\ Plain(r) /\ call[r].op \notin OAuth /\ call[r].op \notin Creates
  BY DEF CreateAccount, At, Plain, Makes, OAuth, Creates
<1>1. CASE pc[r] = "start" /\ Check(r, "none")
  <2>1. "none" \in Outcomes /\ "write" \in PCs /\ Unwritten(r) BY <1>1 DEF Outcomes, PCs, Unwritten
  <2>2. Ends(r) \/ Looks(r, "write", None) BY <1>1, <2>1, LookEffect DEF Check
  <2>3. CASE Ends(r) BY <1>1, <2>3, EndsRoute DEF AtSalt
  <2>4. CASE Looks(r, "write", None) BY <1>0, <1>1, <2>1, <2>4, PlainLooks DEF AtSalt
  <2> QED BY <2>2, <2>3, <2>4
<1>2. CASE pc[r] = "write" /\ Insert(r, NewAccount(r), Raised, "answer")
  <2>0. PICK x : x = NewAccount(r) OBVIOUS
  <2>1. Save(r, {x}, {}, Raised, "answer") BY <1>2, <2>0 DEF Insert
  <2>2. x \in AccountRow
    <3>1. <<"account", r>> \in Id("account") BY DEF Id
    <3>2. call[r].target \in Id("subject") /\ call[r].provider \in STRING
      BY <1>0, ScenariosAssumption
    <3> QED BY <2>0, <3>1, <3>2 DEF NewAccount, AccountRow
  <2>3. x \in Row_ /\ Allowed(r, x) BY <2>2 DEF Row_, Allowed
  <2>4. Raised \in Outcomes /\ "answer" \in PCs BY DEF Raised, Outcomes, PCs
  <2>5. Ends(r) \/ Loses(r) \/ Puts(r, x, "answer") BY <1>2, <2>1, <2>3, <2>4, SaveEffect
  <2>6. CASE Ends(r) BY <1>2, <2>6, EndsRoute DEF AtSalt
  <2>7. CASE Puts(r, x, "answer") BY <1>0, <1>2, <2>3, <2>7, PlainPuts DEF AtSalt
  <2> QED BY <1>0, <2>5, <2>6, <2>7 DEF Loses
<1> QED BY <1>1, <1>2 DEF CreateAccount, At

LEMMA UpdateAccountOK ==
  ASSUME Inv, NEW r \in Requests, UpdateAccount(r), UNCHANGED <<salt, key>>
  PROVE  RouteOK(r)
<1>1. call[r].op = "update_account" BY DEF UpdateAccount, At
<1>2. CASE pc[r] = "start" /\ Check(r, Found(r, "account")) BY <1>1, <1>2, FindAccountOK
<1>3. CASE pc[r] = "write" /\ Change(r, {AccountChanged(r)})
  <2>1. call[r].provider \in STRING BY <1>1, ScenariosAssumption, Mine, Typed
  <2>2. Target(r) \in AccountRow => AccountChanged(r) \in AccountRow
    BY <2>1 DEF AccountChanged, AccountRow
  <2> QED BY <1>1, <1>3, <2>2, ChangeAccountOK
<1> QED BY <1>2, <1>3 DEF UpdateAccount, At

LEMMA SyncOK ==
  ASSUME Inv, NEW r \in Requests, Sync(r), UNCHANGED <<salt, key>>
  PROVE  RouteOK(r)
<1>1. call[r].op = "sync" BY DEF Sync, At
<1>2. CASE pc[r] = "start" /\ Check(r, Found(r, "account")) BY <1>1, <1>2, FindAccountOK
<1>3. CASE pc[r] = "write" /\ Change(r, {SyncPending(r)})
  <2>1. Target(r) \in AccountRow => SyncPending(r) \in AccountRow BY DEF SyncPending, AccountRow
  <2> QED BY <1>1, <1>3, <2>1, ChangeAccountOK
<1> QED BY <1>2, <1>3 DEF Sync, At

LEMMA DeleteAccountOK ==
  ASSUME Inv, NEW r \in Requests, DeleteAccount(r), UNCHANGED <<salt, key>>
  PROVE  RouteOK(r)
<1> USE Mine, Typed
<1>0. call[r].op = "delete_account" /\ Plain(r) /\ call[r].op \notin Creates /\ call[r].op \notin OAuth
  BY DEF DeleteAccount, At, Plain, Makes, Creates, OAuth
<1>1. CASE pc[r] = "start" /\ Check(r, Found(r, "account")) BY <1>0, <1>1, FindAccountOK
<1>2. CASE pc[r] = "write" /\ Delete(r)
  <2>1. call[r].target[1] = "account" BY <1>0, <1>2 DEF PathInv
  <2>2. PICK i : i = call[r].target OBVIOUS
  <2>3. Ends(r) \/ Deletes(r, i) BY <1>0, <1>2, <2>1, <2>2, DeleteEffect
  <2>4. CASE Ends(r) BY <1>2, <2>4, EndsRoute DEF AtSalt
  <2>5. CASE Deletes(r, i)
    <3>1. Works(r) BY <2>5, DeleteWorks
    <3>2. Goes(r) /\ pc'[r] = "answer" BY <2>5 DEF Deletes
    <3> QED BY <1>0, <1>2, <3>1, <3>2, PlainWorks DEF AtSalt
  <2> QED BY <2>3, <2>4, <2>5
<1> QED BY <1>1, <1>2 DEF DeleteAccount, At

LEMMA SyncBackgroundOK ==
  ASSUME Inv, NEW r \in Requests, SyncBackground(r), UNCHANGED <<salt, key>>
  PROVE  RouteOK(r)
<1> USE Mine, Typed
<1>0. call[r].op = "sync_background" /\ Plain(r) /\ call[r].op \notin OAuth
  BY DEF SyncBackground, Plain, Makes, OAuth
<1>1. CASE /\ pc[r] = "start" /\ End(r, "background", "success") /\ Untouched
           /\ UNCHANGED <<call, got, before>>
  <2>1. Looks(r, "background", got[r]) BY <1>1 DEF End, Looks, Goes, PCs, Outcomes
  <2> QED BY <1>0, <1>1, <2>1, PlainLooks DEF AtSalt, Unwritten
<1>2. CASE /\ pc[r] = "background" /\ Present(r) /\ Found(r, "account") = "none"
           /\ Flush(r, {SyncPending(r)}, {}, {}) /\ Goto(r, "commit") /\ UNCHANGED <<call, got, before>>
  <2>0. PICK x : x = SyncPending(r) OBVIOUS
  <2>1. call[r].target[1] = "account" BY <1>2 DEF Found, Of
  <2>2. Target(r) \in Row_ /\ Target(r).id = call[r].target BY <1>2, TargetOf DEF Unwritten
  <2>3. Target(r) \in AccountRow BY <2>1, <2>2, Sorts
  <2>4. x \in AccountRow BY <2>0, <2>3 DEF SyncPending, AccountRow
  <2>5. x \in Row_ /\ Allowed(r, x) BY <2>4 DEF Row_, Allowed
  <2>6. Puts(r, x, "commit") BY <1>2, <2>0, <2>5, FlushEffect DEF PCs
  <2> QED BY <1>0, <1>2, <2>5, <2>6, PlainPuts DEF AtSalt
<1>3. CASE /\ pc[r] = "background" /\ Drop(r, "closed") /\ Goto(r, "done")
           /\ UNCHANGED <<call, got, before>>
  <2>1. Ends(r) BY <1>3 DEF Goto, Ends, Goes, PCs
  <2> QED BY <1>3, <2>1, EndsRoute DEF AtSalt
<1> QED BY <1>1, <1>2, <1>3 DEF SyncBackground

LEMMA AnswerOK ==
  ASSUME Inv, NEW r \in Requests, Answer(r), UNCHANGED <<salt, key>>
  PROVE  RouteOK(r)
<1> USE Mine, Typed
<1>0. pc[r] = "answer" BY DEF Answer
<1>1. Looks(r, "commit", got[r]) BY DEF Answer, End, Looks, Goes, PCs, Outcomes
<1>2. /\ Goes(r) /\ Works(r) /\ pc'[r] = "commit" /\ call' = call /\ rows' = rows /\ session' = session
      /\ put' = put /\ gone' = gone /\ got'[r] = got[r]
      /\ committed' = committed /\ r \notin committed'
      /\ before'[r] \subseteq committed' /\ (call[r].op \in OAuth => key'[r] # None)
  BY <1>0, <1>1, LooksPath
<1>3. before'[r] = before[r] BY <1>0, <1>2 DEF Goes
<1>4. Did("callback")' = Did("callback") /\ Did("delete_config")' = Did("delete_config")
  BY <1>2 DEF Did
<1>5. \A g : Known(g) => Known(g)' BY <1>2 DEF Known
<1>6. PathInv(r)' BY <1>0, <1>2, <1>5 DEF PathInv, Unwritten
<1>7. MakeInv(r)'
  <2>1. \A x : (IsNew(r, x)' <=> IsNew(r, x)) /\ (Supersedes(r, x)' <=> Supersedes(r, x))
    BY <1>2 DEF IsNew, Supersedes, VersionAfter
  <2>2. \A c : (Earlier(r, c)' <=> Earlier(r, c)) /\ (Got(r, c)' <=> Got(r, c))
    BY <1>2, <1>3 DEF Earlier, Live, Configs, Of, Got
  <2>3. Seen(r) => Seen(r)' BY <1>0, <1>2, <2>1, <2>2 DEF Seen
  <2> QED BY <1>0, <1>2, <2>1, <2>3 DEF MakeInv
<1>8. StateInv(r)' BY <1>0, <1>2, <1>3, <1>4 DEF StateInv, PastState
<1>9. DeleteInv(r)' BY <1>0, <1>2, <1>3, <1>4 DEF DeleteInv, PastConfig
<1> QED BY <1>0, <1>2, <1>6, <1>7, <1>8, <1>9 DEF RouteOK, AtSalt, StepOK, Own

LEMMA CommitOK ==
  ASSUME Inv, NEW r \in Requests, Commit(r), UNCHANGED <<salt, key>>
  PROVE  RouteOK(r)
<1> USE Mine, Typed
<1>0. pc[r] = "commit" BY DEF Commit
<1>1. CASE Ends(r) BY <1>0, <1>1, EndsRoute DEF AtSalt
<1>2. CASE Commits(r)
  <2>1. /\ Goes(r) /\ pc'[r] = "done" /\ call' = call /\ session[r] = "active"
        /\ put'[r] = {} /\ gone'[r] = {} /\ session'[r] = "closed" /\ committed' = committed \cup {r}
    BY <1>2 DEF Commits, Goes
  <2>2. before'[r] = before[r] BY <1>0, <2>1 DEF Goes
  <2>3. PathInv(r)' BY <2>1, <2>2 DEF PathInv
  <2>4. MakeInv(r)' BY <2>1 DEF MakeInv, Seen
  <2>5. \A x \in put[r] : x \in rows' BY <1>2, CommittedRows
  <2>6. \A op : \A d \in Did(op)' : d \in Did(op) \/ d = r BY <2>1 DEF Did
  <2>7. r \notin before[r] BY <1>0 DEF PathInv
  <2>8. StateInv(r)'
    <3>1. SUFFICES ASSUME call[r].op = "callback"
                   PROVE  /\ \E x \in Of(rows', "state") : x.id = call[r].target /\ x.consumed
                          /\ \A a \in Did("callback")' :
                               a # r /\ call[a].target = call[r].target => a \notin before[r]
      BY <2>1, <2>2 DEF StateInv
    <3>2. \E x \in put[r] : x.id = call[r].target /\ x.consumed /\ x.id[1] = "state"
      BY <1>0, <2>1, <3>1 DEF StateInv, PastState
    <3>3. \A a \in Did("callback") : a # r /\ call[a].target = call[r].target => a \notin before[r]
      BY <1>0, <3>1 DEF StateInv, PastState
    <3> QED BY <2>5, <2>6, <3>2, <3>3 DEF Of
  <2>9. DeleteInv(r)'
    <3>1. ASSUME call[r].op = "delete_config"
          PROVE  \E x \in Configs(rows') : x.id = call[r].target /\ x.deleted
      <4>1. \E x \in put[r] : x.id = call[r].target /\ x.id[1] = "config" /\ x.deleted
        BY <1>0, <2>1, <3>1 DEF DeleteInv
      <4> QED BY <2>5, <4>1 DEF Configs, Of
    <3>2. ASSUME call[r].op = "callback", NEW d \in Did("delete_config")', NEW x \in rows',
                 x.id = call[r].target, x.config = call[d].target
          PROVE  d \notin before[r]
      <4>1. PICK w \in rows : w.id = call[r].target /\ w.id[1] = "state"
        <5>1. call[r].target \in Ids(Of(rows, "state")) BY <1>0, <3>2 DEF PathInv
        <5> QED BY <5>1 DEF Ids, Of
      <4>2. x.id # <<"state", r>>
        <5>1. r \notin committed BY <1>0
        <5>2. \A y \in rows : y.id # <<"state", r>> BY <5>1 DEF StoreInv
        <5> QED BY <3>2, <4>1, <5>2
      <4>3. PICK y \in rows : y.id = x.id /\ y.config = x.config
        BY <1>2, <3>2, <4>1, <4>2, RowsStay
      <4>4. d = r \/ d \in Did("delete_config") BY <2>6, <3>2
      <4>5. \A e \in Did("delete_config") : \A z \in rows :
              z.id = call[r].target /\ z.config = call[e].target => e \notin before[r]
        BY <1>0, <3>2 DEF DeleteInv, PastConfig
      <4> QED BY <2>7, <3>2, <4>3, <4>4, <4>5
    <3> QED BY <2>1, <2>2, <3>1, <3>2 DEF DeleteInv
  <2> QED BY <1>0, <1>2, <2>1, <2>3, <2>4, <2>8, <2>9 DEF RouteOK, AtSalt, StepOK, Own
<1> QED BY <1>0, <1>1, <1>2, CommitEffect

LEMMA AbortOK ==
  ASSUME Inv, NEW r \in Requests, Abort(r), UNCHANGED <<salt, key>>
  PROVE  RouteOK(r)
<1> USE Mine, Typed
<1>1. ~AtSalt(pc[r]) /\ pc[r] # "done" BY DEF Abort, AtSalt, Unwritten
<1>2. PICK o : o = (IF outcome[r] = "none" THEN "aborted" ELSE outcome[r]) OBVIOUS
<1>3. o \in Outcomes BY <1>2 DEF Outcomes
<1>4. Ends(r) BY <1>1, <1>2, <1>3, FailEffect DEF Abort
<1> QED BY <1>1, <1>4, EndsRoute

LEMMA RoutesOK ==
  ASSUME Inv, NEW r \in Requests, Route(r) \/ Answer(r) \/ Commit(r) \/ Abort(r), UNCHANGED <<salt, key>>
  PROVE  RouteOK(r)
  BY RotateOK, NewVersionOK, UpdateConfigOK, DeleteConfigOK, AuthorizeOK, CallbackOK,
     CreateAccountOK, UpdateAccountOK, DeleteAccountOK, SyncOK, SyncBackgroundOK,
     AnswerOK, CommitOK, AbortOK DEF Route

-----------------------------------------------------------------------------
(* The salt. *)

LEMMA NotSalt ==
  /\ \A r \in Requests : r # None /\ r # Blank /\ r # Old
  /\ None # Blank /\ None # Old
  BY AccountsAssumption

\* Where a request reads, opens or writes the salt, the invariant asks no more of it than this.
LEMMA SaltSteps ==
  ASSUME Inv, NEW r \in Requests, pc[r] \in {"start", "open_salt", "write_salt"}, Goes(r), Untouched,
         pc'[r] \in {"open_salt", "write_salt", "read"}, key'[r] # None
  PROVE  StepOK(r)
<1> USE Mine, Typed
<1>1. put[r] = {} /\ gone[r] = {} /\ r \notin committed BY DEF Unwritten
<1>2. Works(r) BY <1>1, LookWorks
<1>3. call' = call /\ before'[r] \subseteq committed BY DEF Goes, PathInv
<1>4. put' = put /\ gone' = gone /\ committed' = committed BY DEF Untouched
<1>5. PathInv(r)' BY <1>1, <1>3, <1>4 DEF PathInv, Unwritten
<1>6. MakeInv(r)' BY <1>1, <1>4 DEF MakeInv, Seen
<1>7. StateInv(r)' BY <1>1, <1>4 DEF StateInv, PastState
<1>8. DeleteInv(r)' BY <1>1, <1>4 DEF DeleteInv, PastConfig
<1> QED BY <1>2, <1>5, <1>6, <1>7, <1>8 DEF StepOK, Own

LEMMA ReadSaltOK ==
  ASSUME Inv, NEW r \in Requests, ReadSalt(r)
  PROVE  StepOK(r) /\ \A q \in Requests \ {r} : key'[q] = key[q]
<1> USE Mine, Typed
<1>1. pc[r] = "start" /\ Untouched /\ call' = call /\ got' = got BY DEF ReadSalt
<1>2. pc'[r] \in {"open_salt", "read"} /\ key'[r] # None /\ \A q \in Requests \ {r} : key'[q] = key[q]
  BY NotSalt DEF ReadSalt, Goto
<1>3. Goes(r) BY <1>1 DEF ReadSalt, Goto, Goes, PCs
<1> QED BY <1>1, <1>2, <1>3, SaltSteps

LEMMA OpenSaltOK ==
  ASSUME Inv, NEW r \in Requests, OpenSalt(r)
  PROVE  StepOK(r) /\ key' = key
<1> USE Mine, Typed
<1>1. pc[r] = "open_salt" /\ Untouched /\ pc'[r] = "write_salt" /\ key' = key
  BY DEF OpenSalt, Goto
<1>2. Goes(r) BY DEF OpenSalt, Goto, Goes, PCs
<1>3. key[r] # None
  <2>1. Maker(r) BY <1>1 DEF Inv, SaltInv
  <2> QED BY <2>1, NotSalt DEF Maker
<1> QED BY <1>1, <1>2, <1>3, SaltSteps

LEMMA WriteSaltOK ==
  ASSUME Inv, NEW r \in Requests, WriteSalt(r)
  PROVE  StepOK(r) /\ key' = key /\ ((pc'[r] = "read" /\ salt' = key[r]) \/ (pc'[r] = "done" /\ salt' = salt))
<1> USE Mine, Typed
<1>1. pc[r] = "write_salt" /\ key' = key /\ UNCHANGED <<call, got, before>> BY DEF WriteSalt
<1>2. CASE salt' = Kept(r) /\ Goto(r, "read") /\ Untouched
  <2>1. pc'[r] = "read" BY <1>2 DEF Goto
  <2>2. Goes(r) BY <1>1, <1>2 DEF Goto, Goes, PCs
  <2>3. key[r] # None
    <3>1. Maker(r) BY <1>1 DEF Inv, SaltInv
    <3> QED BY <3>1, NotSalt DEF Maker
  <2> QED BY <1>1, <1>2, <2>1, <2>2, <2>3, SaltSteps DEF Kept
<1>3. CASE Fail(r, "aborted") /\ UNCHANGED salt
  <2>1. "aborted" \in Outcomes BY DEF Outcomes
  <2>2. Ends(r) BY <1>1, <1>3, <2>1, FailEffect
  <2> QED BY <1>1, <1>3, <2>2, EndsOK DEF Ends
<1> QED BY <1>2, <1>3 DEF WriteSalt

\* Makers that have crossed have crossed for good.
LEMMA CrossedStay ==
  ASSUME Inv, NEW r \in Requests, Goes(r), SaltsCrossed, \A q \in Requests : key[q] # None => key'[q] = key[q]
  PROVE  SaltsCrossed'
<1>1. PICK a \in Requests, b \in Requests : a # b /\ Maker(a) /\ Maker(b) /\ Overlapped(a, b)
  BY DEF SaltsCrossed
<1>2. ASSUME NEW c \in Requests, Maker(c) PROVE Maker(c)' /\ before'[c] = before[c]
  <2>1. key[c] # None BY <1>2, NotSalt DEF Maker
  <2>2. pc[c] # "start" BY <2>1, Mine DEF PathInv
  <2>3. before'[c] = before[c] BY <2>2 DEF Goes
  <2> QED BY <1>2, <2>1, <2>3 DEF Maker
<1>3. Overlapped(a, b)' BY <1>1, <1>2 DEF Overlapped
<1> QED BY <1>1, <1>2, <1>3 DEF SaltsCrossed

LEMMA SaltAfterRoute ==
  ASSUME Inv, NEW r \in Requests, RouteOK(r), UNCHANGED <<salt, key>>
  PROVE  SaltInv'
<1> USE Mine, Typed
<1>0. Goes(r) /\ (Works(r) \/ Commits(r)) /\ PathInv(r)' /\ ~AtSalt(pc[r]) /\ ~AtSalt(pc'[r])
  BY DEF RouteOK, StepOK, Own
<1>1. \A q \in Requests \ {r} : pc'[q] = pc[q] BY <1>0 DEF Goes
<1>2. \A q \in Requests : Maker(q)' <=> Maker(q) BY DEF Maker
<1>3. \A q \in Requests : pc'[q] \in {"open_salt", "write_salt"} => Maker(q)'
  BY <1>0, <1>1, <1>2 DEF Inv, SaltInv, AtSalt
<1>4. CASE SaltsCrossed BY <1>0, <1>3, <1>4, CrossedStay DEF SaltInv
<1>5. CASE OneSalt
  <2>1. committed' \subseteq committed \cup {r} BY <1>0 DEF Works, Commits
  <2>2. Maker(r) => salt = r BY <1>0, <1>5 DEF OneSalt, AtSalt, Goes
  <2>3. ASSUME NEW a \in Requests, Maker(a)
        PROVE  /\ pc'[a] = "open_salt" => salt \in {None, Blank}
               /\ pc'[a] = "write_salt" => salt = Blank
               /\ pc'[a] \notin {"open_salt", "write_salt"} =>
                    salt = a \/ (salt = Blank /\ pc'[a] = "done" /\ a \notin committed')
    <3>1. CASE a = r BY <1>0, <2>2, <2>3, <3>1 DEF AtSalt
    <3>2. CASE a # r BY <1>1, <1>5, <2>1, <2>3, <3>2 DEF OneSalt
    <3> QED BY <3>1, <3>2
  <2>4. ASSUME NEW c \in AllConfigs' PROVE c.key = salt
    <3>1. c.id[1] = "config" /\ (c \in rows' \/ \E q \in Requests : c \in put'[q])
      BY DEF AllConfigs, Configs, Of
    <3>2. CASE c \in AllConfigs BY <1>5, <3>2 DEF OneSalt
    <3>3. CASE c \notin AllConfigs
      <4>1. c \notin rows /\ \A q \in Requests : c \notin put[q] BY <3>1, <3>3, AllConfigsAre
      <4>2. Works(r)
        <5>1. ASSUME Commits(r) PROVE FALSE
          <6>1. c \in rows' => c \in rows \/ c \in put[r] BY <5>1, CommittedRows
          <6>2. \A q \in Requests : c \in put'[q] => c \in put[q] BY <5>1 DEF Commits
          <6> QED BY <3>1, <4>1, <6>1, <6>2
        <5> QED BY <1>0, <5>1
      <4>3. c \in put'[r] /\ c \notin put[r] /\ c \in Row_ BY <3>1, <4>1, <4>2 DEF Works
      <4>4. Allowed(r, c) BY <4>2, <4>3 DEF Works
      <4>5. IsNew(r, c) \/ IsChange(r, c) BY <3>1, <4>3, <4>4, Sorts DEF Allowed
      <4>6. CASE IsNew(r, c)
        <5>1. c.key = key[r] /\ call[r].op \in OAuth BY <4>6 DEF IsNew, Makes, OAuth
        <5>2. pc'[r] \notin {"start", "done"} /\ call' = call BY <1>0, <4>3 DEF PathInv, Unwritten, Goes
        <5>3. key[r] # None BY <1>0, <5>1, <5>2 DEF PathInv
        <5>4. key[r] \in {r, salt} BY <1>5, <5>3 DEF OneSalt
        <5> QED BY <2>2, <5>1, <5>4 DEF Maker
      <4>7. CASE IsChange(r, c)
        <5>1. PICK y \in rows : y.id = c.id /\ y.key = c.key BY <4>7 DEF IsChange
        <5>2. y \in AllConfigs BY <3>1, <5>1, AllConfigsAre
        <5> QED BY <1>5, <5>1, <5>2 DEF OneSalt
      <4> QED BY <4>5, <4>6, <4>7
    <3> QED BY <3>2, <3>3
  <2>5. OneSalt' BY <1>2, <1>5, <2>3, <2>4 DEF OneSalt
  <2> QED BY <1>3, <2>5 DEF SaltInv
<1> QED BY <1>4, <1>5 DEF Inv, SaltInv

\* With no salt, there is no configuration.
LEMMA NoSaltNoConfig ==
  ASSUME Inv, OneSalt, salt \in {None, Blank}
  PROVE  AllConfigs = {}
<1>1. ASSUME NEW c \in AllConfigs PROVE FALSE
  <2>1. c.id[1] = "config" /\ c \in Row_ BY AllConfigsAre, Typed DEF Inv
  <2>2. c \in ConfigRow BY <2>1, Sorts
  <2>3. c.key \in {Old} \cup Requests BY <2>2 DEF ConfigRow
  <2>4. c.key = salt BY DEF OneSalt
  <2> QED BY <2>3, <2>4, NotSalt DEF Blank, Old
<1> QED BY <1>1

\* While the salt is read, opened or written, no configuration changes.
LEMMA SameConfigs ==
  ASSUME Types, NEW r \in Requests, Untouched \/ Ends(r)
  PROVE  /\ committed' = committed
         /\ \A c \in AllConfigs' : c \in AllConfigs
<1> USE Typed
<1>1. rows' = rows /\ committed' = committed /\ \A q \in Requests : put'[q] \subseteq put[q]
  BY DEF Untouched, Ends, Drop
<1> QED BY <1>1 DEF AllConfigs, Configs, Of

LEMMA SaltAfterRead ==
  ASSUME Inv, NEW r \in Requests, ReadSalt(r)
  PROVE  SaltInv'
<1> USE Mine, Typed
<1>1. /\ pc[r] = "start" /\ Untouched /\ salt' = salt /\ before'[r] = committed
      /\ \A q \in Requests \ {r} : key'[q] = key[q] /\ pc'[q] = pc[q] /\ before'[q] = before[q]
  BY DEF ReadSalt, Goto
<1>2. Goes(r) BY ReadSaltOK DEF StepOK
<1>3. committed' = committed /\ \A c \in AllConfigs' : c \in AllConfigs BY <1>1, SameConfigs
<1>4. key[r] = None /\ ~Maker(r) /\ r \notin committed BY <1>1, NotSalt DEF PathInv, Maker
<1>5. \A q \in Requests \ {r} : Maker(q)' <=> Maker(q) BY <1>1 DEF Maker
<1>6. \/ salt \in {None, Blank} /\ key'[r] = r /\ pc'[r] = "open_salt"
      \/ salt \notin {None, Blank} /\ key'[r] = salt /\ pc'[r] = "read"
  BY DEF ReadSalt, Goto
<1>7. \A q \in Requests : pc'[q] \in {"open_salt", "write_salt"} => Maker(q)'
  BY <1>1, <1>5, <1>6 DEF Inv, SaltInv, Maker
<1>8. CASE SaltsCrossed
  <2>1. \A q \in Requests : key[q] # None => key'[q] = key[q] BY <1>1, <1>4
  <2> QED BY <1>2, <1>7, <1>8, <2>1, CrossedStay DEF SaltInv
<1>9. CASE OneSalt /\ salt \in {None, Blank}
  <2>1. Maker(r)' BY <1>6, <1>9 DEF Maker
  <2>2. CASE \E a \in Requests \ {r} : Maker(a)
    <3>1. PICK a \in Requests \ {r} : Maker(a) BY <2>2
    <3>2. a \notin committed
      <4>1. SUFFICES ASSUME a \in committed PROVE FALSE OBVIOUS
      <4>2. pc[a] = "done" BY <4>1, Mine DEF PathInv
      <4> QED BY <1>9, <3>1, <4>1, <4>2, NotSalt DEF OneSalt
    <3>3. before[a] \subseteq committed BY Mine DEF PathInv
    <3>4. Overlapped(a, r)' BY <1>1, <1>4, <3>2, <3>3 DEF Overlapped
    <3>5. SaltsCrossed' BY <1>5, <2>1, <3>1, <3>4 DEF SaltsCrossed
    <3> QED BY <1>7, <3>5 DEF SaltInv
  <2>3. CASE \A a \in Requests \ {r} : ~Maker(a)
    <3>1. \A a \in Requests : Maker(a)' => a = r BY <1>5, <2>3
    <3>2. \A q \in Requests : key'[q] \in {None, q, salt} BY <1>1, <1>6, <1>9 DEF OneSalt
    <3>3. \A c \in AllConfigs' : c.key = salt BY <1>3, <1>9 DEF OneSalt
    <3>4. salt \notin Requests BY <1>9, NotSalt
    <3>5. OneSalt' BY <1>1, <1>6, <1>9, <3>1, <3>2, <3>3, <3>4 DEF OneSalt
    <3> QED BY <1>7, <3>5 DEF SaltInv
  <2> QED BY <2>2, <2>3
<1>10. CASE OneSalt /\ salt \notin {None, Blank}
  <2>1. salt # r BY <1>4, <1>10 DEF OneSalt
  <2>2. ~Maker(r)' BY <1>6, <1>10, <2>1 DEF Maker
  <2>3. \A q \in Requests : key'[q] \in {None, q, salt} BY <1>1, <1>6, <1>10 DEF OneSalt
  <2>4. \A c \in AllConfigs' : c.key = salt BY <1>3, <1>10 DEF OneSalt
  <2>5. salt' \in Requests => Maker(salt)'
    BY <1>1, <1>10, <2>1 DEF OneSalt, Maker
  <2>6. ASSUME NEW a \in Requests, Maker(a)'
        PROVE  /\ pc'[a] \notin {"open_salt", "write_salt"}
               /\ salt = a
    <3>1. a # r /\ Maker(a) BY <1>5, <2>2, <2>6
    <3>2. pc'[a] = pc[a] BY <1>1, <3>1
    <3> QED BY <1>10, <3>1, <3>2 DEF OneSalt
  <2>7. \A a, b \in Requests : Maker(a)' /\ Maker(b)' => a = b BY <2>6
  <2>8. OneSalt' BY <1>1, <2>3, <2>4, <2>5, <2>6, <2>7 DEF OneSalt
  <2> QED BY <1>7, <2>8 DEF SaltInv
<1> QED BY <1>8, <1>9, <1>10 DEF Inv, SaltInv

LEMMA SaltAfterOpen ==
  ASSUME Inv, NEW r \in Requests, OpenSalt(r)
  PROVE  SaltInv'
<1> USE Mine, Typed
<1>1. /\ pc[r] = "open_salt" /\ Untouched /\ salt' = Blank /\ key' = key /\ pc'[r] = "write_salt"
      /\ \A q \in Requests \ {r} : pc'[q] = pc[q]
  BY DEF OpenSalt, Goto
<1>2. Goes(r) BY OpenSaltOK DEF StepOK
<1>3. committed' = committed /\ \A c \in AllConfigs' : c \in AllConfigs BY <1>1, SameConfigs
<1>4. \A q \in Requests : Maker(q)' <=> Maker(q) BY <1>1 DEF Maker
<1>5. Maker(r) BY <1>1 DEF Inv, SaltInv
<1>6. \A q \in Requests : pc'[q] \in {"open_salt", "write_salt"} => Maker(q)'
  BY <1>1, <1>4, <1>5 DEF Inv, SaltInv
<1>7. CASE SaltsCrossed BY <1>1, <1>2, <1>6, <1>7, CrossedStay DEF SaltInv
<1>8. CASE OneSalt
  <2>1. salt \in {None, Blank} BY <1>1, <1>5, <1>8 DEF OneSalt
  <2>2. \A c \in AllConfigs' : FALSE BY <1>3, <1>8, <2>1, NoSaltNoConfig
  <2>3. \A q \in Requests : key'[q] \in {None, q, Blank}
    BY <1>1, <1>8, <2>1 DEF OneSalt
  <2>4. \A a \in Requests : Maker(a)' => a = r BY <1>4, <1>5, <1>8 DEF OneSalt
  <2>5. OneSalt' BY <1>1, <2>2, <2>3, <2>4, NotSalt DEF OneSalt
  <2> QED BY <1>6, <2>5 DEF SaltInv
<1> QED BY <1>7, <1>8 DEF Inv, SaltInv

LEMMA SaltAfterWrite ==
  ASSUME Inv, NEW r \in Requests, WriteSalt(r)
  PROVE  SaltInv'
<1> USE Mine, Typed
<1>1. /\ pc[r] = "write_salt" /\ key' = key
      /\ (pc'[r] = "read" /\ salt' = key[r]) \/ (pc'[r] = "done" /\ salt' = salt)
  BY WriteSaltOK DEF WriteSalt
<1>2. Goes(r) BY WriteSaltOK DEF StepOK
<1>3. committed' = committed /\ \A c \in AllConfigs' : c \in AllConfigs
  <2>1. Untouched \/ Drop(r, "closed") BY DEF WriteSalt, Fail
  <2>2. rows' = rows /\ committed' = committed /\ \A q \in Requests : put'[q] \subseteq put[q]
    BY <2>1 DEF Untouched, Drop
  <2> QED BY <2>2 DEF AllConfigs, Configs, Of
<1>4. \A q \in Requests : Maker(q)' <=> Maker(q) BY <1>1 DEF Maker
<1>5. Maker(r) /\ key[r] = r BY <1>1 DEF Inv, SaltInv, Maker
<1>6. \A q \in Requests \ {r} : pc'[q] = pc[q] BY <1>2 DEF Goes
<1>7. \A q \in Requests : pc'[q] \in {"open_salt", "write_salt"} => Maker(q)'
  BY <1>1, <1>4, <1>6 DEF Inv, SaltInv
<1>8. CASE SaltsCrossed BY <1>1, <1>2, <1>7, <1>8, CrossedStay DEF SaltInv
<1>9. CASE OneSalt
  <2>1. salt = Blank BY <1>1, <1>5, <1>9 DEF OneSalt
  <2>2. \A c \in AllConfigs' : FALSE BY <1>3, <1>9, <2>1, NoSaltNoConfig
  <2>3. \A a \in Requests : Maker(a)' => a = r BY <1>4, <1>5, <1>9 DEF OneSalt
  <2>4. \A q \in Requests : key'[q] \in {None, q}
    <3>1. \A q \in Requests : key[q] # Blank BY NotSalt DEF Blank, Old
    <3> QED BY <1>1, <1>9, <2>1, <3>1 DEF OneSalt
  <2>5. r \notin committed BY <1>1
  <2>6. salt' = r \/ (salt' = Blank /\ pc'[r] = "done") BY <1>1, <1>5, <2>1
  <2>7. salt' \in Requests => Maker(salt)' BY <1>4, <1>5, <2>6, NotSalt
  <2>8. pc'[r] \notin {"open_salt", "write_salt"} BY <1>1
  <2>9. OneSalt' BY <1>3, <2>2, <2>3, <2>4, <2>5, <2>6, <2>7, <2>8 DEF OneSalt
  <2> QED BY <1>7, <2>9 DEF SaltInv
<1> QED BY <1>8, <1>9 DEF Inv, SaltInv

-----------------------------------------------------------------------------
(* The invariant. *)

LEMMA StepInv ==
  ASSUME Inv, NEW r \in Requests, StepOK(r), SaltInv',
         salt' \in {None, Blank, Old} \cup Requests, key' \in [Requests -> {None, Old} \cup Requests],
         \A q \in Requests \ {r} : key'[q] = key[q],
         key'[r] = key[r] \/ put'[r] = {}
  PROVE  Inv'
<1> USE Mine
<1>1. Goes(r) /\ (Works(r) \/ Commits(r)) /\ Own(r)' BY DEF StepOK
<1>2. Types' BY <1>1, TypesNext
<1>3. StoreInv' BY <1>1, StoreNext
<1>4. VersionsInv'
  <2>1. \A q \in Requests : before[q] \subseteq committed BY DEF PathInv
  <2> QED BY <1>1, <1>3, <2>1, VersionsNext DEF Inv
<1>5. \A q \in Requests : WriteInv(q)' BY <1>1, WriteNext DEF Inv
<1>6. \A q \in Requests : Own(q)' BY <1>1, OthersNext
<1> QED BY <1>2, <1>3, <1>4, <1>5, <1>6 DEF Inv

LEMMA InvInit ==
  ASSUME Init
  PROVE  Inv
<1> DEFINE seed == IF salt = Old THEN Seed ELSE {x \in Seed : x.id[1] \notin {"config", "state"}}
<1>1. InitRoutes(seed) /\ salt \in {None, Old} /\ key = [r \in Requests |-> None]
  BY NotSalt DEF Init
<1>2. /\ rows = seed /\ put = [r \in Requests |-> {}] /\ gone = [r \in Requests |-> {}]
      /\ audited = [r \in Requests |-> {}] /\ session = [r \in Requests |-> "active"]
      /\ committed = {} /\ call \in Scenarios
      /\ pc = [r \in Requests |-> IF call[r].op = "idle" THEN "done" ELSE "start"]
      /\ got = [r \in Requests |-> None] /\ before = [r \in Requests |-> {}]
      /\ outcome = [r \in Requests |-> "none"]
  BY <1>1 DEF InitRoutes, InitStore
<1>3. seed \subseteq Seed /\ Seed \subseteq Row_ BY AccountsAssumption DEF Row_
<1>4. Types
  <2>1. pc \in [Requests -> PCs] BY <1>2 DEF PCs
  <2>2. outcome \in [Requests -> Outcomes] BY <1>2 DEF Outcomes
  <2>3. StoreOK BY <1>2, <2>2 DEF StoreOK
  <2>4. TypeOK BY <1>1, <1>2, <1>3, <2>1, <2>3 DEF TypeOK, Row_
  <2> QED BY <1>2, <2>4 DEF Types
<1>5. StoreInv
  <2>1. \A x, y \in rows : x.id = y.id => x = y BY <1>2, <1>3, AccountsAssumption
  <2>2. \A x \in rows : \A r \in Requests : x.id \notin {<<"config", r>>, <<"state", r>>}
    <3>1. \A x \in Seed : \A r \in Requests : x.id \notin {<<t, r>> : t \in {"config", "state", "account"}}
      BY AccountsAssumption
    <3> HIDE DEF seed
    <3> QED BY <1>2, <1>3, <3>1
  <2>3. \A r \in Requests : Touched(r) = {} BY <1>2 DEF Touched, Ids
  <2> QED BY <1>2, <2>1, <2>2, <2>3 DEF StoreInv
<1>6. AllConfigs = Configs(rows) BY <1>2 DEF AllConfigs, Configs, Of
<1>7. \A c \in Configs(rows) : Superseding(c, Configs(rows)) /\ c.key = salt
  <2>1. CASE salt = Old
    <3>1. Configs(rows) = {x \in Seed : x.id[1] = "config"} BY <1>2, <2>1 DEF Configs, Of
    <3> QED BY <2>1, <3>1, AccountsAssumption
  <2>2. CASE salt # Old
    <3>1. Configs(rows) = {} BY <1>2, <2>2 DEF Configs, Of
    <3> QED BY <3>1
  <2> QED BY <2>1, <2>2
<1>8. VersionsInv
  <2>1. SecondActiveNeedsOverlap
    BY <1>2, <1>3 DEF SecondActiveNeedsOverlap, Live, Configs, Of, Ids
  <2> QED BY <1>7, <2>1 DEF VersionsInv, RotationIsWhole
<1>9. SaltInv
  <2>1. \A r \in Requests : ~Maker(r) BY <1>1, NotSalt DEF Maker
  <2>2. \A r \in Requests : pc[r] \notin {"open_salt", "write_salt"} BY <1>2
  <2>3. salt \notin Requests BY <1>1, NotSalt
  <2>4. \A r \in Requests : key[r] = None BY <1>1
  <2>5. OneSalt BY <1>6, <1>7, <2>1, <2>3, <2>4 DEF OneSalt
  <2> QED BY <2>2, <2>5 DEF SaltInv
<1>10. ASSUME NEW r \in Requests PROVE WriteInv(r) /\ Own(r)
  <2>1. /\ put[r] = {} /\ gone[r] = {} /\ r \notin committed /\ pc[r] \in {"start", "done"}
        /\ key[r] = None /\ before[r] = {}
    BY <1>1, <1>2
  <2>2. WriteInv(r) BY <2>1 DEF WriteInv
  <2>3. PathInv(r) BY <2>1 DEF PathInv
  <2>4. MakeInv(r) BY <2>1 DEF MakeInv, Seen
  <2>5. StateInv(r) BY <2>1 DEF StateInv, PastState
  <2>6. DeleteInv(r) BY <2>1 DEF DeleteInv, PastConfig
  <2> QED BY <2>2, <2>3, <2>4, <2>5, <2>6 DEF Own
<1> QED BY <1>4, <1>5, <1>8, <1>9, <1>10 DEF Inv

LEMMA InvNext ==
  ASSUME Inv, [Next]_avars
  PROVE  Inv'
<1> USE Mine, Typed
<1>1. ASSUME NEW r \in Requests, ReadSalt(r) PROVE Inv'
  <2>1. StepOK(r) /\ SaltInv' /\ \A q \in Requests \ {r} : key'[q] = key[q]
    BY <1>1, ReadSaltOK, SaltAfterRead
  <2>2. salt' = salt /\ key' \in [Requests -> {None, Old} \cup Requests] BY <1>1 DEF ReadSalt, Inv
  <2>3. put'[r] = {} BY <1>1 DEF ReadSalt, Untouched, Unwritten
  <2>4. salt' \in {None, Blank, Old} \cup Requests BY <2>2, Typed DEF Inv
  <2> QED BY <2>1, <2>2, <2>3, <2>4, StepInv
<1>2. ASSUME NEW r \in Requests, OpenSalt(r) PROVE Inv'
  <2>1. StepOK(r) /\ SaltInv' /\ key' = key BY <1>2, OpenSaltOK, SaltAfterOpen
  <2>2. salt' \in {None, Blank, Old} \cup Requests BY <1>2 DEF OpenSalt
  <2> QED BY <2>1, <2>2, StepInv DEF Inv
<1>3. ASSUME NEW r \in Requests, WriteSalt(r) PROVE Inv'
  <2>1. /\ StepOK(r) /\ SaltInv' /\ key' = key
        /\ salt' = key[r] \/ salt' = salt
    BY <1>3, WriteSaltOK, SaltAfterWrite
  <2>2. salt' \in {None, Blank, Old} \cup Requests BY <2>1, Typed DEF Inv
  <2> QED BY <2>1, <2>2, StepInv DEF Inv
<1>4. ASSUME NEW r \in Requests, Route(r) \/ Answer(r) \/ Commit(r) \/ Abort(r), UNCHANGED <<salt, key>>
      PROVE  Inv'
  <2>1. RouteOK(r) BY <1>4, RoutesOK
  <2>2. SaltInv' BY <1>4, <2>1, SaltAfterRoute
  <2>3. StepOK(r) BY <2>1 DEF RouteOK
  <2> QED BY <1>4, <2>2, <2>3, StepInv DEF Inv
<1>5. CASE UNCHANGED avars
  <2>0. /\ rows' = rows /\ put' = put /\ gone' = gone /\ audited' = audited /\ session' = session
        /\ committed' = committed /\ call' = call /\ pc' = pc /\ got' = got /\ before' = before
        /\ outcome' = outcome /\ salt' = salt /\ key' = key
    BY <1>5 DEF avars
  <2>1. Types'
    <3>1. StoreOK' <=> StoreOK BY ONLY <2>0 DEF StoreOK, Ids
    <3>2. TypeOK' <=> TypeOK BY ONLY <2>0, <3>1 DEF TypeOK
    <3>3. Types BY DEF Inv
    <3> QED BY ONLY <2>0, <3>2, <3>3 DEF Types, Row_
  <2>2. StoreInv'
    <3>1. \A q : Touched(q)' = Touched(q) BY ONLY <2>0 DEF Touched, Ids
    <3>2. StoreInv BY DEF Inv
    <3> QED BY ONLY <2>0, <3>1, <3>2 DEF StoreInv
  <2>3. AllConfigs' = AllConfigs BY <2>0 DEF AllConfigs
  <2>4. VersionsInv'
    <3>1. RotationIsWhole' <=> RotationIsWhole
      BY ONLY <2>0 DEF RotationIsWhole, Superseding, Configs, Of
    <3>2. SecondActiveNeedsOverlap' <=> SecondActiveNeedsOverlap
      BY ONLY <2>0 DEF SecondActiveNeedsOverlap, Overlapped, Live, Configs, Of
    <3> QED BY <3>1, <3>2 DEF Inv, VersionsInv
  <2>5. SaltInv'
    <3>1. SaltsCrossed' <=> SaltsCrossed BY <2>0 DEF SaltsCrossed, Maker, Overlapped
    <3>2. OneSalt' <=> OneSalt BY <2>0, <2>3 DEF OneSalt, Maker
    <3> QED BY <2>0, <3>1, <3>2 DEF Inv, SaltInv, Maker
  <2>6. ASSUME NEW r \in Requests PROVE WriteInv(r)' /\ Own(r)'
    <3>1. \A x : /\ IsNew(r, x)' <=> IsNew(r, x)
                 /\ Supersedes(r, x)' <=> Supersedes(r, x)
      BY <2>0 DEF IsNew, Supersedes, VersionAfter
    <3>2. \A x : IsChange(r, x)' <=> IsChange(r, x) BY <2>0, <3>1 DEF IsChange
    <3>3. WriteInv(r)' BY <2>0, <3>1, <3>2 DEF WriteInv, IsState
    <3>4. PathInv(r)' BY <2>0 DEF PathInv, Unwritten, Known, ForProvider
    <3>5. MakeInv(r)'
      <4>1. \A c : (Earlier(r, c)' <=> Earlier(r, c)) /\ (Got(r, c)' <=> Got(r, c))
        BY ONLY <2>0 DEF Earlier, Live, Configs, Of, Got
      <4>2. \A p : ForProvider(r, p)' <=> ForProvider(r, p) BY ONLY <2>0 DEF ForProvider
      <4>3. Seen(r)' <=> Seen(r) BY <2>0, <3>1, <4>1, <4>2 DEF Seen
      <4> QED BY <2>0, <3>1, <4>3 DEF MakeInv
    <3>6. Did("callback")' = Did("callback") /\ Did("delete_config")' = Did("delete_config")
      BY <2>0 DEF Did
    <3>7. StateInv(r)' BY <2>0, <3>6 DEF StateInv
    <3>8. DeleteInv(r)' BY <2>0, <3>6 DEF DeleteInv
    <3> QED BY <3>3, <3>4, <3>5, <3>7, <3>8 DEF Own
  <2> QED BY <2>1, <2>2, <2>4, <2>5, <2>6 DEF Inv
<1>6. CASE AllDone /\ UNCHANGED <<salt, key>>
  BY <1>5, <1>6 DEF AllDone, Untouched, avars
<1> QED BY <1>1, <1>2, <1>3, <1>4, <1>5, <1>6 DEF Next

LEMMA Invariance == Spec => []Inv
<1>1. Init => Inv BY InvInit
<1>2. Inv /\ [Next]_avars => Inv' BY InvNext
<1> QED BY <1>1, <1>2, PTL DEF Spec

\* Rows, transactions and requests keep their types, and a session that is not active holds nothing
\* that it might still commit.
THEOREM TypeCorrect == Spec => []TypeOK
<1>1. Inv => TypeOK BY DEF Inv, Types
<1> QED BY <1>1, Invariance, PTL

\* Whatever races and whichever flush fails, a new version is stored with the superseding of the one
\* before it, or not at all: one that names its successor is not active, and the successor is the
\* next version of its provider.
THEOREM RotationsAreWhole == Spec => []RotationIsWhole
<1>1. Inv => RotationIsWhole BY DEF Inv, VersionsInv
<1> QED BY <1>1, Invariance, PTL

\* Only two creations or rotations, neither of them committed when the other began, give a provider
\* a second active version.
THEOREM SecondActiveIsExplained == Spec => []SecondActiveNeedsOverlap
<1>1. Inv => SecondActiveNeedsOverlap BY DEF Inv, VersionsInv
<1> QED BY <1>1, Invariance, PTL

\* A state serves two callbacks only if neither had been committed when the other began.
THEOREM StatesServeOnce == Spec => []StateReuseNeedsOverlap
<1>1. Inv => StateReuseNeedsOverlap
  <2> SUFFICES ASSUME Inv, NEW a \in Did("callback"), NEW b \in Did("callback"), a # b,
                      call[a].target = call[b].target
               PROVE  Overlapped(a, b)
    BY DEF StateReuseNeedsOverlap
  <2>1. /\ a \in Requests /\ a \in committed /\ call[a].op = "callback"
        /\ b \in Requests /\ b \in committed /\ call[b].op = "callback"
    BY Mine, Typed DEF Did, Inv
  <2>2. StateInv(a) /\ StateInv(b) BY <2>1, Mine
  <2> QED BY <2>1, <2>2 DEF StateInv, Overlapped
<1> QED BY <1>1, Invariance, PTL

\* A deleted configuration serves no callback that began after the deletion.
THEOREM DeletedConfigsServeNobody == Spec => []DeletedConfigServesNoCallback
<1>1. Inv => DeletedConfigServesNoCallback
  <2> SUFFICES ASSUME Inv, NEW c \in Did("callback"), NEW d \in Did("delete_config"),
                      Row(rows, call[c].target).config = call[d].target
               PROVE  d \notin before[c]
    BY DEF DeletedConfigServesNoCallback
  <2>1. c \in Requests /\ c \in committed /\ call[c].op = "callback" BY Typed DEF Did, Inv
  <2>2. StateInv(c) /\ DeleteInv(c) BY <2>1, Mine
  <2>3. call[c].target \in Ids(rows) BY <2>1, <2>2 DEF StateInv, Of, Ids
  <2>4. Row(rows, call[c].target) \in rows /\ Row(rows, call[c].target).id = call[c].target
    BY <2>3, RowIs
  <2> QED BY <2>1, <2>2, <2>4 DEF DeleteInv
<1> QED BY <1>1, Invariance, PTL

\* A secret is lost only to two requests that both found no salt, at once.
THEOREM KeysAreLostOnlyTogether == Spec => []LostKeyNeedsOverlap
<1>1. Inv => LostKeyNeedsOverlap
  <2> SUFFICES ASSUME Inv, NEW c \in Configs(rows)
               PROVE  \/ c.key = salt
                      \/ \E a, b \in Requests : a # b /\ key[a] = a /\ key[b] = b /\ Overlapped(a, b)
    BY DEF LostKeyNeedsOverlap
  <2>1. CASE SaltsCrossed BY <2>1 DEF SaltsCrossed, Maker
  <2>2. CASE OneSalt
    <3>1. c \in AllConfigs BY DEF AllConfigs, Configs, Of
    <3> QED BY <2>2, <3>1 DEF OneSalt
  <2> QED BY <2>1, <2>2 DEF Inv, SaltInv
<1> QED BY <1>1, Invariance, PTL

=============================================================================
