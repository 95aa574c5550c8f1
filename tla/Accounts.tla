-------------------------------- MODULE Accounts --------------------------------
(***************************************************************************)
(* A tenant's OAuth provider configurations, the states of the authorization  *)
(* flow, the key the client secrets are encrypted with, and the e-mail        *)
(* accounts.                                                               *)
(*                                                                         *)
(* One action per route, in the frame of module Routes.  Every request that    *)
(* uses the OAuth service first derives the master key from a salt it keeps in *)
(* a file, outside every transaction.                                        *)
(***************************************************************************)
EXTENDS Naturals

CONSTANTS
  Requests,
  Scenarios,        \* what the requests are called with together: functions on Requests
  Seed,             \* the rows at the start
  Supported,        \* provider types with known endpoints
  None

Blank == "blank"    \* the salt file, opened for writing and not yet written
Old == "old"        \* the salt of the configurations of Seed

VARIABLES
  rows, put, gone, audited, session, committed,   \* see Tables
  call, pc, got, before, outcome,                 \* see Routes
  salt,   \* the salt file: None if there is none, Blank, Old, or the request that made the salt
  key     \* key[r]: the salt of the key that r has derived

-----------------------------------------------------------------------------
(* The tables: unique keys, references ON DELETE CASCADE, other references. *)

T(keys, owners, needs) == [keys |-> keys, owners |-> owners, needs |-> needs]

\* No migration creates the unique key on versions that the model declares; one creates the index on
\* addresses.
ConfigTable(x) == T({}, {}, {})
StateTable(x) == T({}, {}, {x.config})
AccountTable(x) ==
  T({<<"ix_email_account_tenant_id_email_address", x.address>>}, {x.subject}, {})

Table(x) ==
  CASE x.id[1] = "config" -> ConfigTable(x)
    [] x.id[1] = "state" -> StateTable(x)
    [] x.id[1] = "account" -> AccountTable(x)
    [] OTHER -> T({}, {}, {})               \* subject

Keys(x) == Table(x).keys
Owners(x) == Table(x).owners
Needs(x) == Table(x).needs

Unaudited == {"authorize", "callback", "create_account", "update_account", "delete_account",
              "sync", "sync_background"}
Creates == {"create_config", "rotate", "delete_config"}

INSTANCE Routes

avars == <<rows, put, gone, audited, session, committed, call, pc, got, before, outcome, salt, key>>

-----------------------------------------------------------------------------
(* The columns that matter; the key stands for the encrypted secret, the address for all that a
   request may change of an account. *)

Id(table) == {i \in Ids(Seed) : i[1] = table} \cup {<<table, r>> : r \in Requests}

ConfigRow ==
  [id : Id("config"), provider : STRING, version : Nat \ {0}, active : BOOLEAN, deleted : BOOLEAN,
   next : Id("config") \cup {None}, key : {Old} \cup Requests]
StateRow == [id : Id("state"), config : Id("config"), consumed : BOOLEAN]
AccountRow ==
  [id : Id("account"), subject : Id("subject"), address : STRING, sync : {"idle", "pending"}]

\* A version that has been superseded is not active, and the next of its provider is there.
Superseding(c, configs) ==
  c.next # None =>
    /\ ~c.active
    /\ \E d \in configs : d.id = c.next /\ d.provider = c.provider /\ d.version = c.version + 1

\* What is there at the start: rows of the tables with ids of their own, not those of rows that
\* requests will insert; versions that the routes could have made; and secrets that the salt opens.
\* None and the salts are no requests, and None is no id and no row.
ASSUME AccountsAssumption ==
  /\ Seed \subseteq ConfigRow \cup StateRow \cup AccountRow \cup [id : Id("subject")]
  /\ \A x, y \in Seed : x.id = y.id => x = y
  /\ \A x \in Seed : \A r \in Requests : x.id \notin {<<t, r>> : t \in {"config", "state", "account"}}
  /\ LET configs == {x \in Seed : x.id[1] = "config"} IN
     \A c \in configs : Superseding(c, configs) /\ c.key = Old
  /\ {None, Blank, Old} \cap Requests = {} /\ None \notin {Blank, Old}
  /\ None \notin Id("config") \cup ConfigRow

\* A provider is named, and an account is one of a subject.
ASSUME ScenariosAssumption ==
  \A f \in Scenarios : \A r \in Requests :
    /\ f[r].op \in {"create_config", "create_account", "update_account"} => f[r].provider \in STRING
    /\ f[r].op = "create_account" => f[r].target \in Id("subject")

PCs == {"start", "open_salt", "write_salt", "read", "current", "write", "supersede", "decrypt",
        "exchange", "answer", "background", "commit", "done"}

\* Types; and a session that is not active holds nothing it might still commit.
TypeOK ==
  /\ StoreOK /\ pc \in [Requests -> PCs]
  /\ rows \subseteq ConfigRow \cup StateRow \cup AccountRow \cup [id : Id("subject")]
  /\ salt \in {None, Blank, Old} \cup Requests
  /\ key \in [Requests -> {None, Old} \cup Requests]

\* A tenant with configurations and the salt they need, or one that has neither yet.
Init ==
  /\ \/ salt = Old /\ InitRoutes(Seed)
     \/ salt = None /\ InitRoutes({x \in Seed : x.id[1] \notin {"config", "state"}})
  /\ key = [r \in Requests |-> None]

-----------------------------------------------------------------------------
(* The master key (EnvelopeEncryptor, made for every request to the OAuth service). *)

OAuth == {"create_config", "rotate", "update_config", "authorize", "callback"}

ReadSalt(r) ==
  /\ call[r].op \in OAuth /\ pc[r] = "start"
  /\ IF salt \in {None, Blank}
     THEN key' = [key EXCEPT ![r] = r] /\ Goto(r, "open_salt")
     ELSE key' = [key EXCEPT ![r] = salt] /\ Goto(r, "read")
  /\ before' = [before EXCEPT ![r] = committed]
  /\ Untouched /\ UNCHANGED <<call, got, salt>>

\* open(path, "w") empties the file, whoever has written it since it was looked at.
OpenSalt(r) ==
  /\ pc[r] = "open_salt"
  /\ salt' = Blank /\ Goto(r, "write_salt")
  /\ Untouched /\ UNCHANGED <<call, got, before, key>>

\* Mutant: the salt made is used, and not kept.
Kept_Never(r) == Blank

Kept(r) == key[r]

\* The salt is written, unless the process dies first.
WriteSalt(r) ==
  /\ pc[r] = "write_salt"
  /\ \/ salt' = Kept(r) /\ Goto(r, "read") /\ Untouched
     \/ Fail(r, "aborted") /\ UNCHANGED salt
  /\ UNCHANGED <<call, got, before, key>>

-----------------------------------------------------------------------------
(* Configurations. *)

Configs(s) == Of(s, "config")

\* Mutant: configurations that were deleted are found as well.
Live_WithDeleted(s) == Configs(s)

Live(s) == {c \in Configs(s) : ~c.deleted}

FoundConfig(r) == IF call[r].target \in Ids(Live(View(r))) THEN "none" ELSE "not_found"

\* Mutant: a rotation looks for the configuration it was asked for, as the active one.
Active_Asked(r, provider) ==
  {c \in Live(View(r)) : c.provider = provider /\ c.active
                         /\ (call[r].op = "rotate" => c.id = call[r].target)}

\* get_active_config.
Active(r, provider) == {c \in Live(View(r)) : c.provider = provider /\ c.active}

\* A second active one is an exception (scalar_one_or_none).
LookActive(r, provider, absent, next) ==
  LET found == Active(r, provider) IN
  Look(r, IF found = {} THEN absent ELSE IF \E c, d \in found : c # d THEN "error" ELSE "none",
       IF found = {} THEN None ELSE CHOOSE c \in found : TRUE, next)

ProviderOf(r) == IF call[r].op = "rotate" THEN Target(r).provider ELSE call[r].provider

\* A first version needs the provider's endpoints; the next ones inherit them.
FirstVersion(r) == IF ProviderOf(r) \in Supported THEN "none" ELSE "error"

VersionAfter(current) == IF current = None THEN 1 ELSE current.version + 1

\* The envelope of a secret: signed and encrypted with the key, and opened by no other.
Encrypt(r) == key[r]
Opens(r, envelope) == envelope = key[r]

NewConfig(r) ==
  [id |-> <<"config", r>>, provider |-> ProviderOf(r), version |-> VersionAfter(got[r]),
   active |-> TRUE, deleted |-> FALSE, next |-> None, key |-> Encrypt(r)]

\* The version before the new one.
Superseded(r) == [Row(View(r), got[r].id) EXCEPT !.active = FALSE, !.next = <<"config", r>>]

Rotate(r) == At(r, "rotate", "read") /\ Look(r, FoundConfig(r), None, "current")

\* create_new_version: the new version, then the one before it is superseded.  A refused audit
\* event of the first write kills the session for the second; of the last, it goes unnoticed.
NewVersion(r) ==
  /\ call[r].op \in {"create_config", "rotate"}
  /\ \/ /\ pc[r] = IF call[r].op = "rotate" THEN "current" ELSE "read"
        /\ LookActive(r, ProviderOf(r), FirstVersion(r), "write")
     \/ /\ pc[r] = "write"
        /\ Insert(r, NewConfig(r), Raised, IF got[r] = None THEN "answer" ELSE "supersede")
     \/ /\ pc[r] = "supersede"
        /\ SaveIf(session[r] = "active", r, {Superseded(r)}, {}, "answer")

UpdateConfig(r) ==
  \/ At(r, "update_config", "read") /\ Check(r, FoundConfig(r))
  \/ At(r, "update_config", "write") /\ Change(r, {Target(r)})

DeleteConfig(r) ==
  \/ At(r, "delete_config", "start") /\ Check(r, FoundConfig(r))
  \/ At(r, "delete_config", "write") /\ Change(r, {[Target(r) EXCEPT !.deleted = TRUE]})

-----------------------------------------------------------------------------
(* The authorization flow. *)

NewState(r) == [id |-> <<"state", r>>, config |-> got[r].id, consumed |-> FALSE]

Decrypt(r, next) ==
  /\ IF Opens(r, got[r].key) THEN Goto(r, next) /\ Untouched ELSE Fail(r, "unreadable")
  /\ UNCHANGED <<call, got, before>>

\* The state is issued, and only then the secret opened: no URL without one, but a state.
IssueState(r) == pc[r] = "write" /\ Insert(r, NewState(r), Raised, "decrypt")
BuildUrl(r) == pc[r] = "decrypt" /\ Decrypt(r, "answer")

Authorize(r) ==
  /\ call[r].op = "authorize"
  /\ \/ pc[r] = "read" /\ LookActive(r, call[r].provider, "not_found", "write")
     \/ IssueState(r)
     \/ BuildUrl(r)

\* Mutant: the state is looked at, and not marked.
Consumed_Looked(s) == s

Consumed(s) == [s EXCEPT !.consumed = TRUE]

\* consume reads the state, marks it, and never looks again.  It may have expired.
Consume(r) ==
  \/ /\ pc[r] = "read"
     /\ \E expired \in BOOLEAN :
          Check(r, IF Found(r, "state") # "none" \/ Target(r).consumed \/ expired
                   THEN "invalid" ELSE "none")
  \/ pc[r] = "write" /\ SaveIf(Present(r), r, {Consumed(Target(r))}, {}, "current")

\* The configuration of the state, active or not, and of the provider in the path.
StateConfig(r) ==
  LET found == {c \in Live(View(r)) : c.id = Target(r).config} IN
  /\ pc[r] = "current"
  /\ Look(r, IF found = {} THEN "not_found"
             ELSE IF \E c \in found : c.provider # call[r].provider THEN "invalid" ELSE "none",
          IF found = {} THEN None ELSE CHOOSE c \in found : TRUE, "decrypt")

\* The provider gives tokens, refuses the code, or cannot be reached or understood.
Exchange(r) ==
  pc[r] = "exchange" /\ \E refusal \in {"none", "invalid", "error"} : Look(r, refusal, None, "answer")

\* Whatever is refused after the state was marked unmarks it: the session is rolled back.
Callback(r) ==
  /\ call[r].op = "callback"
  /\ \/ Consume(r)
     \/ StateConfig(r)
     \/ pc[r] = "decrypt" /\ Decrypt(r, "exchange")
     \/ Exchange(r)

-----------------------------------------------------------------------------
(* E-mail accounts. *)

NewAccount(r) == [id |-> <<"account", r>>, subject |-> call[r].target,
                  address |-> call[r].provider, sync |-> "idle"]
\* The attributes that the request gives, here the address, and no other is written.
AccountChanged(r) == [Target(r) EXCEPT !.address = call[r].provider]
SyncPending(r) == [Target(r) EXCEPT !.sync = "pending"]

CreateAccount(r) ==
  \/ At(r, "create_account", "start") /\ Check(r, "none")
  \/ At(r, "create_account", "write") /\ Insert(r, NewAccount(r), Raised, "answer")

UpdateAccount(r) ==
  \/ At(r, "update_account", "start") /\ Check(r, Found(r, "account"))
  \/ At(r, "update_account", "write") /\ Change(r, {AccountChanged(r)})

DeleteAccount(r) ==
  \/ At(r, "delete_account", "start") /\ Check(r, Found(r, "account"))
  \/ At(r, "delete_account", "write") /\ Delete(r)

Sync(r) ==
  \/ At(r, "sync", "start") /\ Check(r, Found(r, "account"))
  \/ At(r, "sync", "write") /\ Change(r, {SyncPending(r)})

\* Answered before anything is looked at; the account is marked after that, if it is there.
SyncBackground(r) ==
  LET there == Present(r) /\ Found(r, "account") = "none" IN
  /\ call[r].op = "sync_background"
  /\ \/ pc[r] = "start" /\ End(r, "background", "success") /\ Untouched /\ UNCHANGED <<call, got, before>>
     \/ /\ pc[r] = "background"
        /\ IF there THEN Flush(r, {SyncPending(r)}, {}, {}) /\ Goto(r, "commit")
           ELSE Drop(r, "closed") /\ Goto(r, "done")
        /\ UNCHANGED <<call, got, before>>

-----------------------------------------------------------------------------

Route(r) ==
  \/ Rotate(r) \/ NewVersion(r) \/ UpdateConfig(r) \/ DeleteConfig(r) \/ Authorize(r) \/ Callback(r)
  \/ CreateAccount(r) \/ UpdateAccount(r) \/ DeleteAccount(r) \/ Sync(r) \/ SyncBackground(r)

Next ==
  \/ \E r \in Requests : ReadSalt(r) \/ OpenSalt(r) \/ WriteSalt(r)
  \/ \E r \in Requests : (Route(r) \/ Answer(r) \/ Commit(r) \/ Abort(r)) /\ UNCHANGED <<salt, key>>
  \/ AllDone /\ UNCHANGED <<salt, key>>

Spec == Init /\ [][Next]_avars

-----------------------------------------------------------------------------
(* Properties. *)

Did(op) == {r \in committed : call[r].op = op}
Overlapped(a, b) == a \notin before[b] /\ b \notin before[a]

\* The new version and the superseding of the one before stand or fall together, whatever races and
\* whichever audit event is refused: a version that names its successor is no longer active, and the
\* successor is stored as the next version of the same provider.
RotationIsWhole == \A c \in Configs(rows) : Superseding(c, Configs(rows))

\* No unique key stops two creations or rotations that overlap, but nothing else gives a provider a
\* second active version, with which get_active_config raises ever after.
SecondActiveNeedsOverlap ==
  \A c, d \in Live(rows) :
    c # d /\ c.provider = d.provider /\ c.active /\ d.active =>
      \/ {c.id, d.id} \subseteq Ids(Seed)
      \/ \E a, b \in Requests :
           c.id = <<"config", a>> /\ d.id = <<"config", b>> /\ Overlapped(a, b)

\* A state may serve two callbacks only if neither had been committed when the other began.
StateReuseNeedsOverlap ==
  \A a, b \in Did("callback") : a # b /\ call[a].target = call[b].target => Overlapped(a, b)

\* A deleted configuration serves no callback that began after the deletion; a superseded one does.
DeletedConfigServesNoCallback ==
  \A c \in Did("callback") : \A d \in Did("delete_config") :
    Row(rows, call[c].target).config = call[d].target => d \notin before[c]

\* A client secret that the salt file no longer decrypts was stored while two requests, neither of
\* them committed when the other began, had both found no salt.
LostKeyNeedsOverlap ==
  (\A r \in Requests : pc[r] \notin {"open_salt", "write_salt"}) =>
    \A c \in Configs(rows) :
      c.key = salt \/ \E a, b \in Requests : a # b /\ key[a] = a /\ key[b] = b /\ Overlapped(a, b)

===============================================================================
