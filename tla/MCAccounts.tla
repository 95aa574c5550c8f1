------------------------------- MODULE MCAccounts -------------------------------
(***************************************************************************)
(* A small instance of Accounts: constants of its runs.                     *)
(***************************************************************************)
EXTENDS Accounts

CONSTANTS q1, q2, q3   \* requests

first == <<"config", "c1">>
second == <<"config", "c2">>
state == <<"state", "s">>
subject == <<"subject", "s">>
account == <<"account", "a">>

Version(id, n, active, next) ==
  [id |-> id, provider |-> "gmail", version |-> n, active |-> active, deleted |-> FALSE,
   next |-> next, key |-> Old]

\* Two versions of one provider, a state that was issued under the first, an account.
SmallSeed ==
  {Version(first, 1, FALSE, second), Version(second, 2, TRUE, None),
   [id |-> state, config |-> first, consumed |-> FALSE], [id |-> subject],
   [id |-> account, subject |-> subject, address |-> "a@x", sync |-> "idle"]}

C(op, target, provider) == [op |-> op, target |-> target, provider |-> provider]
Idle == C("idle", None, None)

ConfigCalls ==
  {C("create_config", None, "gmail"), C("rotate", first, None), C("rotate", second, None),
   C("update_config", second, None), C("delete_config", second, None),
   C("delete_config", first, None), C("callback", state, "gmail"), C("authorize", None, "gmail")}

AccountCalls ==
  {C("create_account", subject, "a@x"), C("create_account", subject, "b@x"),
   C("update_account", account, "b@x"), C("delete_account", account, None), C("sync", account, None),
   C("sync_background", account, None), C("sync_background", <<"account", "none">>, None)}

Are(a, b, c) == [r \in Requests |-> IF r = q1 THEN a ELSE IF r = q2 THEN b ELSE c]

SmallScenarios ==
  {Are(a, b, C("create_config", None, "gmail")) : a \in ConfigCalls, b \in ConfigCalls}
  \cup {Are(C("callback", state, "gmail"), C("callback", state, "yahoo"), C("callback", state, "gmail")),
        Are(C("callback", state, "gmail"), C("delete_config", first, None), C("callback", state, "gmail")),
        Are(C("create_config", None, "imap"), C("create_config", None, "yahoo"), Idle)}
  \cup {Are(a, b, Idle) : a \in AccountCalls, b \in AccountCalls}

================================================================================
