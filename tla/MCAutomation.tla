------------------------------ MODULE MCAutomation ------------------------------
(***************************************************************************)
(* A small instance of Automation: constants of its run.                    *)
(***************************************************************************)
EXTENDS Automation

CONSTANTS q1, q2, q3   \* requests

user == <<"user", "u">>
gone_user == <<"user", "gone">>

Workflow(n, trigger, condition, max, order, actions) ==
  [id |-> <<"workflow", n>>, trigger |-> trigger, condition |-> condition, max |-> max,
   order |-> order, actions |-> actions, active |-> TRUE, deleted |-> FALSE]

Do(type, u) == [type |-> type, user |-> u, refused |-> FALSE]
Fails(type) == [type |-> type, user |-> None, refused |-> TRUE]

\* Limited workflows, for several types of event; some that are not, two of which fail.
SmallSeed ==
  {Workflow("once", "visit", None, 1, 1, <<Do("create_task", user), Do("other", None)>>),
   Workflow("twice", "visit", "urgent", 2, 2, <<Do("create_event", None)>>),
   Workflow("birth", "birth", None, 1, 1, <<>>),
   Workflow("broken", "death", None, None, 1, <<Do("create_task", gone_user), Do("create_task", user)>>),
   Workflow("after", "death", None, None, 2, <<>>),
   Workflow("refused", "odd", None, None, 1,
            <<Fails("create_event"), Fails("other"), Fails("create_task"), Do("create_task", user)>>),
   Workflow("tied", "move", None, 2, 1, <<>>), Workflow("level", "move", None, 2, 1, <<>>),
   [id |-> user], [id |-> <<"event", "e">>, seq |-> 1, time |-> 2, type |-> "visit", payload |-> None]}

C(op, target) == [op |-> op, target |-> target, events |-> <<>>]
Idle == C("idle", None)
E(type, payload, time) == [type |-> type, payload |-> payload, time |-> time]
Events(s) == [C("bulk", None) EXCEPT !.events = s]
Pass == C("anchor", None)

Visit == Events(<<E("visit", "urgent", 1)>>)
Both == Events(<<E("visit", None, 1), E("birth", None, 3)>>)
Reverse2 == Events(<<E("birth", None, 1), E("visit", None, 3)>>)
Death == Events(<<E("death", None, 1), E("birth", None, 2)>>)
Quiet == Events(<<E("note", None, 1)>>)

Odd == Events(<<E("odd", None, 1)>>)
Move == Events(<<E("move", None, 1)>>)

Set(active, max, order) ==
  [op |-> "update_workflow", target |-> <<"workflow", "once">>, events |-> <<>>, active |-> active,
   condition |-> None, max |-> max, order |-> order]
New ==
  [op |-> "create_workflow", target |-> None, events |-> <<>>,
   workflow |-> Workflow("new", "visit", None, 1, 3, <<>>)]

Are(a, b, c) == [r \in Requests |-> IF r = q1 THEN a ELSE IF r = q2 THEN b ELSE c]

SmallScenarios ==
  {Are(Visit, Visit, c) : c \in {Set(None, 2, 3), C("delete_workflow", <<"workflow", "once">>)}}
  \cup {Are(Visit, c, Idle) : c \in {New, Set(FALSE, 1, None)}}
  \cup {Are(Move, Move, Idle), Are(Odd, Idle, Idle)}
  \cup {Are(Both, c, Idle) : c \in {Reverse2, Both}}
  \cup {Are(Death, c, Idle) : c \in {Visit, Death}}
  \cup {Are(Pass, Pass, c) : c \in {Pass, Quiet}}
  \cup {Are(Set(FALSE, 1, None), b, Idle) :
           b \in {Set(TRUE, 2, None), C("delete_workflow", <<"workflow", "once">>)}}

================================================================================
