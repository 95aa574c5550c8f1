------------------------------- MODULE MCProcess -------------------------------
(***************************************************************************)
(* A small instance of Process: constants of its run.                        *)
(***************************************************************************)
EXTENDS Process

CONSTANTS c1, c2, c3, w1, w2, w3, t1, t2

\* Two connections of one tenant, and one of another.
SmallTenantOf == [w \in Sockets |-> IF w = w3 THEN t2 ELSE t1]

\* Calls of the cache alone, connections alone, and one of each.
SmallLoads ==
  {[callers |-> Callers, sockets |-> {}], [callers |-> {}, sockets |-> Sockets],
   [callers |-> {c1}, sockets |-> {w1}]}

================================================================================
