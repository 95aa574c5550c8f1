------------------------------- MODULE Messaging -------------------------------
(***************************************************************************)
(* WebSockets: the connections a process keeps per tenant, the endpoint that  *)
(* serves each of them, and the background task that forwards the sync        *)
(* progress it receives from Redis to the tenant's connections.              *)
(*                                                                         *)
(* A step ends where the code awaits.  The manager awaits nothing while it     *)
(* holds its lock, so what it does under the lock is one step.               *)
(***************************************************************************)
EXTENDS Naturals, Sequences, FiniteSets

CONSTANTS
  Sockets,
  Tenants,
  TenantOf,      \* TenantOf[w]: the tenant in w's token; NoTenant if verify_token refuses it
  MaxPublished,  \* bound on the messages published
  NoTenant

ASSUME MessagingAssumption ==
  /\ TenantOf \in [Sockets -> Tenants \cup {NoTenant}] /\ NoTenant \notin Tenants
  /\ MaxPublished \in Nat

VARIABLES
  conns,      \* _connections_by_tenant, without its empty sets
  registered, \* _websocket_to_tenant
  door,       \* door[w]: where w's endpoint is
  present,    \* sockets whose client has not gone
  queue,      \* messages that Redis has for the subscription
  published,  \* how many messages there have been
  task,       \* the forwarding task
  pending,    \* connections it has still to send its message to
  dead,       \* those that refused it
  sending,    \* the message's number
  received,   \* received[w]: numbers of the messages w's client has received
  due         \* due[w]: history, those forwarded to its tenant while w was served

socketVars == <<conns, registered, door, present, queue, published, task, pending, dead, sending,
                received, due>>

Running == {"connecting", "listening", "sending"}
Kinds == {"object", "not_object", "not_json"}

SocketTypeOK ==
  /\ conns \in [Tenants -> SUBSET Sockets]
  /\ registered \in [Sockets -> Tenants \cup {NoTenant}]
  /\ door \in [Sockets -> {"token", "accept", "serve", "closed"}]
  /\ present \subseteq Sockets
  /\ published \in 0..MaxPublished /\ Len(queue) <= published
  /\ task \in Running \cup {"none", "ended", "failed"}
  /\ pending \subseteq Sockets /\ dead \subseteq Sockets

InitSockets ==
  /\ conns = [t \in Tenants |-> {}]
  /\ registered = [w \in Sockets |-> NoTenant]
  /\ door = [w \in Sockets |-> "token"]
  /\ present = Sockets
  /\ queue = << >> /\ published = 0 /\ sending = 0
  /\ task = "none"
  /\ pending = {} /\ dead = {}
  /\ received = [w \in Sockets |-> << >>]
  /\ due = [w \in Sockets |-> << >>]

-----------------------------------------------------------------------------
(* ConnectionManager. *)

Register(w, t) ==
  /\ conns' = [conns EXCEPT ![t] = @ \cup {w}]
  /\ registered' = [registered EXCEPT ![w] = t]

\* Mutant: the tenant goes with its first connection.
Unregister_Tenant(ws) ==
  LET left == {registered[w] : w \in ws} IN
  /\ conns' = [t \in Tenants |-> IF t \in left THEN {} ELSE conns[t]]
  /\ registered' = [w \in Sockets |-> IF w \in ws THEN NoTenant ELSE registered[w]]

\* _remove_connection_locked, for each of ws.
Unregister(ws) ==
  /\ conns' = [t \in Tenants |-> conns[t] \ {w \in ws : registered[w] = t}]
  /\ registered' = [w \in Sockets |-> IF w \in ws THEN NoTenant ELSE registered[w]]

\* The snapshot of broadcast_to_tenant.
Recipients(t) == conns[t]

-----------------------------------------------------------------------------
(* The endpoint of one connection. *)

CheckToken(w) ==
  /\ door[w] = "token"
  /\ door' = [door EXCEPT ![w] = IF TenantOf[w] = NoTenant THEN "closed" ELSE "accept"]
  /\ present' = IF TenantOf[w] = NoTenant THEN present \ {w} ELSE present
  /\ UNCHANGED <<conns, registered, queue, published, task, pending, dead, sending, received, due>>

\* accept fails if the client has gone; otherwise connect registers the connection.
Accept(w) ==
  /\ door[w] = "accept"
  /\ \/ w \notin present /\ door' = [door EXCEPT ![w] = "closed"] /\ UNCHANGED <<conns, registered>>
     \/ Register(w, TenantOf[w]) /\ door' = [door EXCEPT ![w] = "serve"]
  /\ UNCHANGED <<present, queue, published, task, pending, dead, sending, received, due>>

\* receive_text raises: the client has gone, or has sent what is no text.
Leave(w) ==
  /\ door[w] = "serve"
  /\ door' = [door EXCEPT ![w] = "closed"]
  /\ present' = present \ {w}
  /\ Unregister({w})
  /\ UNCHANGED <<queue, published, task, pending, dead, sending, received, due>>

HangUp(w) ==
  /\ w \in present
  /\ present' = present \ {w}
  /\ UNCHANGED <<conns, registered, door, queue, published, task, pending, dead, sending, received, due>>

-----------------------------------------------------------------------------
(* run_sync_progress_broadcast. *)

Subscribe ==
  /\ task = "connecting"
  /\ task' \in {"listening", "ended", "failed"}
  /\ UNCHANGED <<conns, registered, door, present, queue, published, pending, dead, sending, received, due>>

\* Someone publishes on a tenant's channel; Redis keeps nothing for a task that does not listen.
Publish ==
  /\ published < MaxPublished
  /\ published' = published + 1
  /\ \E t \in Tenants, k \in Kinds :
       queue' = IF task \in {"listening", "sending"}
                THEN Append(queue, [n |-> published', tenant |-> t, kind |-> k]) ELSE queue
  /\ UNCHANGED <<conns, registered, door, present, task, pending, dead, sending, received, due>>

\* A message that is no JSON is passed over; JSON that is no object ends the task.
Forward ==
  /\ task = "listening" /\ queue # << >>
  /\ LET m == Head(queue)
         served == {w \in present : door[w] = "serve" /\ TenantOf[w] = m.tenant} IN
     /\ queue' = Tail(queue)
     /\ task' = CASE m.kind = "object" -> "sending" [] m.kind = "not_json" -> "listening"
                  [] m.kind = "not_object" -> "ended"
     /\ sending' = IF m.kind = "object" THEN m.n ELSE sending
     /\ pending' = IF m.kind = "object" THEN Recipients(m.tenant) ELSE {}
     /\ due' = [w \in Sockets |->
                  IF m.kind = "object" /\ w \in served THEN Append(due[w], m.n) ELSE due[w]]
  /\ UNCHANGED <<conns, registered, door, present, published, dead, received>>

\* One send; to a client that has gone, it may fail or not.
Send(w) ==
  /\ task = "sending" /\ w \in pending
  /\ pending' = pending \ {w}
  /\ \/ w \in present /\ received' = [received EXCEPT ![w] = Append(@, sending)] /\ UNCHANGED dead
     \/ w \notin present /\ dead' \in {dead, dead \cup {w}} /\ UNCHANGED received
  /\ UNCHANGED <<conns, registered, door, present, queue, published, task, sending, due>>

\* All have been sent to: the connections that refused are removed.
Sent ==
  /\ task = "sending" /\ pending = {}
  /\ Unregister(dead)
  /\ dead' = {}
  /\ task' = "listening"
  /\ UNCHANGED <<door, present, queue, published, pending, sending, received, due>>

\* The connection to Redis is lost, and what it held.  The client library may subscribe again;
\* if not, the task ends, and fails if Redis is still away when it unsubscribes.
LoseRedis ==
  /\ task \in {"listening", "sending"}
  /\ queue' = << >>
  /\ task' \in IF task = "listening" THEN {"listening", "ended", "failed"} ELSE {"sending"}
  /\ UNCHANGED <<conns, registered, door, present, published, pending, dead, sending, received, due>>

\* Cancelled at an await; unsubscribing may fail here, too.
Cancelled ==
  /\ task' \in IF task \in Running THEN {"ended", "failed"} ELSE {task}
  /\ queue' = << >> /\ pending' = {} /\ dead' = {}
  /\ UNCHANGED <<conns, registered, door, present, published, sending, received, due>>

Endpoint(w) == CheckToken(w) \/ Accept(w) \/ Leave(w) \/ HangUp(w)
Broadcast == Subscribe \/ Forward \/ Sent \/ LoseRedis \/ \E w \in Sockets : Send(w)

-----------------------------------------------------------------------------
(* Property. *)

\* A client that is still there has received exactly the messages forwarded to its tenant since
\* it was served, in order, each once, and no other tenant's: whoever connects, leaves or
\* vanishes while a message is on its way, and but for the one that is.
ServedMissNothing ==
  \A w \in Sockets :
    door[w] = "serve" /\ w \in present =>
      due[w] = IF task = "sending" /\ w \in pending THEN Append(received[w], sending) ELSE received[w]

================================================================================
