-------------------------------- MODULE Process --------------------------------
(***************************************************************************)
(* One process from its start to its end (create_lifespan): the cache client   *)
(* is connected, then the task that forwards messages is started; when the     *)
(* server stops, after its last request and connection, the task is cancelled  *)
(* and awaited and the client closed.                                        *)
(***************************************************************************)
EXTENDS CacheClient, Messaging

CONSTANTS Loads    \* which calls and connections there are, together: [callers, sockets]

ASSUME ProcessAssumption == Loads \subseteq [callers : SUBSET Callers, sockets : SUBSET Sockets]

VARIABLES
  life,   \* where the lifespan is
  load

processVars == <<cacheVars, socketVars, life, load>>

\* Types.
ProcessTypeOK ==
  /\ CacheTypeOK /\ SocketTypeOK
  /\ life \in {"start", "ping", "task", "up", "cancel", "await", "close", "down", "aborted"}
  /\ load \in Loads

ProcessInit == InitCache /\ InitSockets /\ life = "start" /\ load \in Loads

Become(l) == life' = l /\ UNCHANGED load

\* Startup.
ConnectCache ==
  \/ life = "start" /\ MakeClient /\ Become("ping") /\ UNCHANGED socketVars
  \/ life = "ping" /\ (\E ok \in BOOLEAN : Pinged(ok)) /\ Become("task") /\ UNCHANGED socketVars

StartTask ==
  /\ life = "task"
  /\ task' = "connecting"
  /\ Become("up")
  /\ UNCHANGED <<cacheVars, conns, registered, door, present, queue, published, pending, dead,
                 sending, received, due>>

\* The server has no request and no connection left.
Idle ==
  /\ \A c \in load.callers : at[c] = "end"
  /\ \A w \in load.sockets : door[w] = "closed"

\* Shutdown.  A task that has failed raises its error again when it is awaited, and what comes
\* after it is not run.
Stop ==
  /\ life = "up" /\ Idle
  /\ Cancelled
  /\ Become("await") /\ UNCHANGED cacheVars

AwaitTask ==
  /\ life = "await"
  /\ Become(IF task = "failed" THEN "aborted" ELSE "close")
  /\ UNCHANGED <<cacheVars, socketVars>>

DisconnectCache ==
  /\ life = "close"
  /\ CloseClient
  /\ Become("down") /\ UNCHANGED socketVars

Ended == life \in {"down", "aborted"} /\ UNCHANGED processVars

Serving == life = "up" /\ UNCHANGED <<life, load>>

ProcessNext ==
  \/ ConnectCache \/ StartTask \/ Stop \/ AwaitTask \/ DisconnectCache \/ Ended
  \/ Serving /\ UNCHANGED socketVars /\ \E c \in load.callers : CacheStep(c)
  \/ Serving /\ UNCHANGED cacheVars /\ (Broadcast \/ Publish \/ \E w \in load.sockets : Endpoint(w))

ProcessSpec == ProcessInit /\ [][ProcessNext]_processVars

================================================================================
