------------------------------ MODULE CacheClient ------------------------------
(***************************************************************************)
(* The one Redis client of a process's CacheService, which every request      *)
(* shares and any of them may replace: a call that loses its connection        *)
(* closes the client, makes a new one and tries once more.                    *)
(*                                                                         *)
(* A step ends where the code awaits Redis; any call to Redis may fail.  What  *)
(* the entries say is Access's matter.                                       *)
(***************************************************************************)
CONSTANTS
  Callers,    \* calls of get, set, delete, delete_pattern or clear_all
  Scans,      \* those of delete_pattern, which send several commands
  NoClient

ASSUME CacheAssumption == Scans \subseteq Callers /\ NoClient \notin Callers

VARIABLES
  redis,      \* the client, NoClient or who made it
  connected,  \* _connected
  at,         \* at[c]: where call c is
  answer,     \* answer[c]: what its caller got
  crossed     \* history: calls whose client was given up by another one's reconnection

cacheVars == <<redis, connected, at, answer, crossed>>

Startup == "startup"
Answers == {"none", "done", "unavailable", "raised"}

CacheTypeOK ==
  /\ redis \in {NoClient, Startup} \cup Callers
  /\ connected \in BOOLEAN
  /\ at \in [Callers -> {"idle", "call", "closing", "ping", "retry", "end"}]
  /\ answer \in [Callers -> Answers]
  /\ crossed \subseteq Callers

InitCache ==
  /\ redis = NoClient /\ connected = FALSE
  /\ at = [c \in Callers |-> "idle"]
  /\ answer = [c \in Callers |-> "none"]
  /\ crossed = {}

-----------------------------------------------------------------------------
(* connect and disconnect, as the process starts and stops. *)

MakeClient == redis' = Startup /\ UNCHANGED <<connected, at, answer, crossed>>

Pinged(ok) ==
  /\ connected' = ok
  /\ redis' = IF ok THEN redis ELSE NoClient
  /\ UNCHANGED <<at, answer, crossed>>

CloseClient == redis' = NoClient /\ connected' = FALSE /\ UNCHANGED <<at, answer, crossed>>

-----------------------------------------------------------------------------
(* A call. *)

\* Mutant: only the flag is looked at.
Available_Flag == connected

\* is_available.
Available == connected /\ redis # NoClient

Return(c, what) ==
  /\ at' = [at EXCEPT ![c] = "end"]
  /\ answer' = [answer EXCEPT ![c] = what]

GoOn(c, p) == at' = [at EXCEPT ![c] = p] /\ UNCHANGED answer

\* A client that is gone by then has no attribute to call, and nothing catches that.
UseClient(c, p) == IF redis = NoClient THEN Return(c, "raised") ELSE GoOn(c, p)

Call(c) ==
  /\ at[c] = "idle"
  /\ IF Available THEN UseClient(c, "call") ELSE Return(c, "unavailable")
  /\ UNCHANGED <<redis, connected, crossed>>

\* Redis answers, or with an error that is not about the connection.
Served(c) ==
  /\ at[c] \in {"call", "retry"}
  /\ Return(c, "done") \/ Return(c, "unavailable")
  /\ UNCHANGED <<redis, connected, crossed>>

\* The next page of keys, and their UNLINK, by whatever client there is now.
NextBatch(c) ==
  /\ c \in Scans /\ at[c] \in {"call", "retry"}
  /\ UseClient(c, at[c])
  /\ UNCHANGED <<redis, connected, crossed>>

\* ConnectionError or TimeoutError: _reconnect, if there is still a client to close.
Lose(c) ==
  /\ at[c] = "call"
  /\ IF redis = NoClient THEN Return(c, "unavailable") ELSE GoOn(c, "closing")
  /\ UNCHANGED <<redis, connected, crossed>>

Replace(c) ==
  /\ at[c] = "closing"
  /\ redis' = c /\ connected' = FALSE
  /\ GoOn(c, "ping")
  /\ UNCHANGED crossed

\* The new client answers its ping, whether or not it is still the service's client.
Reconnected(c) ==
  /\ at[c] = "ping"
  /\ connected' = TRUE
  /\ UseClient(c, "retry")
  /\ UNCHANGED <<redis, crossed>>

\* The other calls that are going to use the client again.
Robbed(c) ==
  {d \in Callers \ {c} : at[d] = "ping" \/ (d \in Scans /\ at[d] \in {"call", "retry"})}

\* It does not: the cache is given up, whoever's client it is using by now.
ReconnectFailed(c) ==
  /\ at[c] = "ping"
  /\ connected' = FALSE /\ redis' = NoClient
  /\ crossed' = crossed \cup Robbed(c)
  /\ Return(c, "unavailable")

CacheStep(c) ==
  Call(c) \/ Served(c) \/ NextBatch(c) \/ Lose(c) \/ Replace(c) \/ Reconnected(c) \/ ReconnectFailed(c)

-----------------------------------------------------------------------------
(* Property. *)

\* The docstrings promise None, False or 0 when Redis is unavailable.  A caller gets an
\* AttributeError instead only if another call's reconnection has failed while it was
\* reconnecting itself, and finds its own client answering and the service's client gone, or
\* was between two commands of a scan.
RaiseNeedsCrossing == \A c \in Callers : answer[c] = "raised" => c \in crossed

================================================================================
