------------------------------ MODULE EventStore ------------------------------
(***************************************************************************)
(* The event table: what a row is, how its hash is computed, which row a    *)
(* reader takes for the last one of a subject, and what the two families of *)
(* unique indexes refuse.  Every component that appends to, reads or        *)
(* verifies a timeline uses these definitions.                              *)
(*                                                                         *)
(* SHA-256 is modelled by what its callers rely on, that it is injective:   *)
(* the hash of an event is the sequence of the contents of the chain that   *)
(* ends in it, so two hashes are equal exactly when the two histories are.  *)
(* schema_version, workflow_instance_id and correlation_id are not told     *)
(* apart from the payload.                                                  *)
(***************************************************************************)
EXTENDS Integers, Sequences, FiniteSets

CONSTANTS
  Subjects,      \* ids of the subjects that own a timeline
  EventTypes,    \* names of event types
  Payloads,      \* payloads an event may carry
  EmptyPayload,  \* the payload {}
  Requests       \* calls of the event service; a row id names the call it comes from

ASSUME EmptyPayloadAssumption == EmptyPayload \in Payloads

\* What the caller supplies (EventCreate) and compute_hash covers.
Content == [subject : Subjects, type : EventTypes, payload : Payloads, time : Nat]

\* previous_hash IS NULL: the hash of the empty history.
NoHash == << >>

Hashes == Seq(Content)

\* HashService.compute_hash.
compute_hash(content, previousHash) == Append(previousHash, content)

\* A row of table event.  id stands for the CUID, seq for event_seq.
Row == [id : Requests \X Nat, content : Content, prev : Hashes, hash : Hashes, seq : Nat]

RowsOf(rows, s) == {r \in rows : r.content.subject = s}

\* ORDER BY event_seq DESC LIMIT 1.
IsLastEvent(r, rows) == r \in rows /\ \A q \in rows : q.seq <= r.seq

\* Mutants: without the chain integrity indexes, or without the one on genesis events.
Collides_HashOnly(r, q) == r.hash = q.hash
Collides_NoGenesisIndex(r, q) ==
  \/ r.content.subject = q.content.subject /\ r.prev = q.prev /\ r.prev # NoHash
  \/ r.hash = q.hash

(***************************************************************************)
(* Two rows collide when an index holds one key for both: a genesis event    *)
(* per subject, a successor per (subject, previous_hash), and the hash.      *)
(***************************************************************************)
Collides(r, q) ==
  \/ r.content.subject = q.content.subject /\ r.prev = q.prev
  \/ r.hash = q.hash

-----------------------------------------------------------------------------
(***************************************************************************)
(* What makes a set of rows a well-formed set of chains.                    *)
(***************************************************************************)

\* Every hash is the one compute_hash gives for the row.
HashesRecompute(rows) ==
  \A r \in rows : r.hash = compute_hash(r.content, r.prev)

\* No two rows of a subject have the same predecessor.
NoFork(rows) ==
  \A r, q \in rows : r.content.subject = q.content.subject /\ r.prev = q.prev => r = q

\* p is the event r links back to, older in time and in insertion order.
IsParent(p, r) ==
  /\ p.content.subject = r.content.subject
  /\ p.hash = r.prev
  /\ p.content.time < r.content.time
  /\ p.seq < r.seq

\* Every row that is not a genesis event has its parent among the rows.
LinkedToParent(rows) ==
  \A r \in rows : r.prev # NoHash => \E p \in rows : IsParent(p, r)

===============================================================================
