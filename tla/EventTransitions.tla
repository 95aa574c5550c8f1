--------------------------- MODULE EventTransitions ---------------------------
(***************************************************************************)
(* EventTransitionValidator: whether the rule of an event type lets it be    *)
(* emitted on a stream, given the rows the validator reads.  The stream is   *)
(* the subject's timeline (workflow_instance_id = None).                     *)
(***************************************************************************)
EXTENDS EventStore

CONSTANTS
  Rules,    \* Rules[t]: the transition rule of event type t
  NoType    \* stands for fresh_prior_event_type = None

\* required_prior_event_types, prior_event_payload_conditions (the payloads that
\* satisfy the condition on a prior type), max_occurrences_per_stream (0: None)
\* and fresh_prior_event_type.  A type with no rule has the rule that asks nothing.
Rule == [required : SUBSET EventTypes,
         payloadIs : UNION {[T -> SUBSET Payloads] : T \in SUBSET EventTypes},
         max : Nat,
         fresh : EventTypes \cup {NoType}]

ASSUME RulesAssumption == Rules \in [EventTypes -> Rule] /\ NoType \notin EventTypes

OfType(rows, t) == {r \in rows : r.content.type = t}

\* _last_event_of_type over the chronological list; event times differ in a stream.
IsLastOfType(r, rows, t) ==
  /\ r \in OfType(rows, t)
  /\ \A q \in OfType(rows, t) : q.content.time <= r.content.time

\* Mutant: one prior type is enough.
PriorsSeen_Any(rule, rows) == rule.required = {} \/ \E t \in rule.required : OfType(rows, t) # {}

PriorsSeen(rule, rows) == \A t \in rule.required : OfType(rows, t) # {}

PriorPayloadsMatch(rule, rows) ==
  \A t \in DOMAIN rule.payloadIs :
    \E r \in rows : IsLastOfType(r, rows, t) /\ r.content.payload \in rule.payloadIs[t]

BelowMaxOccurrences(rule, rows, type) ==
  rule.max = 0 \/ Cardinality(OfType(rows, type)) < rule.max

FreshPriorSeen(rule, rows, type) ==
  \/ rule.fresh = NoType
  \/ OfType(rows, type) = {}
  \/ \E r, q \in rows : /\ IsLastOfType(r, rows, rule.fresh)
                        /\ IsLastOfType(q, rows, type)
                        /\ r.content.time > q.content.time

\* validate_can_emit.
CanEmit(rows, type) ==
  LET rule == Rules[type]
  IN  /\ PriorsSeen(rule, rows)
      /\ PriorPayloadsMatch(rule, rows)
      /\ BelowMaxOccurrences(rule, rows, type)
      /\ FreshPriorSeen(rule, rows, type)

===============================================================================
