---------------------------- MODULE MCEventAppend -----------------------------
(***************************************************************************)
(* Small instances of EventAppend: constants of its runs.                   *)
(***************************************************************************)
EXTENDS EventAppend

CONSTANTS
  s1, s2,       \* subjects
  a, b, c, d,   \* event types
  p, none,      \* payloads
  r1, r2, b1, b2

Event(s, t, payload, time) == [subject |-> s, type |-> t, payload |-> payload, time |-> time]

AnyType == [s \in Subjects |-> EventTypes]
AnyPayload == [t \in EventTypes |-> Payloads]

NoRule == [required |-> {}, payloadIs |-> [t \in {} |-> {}], max |-> 0, fresh |-> NoType]
NoRules == [t \in EventTypes |-> NoRule]

\* Two single appends, of which one is a client's retry of the other in some initial
\* states, against a batch.  c needs a b and, last of its type, an a with payload p,
\* and to recur a newer a; d is not allowed.
MixedTypes == [s \in Subjects |-> EventTypes \ {d}]
MixedRules ==
  [t \in EventTypes |-> IF t = c THEN [required |-> {a, b}, payloadIs |-> [u \in {a} |-> {p}],
                                       max |-> 2, fresh |-> a]
                                 ELSE NoRule]
MixedCreates == {Event(s1, a, p, 1), Event(s1, b, none, 2), Event(s1, c, p, 3),
                 Event(s1, d, p, 1)}
MixedBatches == {<<Event(s1, a, p, 1), Event(s1, b, p, 2)>>, <<Event(s1, a, p, 2)>>,
                 <<Event(s1, b, p, 2), Event(s1, c, p, 3)>>, <<Event(s1, d, p, 1)>>}

\* Two subjects, two batches that may cross, and a single append.
CrossCreates == {Event(s1, a, p, 0), Event(s2, a, p, 1)}
CrossBatches == {<<Event(s1, a, p, 0), Event(s2, a, p, 0)>>,
                 <<Event(s2, a, p, 0), Event(s1, a, p, 1)>>}

===============================================================================
