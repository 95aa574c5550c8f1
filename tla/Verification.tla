----------------------------- MODULE Verification -----------------------------
(***************************************************************************)
(* VerificationService as pure operators: how a list of fetched events is    *)
(* sorted, grouped by subject and judged, and the chain it is meant to       *)
(* accept.                                                                 *)
(***************************************************************************)
EXTENDS EventStore

\* The places of a subject's events in the list.
OfSubject(events, s) == {i \in DOMAIN events : events[i].content.subject = s}

\* sorted(..., key=event_time), of the events in places I: stable, so events of one time keep
\* the order in which they were fetched.
SortedByTime(events, I) ==
  LET Before(i, j) == \/ events[i].content.time < events[j].content.time
                      \/ events[i].content.time = events[j].content.time /\ i < j
      Rank(i) == Cardinality({j \in I : Before(j, i)})
  IN  [k \in 1..Cardinality(I) |-> events[CHOOSE i \in I : Rank(i) = k - 1]]

\* Mutants: the first event is not checked to be a genesis event; the link of an event
\* is not checked when its hash is right.
VerifyEvent_NoGenesis(chain, i) ==
  IF compute_hash(chain[i].content, chain[i].prev) # chain[i].hash THEN "HASH_MISMATCH"
  ELSE IF i > 1 /\ chain[i].prev # chain[i - 1].hash THEN "CHAIN_BREAK"
  ELSE "valid"
VerifyEvent_OffByOne(chain, i) ==
  IF compute_hash(chain[i].content, chain[i].prev) # chain[i].hash THEN "HASH_MISMATCH"
  ELSE IF chain[i].prev # NoHash /\ i = 1 THEN "GENESIS_ERROR"
  ELSE IF i > 1 /\ chain[i].prev # chain[1].hash THEN "CHAIN_BREAK"
  ELSE "valid"

\* _verify_event, for the i-th event of a sorted chain.
VerifyEvent(chain, i) ==
  IF compute_hash(chain[i].content, chain[i].prev) # chain[i].hash THEN "HASH_MISMATCH"
  ELSE IF i = 1 /\ chain[i].prev # NoHash THEN "GENESIS_ERROR"
  ELSE IF i > 1 /\ chain[i].prev # chain[i - 1].hash THEN "CHAIN_BREAK"
  ELSE "valid"

\* _verify_tenant_events: is_chain_valid is invalid == 0.
IsChainValid(events) ==
  \A s \in Subjects :
    LET chain == SortedByTime(events, OfSubject(events, s))
    IN  \A i \in DOMAIN chain : VerifyEvent(chain, i) = "valid"

\* The chain the verification is meant to accept: every hash is right, and every event
\* but one per subject follows one older event that no other follows.
Intact(rows) ==
  /\ HashesRecompute(rows)
  /\ NoFork(rows)
  /\ \A r \in rows : r.prev # NoHash =>
       \E q \in RowsOf(rows, r.content.subject) :
         q.hash = r.prev /\ q.content.time < r.content.time

===============================================================================
