----------------------------- MODULE SubjectState ------------------------------
(***************************************************************************)
(* The state of a subject, derived from its timeline: get_current_state      *)
(* (snapshot and tail, or a full replay), the creation of a snapshot, and    *)
(* the job that creates one for every subject, in one transaction.           *)
(*                                                                         *)
(* Readers and creators run at READ COMMITTED against timelines that others  *)
(* append to.  A timeline is what AppendLog promises: a sequence that only   *)
(* grows, in the order of event_time; an event is the payload at its index.  *)
(* Subjects are created, and deleted while they have no events: the foreign  *)
(* key of the table event refuses the deletion of any other.                 *)
(***************************************************************************)
EXTENDS Integers, Sequences, FiniteSets, SequencesExt

CONSTANTS
  Readers,       \* GET /subjects/{id}/state
  Creators,      \* POST /subjects/{id}/snapshot
  Runs,          \* POST /subjects/snapshots/run
  Listed,        \* the tenant's subjects at the start, as get_by_tenant lists them
  Newcomers,     \* subjects that may be created
  Targets,       \* the ways readers and creators may name subjects
  AsOf,          \* AsOf[r]: the number of events reader r's as_of admits
  Keys, Values,
  Stored,        \* Stored[s]: the events of s at the start
  Histories,     \* Histories[s]: what its timeline may become
  MAX_TAIL,      \* limit of get_events_chronological
  PAGE_SIZE,     \* SNAPSHOT_JOB_PAGE_SIZE
  Limits,        \* what a job may be called with as its limit
  NoSnapshot

Calls == Readers \cup Creators \cup Runs
ListedSubjects == ToSet(Listed) \cup Newcomers

\* state_json and payloads: keys with values.
State == UNION {[D -> Values] : D \in SUBSET Keys}
EmptyState == << >>

ASSUME StateAssumption ==
  /\ Readers \cap Creators = {} /\ Runs \cap (Readers \cup Creators) = {}
  /\ Listed \in Seq(ListedSubjects) /\ Newcomers \cap ToSet(Listed) = {}
  /\ Targets \subseteq [Readers \cup Creators -> ListedSubjects]
  /\ AsOf \in [Readers -> Nat]
  /\ Stored \in [ListedSubjects -> Seq(State)]
  /\ \A s \in Newcomers : Stored[s] = << >>
  /\ \A s \in ListedSubjects : \A h \in Histories[s] : h \in Seq(State) /\ IsPrefix(Stored[s], h)
  /\ {MAX_TAIL, PAGE_SIZE} \cup Limits \subseteq Nat \ {0}
  /\ NoSnapshot \notin [at : Nat, state : State, count : Nat]

\* at stands for snapshot_at_event_id, the event at that index.
Snapshot == [at : Nat, state : State, count : Nat]

VARIABLES
  listed,      \* the tenant's subjects, in the order of get_by_tenant: the newest first
  gone,        \* subjects that were deleted
  timeline,    \* timeline[s]: the payloads of the committed events of subject s
  snapshots,   \* snapshots[s]: the committed row of s in subject_snapshot, if any
  write,       \* write[r]: the snapshots r's open transaction has written, by subject
  session,     \* session[r]: its transaction is active, inactive or closed
  committed,   \* requests whose transaction was committed
  limit,       \* limit[r]: the most subjects job r goes through
  pc,
  page,        \* page[r]: the subjects r was called with, or has listed and not gone through
  total,       \* total[r]: total_processed of job r, and at the end of a page its skip
  base,        \* base[r]: the snapshot the derivation starts from, if any
  result,      \* result[r]: the StateResult of the derivation
  loaded,      \* loaded[r]: the row create_snapshot has loaded, if any
  report,      \* report[r]: the subjects behind the counts of job r's SnapshotRunResult
  begun,       \* begun[r]: how long the timeline was when reader r began (history)
  outcome      \* outcome[r]: what the client was told

stateVars == <<listed, gone, timeline, snapshots, write, session, committed, limit, pc, page, total,
               base, result, loaded, report, begun, outcome>>

PCs == {"list", "snapshot", "events", "load", "write", "answer", "commit", "done"}
Outcomes == {"none", "success", "not_found", "no_events", "error", "aborted"}
NoResult == [state |-> EmptyState, last |-> 0, count |-> 0]

\* Types; and a session that is not active holds nothing it might still commit.
StateTypeOK ==
  /\ listed \in Seq(ListedSubjects) /\ gone \subseteq ListedSubjects
  /\ timeline \in [ListedSubjects -> Seq(State)]
  /\ snapshots \in [ListedSubjects -> Snapshot \cup {NoSnapshot}]
  /\ DOMAIN write = Calls
  /\ \A r \in Calls :
       DOMAIN write[r] \subseteq ListedSubjects /\ \A s \in DOMAIN write[r] : write[r][s] \in Snapshot
  /\ session \in [Calls -> {"active", "inactive", "closed"}]
  /\ committed \in SUBSET Calls
  /\ limit \in [Runs -> Limits]
  /\ pc \in [Calls -> PCs]
  /\ page \in [Calls -> Seq(ListedSubjects)] /\ total \in [Runs -> Nat]
  /\ base \in [Calls -> Snapshot \cup {NoSnapshot}]
  /\ result \in [Calls -> [state : State, last : Nat, count : Nat]]
  /\ loaded \in [Calls -> Snapshot \cup {NoSnapshot}]
  /\ report \in [Runs -> [{"created", "skipped", "errors"} -> SUBSET ListedSubjects]]
  /\ begun \in [Readers -> Nat]
  /\ outcome \in [Calls -> Outcomes]
  /\ \A r \in Calls : session[r] # "active" => DOMAIN write[r] = {}

\* _apply_event, and the replay of events on a state.
ApplyEvent(state, payload) ==
  [k \in DOMAIN state \cup DOMAIN payload |-> IF k \in DOMAIN payload THEN payload[k] ELSE state[k]]
Replay(state, events) ==
  LET after[n \in 0..Len(events)] ==
        IF n = 0 THEN state ELSE ApplyEvent(after[n - 1], events[n])
  IN  after[Len(events)]

\* What create_snapshot stores for a subject with these events.
SnapshotOf(events) ==
  [at |-> Len(events), state |-> Replay(EmptyState, events), count |-> Len(events)]

\* A subject may have a snapshot already.
StateInit ==
  /\ listed = Listed
  /\ gone = {}
  /\ timeline = Stored
  /\ snapshots \in [ListedSubjects -> {NoSnapshot} \cup {SnapshotOf(Stored[s]) : s \in ListedSubjects}]
  /\ \A s \in ListedSubjects :
       snapshots[s] # NoSnapshot => Stored[s] # << >> /\ snapshots[s] = SnapshotOf(Stored[s])
  /\ write = [r \in Calls |-> << >>]
  /\ session = [r \in Calls |-> "active"]
  /\ committed = {}
  /\ limit \in [Runs -> Limits]
  /\ pc = [r \in Calls |-> IF r \in Runs THEN "list" ELSE "snapshot"]
  /\ \E subjectOf \in Targets :
       page = [r \in Calls |-> IF r \in Runs THEN << >> ELSE <<subjectOf[r]>>]
  /\ total = [r \in Runs |-> 0]
  /\ base = [r \in Calls |-> NoSnapshot]
  /\ result = [r \in Calls |-> NoResult]
  /\ loaded = [r \in Calls |-> NoSnapshot]
  /\ report = [r \in Runs |-> [kind \in {"created", "skipped", "errors"} |-> {}]]
  /\ begun = [r \in Readers |-> 0]
  /\ outcome = [r \in Calls |-> "none"]

-----------------------------------------------------------------------------
\* The subject r is at.
Current(r) == Head(page[r])

\* The row of s as r sees it, and the requests that hold its lock or its unique key.
View(r, s) == IF s \in DOMAIN write[r] THEN write[r][s] ELSE snapshots[s]
Holders(r) == {q \in Calls \ {r} : Current(r) \in DOMAIN write[q]}

Least(a, b) == IF a <= b THEN a ELSE b

\* How much of its subject's timeline as_of lets r see.
Admitted(r) ==
  IF r \in Readers THEN Least(AsOf[r], Len(timeline[Current(r)])) ELSE Len(timeline[Current(r)])

\* Mutants: the snapshot's own event is part of the tail; a snapshot has no tail.
EventsAfter_Inclusive(r, from) ==
  SubSeq(timeline[Current(r)], IF from = 0 THEN 1 ELSE from, Least(Admitted(r), from + MAX_TAIL))
EventsAfter_None(r, from) ==
  IF from = 0 THEN SubSeq(timeline[Current(r)], 1, Least(Admitted(r), MAX_TAIL)) ELSE << >>

\* get_events_chronological: at most MAX_TAIL of the events after the one at from.
EventsAfter(r, from) ==
  SubSeq(timeline[Current(r)], from + 1, Least(Admitted(r), from + MAX_TAIL))

-----------------------------------------------------------------------------
Goto(r, label) == pc' = [pc EXCEPT ![r] = label]

\* The exception leaves the route, and the transaction is rolled back.
Fail(r, error) ==
  /\ Goto(r, "done")
  /\ outcome' = [outcome EXCEPT ![r] = error]
  /\ write' = [write EXCEPT ![r] = << >>]
  /\ session' = [session EXCEPT ![r] = "closed"]
  /\ UNCHANGED <<limit, page, total, report>>

\* get_by_tenant: a page of the subjects there are by now, from the offset on.  A job that has
\* none to go through is at its end.  An inactive session refuses the query, and nobody
\* catches that.
ListPage(r) ==
  LET size == Least(PAGE_SIZE, limit[r] - total[r])
      subjects == SubSeq(listed, total[r] + 1, Least(Len(listed), total[r] + size))
  IN  /\ r \in Runs /\ pc[r] = "list"
      /\ \/ session[r] = "inactive" /\ Fail(r, "error")
         \/ /\ session[r] = "active"
            /\ page' = [page EXCEPT ![r] = subjects]
            /\ Goto(r, IF subjects = << >> THEN "answer" ELSE "snapshot")
            /\ UNCHANGED <<write, session, limit, total, report, outcome>>
      /\ UNCHANGED <<listed, gone, timeline, snapshots, committed, base, result, loaded, begun>>

\* The page was full, and the job may go through more subjects.
ListsAgain(r) == (total[r] + 1) % PAGE_SIZE = 0 /\ total[r] + 1 < limit[r]

\* The end of one subject, which a job counts as one of a kind.
NextSubject(r, kind, state) ==
  /\ session' = [session EXCEPT ![r] = state]
  /\ \/ /\ r \in Runs
        /\ report' = [report EXCEPT ![r][kind] = @ \cup {Current(r)}]
        /\ total' = [total EXCEPT ![r] = @ + 1]
        /\ page' = [page EXCEPT ![r] = Tail(@)]
        /\ Goto(r, IF Tail(page[r]) # << >> THEN "snapshot"
                   ELSE IF ListsAgain(r) THEN "list" ELSE "answer")
     \/ /\ r \notin Runs
        /\ Goto(r, "answer")
        /\ UNCHANGED <<report, total, page>>
  /\ UNCHANGED <<limit, outcome>>

\* get_current_state up to the choice between the snapshot and a full replay.  (Events are
\* never changed, so the snapshot's event needs no step of its own.)  A job counts a subject
\* that is not there any more as an error, and its session stays usable.
ReadSnapshot(r) ==
  LET row == View(r, Current(r))
  IN  /\ pc[r] = "snapshot"
      /\ \/ /\ session[r] = "active" /\ Current(r) \in ToSet(listed)
            /\ base' = [base EXCEPT ![r] =
                          IF row # NoSnapshot /\ (r \in Readers => row.at <= AsOf[r])
                            THEN row ELSE NoSnapshot]
            /\ begun' = [q \in Readers |-> IF q = r THEN Len(timeline[Current(r)]) ELSE begun[q]]
            /\ Goto(r, "events")
            /\ UNCHANGED <<write, session, limit, page, total, report, outcome>>
         \/ /\ session[r] = "active" /\ Current(r) \notin ToSet(listed)
            /\ \/ r \notin Runs /\ Fail(r, "not_found")
               \/ r \in Runs /\ NextSubject(r, "errors", "active") /\ UNCHANGED write
            /\ UNCHANGED <<base, begun>>
         \/ /\ session[r] = "inactive"
            /\ NextSubject(r, "errors", "inactive")
            /\ UNCHANGED <<write, base, begun>>
      /\ UNCHANGED <<listed, gone, timeline, snapshots, committed, result, loaded>>

\* The rest of get_current_state.  A reader has its answer; a subject without events is an
\* error to the creator of one snapshot, and is skipped by a job.
ReadEvents(r) ==
  LET from == IF base[r] = NoSnapshot THEN 0 ELSE base[r].at
      tail == EventsAfter(r, from)
      found == [state |-> Replay(IF from = 0 THEN EmptyState ELSE base[r].state, tail),
                last  |-> from + Len(tail),
                count |-> (IF from = 0 THEN 0 ELSE base[r].count) + Len(tail)]
  IN  /\ pc[r] = "events"
      /\ result' = [result EXCEPT ![r] = found]
      /\ \/ /\ r \in Readers
            /\ Goto(r, "done")
            /\ outcome' = [outcome EXCEPT ![r] = "success"]
            /\ UNCHANGED <<write, session, limit, page, total, report>>
         \/ /\ r \notin Readers /\ found.last > 0
            /\ Goto(r, "load")
            /\ UNCHANGED <<write, session, limit, page, total, report, outcome>>
         \/ /\ r \in Creators /\ found.last = 0
            /\ Fail(r, "no_events")
         \/ /\ r \in Runs /\ found.last = 0
            /\ NextSubject(r, "skipped", "active")
            /\ UNCHANGED write
      /\ UNCHANGED <<listed, gone, timeline, snapshots, committed, base, loaded, begun>>

\* create_snapshot of the repository looks for the subject's row.
LoadRow(r) ==
  /\ pc[r] = "load"
  /\ loaded' = [loaded EXCEPT ![r] = View(r, Current(r))]
  /\ Goto(r, "write")
  /\ UNCHANGED <<listed, gone, timeline, snapshots, write, session, committed, limit, page,
                 total, base, result, report, begun, outcome>>

\* Mutant: a savepoint keeps the session usable.
FlushFails_Savepoint(r) ==
  \/ r \in Creators /\ Fail(r, "error")
  \/ r \in Runs /\ NextSubject(r, "errors", "active") /\ UNCHANGED write

\* A refused insert rolls everything back and leaves the session inactive; a job catches the
\* exception and goes on.
FlushFails(r) ==
  \/ r \in Creators /\ Fail(r, "error")
  \/ /\ r \in Runs
     /\ NextSubject(r, "errors", "inactive")
     /\ write' = [write EXCEPT ![r] = << >>]

\* The UPDATE of a row sets the attributes that differ from what was loaded.
Updated(r, row) ==
  [row EXCEPT !.at = IF result[r].last # loaded[r].at THEN result[r].last ELSE @,
              !.state = IF result[r].state # loaded[r].state THEN result[r].state ELSE @,
              !.count = IF result[r].count # loaded[r].count THEN result[r].count ELSE @]

\* The flush: an UPDATE of the row that was loaded (none if nothing differs), or an INSERT,
\* refused if the subject has a row by now.  Both wait for other open transactions.
WriteRow(r) ==
  LET s == Current(r)
      row == View(r, s)
      same == loaded[r] # NoSnapshot /\ Updated(r, loaded[r]) = loaded[r]
  IN  /\ pc[r] = "write"
      /\ same \/ Holders(r) = {}
      /\ \/ /\ loaded[r] = NoSnapshot /\ row # NoSnapshot
            /\ FlushFails(r)
         \/ /\ loaded[r] = NoSnapshot => row = NoSnapshot
            /\ NextSubject(r, "created", "active")
            /\ \/ same /\ UNCHANGED write
               \/ /\ ~same
                  /\ write' = [write EXCEPT ![r] =
                       [t \in DOMAIN @ \cup {s} |->
                          IF t # s THEN @[t]
                          ELSE IF row # NoSnapshot THEN Updated(r, row)
                          ELSE [at |-> result[r].last, state |-> result[r].state,
                                count |-> result[r].count]]]
      /\ UNCHANGED <<listed, gone, timeline, snapshots, committed, base, result, loaded, begun>>

\* The response is sent before the exit code of the dependencies runs.
Answer(r) ==
  /\ pc[r] = "answer"
  /\ outcome' = [outcome EXCEPT ![r] = "success"]
  /\ Goto(r, "commit")
  /\ UNCHANGED <<listed, gone, timeline, snapshots, write, session, committed, limit, page,
                 total, base, result, loaded, report, begun>>

\* ensure_audit_logged, whose failure is caught, and the end of session.begin().
CommitOrClose(r) ==
  /\ pc[r] = "commit"
  /\ \/ /\ session[r] = "active"
        /\ snapshots' = [s \in ListedSubjects |-> View(r, s)]
        /\ committed' = committed \cup {r}
     \/ UNCHANGED <<snapshots, committed>>
  /\ write' = [write EXCEPT ![r] = << >>]
  /\ session' = [session EXCEPT ![r] = "closed"]
  /\ Goto(r, "done")
  /\ UNCHANGED <<listed, gone, timeline, limit, page, total, base, result, loaded, report,
                 begun, outcome>>

\* The request is cancelled or its process dies.
Abort(r) ==
  /\ pc[r] # "done"
  /\ Fail(r, IF outcome[r] = "none" THEN "aborted" ELSE outcome[r])
  /\ UNCHANGED <<listed, gone, timeline, snapshots, committed, base, result, loaded, begun>>

\* An append is committed.
AppendEvent(s) ==
  /\ s \in ToSet(listed)
  /\ \E h \in Histories[s] :
       /\ IsStrictPrefix(timeline[s], h)
       /\ timeline' = [timeline EXCEPT ![s] = SubSeq(h, 1, Len(@) + 1)]
  /\ UNCHANGED <<listed, gone, snapshots, write, session, committed, limit, pc, page, total,
                 base, result, loaded, report, begun, outcome>>

\* A subject is created, or deleted.  One without events has no snapshot, which would name
\* its last event.
CreateSubject(s) ==
  /\ s \in Newcomers \ (ToSet(listed) \cup gone)
  /\ listed' = <<s>> \o listed
  /\ UNCHANGED <<gone, timeline, snapshots, write, session, committed, limit, pc, page, total,
                 base, result, loaded, report, begun, outcome>>
DeleteSubject(s) ==
  /\ timeline[s] = << >>
  /\ \E i \in DOMAIN listed : listed[i] = s /\ listed' = RemoveAt(listed, i)
  /\ gone' = gone \cup {s}
  /\ UNCHANGED <<timeline, snapshots, write, session, committed, limit, pc, page, total, base,
                 result, loaded, report, begun, outcome>>

Step(r) ==
  \/ ListPage(r) \/ ReadSnapshot(r) \/ ReadEvents(r) \/ LoadRow(r) \/ WriteRow(r)
  \/ Answer(r) \/ CommitOrClose(r)

AllDone ==
  /\ \A r \in Calls : pc[r] = "done"
  /\ UNCHANGED stateVars

StateNext ==
  \/ \E r \in Calls : Step(r) \/ Abort(r)
  \/ \E s \in ListedSubjects : AppendEvent(s) \/ CreateSubject(s) \/ DeleteSubject(s)
  \/ AllDone

StateSpec == StateInit /\ [][StateNext]_stateVars

-----------------------------------------------------------------------------
(***************************************************************************)
(* Properties.                                                             *)
(***************************************************************************)

\* The state after the first n events of s, by a full replay.
StateAt(s, n) == Replay(EmptyState, SubSeq(timeline[s], 1, n))

\* No two states in the history of s are equal.
NeverRepeats(s) ==
  \A m, n \in 0..Len(timeline[s]) : StateAt(s, m) = StateAt(s, n) => m = n

\* The readers that have been answered.
Answered == {r \in Readers : outcome[r] = "success"}

\* An answer is that of a full replay up to its last event, none of which as_of excludes,
\* although snapshots come and go between the two reads behind it.  (The state only for a
\* subject whose states never repeat: two overlapping creations may leave the event of one
\* and the state of the other in the row, see Updated, when a state comes back.)
AnswerIsReplay ==
  \A r \in Answered :
    LET s == Current(r)
    IN  /\ result[r].count = result[r].last /\ result[r].last <= Least(AsOf[r], Len(timeline[s]))
        /\ NeverRepeats(s) => result[r].state = StateAt(s, result[r].last)

\* A reader sees every event that was committed when it began and that as_of admits, however
\* old the snapshot, unless there are more than MAX_TAIL of them to replay.
AnswerIsCurrent ==
  \A r \in Answered :
    \/ result[r].last >= Least(begun[r], AsOf[r])
    \/ result[r].last >= MAX_TAIL

\* A job that reports an error for a subject that is still there has lost everything that it
\* reports as created: nothing of it is stored.  An error for a subject that was deleted
\* before its turn costs nothing: all that a committed job reports as created is stored.
ErrorsLoseTheRun ==
  \A r \in Runs :
    /\ report[r].errors \ gone # {} => r \notin committed /\ DOMAIN write[r] = {}
    /\ r \in committed => \A s \in report[r].created : snapshots[s] # NoSnapshot

===============================================================================
