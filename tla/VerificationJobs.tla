--------------------------- MODULE VerificationJobs ---------------------------
(***************************************************************************)
(* Verification while others append: in the background, of all chains of a   *)
(* tenant (the in-memory job store, the asyncio task that pages through the   *)
(* events, the client that polls), or in a request, of all or of one.        *)
(*                                                                         *)
(* One clock stands for utc_now() and time.monotonic().  The job store       *)
(* lives in one process; a restart empties it.                              *)
(***************************************************************************)
EXTENDS Verification

CONSTANTS
  Jobs,        \* job ids
  Checks,      \* requests that verify before they answer
  None,        \* the subject_id of the verification of a whole tenant
  BATCH_SIZE,  \* events fetched by one query
  MAX_EVENTS,  \* verification_max_events
  MAX_AGE,     \* verification_job_max_age_seconds
  GRACE,       \* verification_job_grace_period_seconds
  Writer,      \* stands for the request that appended an event
  MaxSeq,      \* bound on event_seq
  MaxNow       \* bound on the clock

ASSUME VerificationAssumption ==
  /\ EventTypes # {}
  /\ BATCH_SIZE \in Nat \ {0}
  /\ {MAX_EVENTS, MAX_AGE, GRACE, MaxSeq, MaxNow} \subseteq Nat
  /\ Requests = {Writer}
  /\ None \notin Subjects /\ Jobs \cap Checks = {}

VARIABLES
  rows,      \* committed rows of table event
  tampered,  \* whether someone has changed rows behind the service's back
  jobs,      \* jobs[j]: the store's entry, NoJob if there is none
  response,  \* response[c]: what the client of a request was told
  subject_id, \* subject_id[v]: the subject that is verified, None for all of them
  task,      \* task[v]: where _run_verification_job, or the request, is
  offset,    \* offset[v]: the offset of the next page
  fetched,   \* fetched[v]: the events fetched so far
  intact,    \* intact[v]: history, whether the chains were intact at the first page
  quiet,     \* quiet[v]: history, no row of theirs was committed since then
  seen,      \* seen[j]: what the client's last poll returned
  now

reading == <<offset, fetched, intact, quiet>>
vars == <<rows, tampered, jobs, response, subject_id, task, reading, seen, now>>

Verifiers == Jobs \cup Checks

NoJob == [status |-> "404", verdict |-> "none", error |-> "none", created |-> 0, finished |-> 0]
Terminal == {"completed", "failed"}
Statuses == {"pending", "running", "404"} \cup Terminal
Errors == {"limit", "timeout", "database"}
Job == [status : Statuses, verdict : {"none", "valid", "invalid"},
        error : {"none"} \cup Errors, created : Nat, finished : Nat]

\* Types; a task that reads events has a job that says so, unless it was evicted; and a
\* finished job has the result or the error its status announces.
TypeOK ==
  /\ rows \in SUBSET Row
  /\ tampered \in BOOLEAN
  /\ jobs \in [Jobs -> Job]
  /\ response \in [Checks -> {"none", "valid", "invalid"} \cup Errors]
  /\ subject_id \in [Verifiers -> Subjects \cup {None}]
  /\ task \in [Verifiers -> {"none", "created", "count", "page", "ended"}]
  /\ offset \in [Verifiers -> Nat]
  /\ fetched \in [Verifiers -> Seq(Row)]
  /\ intact \in [Verifiers -> BOOLEAN]
  /\ quiet \in [Verifiers -> BOOLEAN]
  /\ seen \in [Jobs -> Statuses \cup {"nothing"}]
  /\ now \in Nat
  /\ \A j \in Jobs :
       /\ task[j] \in {"count", "page"} => jobs[j].status \in {"running", "404"}
       /\ jobs[j].status = "completed" <=> jobs[j].verdict # "none"
       /\ jobs[j].status = "failed" <=> jobs[j].error # "none"

Init ==
  /\ rows = {}
  /\ tampered = FALSE
  /\ jobs = [j \in Jobs |-> NoJob]
  /\ response = [c \in Checks |-> "none"]
  /\ subject_id = [v \in Verifiers |-> None]
  /\ task = [v \in Verifiers |-> "none"]
  /\ offset = [v \in Verifiers |-> 0]
  /\ fetched = [v \in Verifiers |-> << >>]
  /\ intact = [v \in Verifiers |-> TRUE]
  /\ quiet = [v \in Verifiers |-> TRUE]
  /\ seen = [j \in Jobs |-> "nothing"]
  /\ now = 0

-----------------------------------------------------------------------------
(***************************************************************************)
(* The job store.                                                          *)
(***************************************************************************)

\* Mutant: only finished jobs are evicted.
Expired_GraceOnly(job) == job.status \in Terminal /\ now - job.finished > GRACE

Expired(job) ==
  \/ now - job.created > MAX_AGE
  \/ job.status \in Terminal /\ now - job.finished > GRACE

\* _evict_expired.
Evict(store) == [j \in Jobs |-> IF Expired(store[j]) THEN NoJob ELSE store[j]]

\* update: nothing for a job that is not there, and eviction after the change.
Update(store, j, job) ==
  IF store[j].status = "404" THEN store ELSE Evict([store EXCEPT ![j] = job])

Running(job) == [job EXCEPT !.status = "running"]
Completed(job, verdict) ==
  [job EXCEPT !.status = "completed", !.verdict = verdict, !.finished = now]
Failed(job, error) == [job EXCEPT !.status = "failed", !.error = error, !.finished = now]

-----------------------------------------------------------------------------
(***************************************************************************)
(* A verification, from its start to its end.                               *)
(***************************************************************************)

\* Bound: one verification, as they share nothing but the rows they read.
Alone == \A v \in Verifiers : task[v] = "none"

\* POST /verify/tenant/all/start: store.set and asyncio.create_task.
StartJob(j) ==
  /\ task[j] = "none" /\ Alone /\ now + MAX_AGE < MaxNow  \* bound: the clock reaches its expiry
  /\ jobs' = [Evict(jobs) EXCEPT ![j] = [NoJob EXCEPT !.status = "pending", !.created = now]]
  /\ task' = [task EXCEPT ![j] = "created"]
  /\ UNCHANGED <<rows, tampered, response, subject_id, reading, seen, now>>

\* The task begins: nothing to do for a job that has been evicted, else "running".
RunJob(j) ==
  /\ task[j] = "created"
  /\ LET store == Evict(jobs)
     IN  /\ jobs' = Update(store, j, Running(store[j]))
         /\ task' = [task EXCEPT ![j] = IF store[j].status = "404" THEN "ended" ELSE "count"]
  /\ UNCHANGED <<rows, tampered, response, subject_id, reading, seen, now>>

\* GET /verify/tenant/all: counted first, as in the background.
CheckTenant(c) ==
  /\ task[c] = "none" /\ Alone
  /\ task' = [task EXCEPT ![c] = "count"]
  /\ UNCHANGED <<rows, tampered, jobs, response, subject_id, reading, seen, now>>

\* GET /verify/{subject_id}: no limit on the events, and none on the time.
CheckSubject(c) ==
  /\ task[c] = "none" /\ Alone
  /\ \E s \in Subjects : subject_id' = [subject_id EXCEPT ![c] = s]
  /\ task' = [task EXCEPT ![c] = "page"]
  /\ UNCHANGED <<rows, tampered, jobs, response, reading, seen, now>>

\* The task or the request is over, and what it has read is dropped.
Finish(v) ==
  /\ task' = [task EXCEPT ![v] = "ended"]
  /\ offset' = [offset EXCEPT ![v] = 0]
  /\ fetched' = [fetched EXCEPT ![v] = << >>]

\* The result is noted in the job's entry, or is the response.
End(v, result) ==
  /\ Finish(v)
  /\ \/ /\ v \in Jobs
        /\ jobs' = Update(jobs, v, IF result \in Errors THEN Failed(jobs[v], result)
                                   ELSE Completed(jobs[v], result))
        /\ UNCHANGED response
     \/ /\ v \in Checks
        /\ response' = [response EXCEPT ![v] = result]
        /\ UNCHANGED jobs

\* count_by_tenant against max_events.
CountEvents(v) ==
  /\ task[v] = "count"
  /\ \/ /\ Cardinality(rows) > MAX_EVENTS
        /\ End(v, "limit")
     \/ /\ Cardinality(rows) <= MAX_EVENTS
        /\ task' = [task EXCEPT ![v] = "page"]
        /\ UNCHANGED <<jobs, response, offset, fetched>>
  /\ UNCHANGED <<rows, tampered, subject_id, intact, quiet, seen, now>>

\* get_by_tenant and get_by_subject.
Verified(v) == IF subject_id[v] = None THEN rows ELSE RowsOf(rows, subject_id[v])

\* ORDER BY event_seq DESC OFFSET skip LIMIT limit.
Page(table, skip, limit) ==
  LET Newer(r) == {q \in table : q.seq > r.seq}
      page == {r \in table : Cardinality(Newer(r)) \in skip..(skip + limit - 1)}
  IN  [k \in 1..Cardinality(page) |-> CHOOSE r \in page : Cardinality(Newer(r)) = skip + k - 1]

\* One page; after the last the verdict, in the same step: nothing is awaited between the two.
FetchPage(v) ==
  LET batch == Page(Verified(v), offset[v], BATCH_SIZE)
      all == fetched[v] \o batch
  IN  /\ task[v] = "page"
      /\ UNCHANGED <<rows, tampered, subject_id, seen, now>>
      /\ \/ /\ Len(batch) = BATCH_SIZE
            /\ offset' = [offset EXCEPT ![v] = @ + BATCH_SIZE]
            /\ fetched' = [fetched EXCEPT ![v] = all]
            /\ UNCHANGED <<jobs, response, task>>
         \/ /\ Len(batch) < BATCH_SIZE
            /\ \E verdict \in {"valid", "invalid"} :
                 (verdict = "valid" <=> IsChainValid(all)) /\ End(v, verdict)
      /\ IF offset[v] = 0
           THEN /\ intact' = [intact EXCEPT ![v] = Intact(Verified(v))]
                /\ quiet' = [quiet EXCEPT ![v] = TRUE]
           ELSE UNCHANGED <<intact, quiet>>

\* Mutant: the time limit does not cancel the paging.
TimeOut_KeepsPaging(v) ==
  /\ task[v] = "page" /\ v \in Jobs
  /\ jobs' = Update(jobs, v, Failed(jobs[v], "timeout"))
  /\ UNCHANGED <<rows, tampered, response, subject_id, task, reading, seen, now>>

\* asyncio.wait_for: the paging through a tenant's events is cancelled.
TimeOut(v) ==
  /\ task[v] = "page" /\ subject_id[v] = None
  /\ End(v, "timeout")
  /\ UNCHANGED <<rows, tampered, subject_id, intact, quiet, seen, now>>

\* A query fails.
QueryFails(v) ==
  /\ task[v] \in {"count", "page"}
  /\ End(v, "database")
  /\ UNCHANGED <<rows, tampered, subject_id, intact, quiet, seen, now>>

\* The task is cancelled, or collected (nobody keeps a reference to it): CancelledError
\* is no Exception, so the store is not told.  A request is cancelled, and not answered.
DropTask(v) ==
  /\ task[v] \in {"created", "count", "page"}
  /\ Finish(v)
  /\ UNCHANGED <<rows, tampered, jobs, response, subject_id, intact, quiet, seen, now>>

\* GET /verify/tenant/jobs/{job_id}.
Poll(j) ==
  /\ task[j] # "none" /\ seen[j] # "404"
  /\ jobs' = Evict(jobs)
  /\ seen' = [seen EXCEPT ![j] = jobs'[j].status]
  /\ UNCHANGED <<rows, tampered, response, subject_id, task, reading, now>>

-----------------------------------------------------------------------------
(***************************************************************************)
(* The rest of the system.                                                 *)
(***************************************************************************)

\* An append commits: after the last event of its subject in time and in event_seq, but
\* maybe below an event of another subject that committed before it.
CommitAppend(s) ==
  \E q \in (1..MaxSeq) \ {r.seq : r \in rows} :
    LET last == CHOOSE r \in RowsOf(rows, s) : IsLastEvent(r, RowsOf(rows, s))
        content == [subject |-> s, type |-> CHOOSE t \in EventTypes : TRUE, payload |-> EmptyPayload,
                    time |-> IF RowsOf(rows, s) = {} THEN 1 ELSE last.content.time + 1]
        prev == IF RowsOf(rows, s) = {} THEN NoHash ELSE last.hash
    IN  /\ q <= Cardinality(rows) + 2  \* bound: one transaction that commits late
        /\ \A r \in RowsOf(rows, s) : r.seq < q
        /\ rows' = rows \cup {[id |-> <<Writer, q>>, content |-> content, prev |-> prev,
                               hash |-> compute_hash(content, prev), seq |-> q]}
        /\ quiet' = [v \in Verifiers |->
                       quiet[v] /\ ~(task[v] = "page" /\ subject_id[v] \in {s, None})]
        /\ UNCHANGED <<tampered, jobs, response, subject_id, task, offset, fetched, intact, seen, now>>

\* What someone with access to the database can make of a row: nothing, another payload
\* or time, with the hash as it was or recomputed.
Forgeries(r) ==
  LET contents == {[r.content EXCEPT !.payload = new[1], !.time = new[2]] :
                     new \in Payloads \X {r.content.time, r.content.time + 1}}
  IN  {{}} \cup {{[r EXCEPT !.content = c]} : c \in contents}
           \cup {{[r EXCEPT !.content = c, !.hash = compute_hash(c, r.prev)]} : c \in contents}

\* One row is changed or removed, before anyone reads.
Tamper ==
  /\ ~tampered
  /\ \A v \in Verifiers : task[v] = "none"
  /\ \E r \in rows : \E forged \in Forgeries(r) : rows' = (rows \ {r}) \cup forged
  /\ tampered' = TRUE
  /\ UNCHANGED <<jobs, response, subject_id, task, reading, seen, now>>

\* The process restarts: store and tasks are gone.
Restart ==
  /\ jobs' = [j \in Jobs |-> NoJob]
  /\ task' = [v \in Verifiers |-> IF task[v] = "none" THEN "none" ELSE "ended"]
  /\ offset' = [v \in Verifiers |-> 0]
  /\ fetched' = [v \in Verifiers |-> << >>]
  /\ UNCHANGED <<rows, tampered, response, subject_id, intact, quiet, seen, now>>

Tick ==
  /\ now < MaxNow
  /\ now' = now + 1
  /\ UNCHANGED <<rows, tampered, jobs, response, subject_id, task, reading, seen>>

Work(v) == RunJob(v) \/ CountEvents(v) \/ FetchPage(v)

Next ==
  \/ \E j \in Jobs : StartJob(j) \/ Poll(j)
  \/ \E c \in Checks : CheckTenant(c) \/ CheckSubject(c)
  \/ \E v \in Verifiers : Work(v) \/ TimeOut(v) \/ QueryFails(v) \/ DropTask(v)
  \/ \E s \in Subjects : CommitAppend(s)
  \/ Tamper
  \/ Restart
  \/ Tick

Spec == Init /\ [][Next]_vars

\* The event loop runs a task that is ready, the client polls on, and time passes.
FairSpec ==
  /\ Spec
  /\ \A j \in Jobs : WF_vars(Work(j)) /\ WF_vars(Poll(j))
  /\ WF_vars(Tick)

-----------------------------------------------------------------------------
(***************************************************************************)
(* Properties.                                                             *)
(***************************************************************************)

\* What the client of a verification is told of the chains.
Verdict(v) == IF v \in Jobs THEN jobs[v].verdict ELSE response[v]

\* Appends that commit while the pages are fetched shift the later pages; they never
\* hide an event, so a chain that was broken at the first page is never called valid.
BrokenChainNeverValid ==
  \A v \in Verifiers : Verdict(v) = "valid" => intact[v]

\* An intact chain is called invalid only if something was appended to it, or to another that is
\* verified with it, between the first page and the last (the shifted page repeats an event, which
\* looks like a break).
FalseAlarmNeedsAppend ==
  \A v \in Verifiers : Verdict(v) = "invalid" /\ quiet[v] => ~intact[v]

\* What is on the page of a job never goes back: a result is not replaced, a job that
\* is gone does not return.
Order == [pending |-> 1, running |-> 2, completed |-> 3, failed |-> 3]
StatusOnlyAdvances ==
  [][\A j \in Jobs : task[j] # "none" =>
       \/ jobs'[j].status = jobs[j].status
       \/ jobs'[j].status = "404"
       \/ /\ jobs[j].status # "404"
          /\ Order[jobs[j].status] < Order[jobs'[j].status]]_vars

\* A client that keeps polling learns a result or that there is none: even the job of
\* a dropped task, which says "running", is evicted in the end.
PollerGetsAnswer ==
  \A j \in Jobs : task[j] = "created" ~> seen[j] \in Terminal \cup {"404"}

===============================================================================
