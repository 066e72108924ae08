--------------------------- MODULE IngestionQueue ---------------------------
(***************************************************************************)
(* The ingestion jobs and the workers that take them: claim_job of         *)
(* apps/worker/src/pipeline.py and consume_once of apps/worker/src/main.py *)
(* on the table ingestion_jobs.                                            *)
(*                                                                         *)
(* A job is claimed for 300 seconds.  Nobody renews a lease: a worker that *)
(* is slow loses its job to another one and still reports its failure when *)
(* its handler raises.  A worker that dies leaves the job under its lease, *)
(* and the job is claimed again when the lease has run out, up to          *)
(* MaxAttempts times in all.                                               *)
(*                                                                         *)
(* External: the handler itself.  The repository registers none (main.py,  *)
(* HANDLERS); of what a handler does, the worker sees that it returns, and *)
(* then writes nothing, or that it raises.  Claims, reports and requests   *)
(* are transactions on one row and one step each.  Left out:               *)
(* ingestion_events, a log that nothing reads, and the stage column, which *)
(* repeats the status.                                                     *)
(***************************************************************************)
EXTENDS Naturals, FiniteSets

CONSTANTS
    Jobs,           \* identifiers of ingestion_jobs rows
    NoJob,
    Workers,        \* worker processes, each with its WORKER_ID
    NoWorker,
    MaxAttempts,    \* 5 in the code
    ClaimedColumns, \* the columns of the row claim_job hands to consume_once
    MaxJobs         \* bound of the model: jobs requested

ASSUME QueueAssumption ==
    /\ MaxAttempts \in Nat \ {0}
    /\ MaxJobs \in Nat
    /\ NoJob \notin Jobs
    /\ NoWorker \notin Workers

\* What UPDATE ... RETURNING * returns of a job: the table has no source_type.
JobColumns == {"id", "source_version_id", "status", "attempts", "lease_owner",
               "lease_expires_at", "next_attempt_at"}

VARIABLES
    queue,  \* the jobs that were requested
    job,    \* ingestion_jobs rows
    worker  \* per process: what consume_once is doing

queueVars == <<queue, job, worker>>

Row == [status : {"queued", "validating", "completed", "failed"},
        attempts : 0 .. MaxAttempts,
        owner : Workers \cup {NoWorker},
        lease : {"none", "live", "expired"},  \* lease_expires_at
        due : BOOLEAN]                        \* next_attempt_at is NULL or past

Process == [pc : {"idle", "handling", "down"},
            job : Jobs \cup {NoJob},
            attempts : 0 .. MaxAttempts]      \* attempts of the row it claimed

NewJob == [status |-> "queued", attempts |-> 0, owner |-> NoWorker,
           lease |-> "none", due |-> TRUE]
Idle == [pc |-> "idle", job |-> NoJob, attempts |-> 0]
Down == [pc |-> "down", job |-> NoJob, attempts |-> 0]

QueueInit ==
    /\ queue = {}
    /\ job = [j \in Jobs |-> NewJob]
    /\ worker = [w \in Workers |-> Idle]

-----------------------------------------------------------------------------
\* The upsert of request_ingest.  Asking again finds the row and changes nothing.
Enqueue(j) ==
    /\ j \notin queue
    /\ Cardinality(queue) < MaxJobs
    /\ queue' = queue \cup {j}
    /\ UNCHANGED <<job, worker>>

\* The lease of a job runs out.
LeaseExpires(j) ==
    /\ job[j].lease = "live"
    /\ job' = [job EXCEPT ![j].lease = "expired"]
    /\ UNCHANGED <<queue, worker>>

\* The minute that a failed attempt has to wait is over.
RetryDue(j) ==
    /\ ~job[j].due
    /\ job' = [job EXCEPT ![j].due = TRUE]
    /\ UNCHANGED <<queue, worker>>

Claimable(j) ==
    /\ \/ job[j].status = "queued"
       \/ /\ job[j].status \notin {"completed", "failed"}
          /\ job[j].lease = "expired"
    /\ job[j].attempts < MaxAttempts
    /\ job[j].due

Claimed(w, row) ==
    [row EXCEPT !.status = "validating", !.attempts = row.attempts + 1,
                !.owner = w, !.lease = "live"]

\* consume_once looks up job["source_type"] before its try block: a row that
\* has no such column ends the process.
Taken(j, attempts) ==
    IF "source_type" \in ClaimedColumns
      THEN [pc |-> "handling", job |-> j, attempts |-> attempts]
      ELSE Down

\* The query wants the oldest claimable job, but passes over the rows that other
\* transactions have locked (SKIP LOCKED): a worker may get any of them.
Claim(w) ==
    /\ worker[w].pc = "idle"
    /\ \E j \in queue :
          /\ Claimable(j)
          /\ job' = [job EXCEPT ![j] = Claimed(w, @)]
          /\ worker' = [worker EXCEPT ![w] = Taken(j, job[j].attempts + 1)]
    /\ UNCHANGED queue

HandlerReturns(w) ==
    /\ worker[w].pc = "handling"
    /\ worker' = [worker EXCEPT ![w] = Idle]
    /\ UNCHANGED <<queue, job>>

\* Mutant: the lease is left on the row.
ReleasedUnderLease(row, exhausted) ==
    [row EXCEPT !.status = IF exhausted THEN "failed" ELSE "queued",
                !.due = exhausted]

\* The row after a failed attempt: the last attempt fails the job.
Released(row, exhausted) ==
    [row EXCEPT !.status = IF exhausted THEN "failed" ELSE "queued",
                !.owner = NoWorker, !.lease = "none", !.due = exhausted]

\* Mutant: the report does not ask whose job it is.
HoldsAnyLease(w, j) == TRUE

HoldsLease(w, j) == job[j].owner = w

\* The report of a worker whose job another one has taken over, or that was
\* completed meanwhile, matches no row.
HandlerFails(w) ==
    LET j == worker[w].job
        exhausted == worker[w].attempts >= MaxAttempts
    IN  /\ worker[w].pc = "handling"
        /\ job' = IF HoldsLease(w, j)
                    THEN [job EXCEPT ![j] = Released(@, exhausted)]
                    ELSE job
        /\ worker' = [worker EXCEPT ![w] = Idle]
        /\ UNCHANGED queue

Crash(w) ==
    /\ worker[w].pc # "down"
    /\ worker' = [worker EXCEPT ![w] = Down]
    /\ UNCHANGED <<queue, job>>

\* The container is started again.
Restart(w) ==
    /\ worker[w].pc = "down"
    /\ worker' = [worker EXCEPT ![w] = Idle]
    /\ UNCHANGED <<queue, job>>

WorkerStep(w) ==
    \/ Claim(w)
    \/ HandlerReturns(w)
    \/ HandlerFails(w)
    \/ Crash(w)
    \/ Restart(w)

QueueStep ==
    \/ \E w \in Workers : WorkerStep(w)
    \/ \E j \in Jobs : LeaseExpires(j) \/ RetryDue(j)

-----------------------------------------------------------------------------
QueueTypeOK ==
    /\ queue \subseteq Jobs
    /\ job \in [Jobs -> Row]
    /\ worker \in [Workers -> Process]

RowAgrees(row) ==
    /\ row.status = "validating" <=> row.owner # NoWorker
    /\ row.status = "validating" <=> row.lease # "none"
    /\ row.status = "queued" => row.attempts < MaxAttempts
    /\ row.status = "failed" => row.attempts = MaxAttempts

\* A job is under a lease exactly while an attempt is open, a queued job has
\* attempts left, and a job fails only when all its attempts were made, however
\* late the workers it was taken from report (consume_once).
JobsAgree == \A j \in Jobs : RowAgrees(job[j])

\* A row under a lease changes only because time passes, because its own worker
\* reports, because the lease has run out and another attempt is counted, or
\* because the work is done; and a finished job is not opened again
\* (claim_job, consume_once).
LeaseRespected ==
    [][\A j \in Jobs :
         LET old == job[j]
             new == job'[j]
         IN  /\ old.status = "completed" => new.status = "completed"
             /\ old.status = "failed" => new.status \in {"failed", "completed"}
             /\ (old.owner # NoWorker /\ new.owner # old.owner) =>
                   \/ new.status = "completed"
                   \/ /\ worker[old.owner].pc = "handling"
                      /\ worker[old.owner].job = j
                      /\ worker'[old.owner].pc = "idle"
                      /\ new.attempts = old.attempts
                   \/ /\ old.lease = "expired"
                      /\ new.attempts = old.attempts + 1]_queueVars
=============================================================================
