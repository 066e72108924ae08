------------------------ MODULE KnowledgeBase_proofs ------------------------
(***************************************************************************)
(* The safety properties of KnowledgeBase, for any sources, texts, workers *)
(* and number of attempts.                                                 *)
(***************************************************************************)
EXTENDS KnowledgeBase, TLAPS

-----------------------------------------------------------------------------
(***************************************************************************)
(* The queue.                                                              *)
(***************************************************************************)

\* A worker that still holds the lease of its job counts the attempts as the
\* row does.
CountsAlike(w, j) == job[j].owner = w => worker[w].attempts = job[j].attempts
WorkerKnows ==
    \A w \in Workers : worker[w].pc = "handling" =>
        worker[w].job \in Jobs /\ CountsAlike(w, worker[w].job)

QInv == QueueTypeOK /\ JobsAgree /\ WorkerKnows

\* What a claim makes of a row.
LEMMA ClaimedRow ==
    ASSUME NEW r \in Row, NEW w \in Workers, r.attempts < MaxAttempts
    PROVE  /\ Claimed(w, r) \in Row
           /\ Claimed(w, r).status = "validating"
           /\ Claimed(w, r).attempts = r.attempts + 1
           /\ Claimed(w, r).owner = w
           /\ Claimed(w, r).lease = "live"
  <1>1. r.attempts + 1 \in 0 .. MaxAttempts
    BY QueueAssumption DEF Row
  <1>. QED
    BY <1>1 DEF Claimed, Row

\* What the report of a failure makes of a row.
LEMMA ReleasedRow ==
    ASSUME NEW r \in Row, NEW exhausted \in BOOLEAN
    PROVE  /\ Released(r, exhausted) \in Row
           /\ Released(r, exhausted).status = IF exhausted THEN "failed" ELSE "queued"
           /\ Released(r, exhausted).attempts = r.attempts
           /\ Released(r, exhausted).owner = NoWorker
           /\ Released(r, exhausted).lease = "none"
  BY QueueAssumption DEF Released, Row

\* What the processing script makes of the row it is given.
LEMMA CompletedRow ==
    ASSUME NEW r \in Row
    PROVE  /\ Completed(r) \in Row
           /\ Completed(r).status = "completed"
           /\ Completed(r).attempts = r.attempts
           /\ Completed(r).owner = NoWorker
           /\ Completed(r).lease = "none"
  BY QueueAssumption DEF Completed, Row

\* The queue invariant holds initially.
LEMMA InitQInv == QueueInit => QInv
  <1>1. SUFFICES ASSUME QueueInit PROVE QInv
    OBVIOUS
  <1>2. QueueTypeOK
    BY <1>1, QueueAssumption
    DEF QueueInit, QueueTypeOK, Row, Process, NewJob, Idle
  <1>3. JobsAgree
    <2>. SUFFICES ASSUME NEW j \in Jobs
         PROVE  /\ job[j].status = "queued"
                /\ job[j].owner = NoWorker
                /\ job[j].lease = "none"
                /\ job[j].attempts < MaxAttempts
      BY DEF JobsAgree, RowAgrees
    <2>. QED
      BY <1>1, QueueAssumption DEF QueueInit, NewJob
  <1>4. WorkerKnows
    BY <1>1 DEF QueueInit, WorkerKnows, Idle
  <1>. QED
    BY <1>2, <1>3, <1>4 DEF QInv

\* Replacing one row by another that agrees with itself, no worker moving, keeps
\* the invariant if the new row has no owner, or the owner and attempts of the old.
LEMMA OneRow ==
    ASSUME QInv, NEW j \in Jobs, NEW r \in Row, RowAgrees(r),
           job' = [job EXCEPT ![j] = r], UNCHANGED <<queue, worker>>,
           \/ r.owner = NoWorker
           \/ r.owner = job[j].owner /\ r.attempts = job[j].attempts
    PROVE  QInv'
  <1>1. QueueTypeOK'
    BY DEF QInv, QueueTypeOK
  <1>2. JobsAgree'
    BY DEF QInv, QueueTypeOK, JobsAgree
  <1>3. WorkerKnows'
    BY QueueAssumption DEF QInv, QueueTypeOK, WorkerKnows, CountsAlike
  <1>. QED
    BY <1>1, <1>2, <1>3 DEF QInv

\* A worker that stops handling, the rows staying as they are, keeps it too.
LEMMA OneWorker ==
    ASSUME QInv, NEW w \in Workers, NEW p \in {Idle, Down},
           worker' = [worker EXCEPT ![w] = p], UNCHANGED <<queue, job>>
    PROVE  QInv'
  <1>1. p \in Process /\ p.pc # "handling"
    BY QueueAssumption DEF Idle, Down, Process
  <1>2. QueueTypeOK'
    BY <1>1 DEF QInv, QueueTypeOK
  <1>3. JobsAgree'
    BY DEF QInv, JobsAgree
  <1>4. WorkerKnows'
    BY <1>1 DEF QInv, QueueTypeOK, WorkerKnows, CountsAlike
  <1>. QED
    BY <1>2, <1>3, <1>4 DEF QInv

\* claim_job takes a claimable row under a new lease.
LEMMA ClaimQInv ==
    ASSUME QInv, NEW w \in Workers, Claim(w)
    PROVE  QInv'
  <1>1. PICK j \in queue :
          /\ Claimable(j)
          /\ job' = [job EXCEPT ![j] = Claimed(w, @)]
          /\ worker' = [worker EXCEPT ![w] = Taken(j, job[j].attempts + 1)]
    BY DEF Claim
  <1>. DEFINE p == Taken(j, job[j].attempts + 1)
  <1>2. j \in Jobs
    BY DEF QInv, QueueTypeOK
  <1>3. job[j] \in Row /\ job[j].attempts < MaxAttempts
    BY <1>1, <1>2 DEF QInv, QueueTypeOK, Claimable
  <1>4. job[j].attempts + 1 \in 0 .. MaxAttempts
    BY <1>3, QueueAssumption DEF Row
  <1>5. /\ p \in Process
        /\ p.pc = "handling" => p.job = j /\ p.attempts = job[j].attempts + 1
    BY <1>2, <1>4, QueueAssumption DEF Taken, Down, Process
  <1>6. /\ job'[j] = Claimed(w, job[j])
        /\ \A k \in Jobs \ {j} : job'[k] = job[k]
        /\ job' \in [Jobs -> Row]
    BY <1>1, <1>2, <1>3, ClaimedRow DEF QInv, QueueTypeOK
  <1>7. /\ worker'[w] = p
        /\ \A v \in Workers \ {w} : worker'[v] = worker[v]
        /\ worker' \in [Workers -> Process]
    BY <1>1, <1>5 DEF QInv, QueueTypeOK
  <1>. HIDE DEF p
  <1>8. QueueTypeOK'
    BY <1>6, <1>7 DEF QInv, QueueTypeOK, Claim
  <1>9. JobsAgree'
    <2>1. RowAgrees(Claimed(w, job[j]))
      BY <1>3, ClaimedRow, QueueAssumption DEF RowAgrees
    <2>. QED
      BY <2>1, <1>6 DEF QInv, JobsAgree
  <1>10. WorkerKnows'
    <2>. SUFFICES ASSUME NEW v \in Workers, worker'[v].pc = "handling"
         PROVE  /\ worker'[v].job \in Jobs
                /\ job'[worker'[v].job].owner = v =>
                      worker'[v].attempts = job'[worker'[v].job].attempts
      BY DEF WorkerKnows, CountsAlike
    <2>1. CASE v = w
      BY <2>1, <1>2, <1>3, <1>5, <1>6, <1>7, ClaimedRow
    <2>2. CASE v # w
      <3>1. worker'[v] = worker[v]
        BY <2>2, <1>7
      <3>2. CASE worker[v].job = j
        BY <3>1, <3>2, <2>2, <1>2, <1>3, <1>6, ClaimedRow
      <3>3. CASE worker[v].job # j
        BY <3>1, <3>3, <1>6 DEF QInv, WorkerKnows, CountsAlike
      <3>. QED
        BY <3>2, <3>3
    <2>. QED
      BY <2>1, <2>2
  <1>. QED
    BY <1>8, <1>9, <1>10 DEF QInv

\* A failure is written only to the row the worker still owns.
LEMMA HandlerFailsQInv ==
    ASSUME QInv, NEW w \in Workers, HandlerFails(w)
    PROVE  QInv'
  <1>. DEFINE j == worker[w].job
              x == worker[w].attempts >= MaxAttempts
              r == Released(job[j], x)
  <1>1. j \in Jobs /\ worker[w] \in Process /\ job[j] \in Row
    BY DEF QInv, QueueTypeOK, WorkerKnows, HandlerFails
  <1>2. /\ worker' = [worker EXCEPT ![w] = Idle]
        /\ queue' = queue
        /\ job' = IF HoldsLease(w, j) THEN [job EXCEPT ![j] = r] ELSE job
    BY DEF HandlerFails
  <1>3. x \in BOOLEAN
    OBVIOUS
  <1>4. /\ r \in Row
        /\ r.owner = NoWorker /\ r.lease = "none" /\ r.attempts = job[j].attempts
        /\ r.status = IF x THEN "failed" ELSE "queued"
    BY <1>1, <1>3, ReleasedRow
  <1>5. CASE ~HoldsLease(w, j)
    BY <1>2, <1>5, OneWorker DEF QInv
  <1>6. CASE HoldsLease(w, j)
    <2>1. worker[w].attempts = job[j].attempts
      BY <1>6 DEF QInv, WorkerKnows, CountsAlike, HoldsLease, HandlerFails
    <2>2. job[j].attempts \in 0 .. MaxAttempts
      BY <1>1 DEF Row
    <2>3. RowAgrees(r)
      <3>1. x <=> job[j].attempts = MaxAttempts
        BY <2>1, <2>2, QueueAssumption
      <3>. HIDE DEF r, x
      <3>. QED
        BY <3>1, <2>2, <1>4, QueueAssumption DEF RowAgrees
    <2>. HIDE DEF j, x, r
    <2>4. job' = [job EXCEPT ![j] = r]
      BY <1>2, <1>6
    <2>5. /\ Idle \in Process /\ Idle.pc # "handling"
      BY QueueAssumption DEF Idle, Process
    <2>6. QueueTypeOK'
      BY <1>1, <1>2, <1>4, <2>4, <2>5 DEF QInv, QueueTypeOK
    <2>7. JobsAgree'
      BY <1>1, <2>3, <2>4 DEF QInv, QueueTypeOK, JobsAgree
    <2>8. WorkerKnows'
      BY <1>1, <1>2, <1>4, <2>4, <2>5, QueueAssumption
      DEF QInv, QueueTypeOK, WorkerKnows, CountsAlike
    <2>. QED
      BY <2>6, <2>7, <2>8 DEF QInv
  <1>. QED
    BY <1>5, <1>6

\* Every step of the queue keeps its invariant.
LEMMA QueueStepQInv ==
    ASSUME QInv, QueueStep
    PROVE  QInv'
  <1>1. CASE \E w \in Workers : WorkerStep(w)
    <2>. PICK w \in Workers : WorkerStep(w)
      BY <1>1
    <2>1. CASE Claim(w)
      BY <2>1, ClaimQInv
    <2>2. CASE HandlerReturns(w)
      BY <2>2, OneWorker DEF HandlerReturns
    <2>3. CASE HandlerFails(w)
      BY <2>3, HandlerFailsQInv
    <2>4. CASE Crash(w)
      BY <2>4, OneWorker DEF Crash
    <2>5. CASE Restart(w)
      BY <2>5, OneWorker DEF Restart
    <2>. QED
      BY <2>1, <2>2, <2>3, <2>4, <2>5 DEF WorkerStep
  <1>2. ASSUME NEW j \in Jobs, LeaseExpires(j)
        PROVE  QInv'
    <2>. DEFINE r == [job[j] EXCEPT !.lease = "expired"]
    <2>1. job[j] \in Row /\ job[j].lease = "live" /\ RowAgrees(job[j])
      BY <1>2 DEF LeaseExpires, QInv, QueueTypeOK, JobsAgree
    <2>2. /\ r \in Row /\ r.lease = "expired" /\ r.owner = job[j].owner
          /\ r.status = job[j].status /\ r.attempts = job[j].attempts
      BY <2>1 DEF Row
    <2>3. job' = [job EXCEPT ![j] = r] /\ UNCHANGED <<queue, worker>>
      BY <1>2 DEF LeaseExpires
    <2>. HIDE DEF r
    <2>4. RowAgrees(r)
      BY <2>1, <2>2 DEF RowAgrees
    <2>. QED
      BY <2>2, <2>3, <2>4, OneRow
  <1>3. ASSUME NEW j \in Jobs, RetryDue(j)
        PROVE  QInv'
    <2>. DEFINE r == [job[j] EXCEPT !.due = TRUE]
    <2>1. job[j] \in Row /\ RowAgrees(job[j])
      BY <1>3 DEF RetryDue, QInv, QueueTypeOK, JobsAgree
    <2>2. /\ r \in Row /\ r.lease = job[j].lease /\ r.owner = job[j].owner
          /\ r.status = job[j].status /\ r.attempts = job[j].attempts
      BY <2>1 DEF Row
    <2>3. job' = [job EXCEPT ![j] = r] /\ UNCHANGED <<queue, worker>>
      BY <1>3 DEF RetryDue
    <2>. HIDE DEF r
    <2>4. RowAgrees(r)
      BY <2>1, <2>2 DEF RowAgrees
    <2>. QED
      BY <2>2, <2>3, <2>4, OneRow
  <1>. QED
    BY <1>1, <1>2, <1>3 DEF QueueStep

\* A request for a job adds it to the queue.
LEMMA EnqueueQInv ==
    ASSUME QInv, NEW j \in Jobs, Enqueue(j)
    PROVE  QInv'
  BY DEF QInv, QueueTypeOK, JobsAgree, WorkerKnows, CountsAlike, Enqueue

\* The completion of a job by the processing script keeps the invariant.
LEMMA CompletionQInv ==
    ASSUME QInv, NEW j \in Jobs, job' = [job EXCEPT ![j] = Completed(@)],
           UNCHANGED <<queue, worker>>
    PROVE  QInv'
  <1>1. job[j] \in Row
    BY DEF QInv, QueueTypeOK
  <1>2. RowAgrees(Completed(job[j]))
    BY <1>1, CompletedRow DEF RowAgrees
  <1>. QED
    BY <1>1, <1>2, CompletedRow, OneRow

-----------------------------------------------------------------------------
(***************************************************************************)
(* The knowledge base.                                                     *)
(***************************************************************************)
KTypeOK ==
    /\ source \in [Sources -> SourceStatus]
    /\ version \in [Versions -> VersionStatus]
    /\ storage \in [Versions -> StorageKey]
    /\ chunks \in [Versions -> ChunkStatus]
    /\ reviews \in [Versions -> SUBSET {"approved", "rejected"}]

\* What VersionsAgree says of one version.
VersionAgrees(v) ==
    /\ version[v] \in {"absent", "received", "quarantined"} =>
          chunks[v] = "none" /\ reviews[v] = {}
    /\ version[v] = "pending_review" =>
          chunks[v] = "pending_review" /\ reviews[v] = {}
    /\ version[v] = "indexed" => chunks[v] = "indexed"
    /\ version[v] \in {"superseded", "rejected"} => chunks[v] = "rejected"
    /\ version[v] = "rejected" => reviews[v] = {"rejected"}
    /\ version[v] \in {"indexed", "superseded"} =>
          reviews[v] = IF IsBook(v) THEN {} ELSE {"approved"}

\* A version on its way to a review is no book, and what was accepted is a book
\* or raises no suspicion.
Provenance(v) ==
    /\ version[v] \in {"received", "quarantined", "pending_review"} => ~IsBook(v)
    /\ version[v] \in {"indexed", "superseded"} => IsBook(v) \/ v[2] \notin Suspicious

\* A source that has versions is there.
SourceThere(v) == version[v] # "absent" => source[v[1]] # "absent"

\* What a search has found was accepted at some time.
Accepted(v) == version[v] \in {"indexed", "superseded"}
Quoted == \A v \in found \cup answer : v \in Versions /\ Accepted(v)

KInv ==
    /\ KTypeOK
    /\ \A v \in Versions :
          VersionAgrees(v) /\ Provenance(v) /\ SourceThere(v)
    /\ OneIndexedVersion
    /\ Quoted

IInv == QInv /\ KInv

\* The properties follow from the invariant.
LEMMA IInvImplies ==
    IInv => /\ TypeOK /\ JobsAgree /\ OneIndexedVersion
            /\ VersionsAgree /\ AnswerIsApproved
  <1>. SUFFICES ASSUME IInv
       PROVE  /\ TypeOK /\ JobsAgree /\ OneIndexedVersion
              /\ VersionsAgree /\ AnswerIsApproved
    OBVIOUS
  <1>1. TypeOK
    BY DEF IInv, QInv, KInv, KTypeOK, Quoted, TypeOK
  <1>2. JobsAgree /\ OneIndexedVersion
    BY DEF IInv, QInv, KInv
  <1>3. VersionsAgree
    BY DEF IInv, KInv, VersionAgrees, VersionsAgree
  <1>4. AnswerIsApproved
    BY DEF IInv, KInv, Quoted, Accepted, VersionAgrees, Provenance, AnswerIsApproved
  <1>. QED
    BY <1>1, <1>2, <1>3, <1>4

\* The invariant holds initially.
LEMMA InitIInv == Init => IInv
  <1>. SUFFICES ASSUME Init PROVE IInv
    OBVIOUS
  <1>1. QInv
    BY InitQInv DEF Init
  <1>2. KTypeOK
    BY DEF Init, KTypeOK, SourceStatus, VersionStatus, StorageKey, ChunkStatus
  <1>3. \A v \in Versions :
          VersionAgrees(v) /\ Provenance(v) /\ SourceThere(v)
    BY DEF Init, VersionAgrees, Provenance, SourceThere
  <1>4. OneIndexedVersion /\ Quoted
    BY DEF Init, OneIndexedVersion, Quoted
  <1>. QED
    BY <1>1, <1>2, <1>3, <1>4 DEF IInv, KInv

\* What a step that concerns one version leaves alone of another one.
SameVersion(u) ==
    /\ version'[u] = version[u]
    /\ chunks'[u] = chunks[u]
    /\ reviews'[u] = reviews[u]
    /\ storage'[u] = storage[u]

\* No source goes away.
SourcesKept == \A s \in Sources : source[s] # "absent" => source'[s] # "absent"

\* A step that concerns one version, and does not index it beside another one,
\* keeps the invariant if the version itself does.
LEMMA OneVersion ==
    ASSUME KInv, NEW v \in Versions, KTypeOK',
           \A u \in Versions \ {v} : SameVersion(u), SourcesKept,
           VersionAgrees(v)', Provenance(v)', SourceThere(v)',
           Accepted(v) => Accepted(v)',
           version'[v] = "indexed" =>
              \A u \in VersionsOf(v[1]) \ {v} : version[u] # "indexed",
           UNCHANGED search
    PROVE  KInv'
  <1>1. ASSUME NEW u \in Versions \ {v}
        PROVE  (VersionAgrees(u) /\ Provenance(u) /\ SourceThere(u))'
    <2>1. SameVersion(u) /\ u[1] \in Sources
      BY DEF Versions
    <2>2. VersionAgrees(u) /\ Provenance(u) /\ SourceThere(u)
      BY DEF KInv
    <2>. QED
      BY <2>1, <2>2
      DEF SameVersion, SourcesKept, VersionAgrees, Provenance, SourceThere, IsBook
  <1>2. OneIndexedVersion'
    <2>. SUFFICES ASSUME NEW u \in Versions, NEW w \in Versions, u[1] = w[1],
                         version'[u] = "indexed", version'[w] = "indexed"
         PROVE  u = w
      BY DEF OneIndexedVersion
    <2>1. \A x, y \in Versions : x[1] = y[1] => x \in VersionsOf(y[1])
      BY DEF Versions, VersionsOf
    <2>2. CASE u # v /\ w # v
      BY <2>2 DEF KInv, OneIndexedVersion, SameVersion
    <2>3. CASE u = v /\ w # v
      BY <2>1, <2>3 DEF SameVersion
    <2>4. CASE u # v /\ w = v
      BY <2>1, <2>4 DEF SameVersion
    <2>. QED
      BY <2>2, <2>3, <2>4
  <1>3. Quoted'
    BY DEF KInv, Quoted, Accepted, SameVersion, search
  <1>. QED
    BY <1>1, <1>2, <1>3 DEF KInv

\* A new version, received or quarantined, of a source that is there.
LEMMA AddVersionKInv ==
    ASSUME KInv, NEW v \in Versions, NEW status \in {"received", "quarantined"},
           NEW key \in StorageKey \ {UserBook(v[2])},
           source[v[1]] # "absent", AddVersion(v, status, key),
           UNCHANGED <<queueVars, source, chunks, reviews, search>>
    PROVE  KInv'
  <1>1. /\ version[v] = "absent"
        /\ version' = [version EXCEPT ![v] = status]
        /\ storage' = [storage EXCEPT ![v] = key]
        /\ UNCHANGED <<source, chunks, reviews, search>>
    BY DEF AddVersion
  <1>2. KTypeOK
    BY DEF KInv
  <1>3. KTypeOK'
    BY <1>1, <1>2 DEF KTypeOK, VersionStatus
  <1>4. /\ version'[v] = status /\ storage'[v] = key
        /\ \A u \in Versions \ {v} : SameVersion(u)
    BY <1>1, <1>2 DEF KTypeOK, SameVersion
  <1>5. VersionAgrees(v)
    BY DEF KInv
  <1>6. /\ VersionAgrees(v)' /\ Provenance(v)'
        /\ SourceThere(v)' /\ ~Accepted(v)
    BY <1>1, <1>4, <1>5
    DEF VersionAgrees, Provenance, SourceThere, Accepted, IsBook
  <1>7. SourcesKept /\ version'[v] # "indexed"
    BY <1>1, <1>4 DEF SourcesKept
  <1>. QED
    BY <1>1, <1>3, <1>4, <1>6, <1>7, OneVersion

\* Storage keys are told apart by their prefix.
LEMMA StorageKeysDiffer ==
    ASSUME NEW v \in Versions, NEW h \in Hashes
    PROVE  /\ Upload(v) \in StorageKey \ {UserBook(v[2])}
           /\ Quarantine(h) \in StorageKey \ {UserBook(h)}
           /\ UserBook(h) \in StorageKey
  <1>1. /\ Upload(v)[1] = "upload" /\ Quarantine(h)[1] = "quarantine"
        /\ UserBook(h)[1] = "user-books" /\ UserBook(v[2])[1] = "user-books"
    BY DEF Upload, Quarantine, UserBook
  <1>2. /\ Upload(v) \in StorageKey /\ Quarantine(h) \in StorageKey
        /\ UserBook(h) \in StorageKey
    BY DEF StorageKey
  <1>. QED
    BY <1>1, <1>2

\* A book is stored with its version and its chunks.
LEMMA UploadBookKInv ==
    ASSUME KInv, NEW s \in Sources, NEW h \in Hashes, UploadBook(s, h)
    PROVE  KInv'
  <1>. DEFINE v == <<s, h>>
  <1>1. v \in Versions /\ v[1] = s /\ v[2] = h
    BY DEF Versions
  <1>2. /\ source[s] = "absent" /\ version[v] = "absent"
        /\ version' = [version EXCEPT ![v] = "indexed"]
        /\ storage' = [storage EXCEPT ![v] = UserBook(h)]
        /\ source' = [source EXCEPT ![s] = "approved"]
        /\ chunks' = [chunks EXCEPT ![v] = "indexed"]
        /\ UNCHANGED <<job, reviews, search>>
    BY DEF UploadBook, AddVersion, queueVars
  <1>. HIDE DEF v
  <1>3. KTypeOK /\ VersionAgrees(v)
    BY <1>1 DEF KInv
  <1>4. KTypeOK'
    BY <1>1, <1>2, <1>3, StorageKeysDiffer
    DEF KTypeOK, VersionStatus, ChunkStatus, SourceStatus
  <1>5. /\ version'[v] = "indexed" /\ storage'[v] = UserBook(v[2])
        /\ chunks'[v] = "indexed" /\ source'[v[1]] = "approved" /\ reviews'[v] = {}
        /\ \A u \in Versions \ {v} : SameVersion(u)
        /\ SourcesKept
    BY <1>1, <1>2, <1>3 DEF KTypeOK, SameVersion, VersionAgrees, SourcesKept
  <1>6. /\ VersionAgrees(v)' /\ Provenance(v)'
        /\ SourceThere(v)' /\ ~Accepted(v)
    BY <1>2, <1>5
    DEF VersionAgrees, Provenance, SourceThere, Accepted, IsBook
  <1>7. \A u \in VersionsOf(v[1]) \ {v} : version[u] # "indexed"
    <2>1. \A u \in VersionsOf(s) : u \in Versions /\ u[1] = s
      BY DEF VersionsOf, Versions
    <2>. QED
      BY <1>1, <1>2, <2>1 DEF KInv, SourceThere
  <1>. QED
    BY <1>1, <1>2, <1>4, <1>5, <1>6, <1>7, OneVersion

\* Processing a version leaves it and its chunks for a review.
LEMMA ProcessVersionKInv ==
    ASSUME KInv, NEW v \in Versions, NEW j, ProcessVersion(v, j)
    PROVE  KInv'
  <1>1. /\ version[v] = "quarantined"
        /\ chunks' = [chunks EXCEPT ![v] = "pending_review"]
        /\ version' = [version EXCEPT ![v] = "pending_review"]
        /\ source' = [source EXCEPT ![v[1]] = "pending_review"]
        /\ UNCHANGED <<storage, reviews, search>>
    BY DEF ProcessVersion, Processable
  <1>2. /\ KTypeOK /\ VersionAgrees(v) /\ Provenance(v) /\ v[1] \in Sources
    BY DEF KInv, Versions
  <1>3. KTypeOK'
    BY <1>1, <1>2 DEF KTypeOK, VersionStatus, ChunkStatus, SourceStatus
  <1>4. /\ version'[v] = "pending_review" /\ chunks'[v] = "pending_review"
        /\ source'[v[1]] = "pending_review"
        /\ \A u \in Versions \ {v} : SameVersion(u)
        /\ SourcesKept
    BY <1>1, <1>2 DEF KTypeOK, SameVersion, SourcesKept
  <1>5. /\ VersionAgrees(v)' /\ Provenance(v)'
        /\ SourceThere(v)' /\ ~Accepted(v)
    BY <1>1, <1>2, <1>4
    DEF VersionAgrees, Provenance, SourceThere, Accepted, IsBook
  <1>. QED
    BY <1>1, <1>3, <1>4, <1>5, OneVersion

\* A rejected version is served to no one.
LEMMA RejectKInv ==
    ASSUME KInv, NEW v \in Versions, Reject(v)
    PROVE  KInv'
  <1>1. /\ version[v] = "pending_review" /\ reviews[v] = {}
        /\ reviews' = [reviews EXCEPT ![v] = @ \cup {"rejected"}]
        /\ chunks' = [chunks EXCEPT
                        ![v] = IF @ = "pending_review" THEN "rejected" ELSE @]
        /\ version' = [version EXCEPT ![v] = "rejected"]
        /\ source' = [source EXCEPT
                        ![v[1]] = IF Previous(v) = {} THEN "rejected" ELSE @]
        /\ UNCHANGED <<job, storage, search>>
    BY DEF Reject, MayReview, queueVars
  <1>2. /\ KTypeOK /\ VersionAgrees(v) /\ SourceThere(v) /\ v[1] \in Sources
        /\ chunks[v] = "pending_review"
    BY <1>1 DEF KInv, Versions, VersionAgrees
  <1>3. KTypeOK'
    BY <1>1, <1>2 DEF KTypeOK, VersionStatus, ChunkStatus, SourceStatus
  <1>4. /\ version'[v] = "rejected" /\ chunks'[v] = "rejected"
        /\ reviews'[v] = {"rejected"}
        /\ \A u \in Versions \ {v} : SameVersion(u)
    BY <1>1, <1>2 DEF KTypeOK, SameVersion
  <1>5. SourcesKept
    BY <1>1, <1>2 DEF KTypeOK, SourcesKept
  <1>6. /\ VersionAgrees(v)' /\ Provenance(v)'
        /\ SourceThere(v)' /\ ~Accepted(v)
    BY <1>1, <1>2, <1>4, <1>5
    DEF VersionAgrees, Provenance, SourceThere, Accepted, SourcesKept
  <1>. QED
    BY <1>1, <1>3, <1>4, <1>5, <1>6, OneVersion

\* An approval indexes its version and takes the indexed ones of the source away.
LEMMA ApproveKInv ==
    ASSUME KInv, NEW v \in Versions, Approve(v)
    PROVE  KInv'
  <1>1. /\ version[v] = "pending_review" /\ reviews[v] = {}
        /\ v[2] \notin Suspicious
        /\ reviews' = [reviews EXCEPT ![v] = @ \cup {"approved"}]
        /\ chunks' = [u \in Versions |->
                        IF u = v THEN "indexed"
                        ELSE IF u \in Previous(v) THEN "rejected" ELSE chunks[u]]
        /\ version' = [u \in Versions |->
                        IF u = v THEN "indexed"
                        ELSE IF u \in Previous(v) THEN "superseded" ELSE version[u]]
        /\ source' = [source EXCEPT ![v[1]] = "approved"]
        /\ UNCHANGED <<job, storage, search>>
    BY DEF Approve, MayReview, MayApprove, queueVars
  <1>2. KTypeOK /\ Provenance(v) /\ v[1] \in Sources
    BY DEF KInv, Versions
  <1>3. KTypeOK'
    BY <1>1, <1>2 DEF KTypeOK, VersionStatus, ChunkStatus, SourceStatus
  <1>4. /\ version'[v] = "indexed" /\ chunks'[v] = "indexed"
        /\ reviews'[v] = {"approved"} /\ storage'[v] = storage[v]
        /\ source'[v[1]] = "approved" /\ SourcesKept /\ ~IsBook(v)
    BY <1>1, <1>2 DEF KTypeOK, SourcesKept, Provenance
  <1>5. ASSUME NEW u \in Versions \ {v}
        PROVE  /\ u \in Previous(v) => version'[u] = "superseded" /\ chunks'[u] = "rejected"
               /\ u \notin Previous(v) => version'[u] = version[u] /\ chunks'[u] = chunks[u]
               /\ reviews'[u] = reviews[u] /\ storage'[u] = storage[u]
    BY <1>1, <1>2 DEF KTypeOK
  <1>6. \A u \in Previous(v) : u \in Versions \ {v} /\ version[u] = "indexed"
    BY DEF Previous, VersionsOf, Versions
  <1>7. ASSUME NEW u \in Versions
        PROVE  /\ (VersionAgrees(u) /\ Provenance(u) /\ SourceThere(u))'
               /\ Accepted(u) => Accepted(u)'
    <2>1. /\ VersionAgrees(u) /\ Provenance(u) /\ SourceThere(u)
          /\ u[1] \in Sources
      BY DEF KInv, Versions
    <2>2. CASE u = v
      BY <1>1, <1>4, <2>2
      DEF VersionAgrees, Provenance, SourceThere, Accepted, IsBook
    <2>3. CASE u \in Previous(v)
      BY <1>1, <1>4, <1>5, <1>6, <2>1, <2>3
      DEF VersionAgrees, Provenance, SourceThere, Accepted, IsBook,
          SourcesKept
    <2>4. CASE u # v /\ u \notin Previous(v)
      BY <1>1, <1>4, <1>5, <2>1, <2>4
      DEF VersionAgrees, Provenance, SourceThere, Accepted, IsBook,
          SourcesKept
    <2>. QED
      BY <2>2, <2>3, <2>4
  <1>8. OneIndexedVersion'
    <2>. SUFFICES ASSUME NEW u \in Versions, NEW w \in Versions, u[1] = w[1],
                         version'[u] = "indexed", version'[w] = "indexed"
         PROVE  u = w
      BY DEF OneIndexedVersion
    <2>1. ASSUME NEW x \in Versions \ {v}, version'[x] = "indexed"
          PROVE  version[x] = "indexed" /\ x[1] # v[1]
      <3>1. x \notin Previous(v) /\ version[x] = "indexed"
        BY <1>5, <2>1
      <3>2. x[1] = v[1] => x \in VersionsOf(v[1])
        BY DEF Versions, VersionsOf
      <3>. QED
        BY <3>1, <3>2 DEF Previous
    <2>2. CASE u # v /\ w # v
      BY <2>1, <2>2 DEF KInv, OneIndexedVersion
    <2>3. CASE u = v \/ w = v
      BY <2>1, <2>3
    <2>. QED
      BY <2>2, <2>3
  <1>9. Quoted'
    BY <1>1, <1>7 DEF KInv, Quoted, search
  <1>. QED
    BY <1>3, <1>7, <1>8, <1>9 DEF KInv

\* What a search finds is indexed now.
LEMMA SearchKInv ==
    ASSUME KInv, SearchLexical \/ SearchVector
    PROVE  KInv'
  <1>1. UNCHANGED <<job, source, version, storage, chunks, reviews>>
    BY DEF SearchLexical, SearchVector, queueVars, knowledge
  <1>2. found' \cup answer' \subseteq found \cup answer \cup Eligible
    BY DEF SearchLexical, SearchVector
  <1>3. Quoted'
    BY <1>1, <1>2 DEF KInv, Quoted, Accepted, Eligible
  <1>. QED
    BY <1>1, <1>3
    DEF KInv, KTypeOK, VersionAgrees, Provenance, SourceThere, IsBook,
        OneIndexedVersion

\* What the queue does leaves the knowledge base alone.
LEMMA KnowledgeUntouched ==
    ASSUME KInv, UNCHANGED <<knowledge, search>>
    PROVE  KInv'
  BY DEF KInv, KTypeOK, VersionAgrees, Provenance, SourceThere, IsBook,
         OneIndexedVersion, Quoted, Accepted, knowledge, search

\* Every step keeps the invariant.
LEMMA StepIInv == IInv /\ [Next]_vars => IInv'
  <1>. SUFFICES ASSUME IInv, [Next]_vars PROVE IInv'
    OBVIOUS
  <1>1. QInv /\ KInv /\ KTypeOK
    BY DEF IInv, KInv
  <1>2. queueVars' = queueVars => QInv'
    BY <1>1
    DEF QInv, QueueTypeOK, JobsAgree, WorkerKnows, CountsAlike, queueVars
  <1>3. ASSUME NEW s \in Sources, CreateSource(s) PROVE IInv'
    <2>1. KInv'
      BY <1>1, <1>3
      DEF CreateSource, KInv, KTypeOK, SourceStatus, VersionAgrees, Provenance,
          SourceThere, IsBook, OneIndexedVersion, Quoted, Accepted,
          queueVars, search, Versions
    <2>. QED
      BY <1>2, <1>3, <2>1 DEF CreateSource, IInv
  <1>4. ASSUME NEW s \in Sources, NEW h \in Hashes, CreateVersion(s, h) PROVE IInv'
    <2>. DEFINE v == <<s, h>>
    <2>1. v \in Versions /\ v[1] = s /\ Upload(v) \in StorageKey \ {UserBook(v[2])}
      BY StorageKeysDiffer DEF Versions
    <2>2. /\ AddVersion(v, "received", Upload(v)) /\ source[s] # "absent"
          /\ UNCHANGED <<queueVars, source, chunks, reviews, search>>
      BY <1>4 DEF CreateVersion
    <2>. HIDE DEF v
    <2>. QED
      BY <1>1, <1>2, <2>1, <2>2, AddVersionKInv DEF IInv
  <1>5. ASSUME NEW s \in Sources, NEW h \in Hashes, Refresh(s, h) PROVE IInv'
    <2>. DEFINE v == <<s, h>>
    <2>1. v \in Versions /\ v[1] = s /\ Quarantine(h) \in StorageKey \ {UserBook(v[2])}
      BY StorageKeysDiffer DEF Versions
    <2>2. /\ AddVersion(v, "quarantined", Quarantine(h)) /\ source[s] # "absent"
          /\ UNCHANGED <<queueVars, source, chunks, reviews, search>>
      BY <1>5 DEF Refresh
    <2>. HIDE DEF v
    <2>. QED
      BY <1>1, <1>2, <2>1, <2>2, AddVersionKInv DEF IInv
  <1>6. ASSUME NEW s \in Sources, NEW h \in Hashes, UploadBook(s, h) PROVE IInv'
    BY <1>1, <1>2, <1>6, UploadBookKInv DEF UploadBook, IInv
  <1>7. ASSUME NEW v \in Versions, NEW key \in Keys, RequestIngest(v, key) PROVE IInv'
    <2>1. <<v, key>> \in Jobs
      BY KnowledgeAssumption
    <2>2. QInv'
      BY <1>1, <1>7, <2>1, EnqueueQInv DEF RequestIngest
    <2>. QED
      BY <1>1, <1>7, <2>2, KnowledgeUntouched DEF RequestIngest, IInv
  <1>8. ASSUME NEW v \in Versions, NEW j \in queue, ProcessVersion(v, j) PROVE IInv'
    <2>1. j \in Jobs
      BY <1>1 DEF QInv, QueueTypeOK
    <2>2. QInv'
      BY <1>1, <1>8, <2>1, CompletionQInv DEF ProcessVersion
    <2>. QED
      BY <1>1, <1>8, <2>2, ProcessVersionKInv DEF IInv
  <1>9. ASSUME NEW v \in Versions, Approve(v) PROVE IInv'
    BY <1>1, <1>2, <1>9, ApproveKInv DEF Approve, IInv
  <1>10. ASSUME NEW v \in Versions, Reject(v) PROVE IInv'
    BY <1>1, <1>2, <1>10, RejectKInv DEF Reject, IInv
  <1>11. CASE SearchLexical \/ SearchVector
    BY <1>1, <1>2, <1>11, SearchKInv DEF SearchLexical, SearchVector, IInv
  <1>12. CASE QueueStep /\ UNCHANGED <<knowledge, search>>
    BY <1>1, <1>12, QueueStepQInv, KnowledgeUntouched DEF IInv
  <1>13. CASE UNCHANGED vars
    BY <1>1, <1>2, <1>13
    DEF IInv, KInv, KTypeOK, VersionAgrees, Provenance, SourceThere,
        IsBook, OneIndexedVersion, Quoted, Accepted, vars, queueVars, knowledge, search
  <1>. QED
    BY <1>3, <1>4, <1>5, <1>6, <1>7, <1>8, <1>9, <1>10, <1>11, <1>12, <1>13
    DEF Next, KnowledgeStep

-----------------------------------------------------------------------------
(***************************************************************************)
(* Theorems.                                                               *)
(***************************************************************************)

\* The inductive invariant holds in every reachable state.
THEOREM Invariance == Spec => []IInv
  BY InitIInv, StepIInv, PTL DEF Spec

\* Every variable of the knowledge base and of its queue has its type, for any
\* number of sources, texts, workers and attempts.
THEOREM TypeCorrect == Spec => []TypeOK
  BY Invariance, IInvImplies, PTL

\* The lease, the attempts and the status of a job agree, whatever late workers
\* report (consume_once).
THEOREM JobsAgreement == Spec => []JobsAgree
  BY Invariance, IInvImplies, PTL

\* No source has two indexed versions (review_knowledge_version).
THEOREM OneIndexed == Spec => []OneIndexedVersion
  BY Invariance, IInvImplies, PTL

\* A version, its chunks and its decision tell the same story, whichever job the
\* processing script is given.
THEOREM VersionsAgreement == Spec => []VersionsAgree
  BY Invariance, IInvImplies, PTL

\* What retrieve quotes was approved and raised no suspicion, or is the user's
\* own book.
THEOREM AnswersApproved == Spec => []AnswerIsApproved
  BY Invariance, IInvImplies, PTL

\* What a step makes of the status of a version.
LifeCycleOf(v) ==
    /\ (version[v] = "indexed" /\ version'[v] # "indexed") =>
          /\ version'[v] = "superseded"
          /\ \E u \in Versions : /\ u[1] = v[1]
                                 /\ version[u] = "pending_review"
                                 /\ version'[u] = "indexed"
    /\ version[v] \in {"rejected", "superseded"} => version'[v] = version[v]

\* A version changes its status along its life cycle only.
LEMMA LifeCycleStep ==
    ASSUME IInv, [Next]_vars, NEW v \in Versions
    PROVE  LifeCycleOf(v)
  <1>1. version \in [Versions -> VersionStatus]
    BY DEF IInv, KInv, KTypeOK
  <1>2. ASSUME NEW u \in Versions, NEW status, NEW key, AddVersion(u, status, key)
        PROVE  LifeCycleOf(v)
    BY <1>1, <1>2 DEF AddVersion, LifeCycleOf
  <1>3. ASSUME NEW s \in Sources, NEW h \in Hashes,
               CreateVersion(s, h) \/ Refresh(s, h) \/ UploadBook(s, h)
        PROVE  LifeCycleOf(v)
    <2>1. <<s, h>> \in Versions
      BY DEF Versions
    <2>. QED
      BY <1>2, <1>3, <2>1 DEF CreateVersion, Refresh, UploadBook
  <1>4. ASSUME NEW u \in Versions, NEW j \in queue, ProcessVersion(u, j)
        PROVE  LifeCycleOf(v)
    BY <1>1, <1>4 DEF ProcessVersion, Processable, LifeCycleOf
  <1>5. ASSUME NEW u \in Versions, Reject(u)
        PROVE  LifeCycleOf(v)
    BY <1>1, <1>5 DEF Reject, MayReview, LifeCycleOf
  <1>6. ASSUME NEW u \in Versions, Approve(u)
        PROVE  LifeCycleOf(v)
    <2>1. /\ version[u] = "pending_review"
          /\ version' = [x \in Versions |->
                IF x = u THEN "indexed"
                ELSE IF x \in Previous(u) THEN "superseded" ELSE version[x]]
      BY <1>6 DEF Approve, MayReview
    <2>2. \A x \in Previous(u) : x[1] = u[1] /\ version[x] = "indexed"
      BY DEF Previous, VersionsOf, Versions
    <2>. QED
      BY <1>1, <2>1, <2>2 DEF LifeCycleOf
  <1>7. CASE UNCHANGED version
    BY <1>1, <1>7 DEF LifeCycleOf
  <1>. QED
    BY <1>3, <1>4, <1>5, <1>6, <1>7
    DEF Next, KnowledgeStep, CreateSource, RequestIngest, SearchLexical, SearchVector,
        knowledge, vars

\* Accepted content is replaced, never withdrawn, and what was turned down or
\* replaced does not come back (review_knowledge_version, apply_update).
THEOREM ContentReplaced == Spec => VersionLifeCycle
  <1>1. IInv /\ [Next]_vars =>
          [\A v \in Versions :
             /\ (version[v] = "indexed" /\ version'[v] # "indexed") =>
                   /\ version'[v] = "superseded"
                   /\ \E u \in Versions : /\ u[1] = v[1]
                                          /\ version[u] = "pending_review"
                                          /\ version'[u] = "indexed"
             /\ version[v] \in {"rejected", "superseded"} =>
                   version'[v] = version[v]]_vars
    BY LifeCycleStep DEF LifeCycleOf
  <1>. QED
    BY <1>1, Invariance, PTL DEF Spec, VersionLifeCycle

\* What a step makes of the lease of a job.
LeaseKept(j) ==
    LET old == job[j]
        new == job'[j]
    IN  /\ old.status = "completed" => new.status = "completed"
        /\ old.status = "failed" => new.status \in {"failed", "completed"}
        /\ (old.owner # NoWorker /\ new.owner # old.owner) =>
              \/ new.status = "completed"
              \/ /\ worker[old.owner].pc = "handling"
                 /\ worker[old.owner].job = j
                 /\ worker'[old.owner].pc = "idle"
                 /\ new.attempts = old.attempts
              \/ /\ old.lease = "expired"
                 /\ new.attempts = old.attempts + 1

\* Only its owner, time or the end of the work takes a job from its lease.
LEMMA LeaseStep ==
    ASSUME QInv, NEW j \in Jobs,
           \/ QueueStep
           \/ \E v \in Versions, k \in queue : ProcessVersion(v, k)
           \/ UNCHANGED job
    PROVE  LeaseKept(j)
  <1>1. /\ job \in [Jobs -> Row] /\ worker \in [Workers -> Process]
        /\ job[j] \in Row /\ RowAgrees(job[j])
    BY DEF QInv, QueueTypeOK, JobsAgree
  <1>2. CASE job'[j] = job[j]
    BY <1>2 DEF LeaseKept
  <1>3. ASSUME NEW w \in Workers, Claim(w), job'[j] # job[j]
        PROVE  LeaseKept(j)
    <2>1. PICK k \in queue :
             Claimable(k) /\ job' = [job EXCEPT ![k] = Claimed(w, @)]
      BY <1>3 DEF Claim
    <2>2. j = k /\ Claimable(j) /\ job'[j] = Claimed(w, job[j])
      BY <1>1, <1>3, <2>1
    <2>3. job'[j].attempts = job[j].attempts + 1
      BY <1>1, <2>2, ClaimedRow DEF Claimable
    <2>. QED
      BY <1>1, <2>2, <2>3 DEF Claimable, RowAgrees, LeaseKept
  <1>4. ASSUME NEW w \in Workers, HandlerFails(w), job'[j] # job[j]
        PROVE  LeaseKept(j)
    <2>. DEFINE x == worker[w].attempts >= MaxAttempts
                k == worker[w].job
    <2>1. /\ job' = IF HoldsLease(w, k) THEN [job EXCEPT ![k] = Released(@, x)] ELSE job
          /\ worker[w].pc = "handling" /\ worker' = [worker EXCEPT ![w] = Idle]
      BY <1>4 DEF HandlerFails
    <2>2. x \in BOOLEAN
      OBVIOUS
    <2>. HIDE DEF x
    <2>3. k = j /\ job[j].owner = w /\ job'[j] = Released(job[j], x)
      BY <1>1, <1>4, <2>1 DEF HoldsLease
    <2>4. /\ job'[j].attempts = job[j].attempts
          /\ worker'[w].pc = "idle" /\ worker[w].job = j
      BY <1>1, <2>1, <2>2, <2>3, ReleasedRow DEF Idle
    <2>5. job[j].status = "validating"
      BY <1>1, <2>3, QueueAssumption DEF RowAgrees
    <2>. QED
      BY <2>1, <2>3, <2>4, <2>5 DEF LeaseKept
  <1>5. ASSUME NEW k \in Jobs, LeaseExpires(k) \/ RetryDue(k)
        PROVE  LeaseKept(j)
    <2>1. \/ job' = [job EXCEPT ![k].lease = "expired"]
          \/ job' = [job EXCEPT ![k].due = TRUE]
      BY <1>5 DEF LeaseExpires, RetryDue
    <2>2. job'[j].status = job[j].status /\ job'[j].owner = job[j].owner
      BY <1>1, <2>1 DEF Row
    <2>. QED
      BY <2>2 DEF LeaseKept
  <1>6. ASSUME NEW v \in Versions, NEW k \in queue, ProcessVersion(v, k),
               job'[j] # job[j]
        PROVE  LeaseKept(j)
    <2>1. job'[j] = Completed(job[j])
      BY <1>1, <1>6 DEF ProcessVersion
    <2>. QED
      BY <1>1, <2>1, CompletedRow DEF LeaseKept
  <1>7. CASE UNCHANGED job
    BY <1>2, <1>7
  <1>. QED
    BY <1>2, <1>3, <1>4, <1>5, <1>6, <1>7
    DEF QueueStep, WorkerStep, HandlerReturns, Crash, Restart

\* Only time, its own worker, an expired lease or the end of the work take a job
\* out of its lease, and a finished job stays finished (claim_job, consume_once).
THEOREM LeasesRespected == Spec => LeaseRespected
  <1>1. IInv /\ [Next]_vars => [\A j \in Jobs : LeaseKept(j)]_queueVars
    <2>. SUFFICES ASSUME IInv, [Next]_vars, NEW j \in Jobs PROVE LeaseKept(j)
      OBVIOUS
    <2>1. \/ QueueStep
          \/ \E v \in Versions, k \in queue : ProcessVersion(v, k)
          \/ UNCHANGED job
      BY DEF Next, KnowledgeStep, CreateSource, CreateVersion, Refresh, UploadBook,
             RequestIngest, Enqueue, Approve, Reject, SearchLexical, SearchVector,
             queueVars, vars
    <2>. QED
      BY <2>1, LeaseStep DEF IInv
  <1>2. [\A j \in Jobs : LeaseKept(j)]_queueVars =>
          [\A j \in Jobs :
             LET old == job[j]
                 new == job'[j]
             IN  /\ old.status = "completed" => new.status = "completed"
                 /\ old.status = "failed" => new.status \in {"failed", "completed"}
                 /\ (old.owner # NoWorker /\ new.owner # old.owner) =>
                       \/ new.status = "completed"
                       \/ /\ worker[old.owner].pc = "handling"
                          /\ worker[old.owner].job = j
                          /\ worker'[old.owner].pc = "idle"
                          /\ new.attempts = old.attempts
                       \/ /\ old.lease = "expired"
                          /\ new.attempts = old.attempts + 1]_queueVars
    BY DEF LeaseKept
  <1>. QED
    BY <1>1, <1>2, Invariance, PTL DEF Spec, LeaseRespected
=============================================================================
