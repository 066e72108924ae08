--------------------------- MODULE KnowledgeBase ---------------------------
(***************************************************************************)
(* The knowledge base of one owner: sources, their versions, the chunks of *)
(* a version and the decisions about it.  apps/api/src/knowledge.py,       *)
(* knowledge_review.py, books.py, apps/worker/src/source_refresh.py and    *)
(* scripts/process-pilot-source.py on the tables of                        *)
(* database/migrations/004_knowledge_pipeline.sql, composed with the queue *)
(* of ingestion jobs.  A version has as many jobs as it was requested for  *)
(* with different idempotency keys, and nothing ties the job that the      *)
(* processing script completes to the version that it processes.           *)
(*                                                                         *)
(* Every operation locks the rows it decides by and is one step, except    *)
(* retrieve, whose two searches are two statements at READ COMMITTED and   *)
(* see the database at two moments.                                        *)
(*                                                                         *)
(* Abstracted: the chunks of a version are written together and change     *)
(* together, so a version has one chunk status.  A text is a hash, and     *)
(* whether it looks like an instruction is a property of the text.         *)
(* Processing reads the artifact and computes chunks and vectors from it   *)
(* before its transaction, and reads nothing of the database there.  The   *)
(* role of the reviewer, check times, audit and retrieval_audit are left   *)
(* out, and so are operations that are refused or find nothing to change.  *)
(* process_fixture_text is one of these: the job status it writes          *)
(* (pipeline.py:98) is not in the CHECK of the column, and its transaction *)
(* always rolls back.                                                      *)
(***************************************************************************)
EXTENDS IngestionQueue

CONSTANTS
    Sources,     \* identifiers of knowledge_sources rows
    Hashes,      \* texts a source may publish, by their SHA-256
    Suspicious,  \* the texts with a chunk that looks like prompt injection
    Keys,        \* Idempotency-Keys of the requests to ingest
    MaxVersions  \* bound of the model: versions in the knowledge base

Versions == Sources \X Hashes   \* UNIQUE(source_id, sha256)

ASSUME KnowledgeAssumption ==
    /\ Jobs = Versions \X Keys   \* UNIQUE(source_version_id, idempotency_key)
    /\ Suspicious \subseteq Hashes
    /\ MaxVersions \in Nat

VARIABLES
    source,   \* knowledge_sources.status
    version,  \* knowledge_source_versions.status
    storage,  \* knowledge_source_versions.storage_key, UNIQUE
    chunks,   \* knowledge_chunks.status
    reviews,  \* source_reviews.decision of the version's rows
    found,    \* retrieve: the versions its first search found
    answer    \* retrieve: the versions its last answer quotes

knowledge == <<source, version, storage, chunks, reviews>>
search == <<found, answer>>
vars == <<queueVars, knowledge, search>>

Upload(v) == <<"upload", v>>
Quarantine(h) == <<"quarantine", h>>
UserBook(h) == <<"user-books", h>>
NoKey == <<"none">>

SourceStatus == {"absent", "draft", "pending_review", "approved", "rejected"}
VersionStatus == {"absent", "received", "quarantined", "pending_review",
                  "indexed", "rejected", "superseded"}
ChunkStatus == {"none", "pending_review", "indexed", "rejected"}
StorageKey ==
    {NoKey} \cup {Upload(v) : v \in Versions}
            \cup {Quarantine(h) : h \in Hashes} \cup {UserBook(h) : h \in Hashes}

Known == {v \in Versions : version[v] # "absent"}
KeyIsFree(key) == \A v \in Versions : storage[v] # key
HasRoom == Cardinality(Known) < MaxVersions
VersionsOf(s) == {s} \X Hashes

Init ==
    /\ QueueInit
    /\ source = [s \in Sources |-> "absent"]
    /\ version = [v \in Versions |-> "absent"]
    /\ storage = [v \in Versions |-> NoKey]
    /\ chunks = [v \in Versions |-> "none"]
    /\ reviews = [v \in Versions |-> {}]
    /\ found = {}
    /\ answer = {}

-----------------------------------------------------------------------------
(***************************************************************************)
(* Sources and versions.                                                   *)
(***************************************************************************)

\* POST /knowledge/sources.
CreateSource(s) ==
    /\ source[s] = "absent"
    /\ source' = [source EXCEPT ![s] = "draft"]
    /\ UNCHANGED <<queueVars, version, storage, chunks, reviews, search>>

\* Mutant: ON CONFLICT DO UPDATE, a text published again starts over.
AddVersionAgain(v, status, key) ==
    /\ HasRoom
    /\ version' = [version EXCEPT ![v] = status]
    /\ storage' = [storage EXCEPT ![v] = key]

AddVersion(v, status, key) ==
    /\ version[v] = "absent"
    /\ KeyIsFree(key)
    /\ HasRoom
    /\ version' = [version EXCEPT ![v] = status]
    /\ storage' = [storage EXCEPT ![v] = key]

\* POST /knowledge/sources/{id}/versions: the client names the storage key.
CreateVersion(s, h) ==
    /\ source[s] # "absent"
    /\ AddVersion(<<s, h>>, "received", Upload(<<s, h>>))
    /\ UNCHANGED <<queueVars, source, chunks, reviews, search>>

\* apply_update, run on a source by its operator, when the site publishes h.
\* With a text that has a version already, the latest or an older one, nothing
\* but the check time changes; when another source has published the same
\* text, its storage key is taken and the transaction fails.
Refresh(s, h) ==
    /\ source[s] # "absent"
    /\ AddVersion(<<s, h>>, "quarantined", Quarantine(h))
    /\ UNCHANGED <<queueVars, source, chunks, reviews, search>>

\* POST /books: the user's own book is approved and indexed as it comes in.
UploadBook(s, h) ==
    /\ source[s] = "absent"
    /\ AddVersion(<<s, h>>, "indexed", UserBook(h))
    /\ source' = [source EXCEPT ![s] = "approved"]
    /\ chunks' = [chunks EXCEPT ![<<s, h>>] = "indexed"]
    /\ UNCHANGED <<queueVars, reviews, search>>

\* POST /knowledge/versions/{id}/ingest.
RequestIngest(v, key) ==
    /\ version[v] # "absent"
    /\ Enqueue(<<v, key>>)
    /\ UNCHANGED <<knowledge, search>>

\* Mutant: a version that was turned down is processed again.
ProcessableAgain(v) == version[v] \in {"quarantined", "rejected"}

\* process-pilot-source.py, run by the operator: the versions it takes, of those
\* that any code writes.
Processable(v) == version[v] = "quarantined"

\* It completes the job it was given, of whatever version and whoever holds it,
\* and leaves the source for review.
Completed(row) ==
    [row EXCEPT !.status = "completed", !.owner = NoWorker, !.lease = "none"]

ProcessVersion(v, j) ==
    /\ j \in queue
    /\ Processable(v)
    /\ chunks' = [chunks EXCEPT ![v] = "pending_review"]
    /\ version' = [version EXCEPT ![v] = "pending_review"]
    /\ source' = [source EXCEPT ![v[1]] = "pending_review"]
    /\ job' = [job EXCEPT ![j] = Completed(@)]
    /\ UNCHANGED <<queue, worker, storage, reviews, search>>

-----------------------------------------------------------------------------
(***************************************************************************)
(* POST /knowledge/versions/{id}/review.                                   *)
(***************************************************************************)
MayReview(v) ==
    /\ version[v] = "pending_review"
    /\ reviews[v] = {}

\* Mutant: the versions that wait for a review instead of the indexed ones.
PreviousPending(v) ==
    {u \in VersionsOf(v[1]) \ {v} : version[u] = "pending_review"}

\* The indexed versions that an approval of v replaces.
Previous(v) == {u \in VersionsOf(v[1]) \ {v} : version[u] = "indexed"}

\* Mutant: suspicious chunks are not looked for.
MayApproveSuspect(v) == chunks[v] = "pending_review"

MayApprove(v) ==
    /\ chunks[v] = "pending_review"
    /\ v[2] \notin Suspicious

Approve(v) ==
    /\ MayReview(v)
    /\ MayApprove(v)
    /\ reviews' = [reviews EXCEPT ![v] = @ \cup {"approved"}]
    /\ chunks' = [u \in Versions |->
                    IF u = v THEN "indexed"
                    ELSE IF u \in Previous(v) THEN "rejected" ELSE chunks[u]]
    /\ version' = [u \in Versions |->
                    IF u = v THEN "indexed"
                    ELSE IF u \in Previous(v) THEN "superseded" ELSE version[u]]
    /\ source' = [source EXCEPT ![v[1]] = "approved"]
    /\ UNCHANGED <<queueVars, storage, search>>

\* The chunks that a rejection takes with it are the pending ones.
Reject(v) ==
    /\ MayReview(v)
    /\ reviews' = [reviews EXCEPT ![v] = @ \cup {"rejected"}]
    /\ chunks' = [chunks EXCEPT
                    ![v] = IF @ = "pending_review" THEN "rejected" ELSE @]
    /\ version' = [version EXCEPT ![v] = "rejected"]
    /\ source' = [source EXCEPT
                    ![v[1]] = IF Previous(v) = {} THEN "rejected" ELSE @]
    /\ UNCHANGED <<queueVars, storage, search>>

-----------------------------------------------------------------------------
(***************************************************************************)
(* POST /knowledge/retrieve.  The lexical search, then the vector search;  *)
(* either may find any of the versions it is allowed to look at.  Searches  *)
(* do not affect each other: one is in flight at a time.                   *)
(***************************************************************************)
Eligible ==
    {v \in Versions : /\ chunks[v] = "indexed"
                      /\ version[v] = "indexed"
                      /\ source[v[1]] = "approved"}

SearchLexical ==
    /\ found = {}
    /\ found' \in SUBSET Eligible
    /\ answer' = {}
    /\ UNCHANGED <<queueVars, knowledge>>

SearchVector ==
    /\ \E more \in SUBSET Eligible : answer' = found \cup more
    /\ found' = {}
    /\ UNCHANGED <<queueVars, knowledge>>

-----------------------------------------------------------------------------
KnowledgeStep ==
    \/ \E s \in Sources :
          \/ CreateSource(s)
          \/ \E h \in Hashes :
                CreateVersion(s, h) \/ Refresh(s, h) \/ UploadBook(s, h)
    \/ \E v \in Versions :
          \/ \E key \in Keys : RequestIngest(v, key)
          \/ \E j \in queue : ProcessVersion(v, j)
          \/ Approve(v)
          \/ Reject(v)
    \/ SearchLexical
    \/ SearchVector

Next ==
    \/ KnowledgeStep
    \/ QueueStep /\ UNCHANGED <<knowledge, search>>

Spec == Init /\ [][Next]_vars

-----------------------------------------------------------------------------
TypeOK ==
    /\ QueueTypeOK
    /\ source \in [Sources -> SourceStatus]
    /\ version \in [Versions -> VersionStatus]
    /\ storage \in [Versions -> StorageKey]
    /\ chunks \in [Versions -> ChunkStatus]
    /\ reviews \in [Versions -> SUBSET {"approved", "rejected"}]
    /\ found \subseteq Versions
    /\ answer \subseteq Versions

\* A book of the user's own is indexed without a review (upload_book).
IsBook(v) == storage[v] = UserBook(v[2])

\* However uploads, refreshes, processing and reviews of a source alternate, at
\* most one of its versions is indexed (review_knowledge_version supersedes the
\* previous ones).
OneIndexedVersion ==
    \A u, v \in Versions :
        (u[1] = v[1] /\ version[u] = "indexed" /\ version[v] = "indexed") => u = v

\* A version, its chunks and its one decision tell the same story, whatever is
\* uploaded, processed again or decided in between: a review promotes or rejects
\* them in one transaction (ADR-019).
VersionsAgree ==
    \A v \in Versions :
        /\ version[v] \in {"absent", "received", "quarantined"} =>
              chunks[v] = "none" /\ reviews[v] = {}
        /\ version[v] = "pending_review" =>
              chunks[v] = "pending_review" /\ reviews[v] = {}
        /\ version[v] = "indexed" => chunks[v] = "indexed"
        /\ version[v] \in {"superseded", "rejected"} => chunks[v] = "rejected"
        /\ version[v] = "rejected" => reviews[v] = {"rejected"}
        /\ version[v] \in {"indexed", "superseded"} =>
              reviews[v] = IF IsBook(v) THEN {} ELSE {"approved"}

\* What retrieve quotes was approved by a reviewer and raised no suspicion, or is
\* the user's own book, even when a review commits between its two searches.
AnswerIsApproved ==
    \A v \in answer :
        /\ version[v] \in {"indexed", "superseded"}
        /\ IsBook(v) \/ (reviews[v] = {"approved"} /\ v[2] \notin Suspicious)

\* Accepted content is replaced, never withdrawn: an indexed version goes only
\* when another one of its source is approved in its place; a rejected or
\* superseded version stays that (review_knowledge_version, apply_update,
\* docs/11: failures do not remove accepted content).
VersionLifeCycle ==
    [][\A v \in Versions :
         /\ (version[v] = "indexed" /\ version'[v] # "indexed") =>
               /\ version'[v] = "superseded"
               /\ \E u \in Versions : /\ u[1] = v[1]
                                      /\ version[u] = "pending_review"
                                      /\ version'[u] = "indexed"
         /\ version[v] \in {"rejected", "superseded"} =>
               version'[v] = version[v]]_vars

\* A version that a reviewer approved can be retrieved as long as it is indexed:
\* acquiring and reviewing the next one does not take accepted content out of
\* service (ADR-019, docs/11).
AcceptedIsServed ==
    \A v \in Versions :
        (version[v] = "indexed" /\ reviews[v] = {"approved"}) => v \in Eligible
=============================================================================
