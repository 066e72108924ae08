------------------------------ MODULE Practice ------------------------------
(***************************************************************************)
(* Questions, simulations and spaced review of one student:                *)
(* apps/api/src/practice.py on the tables of                               *)
(* database/migrations/005_practice_review.sql.                            *)
(*                                                                         *)
(* Each request is one PostgreSQL transaction in READ COMMITTED.  An       *)
(* answer locks its question together with the version and the source it   *)
(* cites, reads the review row and writes from what it read.  A question   *)
(* or a simulation looks for evidence without a lock and inserts later.    *)
(*                                                                         *)
(* Abstracted: a version stands for the source that publishes it and is in *)
(* service (indexed and approved) or not, which module KnowledgeBase       *)
(* decides; there are always chunks enough in what is in service; a review *)
(* holds its interval and no date; texts, citations and the letter of the  *)
(* option are left out.                                                    *)
(***************************************************************************)
EXTENDS Naturals, Sequences, FiniteSets

CONSTANTS
    Questions,  \* identifiers of practice_questions rows
    Runs,       \* identifiers of practice_runs rows
    Versions,   \* knowledge_source_versions that questions cite
    NoRun,
    NoVersion,
    MaxAttempts, \* bound of the model: answers to one question
    MaxWorking   \* bound of the model: transactions of a kind in progress

ASSUME PracticeAssumption ==
    /\ NoRun \notin Runs
    /\ NoVersion \notin Versions
    /\ MaxAttempts \in Nat
    /\ MaxWorking \in Nat

VARIABLES
    served,     \* versions that are indexed, of an approved source
    cites,      \* practice_questions.source_version_id
    attempts,   \* practice_attempts.correct, in the order of the commits
    review,     \* practice_review_items
    book,       \* practice_error_book
    run,        \* practice_runs.status
    answering,  \* answers that hold their locks
    creating    \* questions and simulations with their evidence at hand

questions == <<cites, run>>
results == <<attempts, review, book>>
vars == <<served, questions, results, answering, creating>>

Exists(q) == cites[q] # NoVersion
Reviewed(q) == review[q].count > 0

\* No row: nothing was answered, nothing was wrong.
NoReview == [interval |-> 0, streak |-> 0, count |-> 0, last |-> FALSE]
NotInBook == [wrong |-> 0, open |-> FALSE]

Init ==
    /\ served \in SUBSET Versions
    /\ cites = [q \in Questions |-> NoVersion]
    /\ attempts = [q \in Questions |-> <<>>]
    /\ review = [q \in Questions |-> NoReview]
    /\ book = [q \in Questions |-> NotInBook]
    /\ run = [r \in Runs |-> "absent"]
    /\ answering = {}
    /\ creating = {}

-----------------------------------------------------------------------------
(***************************************************************************)
(* The knowledge base, external to this module: a review or a refresh that *)
(* changes a version or its source waits for the answers that lock them.   *)
(***************************************************************************)

\* Mutant: the SELECT locks nothing that is published.
NeverLocked(v) == v \notin Versions

Locked(v) == \E a \in answering : cites[a.question] = v

Publish(v) ==
    /\ v \notin served
    /\ served' = served \cup {v}
    /\ UNCHANGED <<questions, results, answering, creating>>

Withdraw(v) ==
    /\ v \in served
    /\ ~Locked(v)
    /\ served' = served \ {v}
    /\ UNCHANGED <<questions, results, answering, creating>>

-----------------------------------------------------------------------------
(***************************************************************************)
(* create_question, create_simulation, cancel_practice.                    *)
(***************************************************************************)
\* Identifiers are drawn at random: no two requests draw the same one.
Reserved == UNION {DOMAIN c.evidence : c \in creating}

\* _indexed_chunks: a question without a run, or the questions of one.
FindEvidence(evidence, r) ==
    /\ \A q \in DOMAIN evidence : ~Exists(q) /\ q \notin Reserved /\ evidence[q] \in served
    /\ r \in Runs => run[r] = "absent" /\ \A c \in creating : c.run # r
    /\ r = NoRun => Cardinality(DOMAIN evidence) = 1
    /\ Cardinality(creating) < MaxWorking
    /\ creating' = creating \cup {[evidence |-> evidence, run |-> r]}
    /\ UNCHANGED <<served, questions, results, answering>>

Insert(c) ==
    /\ creating' = creating \ {c}
    /\ cites' = [q \in Questions |-> IF q \in DOMAIN c.evidence THEN c.evidence[q] ELSE cites[q]]
    /\ UNCHANGED <<served, results, answering>>

CreateQuestion(c) ==
    /\ c \in creating
    /\ c.run = NoRun
    /\ Insert(c)
    /\ UNCHANGED run

\* Mutant: without the index practice_runs_one_active_idx.
CreateSimulationAnyway(c) ==
    /\ c \in creating
    /\ c.run \in Runs
    /\ Insert(c)
    /\ run' = [run EXCEPT ![c.run] = "active"]

\* practice_runs_one_active_idx refuses the run, and with it the questions,
\* while another one is active.
CreateSimulation(c) ==
    /\ c \in creating
    /\ c.run \in Runs
    /\ \A r \in Runs : run[r] # "active"
    /\ Insert(c)
    /\ run' = [run EXCEPT ![c.run] = "active"]

CreateFails(c) ==
    /\ c \in creating
    /\ creating' = creating \ {c}
    /\ UNCHANGED <<served, questions, results, answering>>

\* Nothing ever completes a run.
CancelPractice ==
    /\ run' = [r \in Runs |-> IF run[r] = "active" THEN "cancelled" ELSE run[r]]
    /\ UNCHANGED <<served, cites, results, answering, creating>>

-----------------------------------------------------------------------------
(***************************************************************************)
(* answer_question.                                                        *)
(***************************************************************************)

\* Mutant: SELECT without FOR UPDATE.
BeginAnswerUnlocked(q, correct) ==
    /\ Exists(q) /\ cites[q] \in served
    /\ Len(attempts[q]) + Cardinality(answering) < MaxAttempts
    /\ Cardinality(answering) < MaxWorking
    /\ answering' = answering \cup {[question |-> q, correct |-> correct,
                                     found |-> Reviewed(q), streak |-> review[q].streak]}
    /\ UNCHANGED <<served, questions, results, creating>>

\* The question, its version and its source are locked; another answer that
\* cites the same version waits.
BeginAnswer(q, correct) ==
    /\ Exists(q) /\ cites[q] \in served
    /\ ~Locked(cites[q])
    /\ Len(attempts[q]) + Cardinality(answering) < MaxAttempts
    /\ Cardinality(answering) < MaxWorking
    /\ answering' = answering \cup {[question |-> q, correct |-> correct,
                                     found |-> Reviewed(q), streak |-> review[q].streak]}
    /\ UNCHANGED <<served, questions, results, creating>>

\* review_interval_days.
Interval(correct, streak) ==
    IF ~correct THEN 1 ELSE IF streak \in 1 .. 3 THEN <<3, 7, 15>>[streak] ELSE 30

Streak(a) == IF ~a.correct THEN 0 ELSE IF a.found THEN a.streak + 1 ELSE 1

\* The row is inserted, or all of it but the count is overwritten.
Reviewing(a) ==
    [interval |-> Interval(a.correct, Streak(a)), streak |-> Streak(a),
     count |-> review[a.question].count + 1, last |-> a.correct]

\* A right answer resolves the entry, a wrong one makes it or opens it again.
Booking(a) ==
    LET b == book[a.question] IN
    IF a.correct THEN [wrong |-> b.wrong, open |-> FALSE]
    ELSE [wrong |-> b.wrong + 1, open |-> TRUE]

CommitAnswer(a) ==
    /\ a \in answering
    /\ answering' = answering \ {a}
    /\ attempts' = [attempts EXCEPT ![a.question] = Append(attempts[a.question], a.correct)]
    /\ review' = [review EXCEPT ![a.question] = Reviewing(a)]
    /\ book' = [book EXCEPT ![a.question] = Booking(a)]
    /\ UNCHANGED <<served, questions, creating>>

AnswerFails(a) ==
    /\ a \in answering
    /\ answering' = answering \ {a}
    /\ UNCHANGED <<served, questions, results, creating>>

-----------------------------------------------------------------------------
\* What a request may cite: questions and the versions their evidence is of.
Evidence == UNION {[S -> Versions] : S \in SUBSET Questions \ {{}}}

Next ==
    \/ \E v \in Versions : Publish(v) \/ Withdraw(v)
    \/ \E e \in Evidence, r \in Runs \cup {NoRun} : FindEvidence(e, r)
    \/ \E c \in creating : CreateQuestion(c) \/ CreateSimulation(c) \/ CreateFails(c)
    \/ CancelPractice
    \/ \E q \in Questions, correct \in BOOLEAN : BeginAnswer(q, correct)
    \/ \E a \in answering : CommitAnswer(a) \/ AnswerFails(a)

Spec == Init /\ [][Next]_vars

-----------------------------------------------------------------------------
(***************************************************************************)
(* Properties.                                                             *)
(***************************************************************************)
Review == [interval : {0, 1, 3, 7, 15, 30}, streak : Nat, count : Nat, last : BOOLEAN]
Booked == [wrong : Nat, open : BOOLEAN]
Answer == [question : Questions, correct : BOOLEAN, found : BOOLEAN, streak : Nat]
Creation == [evidence : Evidence, run : Runs \cup {NoRun}]

\* Every row has its type.
TypeOK ==
    /\ served \subseteq Versions
    /\ cites \in [Questions -> Versions \cup {NoVersion}]
    /\ attempts \in [Questions -> Seq(BOOLEAN)]
    /\ review \in [Questions -> Review]
    /\ book \in [Questions -> Booked]
    /\ run \in [Runs -> {"absent", "active", "cancelled"}]
    /\ answering \subseteq Answer
    /\ creating \subseteq Creation

\* The last k attempts were right, and the one before them was not.
EndsWithRight(s, k) ==
    /\ k \in 0 .. Len(s)
    /\ \A i \in 1 .. Len(s) : i > Len(s) - k => s[i]
    /\ k < Len(s) => ~s[Len(s) - k]

\* The schedule of docs/08-PRACTICE-REVIEW.md, by the right answers in a row.
Scheduled(k) == CASE k = 0 -> 1 [] k = 1 -> 3 [] k = 2 -> 7 [] k = 3 -> 15 [] k > 3 -> 30

\* RecordsAgree, first part: the review row, written from what was read
\* before, tells what the attempts recorded for the question tell, however
\* requests interleave: how many, how many right in a row at the end, and the
\* interval the document promises for that.
ReviewAgrees ==
    \A q \in Questions :
        /\ review[q].count = Len(attempts[q])
        /\ EndsWithRight(attempts[q], review[q].streak)
        /\ attempts[q] # <<>> => review[q].interval = Scheduled(review[q].streak)

\* RecordsAgree, second part: the error book counts every wrong attempt and
\* has an open entry exactly when the last attempt was wrong: no wrong answer
\* drops out of it and no resolved one stays in.
ErrorBookAgrees ==
    \A q \in Questions :
        LET s == attempts[q] IN
        /\ book[q].wrong = Cardinality({i \in 1 .. Len(s) : ~s[i]})
        /\ book[q].open <=> s # <<>> /\ ~s[Len(s)]

\* The rows kept for a question tell what its attempts tell.
RecordsAgree == ReviewAgrees /\ ErrorBookAgrees

\* A student has at most one simulation under way, though two requests find
\* their evidence at once and nothing looks for an active run.
OneActiveRun == \A r, t \in Runs : run[r] = "active" /\ run[t] = "active" => r = t

\* An attempt is graded only against text in service at that moment: a review
\* that withdraws it waits for the answer or comes before it.
GradedOnServedText ==
    [][\A q \in Questions : attempts'[q] # attempts[q] => cites[q] \in served]_vars
=============================================================================
