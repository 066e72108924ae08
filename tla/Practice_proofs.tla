--------------------------- MODULE Practice_proofs ---------------------------
(***************************************************************************)
(* The safety of Practice for any questions, runs, versions and bounds.    *)
(* An answer holds its question's version locked from the moment it reads  *)
(* the review row, so what it read still stands when it commits.           *)
(***************************************************************************)
EXTENDS Practice, FiniteSetTheorems, TLAPS

\* Questions of requests in progress exist in no table and in no other request.
CreationsAreApart ==
    \A c \in creating, q \in Questions : q \in DOMAIN c.evidence =>
        /\ ~Exists(q)
        /\ \A d \in creating : q \in DOMAIN d.evidence => d = c

\* An answer holds the lock of a version in service, alone.
AnswersHoldVersions ==
    \A a \in answering :
        /\ cites[a.question] \in served
        /\ \A b \in answering : cites[b.question] = cites[a.question] => b = a

\* What an answer read of the review row is what the row still says.
ReadsStand ==
    \A a \in answering :
        /\ a.found <=> Reviewed(a.question)
        /\ a.streak = review[a.question].streak

IInv == /\ TypeOK /\ CreationsAreApart /\ AnswersHoldVersions /\ ReadsStand
        /\ ReviewAgrees /\ ErrorBookAgrees /\ OneActiveRun

-----------------------------------------------------------------------------
(***************************************************************************)
(* The records of one question after one more attempt.                     *)
(***************************************************************************)
WrongAt(s) == {i \in 1 .. Len(s) : ~s[i]}

\* The wrong answers to a question are finitely many.
LEMMA WrongAtFinite ==
  ASSUME NEW s \in Seq(BOOLEAN)
  PROVE  IsFiniteSet(WrongAt(s)) /\ Cardinality(WrongAt(s)) \in Nat
  <1>1. IsFiniteSet(1 .. Len(s))
    BY FS_Interval
  <1>2. WrongAt(s) \subseteq 1 .. Len(s)
    BY DEF WrongAt
  <1>3. IsFiniteSet(WrongAt(s))
    BY <1>1, <1>2, FS_Subset
  <1> QED
    BY <1>3, FS_CardinalityType

\* An attempt counts among the wrong ones if it is wrong.
LEMMA WrongAtAppend ==
  ASSUME NEW s \in Seq(BOOLEAN), NEW correct \in BOOLEAN
  PROVE  Cardinality(WrongAt(Append(s, correct)))
           = IF correct THEN Cardinality(WrongAt(s)) ELSE Cardinality(WrongAt(s)) + 1
  <1>1. CASE correct
    <2>1. WrongAt(Append(s, correct)) = WrongAt(s)
      BY <1>1 DEF WrongAt
    <2> QED
      BY <1>1, <2>1
  <1>2. CASE ~correct
    <2>1. WrongAt(Append(s, correct)) = WrongAt(s) \cup {Len(s) + 1}
      BY <1>2 DEF WrongAt
    <2>2. Len(s) + 1 \notin WrongAt(s)
      BY DEF WrongAt
    <2> QED
      BY <1>2, <2>1, <2>2, WrongAtFinite, FS_AddElement
  <1> QED
    BY <1>1, <1>2

\* A right answer adds one to the right answers at the end.
LEMMA RightAppend ==
  ASSUME NEW s \in Seq(BOOLEAN), NEW k \in Nat, EndsWithRight(s, k),
         NEW correct \in BOOLEAN, correct
  PROVE  EndsWithRight(Append(s, correct), k + 1)
  BY DEF EndsWithRight

\* After a wrong answer the row of right ones is over.
LEMMA WrongAppend ==
  ASSUME NEW s \in Seq(BOOLEAN), NEW correct \in BOOLEAN, ~correct
  PROVE  EndsWithRight(Append(s, correct), 0)
  BY DEF EndsWithRight

\* The code's table of intervals is the document's.
LEMMA IntervalIsScheduled ==
  ASSUME NEW k \in Nat, k > 0, NEW correct \in BOOLEAN, correct
  PROVE  Interval(correct, k) = Scheduled(k)
  BY DEF Interval, Scheduled

-----------------------------------------------------------------------------
\* No question has been made.
LEMMA InitIInv == Init => IInv
  <1> SUFFICES ASSUME Init PROVE IInv
    OBVIOUS
  <1> USE DEF Init
  <1>1. TypeOK
    BY DEF TypeOK, Review, Booked, NoReview, NotInBook
  <1>2. CreationsAreApart /\ AnswersHoldVersions /\ ReadsStand /\ OneActiveRun
    BY DEF CreationsAreApart, AnswersHoldVersions, ReadsStand, OneActiveRun
  <1>3. ReviewAgrees
    BY DEF ReviewAgrees, EndsWithRight, NoReview
  <1>4. ErrorBookAgrees
    <2> SUFFICES ASSUME NEW q \in Questions
                 PROVE  /\ book[q].wrong = Cardinality(WrongAt(attempts[q]))
                        /\ book[q].open <=> attempts[q] # <<>> /\ ~attempts[q][Len(attempts[q])]
      BY DEF ErrorBookAgrees, WrongAt
    <2>1. WrongAt(attempts[q]) = {}
      BY DEF WrongAt
    <2> QED
      BY <2>1, FS_EmptySet DEF NotInBook
  <1> QED
    BY <1>1, <1>2, <1>3, <1>4 DEF IInv

\* A version comes into service.
LEMMA PublishIInv ==
  ASSUME IInv, NEW v \in Versions, Publish(v) \/ Withdraw(v)
  PROVE  IInv'
  <1> USE DEF IInv, Publish, Withdraw, questions, results
  <1>1. TypeOK'
    BY DEF TypeOK
  <1>2. AnswersHoldVersions'
    BY DEF AnswersHoldVersions, Locked
  <1>3. (CreationsAreApart /\ ReadsStand /\ ReviewAgrees /\ ErrorBookAgrees /\ OneActiveRun)'
    BY DEF CreationsAreApart, Exists, ReadsStand, Reviewed, ReviewAgrees, ErrorBookAgrees, OneActiveRun
  <1> QED
    BY <1>1, <1>2, <1>3

\* Evidence is looked up without a lock.
LEMMA FindEvidenceIInv ==
  ASSUME IInv, NEW e \in Evidence, NEW r \in Runs \cup {NoRun}, FindEvidence(e, r)
  PROVE  IInv'
  <1> USE DEF IInv, FindEvidence, questions, results
  <1> DEFINE new == [evidence |-> e, run |-> r]
  <1>1. new \in Creation
    BY DEF Creation
  <1>2. TypeOK'
    BY <1>1 DEF TypeOK
  <1>3. CreationsAreApart'
    <2> SUFFICES ASSUME NEW c \in creating', NEW q \in Questions, q \in DOMAIN c.evidence
                 PROVE  /\ cites[q] = NoVersion
                        /\ \A d \in creating' : q \in DOMAIN d.evidence => d = c
      BY DEF CreationsAreApart, Exists
    <2>1. c \in creating => c # new /\ q \notin DOMAIN e
      BY DEF Reserved
    <2>2. c \in creating \/ c = new
      OBVIOUS
    <2>3. cites[q] = NoVersion
      BY <2>2 DEF CreationsAreApart, Exists
    <2>4. ASSUME NEW d \in creating', q \in DOMAIN d.evidence
          PROVE  d = c
      <3>1. d \in creating => q \notin DOMAIN e
        BY <2>4 DEF Reserved
      <3>2. d \in creating \/ d = new
        OBVIOUS
      <3> QED
        BY <2>1, <2>2, <2>4, <3>1, <3>2 DEF CreationsAreApart
    <2> QED
      BY <2>3, <2>4
  <1>4. (AnswersHoldVersions /\ ReadsStand /\ ReviewAgrees /\ ErrorBookAgrees /\ OneActiveRun)'
    BY DEF AnswersHoldVersions, ReadsStand, Reviewed, ReviewAgrees, ErrorBookAgrees, OneActiveRun
  <1> QED
    BY <1>2, <1>3, <1>4

\* New questions are none that is being answered.
LEMMA InsertKeeps ==
  ASSUME IInv, NEW c \in creating, Insert(c)
  PROVE  /\ cites' \in [Questions -> Versions \cup {NoVersion}]
         /\ creating' \subseteq Creation
         /\ (CreationsAreApart /\ AnswersHoldVersions /\ ReadsStand /\ ReviewAgrees /\ ErrorBookAgrees)'
  <1> USE DEF IInv, Insert, results
  <1>1. c \in Creation /\ c.evidence \in Evidence
    BY DEF TypeOK, Creation
  <1>2. PICK S \in SUBSET Questions \ {{}} : c.evidence \in [S -> Versions]
    BY <1>1 DEF Evidence
  <1>3. cites' \in [Questions -> Versions \cup {NoVersion}]
    BY <1>2 DEF TypeOK
  <1>4. creating' \subseteq Creation
    BY DEF TypeOK
  <1>5. ASSUME NEW q \in Questions, cites[q] # NoVersion \/ \E d \in creating' : q \in DOMAIN d.evidence
        PROVE  cites'[q] = cites[q]
    BY <1>5 DEF CreationsAreApart, Exists
  <1>6. CreationsAreApart'
    BY <1>5 DEF CreationsAreApart, Exists
  <1>7. \A a \in answering : a.question \in Questions /\ cites[a.question] # NoVersion
    BY PracticeAssumption DEF TypeOK, Answer, AnswersHoldVersions
  <1>8. \A a \in answering : cites'[a.question] = cites[a.question]
    BY <1>5, <1>7
  <1>9. AnswersHoldVersions'
    BY <1>8 DEF AnswersHoldVersions
  <1>10. (ReadsStand /\ ReviewAgrees /\ ErrorBookAgrees)'
    BY DEF ReadsStand, Reviewed, ReviewAgrees, ErrorBookAgrees
  <1> QED
    BY <1>3, <1>4, <1>6, <1>9, <1>10

\* The questions of a request are stored with what they cite.
LEMMA CreateIInv ==
  ASSUME IInv, NEW c \in creating, CreateQuestion(c) \/ CreateSimulation(c) \/ CreateFails(c)
  PROVE  IInv'
  <1>1. CASE CreateQuestion(c)
    <2>1. TypeOK' /\ OneActiveRun'
      BY <1>1, InsertKeeps DEF IInv, CreateQuestion, Insert, results, TypeOK, OneActiveRun
    <2> QED
      BY <1>1, <2>1, InsertKeeps DEF CreateQuestion, IInv
  <1>2. CASE CreateSimulation(c)
    <2>1. TypeOK' /\ OneActiveRun'
      BY <1>2, InsertKeeps DEF IInv, CreateSimulation, Insert, results, TypeOK, OneActiveRun
    <2> QED
      BY <1>2, <2>1, InsertKeeps DEF CreateSimulation, IInv
  <1>3. CASE CreateFails(c)
    BY <1>3 DEF CreateFails, questions, results, IInv, TypeOK, CreationsAreApart, Exists,
       AnswersHoldVersions, ReadsStand, Reviewed, ReviewAgrees, ErrorBookAgrees, OneActiveRun
  <1> QED
    BY <1>1, <1>2, <1>3

\* The active runs are cancelled.
LEMMA CancelIInv ==
  ASSUME IInv, CancelPractice
  PROVE  IInv'
  BY DEF CancelPractice, results, IInv, TypeOK, CreationsAreApart, Exists,
     AnswersHoldVersions, ReadsStand, Reviewed, ReviewAgrees, ErrorBookAgrees, OneActiveRun

\* An answer locks its question with the text it cites.
LEMMA BeginAnswerIInv ==
  ASSUME IInv, NEW q \in Questions, NEW correct \in BOOLEAN, BeginAnswer(q, correct)
  PROVE  IInv'
  <1> USE DEF IInv, BeginAnswer, questions, results
  <1> DEFINE new == [question |-> q, correct |-> correct,
                     found |-> Reviewed(q), streak |-> review[q].streak]
  <1>1. new \in Answer
    BY DEF Answer, TypeOK, Review, Reviewed
  <1>2. TypeOK'
    BY <1>1 DEF TypeOK
  <1>3. AnswersHoldVersions'
    BY DEF AnswersHoldVersions, Locked
  <1>4. ReadsStand'
    <2> SUFFICES ASSUME NEW a \in answering'
                 PROVE  /\ a.found <=> Reviewed(a.question)
                        /\ a.streak = review[a.question].streak
      BY DEF ReadsStand, Reviewed
    <2>1. CASE a \in answering
      BY <2>1 DEF ReadsStand
    <2>2. CASE a = new
      BY <2>2
    <2> QED
      BY <2>1, <2>2
  <1>5. (CreationsAreApart /\ ReviewAgrees /\ ErrorBookAgrees /\ OneActiveRun)'
    BY DEF CreationsAreApart, Exists, ReviewAgrees, ErrorBookAgrees, OneActiveRun
  <1> QED
    BY <1>2, <1>3, <1>4, <1>5

\* An attempt is stored with the review row and the error book.
LEMMA CommitAnswerIInv ==
  ASSUME IInv, NEW a \in answering, CommitAnswer(a)
  PROVE  IInv'
  <1> USE DEF CommitAnswer, questions
  <1> DEFINE p == a.question
             s == attempts[p]
  <1>0. /\ a \in Answer /\ p \in Questions /\ a.correct \in BOOLEAN
        /\ s \in Seq(BOOLEAN) /\ review[p] \in Review /\ book[p] \in Booked
    BY DEF IInv, TypeOK, Answer
  <1>1. /\ attempts' = [attempts EXCEPT ![p] = Append(s, a.correct)]
        /\ review' = [review EXCEPT ![p] = Reviewing(a)]
        /\ book' = [book EXCEPT ![p] = Booking(a)]
    OBVIOUS
  <1>2. /\ review[p].count = Len(s)
        /\ EndsWithRight(s, review[p].streak)
        /\ a.streak = review[p].streak /\ (a.found <=> review[p].count > 0)
    BY <1>0 DEF IInv, ReviewAgrees, ReadsStand, Reviewed
  <1>3. /\ EndsWithRight(Append(s, a.correct), Streak(a)) /\ Streak(a) \in Nat
        /\ Interval(a.correct, Streak(a)) = Scheduled(Streak(a))
    <2>1. CASE ~a.correct
      BY <1>0, <2>1, WrongAppend DEF Streak, Interval, Scheduled
    <2>2. CASE a.correct
      <3>1. Streak(a) = review[p].streak + 1 /\ review[p].streak \in Nat
        <4>1. review[p].streak \in 0 .. Len(s) /\ review[p].streak \in Nat
          BY <1>0, <1>2 DEF EndsWithRight, Review
        <4> QED
          BY <1>0, <1>2, <2>2, <4>1 DEF Streak
      <3> QED
        <4>1. EndsWithRight(s, review[p].streak)
          BY <1>2
        <4>2. EndsWithRight(Append(s, a.correct), review[p].streak + 1)
          BY <1>0, <2>2, <3>1, <4>1, RightAppend
        <4>3. Streak(a) \in Nat /\ Streak(a) > 0
          BY <3>1
        <4> QED
          BY <1>0, <2>2, <3>1, <4>2, <4>3, IntervalIsScheduled
    <2> QED
      BY <1>0, <2>1, <2>2
  <1>4. Reviewing(a) \in Review
    <2>1. Interval(a.correct, Streak(a)) \in {0, 1, 3, 7, 15, 30}
      BY <1>0, <1>3 DEF Interval
    <2> QED
      BY <1>0, <1>3, <2>1 DEF Reviewing, Review
  <1>5. Booking(a) \in Booked
    BY <1>0 DEF Booking, Booked
  <1>6. TypeOK'
    BY <1>0, <1>1, <1>4, <1>5 DEF IInv, TypeOK, results
  <1>7. ReviewAgrees'
    <2> SUFFICES ASSUME NEW q \in Questions
                 PROVE  /\ review'[q].count = Len(attempts'[q])
                        /\ EndsWithRight(attempts'[q], review'[q].streak)
                        /\ attempts'[q] # <<>> => review'[q].interval = Scheduled(review'[q].streak)
      BY DEF ReviewAgrees, EndsWithRight, Scheduled
    <2>1. CASE q = p
      <3>1. attempts'[q] = Append(s, a.correct) /\ review'[q] = Reviewing(a)
        BY <1>0, <1>1, <2>1 DEF IInv, TypeOK
      <3>2. /\ Reviewing(a).count = Len(s) + 1 /\ Reviewing(a).streak = Streak(a)
            /\ Reviewing(a).interval = Interval(a.correct, Streak(a))
        BY <1>2 DEF Reviewing
      <3>3. Len(Append(s, a.correct)) = Len(s) + 1
        BY <1>0
      <3> QED
        BY <1>3, <3>1, <3>2, <3>3
    <2>2. CASE q # p
      BY <2>2 DEF IInv, TypeOK, ReviewAgrees
    <2> QED
      BY <2>1, <2>2
  <1>8. ErrorBookAgrees'
    <2> SUFFICES ASSUME NEW q \in Questions
                 PROVE  /\ book'[q].wrong = Cardinality(WrongAt(attempts'[q]))
                        /\ book'[q].open <=>
                             attempts'[q] # <<>> /\ ~attempts'[q][Len(attempts'[q])]
      BY DEF ErrorBookAgrees, WrongAt
    <2>1. book[q].wrong = Cardinality(WrongAt(attempts[q]))
      BY DEF IInv, ErrorBookAgrees, WrongAt
    <2>2. CASE q = p
      <3>1. attempts'[q] = Append(s, a.correct) /\ book'[q] = Booking(a)
        BY <1>0, <1>1, <2>2 DEF IInv, TypeOK
      <3>2. Booking(a).wrong = Cardinality(WrongAt(Append(s, a.correct)))
        BY <1>0, <2>1, <2>2, WrongAtAppend DEF Booking
      <3>3. Booking(a).open <=> ~a.correct
        BY DEF Booking
      <3>4. Append(s, a.correct) # <<>>
            /\ Append(s, a.correct)[Len(Append(s, a.correct))] = a.correct
        BY <1>0
      <3> QED
        BY <3>1, <3>2, <3>3, <3>4
    <2>3. CASE q # p
      BY <2>1, <2>3 DEF IInv, TypeOK, ErrorBookAgrees
    <2> QED
      BY <2>2, <2>3
  <1>9. AnswersHoldVersions' /\ CreationsAreApart' /\ OneActiveRun'
    BY DEF IInv, AnswersHoldVersions, CreationsAreApart, Exists, OneActiveRun
  <1>10. ReadsStand'
    <2> SUFFICES ASSUME NEW b \in answering'
                 PROVE  /\ b.found <=> review'[b.question].count > 0
                        /\ b.streak = review'[b.question].streak
      BY DEF ReadsStand, Reviewed
    <2>1. b \in answering /\ b # a /\ b.question \in Questions
      BY DEF IInv, TypeOK, Answer
    <2>2. b.question # p
      BY <2>1 DEF IInv, AnswersHoldVersions
    <2>3. review'[b.question] = review[b.question]
      BY <1>1, <2>1, <2>2 DEF IInv, TypeOK
    <2> QED
      BY <2>1, <2>3 DEF IInv, ReadsStand, Reviewed
  <1> QED
    BY <1>6, <1>7, <1>8, <1>9, <1>10 DEF IInv

\* An answer that fails leaves nothing.
LEMMA AnswerFailsIInv ==
  ASSUME IInv, NEW a \in answering, AnswerFails(a)
  PROVE  IInv'
  BY DEF AnswerFails, questions, results, IInv, TypeOK, CreationsAreApart, Exists,
     AnswersHoldVersions, ReadsStand, Reviewed, ReviewAgrees, ErrorBookAgrees, OneActiveRun

\* Every step keeps the inductive invariant.
LEMMA StepIInv == IInv /\ [Next]_vars => IInv'
  <1> SUFFICES ASSUME IInv, [Next]_vars PROVE IInv'
    OBVIOUS
  <1>1. CASE \E v \in Versions : Publish(v) \/ Withdraw(v)
    BY <1>1, PublishIInv
  <1>2. CASE \E e \in Evidence, r \in Runs \cup {NoRun} : FindEvidence(e, r)
    BY <1>2, FindEvidenceIInv
  <1>3. CASE \E c \in creating : CreateQuestion(c) \/ CreateSimulation(c) \/ CreateFails(c)
    BY <1>3, CreateIInv
  <1>4. CASE CancelPractice
    BY <1>4, CancelIInv
  <1>5. CASE \E q \in Questions, correct \in BOOLEAN : BeginAnswer(q, correct)
    BY <1>5, BeginAnswerIInv
  <1>6. CASE \E a \in answering : CommitAnswer(a) \/ AnswerFails(a)
    BY <1>6, CommitAnswerIInv, AnswerFailsIInv
  <1>7. CASE UNCHANGED vars
    BY <1>7 DEF vars, questions, results, IInv, TypeOK, CreationsAreApart, Exists,
       AnswersHoldVersions, ReadsStand, Reviewed, ReviewAgrees, ErrorBookAgrees, OneActiveRun
  <1> QED
    BY <1>1, <1>2, <1>3, <1>4, <1>5, <1>6, <1>7 DEF Next

-----------------------------------------------------------------------------
\* The inductive invariant.
THEOREM PracticeInvariance == Spec => []IInv
  BY InitIInv, StepIInv, PTL DEF Spec

\* Every row keeps its type.
THEOREM PracticeTypeOK == Spec => []TypeOK
  <1>1. IInv => TypeOK
    BY DEF IInv
  <1> QED
    BY <1>1, PracticeInvariance, PTL

\* answer_question (practice.py:95-137) leaves a review row and an error book
\* that tell what the attempts tell, however answers interleave.
THEOREM RowsTellTheAttempts == Spec => []RecordsAgree
  <1>1. IInv => RecordsAgree
    BY DEF IInv, RecordsAgree
  <1> QED
    BY <1>1, PracticeInvariance, PTL

\* create_simulation (practice.py:140-161) never makes a second active run.
THEOREM AtMostOneActiveRun == Spec => []OneActiveRun
  <1>1. IInv => OneActiveRun
    BY DEF IInv
  <1> QED
    BY <1>1, PracticeInvariance, PTL

\* One step of GradedOnServedText.
GradedServed == \A q \in Questions : attempts'[q] # attempts[q] => cites[q] \in served

\* A new attempt was graded on a version in service.
LEMMA StepGrades == IInv /\ [Next]_vars => [GradedServed]_vars
  <1> SUFFICES ASSUME IInv, Next, NEW q \in Questions, attempts'[q] # attempts[q]
               PROVE  cites[q] \in served
    BY DEF GradedServed
  <1>1. PICK a \in answering : CommitAnswer(a)
    BY DEF Next, Publish, Withdraw, FindEvidence, CreateQuestion, CreateSimulation, Insert,
       CreateFails, CancelPractice, BeginAnswer, AnswerFails, results
  <1>2. a.question = q
    BY <1>1 DEF CommitAnswer, IInv, TypeOK
  <1> QED
    BY <1>2 DEF IInv, AnswersHoldVersions

\* No attempt is graded on a text that was withdrawn before (practice.py:101-106).
THEOREM AttemptsGradedOnServedText == Spec => GradedOnServedText
  <1>1. IInv /\ [Next]_vars => [\A q \in Questions : attempts'[q] # attempts[q] => cites[q] \in served]_vars
    BY StepGrades DEF GradedServed
  <1> QED
    BY <1>1, PracticeInvariance, PTL DEF Spec, GradedOnServedText
=============================================================================
