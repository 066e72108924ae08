------------------------- MODULE Idempotency_proofs -------------------------
(***************************************************************************)
(* Proofs about Idempotency, for every number of commands, keys, attempts  *)
(* and every interleaving: a key takes effect at most once, a crash leaves *)
(* no key without its effect, a success told to a student is true, and the *)
(* interleaved transactions implement AtMostOnce.                          *)
(***************************************************************************)
EXTENDS Idempotency, TLAPS

\* The key of a command is a key.
LEMMA KeyOfType ==
    ASSUME IdempotencyAssumption, NEW r \in Requests
    PROVE  KeyOf[r] \in Keys /\ r # NoRequest
  BY DEF IdempotencyAssumption, KeyOf, Requests, Attempts

\* What an answer can be: a success reports a request, the others nothing.
LEMMA AnswerFields ==
    ASSUME NEW x \in Answer
    PROVE  /\ x.kind = "success" => x.of \in Requests
           /\ x.kind # "success" => x.of = NoRequest
           /\ x.kind = "none" <=> x = NoAnswer
  BY DEF Answer, NoAnswer, Conflict, Failure, Success, LateReplay

\* The answers the API gives, and what they report.
LEMMA AnswerCases ==
    /\ NoAnswer \in Answer /\ Conflict \in Answer /\ Failure \in Answer
    /\ \A e \in Requests : Success(e) \in Answer /\ LateReplay(e) \in Answer
    /\ \A e : Success(e).kind = "success" /\ Success(e).of = e
    /\ \A e : LateReplay(e).kind = "success" /\ LateReplay(e).of = e
    /\ Conflict.kind = "conflict" /\ Conflict.of = NoRequest
    /\ Failure.kind = "failure" /\ Failure.of = NoRequest
    /\ NoAnswer.kind = "none" /\ NoAnswer.of = NoRequest
  BY DEF Answer, NoAnswer, Conflict, Failure, Success, LateReplay

-----------------------------------------------------------------------------
(***************************************************************************)
(* The inductive invariant.                                                *)
(***************************************************************************)

\* A transaction that works on a key is its writer, and only then has the key
\* a writer; nothing is committed under a key that has one.
WriterInv ==
    /\ \A r \in Requests : pc[r] \in Working => writer[KeyOf[r]] = r
    /\ \A k \in Keys : writer[k] # NoRequest =>
         KeyOf[writer[k]] = k /\ pc[writer[k]] \in Working /\ stored[k] = NoRequest
    /\ \A r \in Requests : pc[r] = "commit" => draft[KeyOf[r]] = "completed"

\* The rows of idempotency_keys are those of the requests that took effect.
StoredInv ==
    /\ \A r \in effects : stored[KeyOf[r]] = r
    /\ \A k \in Keys : stored[k] # NoRequest =>
         stored[k] \in effects /\ KeyOf[stored[k]] = k /\ storedAs[k] = "completed"

\* A success reports the effect recorded under the request's key.
TrueAnswer(r, x) ==
    x.kind = "success" =>
        /\ x.of \in effects /\ KeyOf[x.of] = KeyOf[r]
        /\ PrintOf[x.of] = PrintOf[r]

AnswerInv ==
    /\ \A r \in Requests : TrueAnswer(r, answer[r])
    /\ \A r \in Requests : pc[r] # "answered" => answer[r] = NoAnswer

ClientInv ==
    /\ \A i \in Intents, n \in Attempts : n > attempt[i] => pc[<<i, n>>] = "unsent"
    /\ SuccessIsTrue

IInv == TypeOK /\ WriterInv /\ StoredInv /\ AnswerInv /\ ClientInv

\* The transaction steps of a request and those of its client.
LEMMA NextCases ==
    ASSUME [Next]_vars
    PROVE  \/ \E r \in Requests : Serve(r) \/ Crash(r)
           \/ \E k \in Keys : Expire(k)
           \/ \E i \in Intents : Send(i) \/ Receive(i) \/ Timeout(i)
           \/ UNCHANGED vars
  BY DEF Next

\* A client step changes its own variables and starts at most one request.
LEMMA RequestTyped ==
    ASSUME NEW i \in Intents, NEW n \in Attempts
    PROVE  <<i, n>> \in Requests
  BY DEF Requests

\* An answer is one of those the API gives.
LEMMA VerdictTyped ==
    ASSUME IdempotencyAssumption, TypeOK, NEW r \in Requests, stored[KeyOf[r]] # NoRequest
    PROVE  Verdict(r) \in Answer
<1>1. KeyOf[r] \in Keys
  BY KeyOfType
<1>2. stored[KeyOf[r]] \in Requests
  BY <1>1 DEF TypeOK
<1>. QED BY <1>2, AnswerCases DEF Verdict, Recorded

\* Nothing has been sent.
LEMMA InitTyped == IdempotencyAssumption /\ Init => TypeOK
  BY AnswerCases DEF IdempotencyAssumption, Init, TypeOK, PC, Ended, Working, Attempts

\* A transaction writes columns of their types.
LEMMA ServeTyped ==
    ASSUME IdempotencyAssumption, TypeOK, NEW r \in Requests, Serve(r) \/ Crash(r)
    PROVE  TypeOK'
<1>1. KeyOf[r] \in Keys /\ r # NoRequest
  BY KeyOfType
<1>2. CASE SelectFound(r)
  BY <1>2, VerdictTyped DEF SelectFound, Reply, Goto, TypeOK, rows, client, PC, Ended
<1>3. CASE SelectNothing(r)
  BY <1>3 DEF SelectNothing, Goto, TypeOK, rows, client, PC
<1>4. CASE InsertKey(r)
  BY <1>1, <1>4 DEF InsertKey, Goto, TypeOK, client, PC, Working
<1>5. CASE InsertConflict(r)
  BY <1>5, AnswerCases DEF InsertConflict, Reply, Goto, TypeOK, rows, client, PC, Ended
<1>6. CASE Operate(r)
  BY <1>6 DEF Operate, Goto, TypeOK, rows, client, PC, Working
<1>7. CASE OperationFails(r)
  <2>1. PICK a \in {Conflict, Failure} : Reply(r, a)
    BY <1>7 DEF OperationFails
  <2>2. a \in Answer
    BY AnswerCases
  <2>3. pc' \in [Requests -> PC] /\ answer' \in [Requests -> Answer]
    BY <2>1, <2>2 DEF Reply, Goto, TypeOK, PC, Ended
  <2>. QED BY <1>7, <2>3 DEF OperationFails, Rollback, TypeOK, client
<1>8. CASE Finish(r)
  BY <1>8 DEF Finish, Goto, TypeOK, client, PC, Working
<1>9. CASE Commit(r)
  <2>1. draft[KeyOf[r]] \in {"none", "processing", "completed"}
    BY <1>1 DEF TypeOK
  <2>. QED BY <1>9, <2>1, AnswerCases DEF Commit, Reply, Goto, TypeOK, client, PC, Ended
<1>10. CASE Crash(r)
  <2>1. pc' \in [Requests -> PC] /\ UNCHANGED <<answer, expired, attempt, told>>
    BY <1>10 DEF Crash, Goto, TypeOK, client, PC, Ended
  <2>2. Rollback(KeyOf[r]) \/ UNCHANGED rows
    BY <1>10 DEF Crash
  <2>3. CASE Rollback(KeyOf[r])
    BY <2>1, <2>3 DEF Rollback, TypeOK
  <2>4. CASE UNCHANGED rows
    BY <2>1, <2>4 DEF rows, TypeOK
  <2>. QED BY <2>2, <2>3, <2>4
<1>. QED
  BY <1>2, <1>3, <1>4, <1>5, <1>6, <1>7, <1>8, <1>9, <1>10 DEF Serve

\* So does sending a command again.
LEMMA RetryTyped ==
    ASSUME IdempotencyAssumption, TypeOK, NEW i \in Intents, Waiting(i), Retry(i)
    PROVE  /\ pc' \in [Requests -> PC]
           /\ attempt' \in [Intents -> 0 .. MaxAttempts]
           /\ told' \in [Intents -> Answer]
<1>1. attempt[i] \in 0 .. MaxAttempts /\ MaxAttempts \in Nat
  BY DEF TypeOK, IdempotencyAssumption
<1>2. CASE attempt[i] < MaxAttempts
  <2>1. attempt[i] + 1 \in 0 .. MaxAttempts
    BY <1>1, <1>2
  <2>. QED BY <1>2, <2>1 DEF Retry, Goto, TypeOK, PC
<1>3. CASE ~(attempt[i] < MaxAttempts)
  BY <1>3, AnswerCases DEF Retry, TypeOK
<1>. QED BY <1>2, <1>3

\* So does everything a client does.
LEMMA ClientTyped ==
    ASSUME IdempotencyAssumption, TypeOK, NEW i \in Intents, Send(i) \/ Receive(i) \/ Timeout(i)
    PROVE  TypeOK'
<1>1. CASE Send(i)
  <2>1. 1 \in 0 .. MaxAttempts
    BY DEF IdempotencyAssumption
  <2>. QED BY <1>1, <2>1 DEF Send, Goto, TypeOK, rows, PC
<1>2. CASE Receive(i)
  <2>1. /\ Waiting(i) /\ UNCHANGED <<answer, rows, expired>>
        /\ \/ Retry(i)
           \/ /\ told' = [told EXCEPT ![i] = answer[<<i, attempt[i]>>]]
              /\ UNCHANGED <<attempt, pc>>
    BY <1>2 DEF Receive
  <2>2. answer[<<i, attempt[i]>>] \in Answer
    <3>1. attempt[i] \in Attempts
      BY <2>1 DEF Waiting, TypeOK, Attempts
    <3>. QED BY <3>1, RequestTyped DEF TypeOK
  <2>3. /\ pc' \in [Requests -> PC]
        /\ attempt' \in [Intents -> 0 .. MaxAttempts]
        /\ told' \in [Intents -> Answer]
    <3>1. CASE Retry(i)
      BY <2>1, <3>1, RetryTyped
    <3>2. CASE ~Retry(i)
      BY <2>1, <2>2, <3>2 DEF TypeOK
    <3>. QED BY <3>1, <3>2
  <2>. QED BY <2>1, <2>3 DEF TypeOK, rows
<1>3. CASE Timeout(i)
  BY <1>3, RetryTyped DEF Timeout, TypeOK, rows
<1>. QED BY <1>1, <1>2, <1>3

\* Every step writes values of their types.
LEMMA NextTyped == IdempotencyAssumption /\ TypeOK /\ [Next]_vars => TypeOK'
<1> SUFFICES ASSUME IdempotencyAssumption, TypeOK, [Next]_vars PROVE TypeOK'
  OBVIOUS
<1>1. ASSUME NEW k \in Keys, Expire(k) PROVE TypeOK'
  BY <1>1 DEF Expire, TypeOK, rows, client
<1>2. CASE UNCHANGED vars
  BY <1>2 DEF vars, rows, client, TypeOK
<1>. QED BY <1>1, <1>2, ServeTyped, ClientTyped, NextCases

-----------------------------------------------------------------------------
(***************************************************************************)
(* The writer of a key, and the rows the commits leave.                    *)
(***************************************************************************)

\* A rollback of a working transaction frees its key and nothing else.
LEMMA RollbackWriter ==
    ASSUME IdempotencyAssumption, TypeOK, WriterInv, StoredInv, NEW r \in Requests,
           pc[r] \in Working, Rollback(KeyOf[r]),
           NEW label \in Ended, Goto(r, label)
    PROVE  WriterInv' /\ StoredInv'
<1>1. KeyOf[r] \in Keys /\ \A s \in Requests : KeyOf[s] \in Keys
  BY KeyOfType
<1>2. writer[KeyOf[r]] = r
  BY DEF WriterInv
<1>3. pc'[r] = label /\ label \notin Working /\ label # "commit"
  BY DEF Goto, TypeOK, Ended, Working
<1>4. \A s \in Requests : s # r => pc'[s] = pc[s]
  BY DEF Goto, TypeOK
<1>5. \A s \in Requests : s # r /\ pc[s] \in Working => KeyOf[s] # KeyOf[r]
  BY <1>2 DEF WriterInv
<1>6. /\ writer'[KeyOf[r]] = NoRequest
      /\ \A k \in Keys : k # KeyOf[r] => writer'[k] = writer[k] /\ draft'[k] = draft[k]
  BY <1>1 DEF Rollback, TypeOK
<1>7. WriterInv'
  <2>1. \A s \in Requests : pc'[s] \in Working => writer'[KeyOf[s]] = s
    BY <1>1, <1>3, <1>4, <1>5, <1>6 DEF WriterInv
  <2>2. \A k \in Keys : writer'[k] # NoRequest =>
          KeyOf[writer'[k]] = k /\ pc'[writer'[k]] \in Working /\ stored'[k] = NoRequest
    <3> SUFFICES ASSUME NEW k \in Keys, writer'[k] # NoRequest
                 PROVE  KeyOf[writer'[k]] = k /\ pc'[writer'[k]] \in Working
                        /\ stored'[k] = NoRequest
      OBVIOUS
    <3>1. k # KeyOf[r] /\ writer'[k] = writer[k]
      BY <1>6
    <3>2. writer[k] \in Requests /\ writer[k] # r
      BY <3>1 DEF TypeOK, WriterInv
    <3>. QED BY <1>4, <3>1, <3>2 DEF WriterInv, Rollback
  <2>3. \A s \in Requests : pc'[s] = "commit" => draft'[KeyOf[s]] = "completed"
    BY <1>1, <1>3, <1>4, <1>5, <1>6 DEF WriterInv, Working
  <2>. QED BY <2>1, <2>2, <2>3 DEF WriterInv
<1>8. StoredInv'
  BY DEF Rollback, StoredInv
<1>. QED BY <1>7, <1>8

\* A request that moves outside its transaction's work disturbs neither.
LEMMA OutsideWriter ==
    ASSUME TypeOK, WriterInv, StoredInv, NEW r \in Requests, pc[r] \notin Working,
           NEW label \in PC, label \notin Working, Goto(r, label), UNCHANGED rows
    PROVE  WriterInv' /\ StoredInv'
<1>1. /\ pc'[r] = label /\ label # "commit"
      /\ \A s \in Requests : s # r => pc'[s] = pc[s]
  BY DEF Goto, TypeOK, Working
<1>2. \A k \in Keys : writer[k] # NoRequest => writer[k] # r /\ writer[k] \in Requests
  BY DEF WriterInv, TypeOK
<1>. QED BY <1>1, <1>2 DEF rows, WriterInv, StoredInv

\* A key has the transaction that inserted it as its writer until it ends.
LEMMA WriterStep ==
    ASSUME IdempotencyAssumption, TypeOK, WriterInv, StoredInv,
           NEW r \in Requests, Serve(r) \/ Crash(r)
    PROVE  WriterInv' /\ StoredInv'
<1>1. /\ KeyOf[r] \in Keys /\ r # NoRequest
      /\ \A s \in Requests : KeyOf[s] \in Keys /\ s # NoRequest
  BY KeyOfType
<1>2. CASE SelectFound(r) \/ SelectNothing(r) \/ InsertConflict(r)
  <2>1. PICK label \in {"insert", "answered"} : Goto(r, label)
    BY <1>2 DEF SelectFound, SelectNothing, InsertConflict, Reply
  <2>2. pc[r] \notin Working /\ UNCHANGED rows
    BY <1>2 DEF SelectFound, SelectNothing, InsertConflict, Working
  <2>3. label \in PC /\ label \notin Working
    BY DEF PC, Ended, Working
  <2>. QED BY <2>1, <2>2, <2>3, OutsideWriter
<1>3. CASE InsertKey(r)
  <2>1. /\ writer[KeyOf[r]] = NoRequest /\ stored[KeyOf[r]] = NoRequest
        /\ writer'[KeyOf[r]] = r /\ pc'[r] = "operate"
        /\ stored' = stored /\ storedAs' = storedAs /\ effects' = effects
    BY <1>1, <1>3 DEF InsertKey, Goto, TypeOK
  <2>2. /\ \A s \in Requests : s # r => pc'[s] = pc[s]
        /\ \A k \in Keys : k # KeyOf[r] => writer'[k] = writer[k] /\ draft'[k] = draft[k]
    BY <1>3 DEF InsertKey, Goto, TypeOK
  <2>3. \A s \in Requests : s # r /\ pc[s] \in Working => KeyOf[s] # KeyOf[r]
    BY <1>1, <2>1 DEF WriterInv
  <2>4. \A s \in Requests : pc'[s] \in Working => writer'[KeyOf[s]] = s
    BY <1>1, <2>1, <2>2, <2>3 DEF WriterInv
  <2>5. \A k \in Keys : writer'[k] # NoRequest =>
          KeyOf[writer'[k]] = k /\ pc'[writer'[k]] \in Working /\ stored'[k] = NoRequest
    <3>1. pc[r] = "insert"
      BY <1>3 DEF InsertKey
    <3>2. \A k \in Keys : writer[k] # NoRequest => writer[k] # r /\ writer[k] \in Requests
      BY <3>1 DEF WriterInv, Working, TypeOK
    <3>. QED BY <2>1, <2>2, <3>2 DEF WriterInv, Working
  <2>6. \A s \in Requests : pc'[s] = "commit" => draft'[KeyOf[s]] = "completed"
    BY <1>1, <2>1, <2>2, <2>3 DEF WriterInv, Working
  <2>. QED BY <2>1, <2>4, <2>5, <2>6 DEF WriterInv, StoredInv
<1>4. CASE Operate(r)
  <2>1. /\ pc[r] \in Working /\ pc'[r] \in Working /\ pc'[r] # "commit"
        /\ \A s \in Requests : s # r => pc'[s] = pc[s]
    BY <1>4 DEF Operate, Goto, TypeOK, Working
  <2>2. UNCHANGED <<stored, storedAs, writer, draft, effects>>
    BY <1>4 DEF Operate, rows
  <2>3. \A k \in Keys : writer[k] \in Requests \cup {NoRequest}
    BY DEF TypeOK
  <2>. QED BY <2>1, <2>2, <2>3 DEF WriterInv, StoredInv
<1>5. CASE OperationFails(r)
  <2>1. pc[r] \in Working /\ Rollback(KeyOf[r]) /\ Goto(r, "answered") /\ "answered" \in Ended
    BY <1>5 DEF OperationFails, Reply, Working, Ended
  <2>. QED BY <2>1, RollbackWriter
<1>6. CASE Finish(r)
  <2>1. /\ pc[r] \in Working /\ pc'[r] = "commit" /\ "commit" \in Working
        /\ \A s \in Requests : s # r => pc'[s] = pc[s]
    BY <1>6 DEF Finish, Goto, TypeOK, Working
  <2>2. UNCHANGED <<stored, storedAs, writer, effects>>
    BY <1>6 DEF Finish
  <2>3. \A k \in Keys : writer[k] \in Requests \cup {NoRequest}
    BY DEF TypeOK
  <2>4. \A k \in Keys : draft'[k] = IF k = KeyOf[r] THEN "completed" ELSE draft[k]
    BY <1>6 DEF Finish, TypeOK
  <2>5. \A s \in Requests : pc'[s] = "commit" => draft'[KeyOf[s]] = "completed"
    BY <1>1, <2>1, <2>4 DEF WriterInv
  <2>. QED BY <2>1, <2>2, <2>3, <2>5 DEF WriterInv, StoredInv
<1>7. CASE Commit(r)
  <2>1. /\ pc[r] = "commit" /\ pc[r] \in Working /\ pc'[r] = "answered" /\ "answered" \notin Working
        /\ \A s \in Requests : s # r => pc'[s] = pc[s]
    BY <1>7 DEF Commit, Reply, Goto, TypeOK, Working
  <2>2. writer[KeyOf[r]] = r /\ stored[KeyOf[r]] = NoRequest /\ draft[KeyOf[r]] = "completed"
    BY <1>1, <2>1 DEF WriterInv
  <2>3. /\ stored'[KeyOf[r]] = r /\ storedAs'[KeyOf[r]] = "completed"
        /\ writer'[KeyOf[r]] = NoRequest /\ effects' = effects \cup {r}
        /\ \A k \in Keys : k # KeyOf[r] =>
             /\ stored'[k] = stored[k] /\ storedAs'[k] = storedAs[k]
             /\ writer'[k] = writer[k] /\ draft'[k] = draft[k]
    BY <1>1, <1>7, <2>2 DEF Commit, TypeOK
  <2>4. \A s \in Requests : s # r /\ pc[s] \in Working => KeyOf[s] # KeyOf[r]
    BY <2>2 DEF WriterInv
  <2>5. \A s \in effects : KeyOf[s] # KeyOf[r] /\ s \in Requests
    BY <1>1, <2>2 DEF StoredInv, TypeOK
  <2>6. StoredInv'
    BY <1>1, <2>3, <2>5 DEF StoredInv
  <2>7. \A k \in Keys : writer'[k] # NoRequest => k # KeyOf[r] /\ writer[k] \in Requests /\ writer[k] # r
    BY <2>2, <2>3 DEF WriterInv, TypeOK
  <2>8. WriterInv'
    BY <1>1, <2>1, <2>3, <2>4, <2>7 DEF WriterInv
  <2>. QED BY <2>6, <2>8
<1>8. CASE Crash(r)
  <2>1. CASE pc[r] \in Working
    BY <1>8, <2>1, RollbackWriter DEF Crash, Ended
  <2>2. CASE pc[r] \notin Working
    BY <1>8, <2>2, OutsideWriter DEF Crash, PC, Ended, Working
  <2>. QED BY <2>1, <2>2
<1>. QED BY <1>2, <1>3, <1>4, <1>5, <1>6, <1>7, <1>8 DEF Serve

\* A client's step starts at most one request, which had not been sent.
LEMMA RetryStarts ==
    ASSUME IdempotencyAssumption, TypeOK, ClientInv, NEW i \in Intents, Waiting(i), Retry(i)
    PROVE  /\ \/ pc' = pc /\ attempt' = attempt
              \/ /\ attempt[i] + 1 \in Attempts /\ pc[<<i, attempt[i] + 1>>] = "unsent"
                 /\ Goto(<<i, attempt[i] + 1>>, "select")
                 /\ attempt' = [attempt EXCEPT ![i] = attempt[i] + 1]
           /\ told' = told \/ told' = [told EXCEPT ![i] = Failure]
<1>1. attempt[i] \in Nat /\ MaxAttempts \in Nat
  BY DEF TypeOK, IdempotencyAssumption
<1>2. CASE attempt[i] < MaxAttempts
  <2>1. attempt[i] + 1 \in Attempts /\ attempt[i] + 1 > attempt[i]
    BY <1>1, <1>2 DEF Attempts
  <2>2. pc[<<i, attempt[i] + 1>>] = "unsent"
    BY <2>1 DEF ClientInv
  <2>. QED BY <1>2, <2>1, <2>2 DEF Retry
<1>3. CASE ~(attempt[i] < MaxAttempts)
  BY <1>3 DEF Retry
<1>. QED BY <1>2, <1>3

\* A client only starts requests of its own commands.
LEMMA ClientStarts ==
    ASSUME IdempotencyAssumption, TypeOK, ClientInv, NEW i \in Intents,
           Send(i) \/ Receive(i) \/ Timeout(i)
    PROVE  /\ UNCHANGED <<answer, rows, expired>>
           /\ \/ pc' = pc /\ attempt' = attempt
              \/ \E n \in Attempts :
                   /\ n = attempt[i] + 1 /\ pc[<<i, n>>] = "unsent"
                   /\ Goto(<<i, n>>, "select") /\ attempt' = [attempt EXCEPT ![i] = n]
           /\ \/ told' = told
              \/ told' = [told EXCEPT ![i] = Failure]
              \/ /\ attempt[i] \in Attempts
                 /\ told' = [told EXCEPT ![i] = answer[<<i, attempt[i]>>]]
<1>1. CASE Send(i)
  <2>1. 1 \in Attempts /\ attempt[i] = 0 /\ 1 = attempt[i] + 1
    BY <1>1 DEF IdempotencyAssumption, Attempts, Send
  <2>2. pc[<<i, 1>>] = "unsent"
    BY <2>1 DEF ClientInv, Attempts
  <2>. QED BY <1>1, <2>1, <2>2 DEF Send
<1>2. CASE Receive(i)
  <2>1. Waiting(i) /\ UNCHANGED <<answer, rows, expired>>
    BY <1>2 DEF Receive
  <2>2. attempt[i] \in Attempts
    BY <2>1 DEF Waiting, TypeOK, Attempts
  <2>3. CASE Retry(i)
    BY <2>1, <2>3, RetryStarts
  <2>4. CASE ~Retry(i)
    BY <1>2, <2>1, <2>2, <2>4 DEF Receive
  <2>. QED BY <2>3, <2>4
<1>3. CASE Timeout(i)
  BY <1>3, RetryStarts DEF Timeout
<1>. QED BY <1>1, <1>2, <1>3

\* Starting a request leaves the keys alone.
LEMMA ClientWriter ==
    ASSUME IdempotencyAssumption, TypeOK, WriterInv, StoredInv, ClientInv, NEW i \in Intents,
           Send(i) \/ Receive(i) \/ Timeout(i)
    PROVE  WriterInv' /\ StoredInv'
<1>1. UNCHANGED rows
  BY ClientStarts
<1>2. CASE pc' = pc
  BY <1>1, <1>2 DEF rows, WriterInv, StoredInv
<1>3. CASE \E n \in Attempts : pc[<<i, n>>] = "unsent" /\ Goto(<<i, n>>, "select")
  <2>1. PICK n \in Attempts : pc[<<i, n>>] = "unsent" /\ Goto(<<i, n>>, "select")
    BY <1>3
  <2>2. <<i, n>> \in Requests /\ pc[<<i, n>>] \notin Working
        /\ "select" \in PC /\ "select" \notin Working
    BY <2>1, RequestTyped DEF Working, PC
  <2>. QED BY <1>1, <2>1, <2>2, OutsideWriter
<1>. QED BY <1>2, <1>3, ClientStarts

-----------------------------------------------------------------------------
(***************************************************************************)
(* What the API answers and what the student is told.                      *)
(***************************************************************************)

TrueReply(r, a) ==
    /\ Reply(r, a)
    /\ a.kind = "success" =>
         /\ a.of \in effects' /\ KeyOf[a.of] = KeyOf[r]
         /\ PrintOf[a.of] = PrintOf[r]

\* Every answer given is true when it is given.
LEMMA ReplyTrue ==
    ASSUME IdempotencyAssumption, TypeOK, WriterInv, StoredInv,
           NEW r \in Requests, Serve(r), answer' # answer
    PROVE  \E a \in Answer : TrueReply(r, a)
<1>1. KeyOf[r] \in Keys
  BY KeyOfType
<1>2. CASE SelectFound(r)
  <2>1. Reply(r, Verdict(r)) /\ pc[r] = "select" /\ stored[KeyOf[r]] # NoRequest /\ effects' = effects
    BY <1>2 DEF SelectFound, rows
  <2>2. Verdict(r) \in Answer
    BY <2>1, VerdictTyped
  <2>3. stored[KeyOf[r]] \in effects /\ KeyOf[stored[KeyOf[r]]] = KeyOf[r]
    BY <1>1, <2>1 DEF StoredInv
  <2>4. Verdict(r).kind = "success" =>
          Verdict(r).of = stored[KeyOf[r]] /\ PrintOf[stored[KeyOf[r]]] = PrintOf[r]
    BY AnswerCases DEF Verdict, Recorded
  <2>. QED BY <2>1, <2>2, <2>3, <2>4 DEF TrueReply
<1>3. CASE InsertConflict(r) \/ OperationFails(r)
  <2>1. PICK a \in {Conflict, Failure} : Reply(r, a) /\ pc[r] \in {"insert", "operate"}
    BY <1>3 DEF InsertConflict, OperationFails
  <2>2. a \in Answer /\ a.kind # "success"
    BY AnswerCases
  <2>. QED BY <2>1, <2>2 DEF TrueReply
<1>4. CASE Commit(r)
  BY <1>4, AnswerCases DEF Commit, TrueReply
<1>5. CASE SelectNothing(r) \/ InsertKey(r) \/ Operate(r) \/ Finish(r)
  BY <1>5 DEF SelectNothing, InsertKey, Operate, Finish
<1>. QED BY <1>2, <1>3, <1>4, <1>5 DEF Serve

\* The effects only grow.
LEMMA EffectsGrow ==
    ASSUME [Next]_vars PROVE effects \subseteq effects'
  BY DEF Next, Serve, vars, rows, SelectFound, SelectNothing, InsertKey, InsertConflict, Operate,
         OperationFails, Rollback, Finish, Commit, Crash, Expire, Send, Receive, Timeout

\* A transaction's step moves its own request only.
LEMMA ServeScope ==
    ASSUME TypeOK, NEW r \in Requests, Serve(r) \/ Crash(r)
    PROVE  /\ pc[r] \notin {"unsent", "answered"} /\ attempt' = attempt /\ told' = told
           /\ \A s \in Requests : s # r => pc'[s] = pc[s]
           /\ Crash(r) => answer' = answer
  BY DEF TypeOK, Serve, SelectFound, SelectNothing, InsertKey, InsertConflict, Operate,
         OperationFails, Finish, Commit, Crash, Reply, Goto, client, Working

\* A transaction answers only what has been performed.
LEMMA AnswerServe ==
    ASSUME IdempotencyAssumption, TypeOK, WriterInv, StoredInv, AnswerInv,
           effects \subseteq effects', NEW r \in Requests, Serve(r) \/ Crash(r)
    PROVE  AnswerInv'
<1>1. CASE answer' = answer
  <2>1. \A s \in Requests : TrueAnswer(s, answer[s])'
    BY <1>1 DEF AnswerInv, TrueAnswer
  <2>2. \A s \in Requests : pc'[s] # "answered" => answer'[s] = NoAnswer
    BY <1>1, ServeScope DEF AnswerInv
  <2>. QED BY <2>1, <2>2 DEF AnswerInv
<1>2. CASE answer' # answer
  <2>1. Serve(r)
    BY <1>2, ServeScope
  <2>2. PICK a \in Answer : TrueReply(r, a)
    BY <1>2, <2>1, ReplyTrue
  <2>3. answer'[r] = a /\ pc'[r] = "answered" /\ \A s \in Requests : s # r => answer'[s] = answer[s]
    BY <2>2 DEF TrueReply, Reply, Goto, TypeOK
  <2>4. \A s \in Requests : TrueAnswer(s, answer[s])'
    BY <2>2, <2>3 DEF TrueReply, AnswerInv, TrueAnswer
  <2>5. \A s \in Requests : pc'[s] # "answered" => answer'[s] = NoAnswer
    BY <2>3, ServeScope DEF AnswerInv
  <2>. QED BY <2>4, <2>5 DEF AnswerInv
<1>. QED BY <1>1, <1>2

\* What a transaction does leaves true what its client was told.
LEMMA ClientServe ==
    ASSUME TypeOK, ClientInv, effects \subseteq effects', NEW r \in Requests, Serve(r) \/ Crash(r)
    PROVE  ClientInv'
<1>1. \A i \in Intents, n \in Attempts : n > attempt'[i] => pc'[<<i, n>>] = "unsent"
  <2> SUFFICES ASSUME NEW i \in Intents, NEW n \in Attempts, n > attempt'[i]
               PROVE  pc'[<<i, n>>] = "unsent"
    OBVIOUS
  <2>1. attempt' = attempt
    BY ServeScope
  <2>2. pc[<<i, n>>] = "unsent"
    BY <2>1 DEF ClientInv
  <2>. QED BY <2>2, ServeScope, RequestTyped
<1>2. told' = told
  BY ServeScope
<1>. QED BY <1>1, <1>2 DEF ClientInv, SuccessIsTrue

\* No client changes what has been performed.
LEMMA AnswerClient ==
    ASSUME IdempotencyAssumption, TypeOK, AnswerInv, ClientInv, NEW i \in Intents,
           Send(i) \/ Receive(i) \/ Timeout(i)
    PROVE  AnswerInv' /\ ClientInv'
<1>1. answer' = answer /\ effects' = effects
  BY ClientStarts DEF rows
<1>2. AnswerInv'
  <2>1. \A s \in Requests : pc'[s] # "answered" => answer'[s] = NoAnswer
    <3>1. CASE pc' = pc
      BY <1>1, <3>1 DEF AnswerInv
    <3>2. CASE \E n \in Attempts : pc[<<i, n>>] = "unsent" /\ Goto(<<i, n>>, "select")
      <4>1. PICK n \in Attempts : pc[<<i, n>>] = "unsent" /\ Goto(<<i, n>>, "select")
        BY <3>2
      <4>2. \A s \in Requests : s # <<i, n>> => pc'[s] = pc[s]
        BY <4>1, RequestTyped DEF Goto, TypeOK
      <4>. QED BY <1>1, <4>1, <4>2 DEF AnswerInv
    <3>. QED BY <3>1, <3>2, ClientStarts
  <2>. QED BY <1>1, <2>1 DEF AnswerInv, TrueAnswer
<1>3. \A j \in Intents, n \in Attempts : n > attempt'[j] => pc'[<<j, n>>] = "unsent"
  <2> SUFFICES ASSUME NEW j \in Intents, NEW n \in Attempts, n > attempt'[j]
               PROVE  pc'[<<j, n>>] = "unsent"
    OBVIOUS
  <2>1. CASE pc' = pc /\ attempt' = attempt
    BY <2>1 DEF ClientInv
  <2>2. CASE \E m \in Attempts : /\ m = attempt[i] + 1 /\ Goto(<<i, m>>, "select")
                                /\ attempt' = [attempt EXCEPT ![i] = m]
    <3>1. PICK m \in Attempts : /\ m = attempt[i] + 1 /\ Goto(<<i, m>>, "select")
                                /\ attempt' = [attempt EXCEPT ![i] = m]
      BY <2>2
    <3>2. attempt[i] \in Nat /\ m \in Nat /\ n \in Nat
      BY DEF TypeOK, Attempts
    <3>3. /\ j = i => n > m
          /\ j # i => attempt'[j] = attempt[j]
      BY <3>1 DEF TypeOK
    <3>4. n > attempt[j] /\ <<j, n>> # <<i, m>>
      BY <3>1, <3>2, <3>3
    <3>5. pc[<<j, n>>] = "unsent" /\ <<j, n>> \in Requests
      BY <3>4, RequestTyped DEF ClientInv
    <3>. QED BY <3>1, <3>4, <3>5 DEF Goto, TypeOK
  <2>. QED BY <2>1, <2>2, ClientStarts
<1>4. SuccessIsTrue'
  <2>1. CASE told' = told
    BY <1>1, <2>1 DEF ClientInv, SuccessIsTrue
  <2>2. CASE told' = [told EXCEPT ![i] = Failure]
    BY <1>1, <2>2, AnswerCases DEF ClientInv, SuccessIsTrue, TypeOK
  <2>3. CASE attempt[i] \in Attempts /\ told' = [told EXCEPT ![i] = answer[<<i, attempt[i]>>]]
    <3> DEFINE r == <<i, attempt[i]>>
    <3>1. r \in Requests /\ PrintOf[r] = PrintOfIntent[i]
      BY <2>3, RequestTyped DEF PrintOf
    <3>2. TrueAnswer(r, answer[r])
      BY <3>1 DEF AnswerInv
    <3>3. told'[i] = answer[r] /\ \A j \in Intents : j # i => told'[j] = told[j]
      BY <2>3 DEF TypeOK
    <3>. QED BY <1>1, <3>1, <3>2, <3>3 DEF TrueAnswer, ClientInv, SuccessIsTrue
  <2>. QED BY <2>1, <2>2, <2>3, ClientStarts
<1>. QED BY <1>2, <1>3, <1>4 DEF ClientInv

-----------------------------------------------------------------------------
(***************************************************************************)
(* Invariance.                                                             *)
(***************************************************************************)
LEMMA InitIInv == IdempotencyAssumption /\ Init => IInv
<1> SUFFICES ASSUME IdempotencyAssumption, Init PROVE IInv
  OBVIOUS
<1>1. TypeOK
  BY InitTyped
<1>2. WriterInv /\ StoredInv
  BY KeyOfType DEF Init, WriterInv, StoredInv, Working
<1>3. AnswerInv
  BY AnswerCases DEF Init, AnswerInv, TrueAnswer
<1>4. ClientInv
  BY AnswerCases, RequestTyped DEF Init, ClientInv, SuccessIsTrue
<1>. QED BY <1>1, <1>2, <1>3, <1>4 DEF IInv

\* Every step keeps the inductive invariant.
LEMMA NextIInv == IdempotencyAssumption /\ IInv /\ [Next]_vars => IInv'
<1> SUFFICES ASSUME IdempotencyAssumption, IInv, [Next]_vars PROVE IInv'
  OBVIOUS
<1>0. TypeOK /\ TypeOK' /\ WriterInv /\ StoredInv /\ AnswerInv /\ ClientInv /\ effects \subseteq effects'
  BY NextTyped, EffectsGrow DEF IInv
<1>1. ASSUME NEW r \in Requests, Serve(r) \/ Crash(r) PROVE IInv'
  BY <1>0, <1>1, WriterStep, AnswerServe, ClientServe DEF IInv
<1>2. ASSUME NEW i \in Intents, Send(i) \/ Receive(i) \/ Timeout(i) PROVE IInv'
  BY <1>0, <1>2, ClientWriter, AnswerClient DEF IInv
<1>3. ASSUME NEW k \in Keys, Expire(k) PROVE IInv'
  BY <1>0, <1>3
  DEF IInv, Expire, rows, client, WriterInv, StoredInv, AnswerInv, TrueAnswer, ClientInv, SuccessIsTrue
<1>4. CASE UNCHANGED vars
  BY <1>0, <1>4
  DEF IInv, vars, rows, client, WriterInv, StoredInv, AnswerInv, TrueAnswer, ClientInv, SuccessIsTrue
<1>. QED BY <1>1, <1>2, <1>3, <1>4, NextCases

\* The inductive invariant holds in every reachable state.
THEOREM Invariance == Spec => []IInv
<1>1. Init => IInv
  BY IdempotencyAssumption, InitIInv
<1>2. IInv /\ [Next]_vars => IInv'
  BY IdempotencyAssumption, NextIInv
<1>. QED BY <1>1, <1>2, PTL DEF Spec

\* Every reachable state is well typed.
THEOREM TypeCorrect == Spec => []TypeOK
<1>1. IInv => TypeOK
  BY DEF IInv
<1>. QED BY <1>1, Invariance, PTL

\* The operation of a key takes effect at most once.
THEOREM AtMostOnceEver == Spec => []AtMostOneEffect
<1>1. IInv => AtMostOneEffect
  BY DEF IInv, StoredInv, AtMostOneEffect
<1>. QED BY <1>1, Invariance, PTL

\* A success told to a student is that of an execution of his own payload.
THEOREM SuccessToldIsTrue == Spec => []SuccessIsTrue
<1>1. IInv => SuccessIsTrue
  BY DEF IInv, ClientInv
<1>. QED BY <1>1, Invariance, PTL

\* No crash separates a key from its effect.
THEOREM KeyAndEffectTogether == Spec => []KeyIffEffect
<1>1. IInv => KeyIffEffect
  <2> SUFFICES ASSUME IInv, NEW k \in Keys
               PROVE  /\ stored[k] # NoRequest <=> \E r \in effects : KeyOf[r] = k
                      /\ stored[k] # NoRequest => storedAs[k] = "completed" /\ stored[k] \in effects
    BY DEF KeyIffEffect
  <2>1. StoredInv /\ effects \subseteq Requests
    BY DEF IInv, TypeOK
  <2>2. \A r \in effects : r # NoRequest
    BY <2>1, KeyOfType, IdempotencyAssumption
  <2>. QED BY <2>1, <2>2 DEF StoredInv
<1>. QED BY <1>1, Invariance, PTL

\* An insert that has to wait, because its key is inserted and not committed,
\* waits for a transaction that is running and waits for nobody; when that one
\* ends either the insert succeeds or the committed key refuses it.
InsertsWaitForWorkers ==
    \A r \in Requests : pc[r] = "insert" =>
        LET k == KeyOf[r] IN
        \/ writer[k] = NoRequest
        \/ /\ writer[k] \in Requests \ {r}
           /\ KeyOf[writer[k]] = k
           /\ pc[writer[k]] \in Working
           /\ stored[k] = NoRequest

\* Whatever crashes, no insert waits for a transaction that has ended or waits
\* itself: the safety under RequestsEnd (academic.py, _begin_idempotency).
THEOREM NobodyWaitsForTheDead == Spec => []InsertsWaitForWorkers
<1>1. IInv => InsertsWaitForWorkers
  <2> SUFFICES ASSUME IInv, NEW r \in Requests, pc[r] = "insert", writer[KeyOf[r]] # NoRequest
               PROVE  /\ writer[KeyOf[r]] \in Requests \ {r}
                      /\ KeyOf[writer[KeyOf[r]]] = KeyOf[r]
                      /\ pc[writer[KeyOf[r]]] \in Working
                      /\ stored[KeyOf[r]] = NoRequest
    BY DEF InsertsWaitForWorkers
  <2>1. TypeOK /\ WriterInv /\ KeyOf[r] \in Keys
    BY KeyOfType, IdempotencyAssumption DEF IInv
  <2>2. writer[KeyOf[r]] \in Requests /\ "insert" \notin Working
    BY <2>1 DEF TypeOK, Working
  <2>. QED BY <2>1, <2>2 DEF WriterInv
<1>. QED BY <1>1, Invariance, PTL

-----------------------------------------------------------------------------
(***************************************************************************)
(* The interleaved transactions implement AtMostOnce: a commit performs    *)
(* and answers, a lookup of a completed row replays, the rest stutters.    *)
(***************************************************************************)
Reported == [r \in Requests |-> answer[r].of]

\* An answer that reports nothing leaves the abstract state as it is.
LEMMA SilentReply ==
    ASSUME TypeOK, AnswerInv, NEW r \in Requests, pc[r] # "answered",
           NEW a \in Answer, a.of = NoRequest, Reply(r, a)
    PROVE  Reported' = Reported
<1>1. answer[r].of = NoRequest
  BY AnswerCases DEF AnswerInv
<1>2. \A s \in Requests : answer'[s].of = answer[s].of
  BY <1>1 DEF Reply, TypeOK
<1>. QED BY <1>2 DEF Reported

\* An answer that reports an execution sets the abstract reply.
LEMMA LoudReply ==
    ASSUME TypeOK, AnswerInv, NEW r \in Requests, pc[r] # "answered",
           NEW a \in Answer, Reply(r, a)
    PROVE  /\ Reported[r] = NoRequest
           /\ Reported' = [Reported EXCEPT ![r] = a.of]
<1>1. answer[r].of = NoRequest
  BY AnswerCases DEF AnswerInv
<1>2. answer' = [answer EXCEPT ![r] = a]
  BY DEF Reply
<1>. QED BY <1>1, <1>2 DEF Reported, TypeOK

\* Every step is one of AtMostOnce or changes nothing it knows of.
LEMMA Simulation ==
    ASSUME IdempotencyAssumption, IInv, [Next]_vars
    PROVE  [Promise!Next]_<<stored, Reported>>
<1>0. TypeOK /\ WriterInv /\ StoredInv /\ AnswerInv /\ ClientInv
  BY DEF IInv
<1>1. ASSUME NEW r \in Requests, Serve(r) PROVE [Promise!Next]_<<stored, Reported>>
  <2>1. KeyOf[r] \in Keys /\ pc[r] # "answered"
    BY <1>0, <1>1, KeyOfType, ServeScope
  <2>2. CASE SelectFound(r)
    <3>1. /\ Reply(r, Verdict(r)) /\ stored[KeyOf[r]] # NoRequest /\ stored' = stored
          /\ Verdict(r) \in Answer
      BY <1>0, <2>2, VerdictTyped DEF SelectFound, rows
    <3>2. CASE Verdict(r).of = NoRequest
      BY <1>0, <2>1, <3>1, <3>2, SilentReply
    <3>3. CASE Verdict(r).of # NoRequest
      <4>1. Verdict(r).of = stored[KeyOf[r]] /\ PrintOf[stored[KeyOf[r]]] = PrintOf[r]
        BY <3>3, AnswerCases DEF Verdict, Recorded
      <4>2. Reported[r] = NoRequest /\ Reported' = [Reported EXCEPT ![r] = stored[KeyOf[r]]]
        BY <1>0, <2>1, <3>1, <4>1, LoudReply
      <4>3. Promise!Replay(r)
        BY <3>1, <4>1, <4>2 DEF Promise!Replay, Reported
      <4>. QED BY <4>3 DEF Promise!Next
    <3>. QED BY <3>2, <3>3
  <2>3. CASE InsertConflict(r) \/ OperationFails(r)
    <3>1. stored' = stored /\ \E a \in {Conflict, Failure} : Reply(r, a)
      BY <2>3 DEF InsertConflict, OperationFails, Rollback, rows
    <3>2. PICK a \in {Conflict, Failure} : Reply(r, a)
      BY <3>1
    <3>3. a \in Answer /\ a.of = NoRequest
      BY AnswerCases
    <3>4. Reported' = Reported
      BY <1>0, <2>1, <3>2, <3>3, SilentReply
    <3>. QED BY <3>1, <3>4
  <2>4. CASE Commit(r)
    <3>1. Reply(r, Success(r)) /\ stored' = [stored EXCEPT ![KeyOf[r]] = r] /\ pc[r] = "commit"
      BY <2>4 DEF Commit
    <3>2. stored[KeyOf[r]] = NoRequest
      <4>1. writer[KeyOf[r]] = r /\ r # NoRequest
        BY <1>0, <3>1, KeyOfType DEF WriterInv, Working
      <4>. QED BY <1>0, <2>1, <4>1 DEF WriterInv
    <3>3. Reported[r] = NoRequest /\ Reported' = [Reported EXCEPT ![r] = r]
      BY <1>0, <2>1, <3>1, LoudReply, AnswerCases
    <3>4. Promise!Perform(r)
      BY <3>1, <3>2, <3>3 DEF Promise!Perform, Reported
    <3>. QED BY <3>4 DEF Promise!Next
  <2>5. CASE SelectNothing(r) \/ InsertKey(r) \/ Operate(r) \/ Finish(r)
    BY <2>5 DEF SelectNothing, InsertKey, Operate, Finish, rows, Reported
  <2>. QED BY <1>1, <2>2, <2>3, <2>4, <2>5 DEF Serve
<1>2. ASSUME NEW r \in Requests, Crash(r) PROVE stored' = stored /\ answer' = answer
  BY <1>2 DEF Crash, Rollback, rows
<1>3. ASSUME NEW k \in Keys, Expire(k) PROVE stored' = stored /\ answer' = answer
  BY <1>3 DEF Expire, rows
<1>4. ASSUME NEW i \in Intents, Send(i) \/ Receive(i) \/ Timeout(i)
      PROVE  stored' = stored /\ answer' = answer
  BY <1>4 DEF Send, Receive, Timeout, rows
<1>5. CASE UNCHANGED vars
  BY <1>5 DEF vars, rows, Reported
<1>6. CASE stored' = stored /\ answer' = answer
  BY <1>6 DEF Reported
<1>. QED BY <1>1, <1>2, <1>3, <1>4, <1>5, <1>6, NextCases

\* _mutate keeps the promise of ADR-012.
THEOREM Implements == Spec => AtMostOnceSpec
<1>1. Init => Promise!Init
  BY AnswerCases DEF Init, Promise!Init
<1>2. IInv /\ [Next]_vars => [Promise!Next]_<<stored, Reported>>
  BY IdempotencyAssumption, Simulation
<1>3. IInv /\ [Next]_vars => [Promise!Next]_<<stored, [r \in Requests |-> answer[r].of]>>
  BY <1>2 DEF Reported
<1>. QED BY <1>1, <1>3, Invariance, PTL DEF Spec, AtMostOnceSpec, Promise!Spec
=============================================================================
