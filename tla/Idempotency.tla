---------------------------- MODULE Idempotency ----------------------------
(***************************************************************************)
(* Every mutation of the API runs inside _mutate of                        *)
(* apps/api/src/academic.py: one PostgreSQL transaction (READ COMMITTED)   *)
(* that looks the idempotency key up, inserts it, performs the operation,  *)
(* stores the response under the key and commits.  Requests run            *)
(* concurrently, so an insert waits while another transaction holds an     *)
(* uncommitted row of the same key, and fails when that one commits.       *)
(*                                                                         *)
(* The clients are those of infra/hermes/skills/mentor-study: they send a  *)
(* request, wait for a bounded time and send it once more with the same    *)
(* key when no usable answer came.  The first one may still be running.    *)
(*                                                                         *)
(* Abstracted: the operation is one step that succeeds or raises, its      *)
(* response is the identity of the request that performed it, and a key    *)
(* stands for a key together with its scope (method, path and user).       *)
(***************************************************************************)
EXTENDS Naturals, FiniteSets

CONSTANTS
    Intents,        \* commands of students, each sent under one key
    Keys,
    KeyOfIntent,    \* the key a client derives for a command
    PrintOfIntent,  \* the fingerprint of its payload
    MaxAttempts,    \* times a client sends a command: 2, or 1 without retry
    NoRequest

ASSUME IdempotencyAssumption ==
    /\ KeyOfIntent \in [Intents -> Keys]
    /\ MaxAttempts \in Nat \ {0}
    /\ NoRequest \notin Intents \X (1 .. MaxAttempts)

\* A request is one attempt to send a command.
Attempts == 1 .. MaxAttempts
Requests == Intents \X Attempts
KeyOf == [r \in Requests |-> KeyOfIntent[r[1]]]
PrintOf == [r \in Requests |-> PrintOfIntent[r[1]]]

VARIABLES
    pc,         \* where the request's transaction stands
    answer,     \* the API's answer to a request
    stored,     \* committed idempotency_keys rows: request that stored it
    storedAs,   \* and the status column of that row
    writer,     \* per key, the transaction with an uncommitted row, if any
    draft,      \* status of that uncommitted row
    effects,    \* requests whose operation was committed
    expired,    \* keys whose expires_at has passed
    attempt,    \* per command, the attempt its client waits for (0: not sent)
    told        \* per command, what the student was told

rows == <<stored, storedAs, writer, draft, effects>>
client == <<attempt, told>>
vars == <<pc, answer, rows, expired, client>>

Working == {"operate", "finish", "commit"}
Ended == {"answered", "lost"}
PC == {"unsent", "select", "insert"} \cup Working \cup Ended

\* A success reports the execution of one request; the others report nothing.
Success(e) == [kind |-> "success", of |-> e, late |-> FALSE]
LateReplay(e) == [kind |-> "success", of |-> e, late |-> TRUE]
Conflict == [kind |-> "conflict", of |-> NoRequest, late |-> FALSE]
Failure == [kind |-> "failure", of |-> NoRequest, late |-> FALSE]
NoAnswer == [kind |-> "none", of |-> NoRequest, late |-> FALSE]
Answer == {NoAnswer, Conflict, Failure} \cup {Success(e) : e \in Requests}
            \cup {LateReplay(e) : e \in Requests}

Init ==
    /\ pc = [r \in Requests |-> "unsent"]
    /\ answer = [r \in Requests |-> NoAnswer]
    /\ stored = [k \in Keys |-> NoRequest]
    /\ storedAs = [k \in Keys |-> "none"]
    /\ writer = [k \in Keys |-> NoRequest]
    /\ draft = [k \in Keys |-> "none"]
    /\ effects = {}
    /\ expired = [k \in Keys |-> FALSE]
    /\ attempt = [i \in Intents |-> 0]
    /\ told = [i \in Intents |-> NoAnswer]

Goto(r, label) == pc' = [pc EXCEPT ![r] = label]

Reply(r, a) ==
    /\ Goto(r, "answered")
    /\ answer' = [answer EXCEPT ![r] = a]

\* Mutant: the rollback leaves the key locked.
RollbackKeepsLock(k) ==
    /\ draft' = [draft EXCEPT ![k] = "none"]
    /\ UNCHANGED <<writer, stored, storedAs, effects>>

\* A rolled back transaction leaves no row behind.
Rollback(k) ==
    /\ writer' = [writer EXCEPT ![k] = NoRequest]
    /\ draft' = [draft EXCEPT ![k] = "none"]
    /\ UNCHANGED <<stored, storedAs, effects>>

-----------------------------------------------------------------------------
(***************************************************************************)
(* The API: _begin_idempotency, the operation and _finish_idempotency.     *)
(***************************************************************************)

Recorded(k) == IF expired[k] THEN LateReplay(stored[k]) ELSE Success(stored[k])

\* Mutant: the fingerprint is not compared.
VerdictOfKeyAlone(r) ==
    IF storedAs[KeyOf[r]] = "completed" THEN Recorded(KeyOf[r]) ELSE Conflict

\* Mutant: a repetition is answered as if it had been performed.
VerdictAsPerformed(r) ==
    LET k == KeyOf[r] IN
    IF PrintOf[stored[k]] = PrintOf[r] /\ storedAs[k] = "completed"
    THEN Success(r) ELSE Conflict

\* What the committed row of its key says of a request.
Verdict(r) ==
    LET k == KeyOf[r] IN
    IF PrintOf[stored[k]] = PrintOf[r] /\ storedAs[k] = "completed"
    THEN Recorded(k) ELSE Conflict

\* The committed row decides the answer; an uncommitted one is not seen.
SelectFound(r) ==
    /\ pc[r] = "select"
    /\ stored[KeyOf[r]] # NoRequest
    /\ Reply(r, Verdict(r))
    /\ UNCHANGED <<rows, expired, client>>

SelectNothing(r) ==
    /\ pc[r] = "select"
    /\ stored[KeyOf[r]] = NoRequest
    /\ Goto(r, "insert")
    /\ UNCHANGED <<answer, rows, expired, client>>

\* Mutant: no UNIQUE (key, scope), only the wait.
InsertKeyAgain(r) ==
    LET k == KeyOf[r] IN
    /\ pc[r] = "insert"
    /\ writer[k] = NoRequest
    /\ writer' = [writer EXCEPT ![k] = r]
    /\ draft' = [draft EXCEPT ![k] = "processing"]
    /\ Goto(r, "operate")
    /\ UNCHANGED <<answer, stored, storedAs, effects, expired, client>>

\* Mutant: the key is recorded in a transaction of its own.
InsertKeyCommitted(r) ==
    LET k == KeyOf[r] IN
    /\ pc[r] = "insert"
    /\ writer[k] = NoRequest
    /\ stored[k] = NoRequest
    /\ stored' = [stored EXCEPT ![k] = r]
    /\ storedAs' = [storedAs EXCEPT ![k] = "processing"]
    /\ Goto(r, "operate")
    /\ UNCHANGED <<answer, writer, draft, effects, expired, client>>

\* The insert waits for a transaction that already inserted the key.
InsertKey(r) ==
    LET k == KeyOf[r] IN
    /\ pc[r] = "insert"
    /\ writer[k] = NoRequest
    /\ stored[k] = NoRequest
    /\ writer' = [writer EXCEPT ![k] = r]
    /\ draft' = [draft EXCEPT ![k] = "processing"]
    /\ Goto(r, "operate")
    /\ UNCHANGED <<answer, stored, storedAs, effects, expired, client>>

\* UNIQUE (key, scope): the other transaction committed while this one
\* was between its select and its insert, or waiting.
InsertConflict(r) ==
    /\ pc[r] = "insert"
    /\ stored[KeyOf[r]] # NoRequest
    /\ Reply(r, Conflict)
    /\ UNCHANGED <<rows, expired, client>>

Operate(r) ==
    /\ pc[r] = "operate"
    /\ Goto(r, "finish")
    /\ UNCHANGED <<answer, rows, expired, client>>

\* The operation raises: an HTTPException or a database error.
OperationFails(r) ==
    /\ pc[r] = "operate"
    /\ \E a \in {Conflict, Failure} : Reply(r, a)
    /\ Rollback(KeyOf[r])
    /\ UNCHANGED <<expired, client>>

Finish(r) ==
    /\ pc[r] = "finish"
    /\ draft' = [draft EXCEPT ![KeyOf[r]] = "completed"]
    /\ Goto(r, "commit")
    /\ UNCHANGED <<answer, stored, storedAs, writer, effects, expired, client>>

\* The key, its response and the operation become visible together.
Commit(r) ==
    LET k == KeyOf[r] IN
    /\ pc[r] = "commit"
    /\ stored' = [stored EXCEPT ![k] = r]
    /\ storedAs' = [storedAs EXCEPT ![k] = draft[k]]
    /\ effects' = effects \cup {r}
    /\ writer' = [writer EXCEPT ![k] = NoRequest]
    /\ draft' = [draft EXCEPT ![k] = "none"]
    /\ Reply(r, Success(r))
    /\ UNCHANGED <<expired, client>>

\* The connection or the process dies before the commit.
Crash(r) ==
    /\ pc[r] \in {"select", "insert"} \cup Working
    /\ Goto(r, "lost")
    /\ IF pc[r] \in Working THEN Rollback(KeyOf[r]) ELSE UNCHANGED rows
    /\ UNCHANGED <<answer, expired, client>>

\* 24 hours later.  expires_at is written and never read: the key is found
\* for ever, and what it replays then is a late replay.
Expire(k) ==
    /\ stored[k] # NoRequest
    /\ ~expired[k]
    /\ expired' = [expired EXCEPT ![k] = TRUE]
    /\ UNCHANGED <<pc, answer, rows, client>>

-----------------------------------------------------------------------------
(***************************************************************************)
(* The clients.                                                            *)
(***************************************************************************)
Waiting(i) == attempt[i] > 0 /\ told[i] = NoAnswer

Send(i) ==
    /\ attempt[i] = 0
    /\ attempt' = [attempt EXCEPT ![i] = 1]
    /\ Goto(<<i, 1>>, "select")
    /\ UNCHANGED <<answer, rows, expired, told>>

\* Without a usable answer the client sends the command once more.
Retry(i) ==
    IF attempt[i] < MaxAttempts
    THEN /\ attempt' = [attempt EXCEPT ![i] = @ + 1]
         /\ Goto(<<i, attempt[i] + 1>>, "select")
         /\ UNCHANGED told
    ELSE /\ told' = [told EXCEPT ![i] = Failure]
         /\ UNCHANGED <<attempt, pc>>

\* A conflict is final, other failures are retried.
Receive(i) ==
    LET a == answer[<<i, attempt[i]>>] IN
    /\ Waiting(i)
    /\ a # NoAnswer
    /\ IF a.kind = "failure"
       THEN Retry(i)
       ELSE told' = [told EXCEPT ![i] = a] /\ UNCHANGED <<attempt, pc>>
    /\ UNCHANGED <<answer, rows, expired>>

\* No answer in time, whatever became of the request.
Timeout(i) ==
    /\ Waiting(i)
    /\ Retry(i)
    /\ UNCHANGED <<answer, rows, expired>>

-----------------------------------------------------------------------------
\* The steps of the request's own transaction.
Serve(r) ==
    \/ SelectFound(r) \/ SelectNothing(r)
    \/ InsertKey(r) \/ InsertConflict(r)
    \/ Operate(r) \/ OperationFails(r)
    \/ Finish(r) \/ Commit(r)

Next ==
    \/ \E r \in Requests : Serve(r) \/ Crash(r)
    \/ \E k \in Keys : Expire(k)
    \/ \E i \in Intents : Send(i) \/ Receive(i) \/ Timeout(i)

\* Each request is served by a thread of its own; a client that waits gets
\* the answer or runs into its timeout.
Fairness ==
    /\ \A r \in Requests : WF_vars(Serve(r))
    /\ \A i \in Intents : WF_vars(Receive(i) \/ Timeout(i))

Spec == Init /\ [][Next]_vars
FairSpec == Spec /\ Fairness

-----------------------------------------------------------------------------
(***************************************************************************)
(* Properties.                                                             *)
(***************************************************************************)
TypeOK ==
    /\ pc \in [Requests -> PC]
    /\ answer \in [Requests -> Answer]
    /\ stored \in [Keys -> Requests \cup {NoRequest}]
    /\ storedAs \in [Keys -> {"none", "processing", "completed"}]
    /\ writer \in [Keys -> Requests \cup {NoRequest}]
    /\ draft \in [Keys -> {"none", "processing", "completed"}]
    /\ effects \subseteq Requests
    /\ expired \in [Keys -> BOOLEAN]
    /\ attempt \in [Intents -> 0 .. MaxAttempts]
    /\ told \in [Intents -> Answer]

\* However often a command is sent, repeated while it runs, or sent again
\* after a lost answer, the operation of a key takes effect at most once.
AtMostOneEffect ==
    \A r, s \in effects : KeyOf[r] = KeyOf[s] => r = s

\* A student who is told that a command succeeded is told the outcome of an
\* execution that did take effect, of the very payload he sent.
SuccessIsTrue ==
    \A i \in Intents :
        told[i].kind = "success" =>
            /\ told[i].of \in effects
            /\ PrintOf[told[i].of] = PrintOfIntent[i]

\* No crash leaves a key behind without its effect or an effect without its
\* key: a recorded key always carries a response, so the answer "operation in
\* progress" is never given and no key is ever blocked.
KeyIffEffect ==
    \A k \in Keys :
        /\ stored[k] # NoRequest <=> \E r \in effects : KeyOf[r] = k
        /\ stored[k] # NoRequest => storedAs[k] = "completed" /\ stored[k] \in effects

\* Every transaction ends: a request that waits for the key of another one is
\* never left waiting.
RequestsEnd == \A r \in Requests : pc[r] = "select" ~> pc[r] \in Ended

\* The promise of ADR-012.
Promise == INSTANCE AtMostOnce WITH
    performed <- stored,
    reply <- [r \in Requests |-> answer[r].of]

\* The interleaved transactions implement it.
AtMostOnceSpec == Promise!Spec
=============================================================================
