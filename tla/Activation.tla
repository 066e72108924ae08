----------------------------- MODULE Activation -----------------------------
(***************************************************************************)
(* Making one of the rows of a goal the active one: POST                   *)
(* /syllabi/{id}/activate and POST /cycles/{id}/activate of                *)
(* apps/api/src/academic.py, next to creations of such rows and to         *)
(* confirmations of plans (apps/api/src/study_plan.py), which hold the     *)
(* goal's row too.                                                         *)
(*                                                                         *)
(* A request is one PostgreSQL transaction in READ COMMITTED.  The row is  *)
(* read FOR UPDATE joined with its goal, which locks the row and then the  *)
(* goal.  One UPDATE demotes whatever other row was active when it began,  *)
(* waiting for the locks of those rows, and a second one promotes the row, *)
(* arbitrated by a partial unique index.  Locks are held to the end of the *)
(* transaction.  Transactions that wait for each other are found by the    *)
(* database, which aborts one of them (an error 409 of the API).           *)
(*                                                                         *)
(* Abstracted: one goal; "demoted" is superseded for a syllabus and paused *)
(* for a cycle; what a transaction writes is seen when it commits.         *)
(***************************************************************************)
EXTENDS FiniteSets

CONSTANTS
    Rows,       \* syllabus_versions, or study_cycles, of the goal
    Requests,   \* bound of the model: each is one transaction
    NoRow,      \* the target of a confirmation, which activates no row
    Nobody      \* holds a lock nobody holds

ASSUME ActivationAssumption == NoRow \notin Rows /\ Nobody \notin Requests

VARIABLES
    status,     \* the column status
    target,     \* the row a request activates
    pc,         \* the statement its transaction is at
    owner,      \* who holds the lock of a row
    goalOwner,  \* who holds the lock of the goal's row
    victims     \* the rows its first UPDATE demotes

locks == <<owner, goalOwner>>
vars == <<status, target, pc, locks, victims>>

Ended == {"done", "refused", "aborted"}
InProgress(t) == pc[t] \notin Ended
Active == {r \in Rows : status[r] = "active"}

Init ==
    /\ status \in [Rows -> {"absent", "draft"}]
    /\ target \in [Requests -> Rows \cup {NoRow}]
    /\ pc = [t \in Requests |-> IF target[t] = NoRow THEN "lock goal" ELSE "lock row"]
    /\ owner = [r \in Rows |-> Nobody]
    /\ goalOwner = Nobody
    /\ victims = [t \in Requests |-> {}]

Goto(t, label) == pc' = [pc EXCEPT ![t] = label]

\* create_syllabus and create_cycle: the foreign key waits for the goal's lock.
Create(r) ==
    /\ status[r] = "absent"
    /\ goalOwner = Nobody
    /\ status' = [status EXCEPT ![r] = "draft"]
    /\ UNCHANGED <<target, pc, locks, victims>>

-----------------------------------------------------------------------------
(***************************************************************************)
(* The transaction.                                                        *)
(***************************************************************************)
LockRow(t) ==
    /\ pc[t] = "lock row"
    /\ status[target[t]] # "absent"
    /\ owner[target[t]] = Nobody
    /\ owner' = [owner EXCEPT ![target[t]] = t]
    /\ Goto(t, "lock goal")
    /\ UNCHANGED <<status, target, goalOwner, victims>>

\* Mutant: FOR UPDATE OF s.
LockOnlyTheRow(t) ==
    /\ pc[t] = "lock goal"
    /\ Goto(t, IF target[t] = NoRow THEN "promote" ELSE "demote")
    /\ UNCHANGED <<status, target, locks, victims>>

\* FOR UPDATE names no table: the joined goal is locked as well.
LockGoal(t) ==
    /\ pc[t] = "lock goal"
    /\ goalOwner = Nobody
    /\ goalOwner' = t
    /\ Goto(t, IF target[t] = NoRow THEN "promote" ELSE "demote")
    /\ UNCHANGED <<status, target, owner, victims>>

\* Mutant: every other row is demoted, whatever its status.
FindEveryOther(t) ==
    /\ pc[t] = "demote"
    /\ victims' = [victims EXCEPT ![t] = Rows \ {target[t]}]
    /\ Goto(t, "lock victims")
    /\ UNCHANGED <<status, target, locks>>

\* The first UPDATE finds its rows in the snapshot it begins with.
FindVictims(t) ==
    /\ pc[t] = "demote"
    /\ victims' = [victims EXCEPT ![t] = Active \ {target[t]}]
    /\ Goto(t, "lock victims")
    /\ UNCHANGED <<status, target, locks>>

\* It waits for their locks and leaves out those no longer active.
LockVictims(t) ==
    /\ pc[t] = "lock victims"
    /\ \A r \in victims[t] : owner[r] \in {t, Nobody}
    /\ victims' = [victims EXCEPT ![t] = victims[t] \cap Active]
    /\ owner' = [r \in Rows |-> IF r \in victims[t] THEN t ELSE owner[r]]
    /\ Goto(t, "promote")
    /\ UNCHANGED <<status, target, goalOwner>>

Release(t) ==
    /\ owner' = [r \in Rows |-> IF owner[r] = t THEN Nobody ELSE owner[r]]
    /\ goalOwner' = IF goalOwner = t THEN Nobody ELSE goalOwner

\* one_active_syllabus_per_goal, one_active_cycle_per_goal: another row is
\* still active.
IndexViolated(t) == target[t] \in Rows /\ ~(Active \subseteq victims[t] \cup {target[t]})

\* The second UPDATE, refused by the index (409) or committed.
Promote(t) ==
    /\ pc[t] = "promote"
    /\ Release(t)
    /\ IF IndexViolated(t) THEN Goto(t, "refused") /\ UNCHANGED status
       ELSE /\ Goto(t, "done")
            /\ status' = [r \in Rows |-> IF r = target[t] THEN "active"
                                         ELSE IF r \in victims[t] THEN "demoted" ELSE status[r]]
    /\ UNCHANGED <<target, victims>>

\* No such row: 404.
NotFound(t) ==
    /\ pc[t] = "lock row"
    /\ status[target[t]] = "absent"
    /\ Goto(t, "aborted")
    /\ UNCHANGED <<status, target, locks, victims>>

\* t waits for a row of u, which waits for the goal t holds.
WaitFor(t, u) ==
    /\ pc[t] = "lock victims" /\ goalOwner = t
    /\ pc[u] = "lock goal" /\ \E r \in victims[t] : owner[r] = u

\* Mutant: an error leaves the connection in its transaction.
AbortHoldingLocks(t) == Goto(t, "aborted") /\ UNCHANGED <<status, target, locks, victims>>

Abort(t) ==
    /\ Release(t)
    /\ Goto(t, "aborted")
    /\ UNCHANGED <<status, target, victims>>

\* The deadlock detector.
ResolveDeadlock ==
    \E t, u \in Requests : WaitFor(t, u) /\ (Abort(t) \/ Abort(u))

\* Any other error: the process dies, the connection breaks.
Fail(t) == InProgress(t) /\ Abort(t)

-----------------------------------------------------------------------------
Step(t) ==
    \/ LockRow(t) \/ LockGoal(t) \/ FindVictims(t) \/ LockVictims(t)
    \/ Promote(t) \/ NotFound(t)

Next ==
    \/ \E r \in Rows : Create(r)
    \/ \E t \in Requests : Step(t) \/ Fail(t)
    \/ ResolveDeadlock

\* A transaction that can go on does, and the database looks for deadlocks
\* after deadlock_timeout.
Fairness == (\A t \in Requests : WF_vars(Step(t))) /\ WF_vars(ResolveDeadlock)

Spec == Init /\ [][Next]_vars /\ Fairness

-----------------------------------------------------------------------------
(***************************************************************************)
(* Properties.                                                             *)
(***************************************************************************)

\* Every variable has its type.
TypeOK ==
    /\ status \in [Rows -> {"absent", "draft", "active", "demoted"}]
    /\ target \in [Requests -> Rows \cup {NoRow}]
    /\ pc \in [Requests -> {"lock row", "lock goal", "demote", "lock victims", "promote"} \cup Ended]
    /\ owner \in [Rows -> Requests \cup {Nobody}]
    /\ goalOwner \in Requests \cup {Nobody}
    /\ victims \in [Requests -> SUBSET Rows]

\* The index never decides: the goal's lock puts the activations of one goal
\* in an order, so none that is valid is refused because another one runs.
ActivationNotRefused == \A t \in Requests : pc[t] # "refused"

\* The row's own lock is taken before the goal's, against the order in which
\* the first UPDATE needs them.  Activations wait for each other only when
\* one of them activates the row that is active already.
OnlyReactivationDeadlocks ==
    \A t, u \in Requests : WaitFor(t, u) => target[u] \in Rows /\ status[target[u]] = "active"

\* Every request ends: no lock is held for ever and no deadlock stays.
ActivationsEnd == \A t \in Requests : <>(~InProgress(t))
=============================================================================
