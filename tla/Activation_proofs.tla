------------------------- MODULE Activation_proofs -------------------------
(***************************************************************************)
(* The safety of Activation for any rows and any number of requests.  Who  *)
(* holds the goal's lock is alone between its first UPDATE and its end, so *)
(* what that UPDATE found active is what is active when it commits.        *)
(***************************************************************************)
EXTENDS Activation, TLAPS

Demoting == {"demote", "lock victims", "promote"}

\* The statements between the two locks and the end run under the goal's lock.
GoalHeld == \A t \in Requests : goalOwner = t <=> pc[t] \in Demoting

\* Before it holds the goal, a transaction holds nothing but its own row.
RowsHeld ==
    \A r \in Rows, t \in Requests : owner[r] = t /\ pc[t] = "lock goal" => r = target[t]

\* What the first UPDATE found is still what there is to demote.
VictimsAreActive ==
    \A t \in Requests :
        /\ pc[t] \in {"lock victims", "promote"} /\ target[t] \in Rows
              => victims[t] = Active \ {target[t]}
        /\ pc[t] \in {"lock row", "demote", "lock victims"} => target[t] \in Rows

\* A transaction that waits for its own row holds no lock.
NothingHeldYet == \A r \in Rows, t \in Requests : pc[t] = "lock row" => owner[r] # t

IInv == /\ TypeOK /\ GoalHeld /\ RowsHeld /\ VictimsAreActive /\ NothingHeldYet
        /\ ActivationNotRefused

\* No request has begun.
LEMMA InitIInv == Init => IInv
  <1> SUFFICES ASSUME Init PROVE IInv
    OBVIOUS
  <1> USE ActivationAssumption DEF Init
  <1>1. TypeOK
    BY DEF TypeOK, Ended
  <1>2. GoalHeld /\ RowsHeld /\ NothingHeldYet
    BY DEF GoalHeld, RowsHeld, NothingHeldYet, Demoting
  <1>3. VictimsAreActive /\ ActivationNotRefused
    BY DEF VictimsAreActive, ActivationNotRefused
  <1> QED
    BY <1>1, <1>2, <1>3 DEF IInv

\* A row is created while the requests run.
LEMMA CreateIInv ==
  ASSUME IInv, NEW r \in Rows, Create(r)
  PROVE  IInv'
  <1> USE ActivationAssumption DEF IInv, Create, locks
  <1>1. Active' = Active
    BY DEF Active, TypeOK
  <1>2. TypeOK'
    BY DEF TypeOK
  <1>3. VictimsAreActive'
    BY <1>1 DEF VictimsAreActive
  <1>4. (GoalHeld /\ RowsHeld /\ NothingHeldYet /\ ActivationNotRefused)'
    BY DEF GoalHeld, RowsHeld, NothingHeldYet, ActivationNotRefused
  <1> QED
    BY <1>2, <1>3, <1>4

\* Steps that take locks or read, and change no row.
LEMMA LockIInv ==
  ASSUME IInv, NEW t \in Requests,
         LockRow(t) \/ LockGoal(t) \/ FindVictims(t) \/ LockVictims(t) \/ NotFound(t)
  PROVE  IInv'
  <1> USE ActivationAssumption DEF IInv, Goto, locks
  <1>1. CASE LockRow(t)
    <2> USE <1>1 DEF LockRow
    <2>1. target[t] \in Rows
      BY DEF VictimsAreActive
    <2>2. TypeOK'
      BY <2>1 DEF TypeOK
    <2>3. Active' = Active
      BY DEF Active
    <2>4. GoalHeld' /\ VictimsAreActive' /\ ActivationNotRefused'
      BY <2>3 DEF TypeOK, GoalHeld, VictimsAreActive, ActivationNotRefused, Demoting
    <2>5. ASSUME NEW r \in Rows, NEW u \in Requests
          PROVE  /\ (owner[r] = u /\ pc[u] = "lock goal" => r = target[u])'
                 /\ (pc[u] = "lock row" => owner[r] # u)'
      <3>1. CASE u = t
        BY <2>1, <3>1 DEF TypeOK, NothingHeldYet
      <3>2. CASE u # t
        BY <2>1, <3>2 DEF TypeOK, RowsHeld, NothingHeldYet
      <3> QED
        BY <3>1, <3>2
    <2>6. RowsHeld' /\ NothingHeldYet'
      BY <2>5 DEF RowsHeld, NothingHeldYet
    <2> QED
      BY <2>2, <2>4, <2>6
  <1>2. CASE LockGoal(t)
    <2> USE <1>2 DEF LockGoal
    <2>1. TypeOK'
      BY DEF TypeOK
    <2>2. Active' = Active
      BY DEF Active
    <2>3. GoalHeld' /\ ActivationNotRefused'
      BY DEF TypeOK, GoalHeld, ActivationNotRefused, Demoting
    <2>4. VictimsAreActive'
      BY <2>2 DEF TypeOK, VictimsAreActive
    <2>5. RowsHeld' /\ NothingHeldYet'
      BY DEF TypeOK, RowsHeld, NothingHeldYet
    <2> QED
      BY <2>1, <2>3, <2>4, <2>5
  <1>3. CASE FindVictims(t)
    <2> USE <1>3 DEF FindVictims
    <2>1. Active' = Active /\ Active \subseteq Rows
      BY DEF Active
    <2>2. TypeOK'
      BY <2>1 DEF TypeOK
    <2>3. GoalHeld' /\ ActivationNotRefused'
      BY DEF TypeOK, GoalHeld, ActivationNotRefused, Demoting
    <2>4. VictimsAreActive'
      BY <2>1 DEF TypeOK, VictimsAreActive
    <2>5. RowsHeld' /\ NothingHeldYet'
      BY DEF TypeOK, RowsHeld, NothingHeldYet
    <2> QED
      BY <2>2, <2>3, <2>4, <2>5
  <1>4. CASE LockVictims(t)
    <2> USE <1>4 DEF LockVictims
    <2>1. Active' = Active /\ Active \subseteq Rows
      BY DEF Active
    <2>2. TypeOK'
      BY <2>1 DEF TypeOK
    <2>3. GoalHeld' /\ ActivationNotRefused'
      BY DEF TypeOK, GoalHeld, ActivationNotRefused, Demoting
    <2>4. VictimsAreActive'
      BY <2>1 DEF TypeOK, VictimsAreActive
    <2>5. RowsHeld' /\ NothingHeldYet'
      BY DEF TypeOK, RowsHeld, NothingHeldYet
    <2> QED
      BY <2>2, <2>3, <2>4, <2>5
  <1>5. CASE NotFound(t)
    <2> USE <1>5 DEF NotFound
    <2>1. Active' = Active
      BY DEF Active
    <2>2. TypeOK'
      BY DEF TypeOK, Ended
    <2>3. GoalHeld' /\ ActivationNotRefused'
      BY DEF TypeOK, GoalHeld, ActivationNotRefused, Demoting
    <2>4. VictimsAreActive'
      BY <2>1 DEF TypeOK, VictimsAreActive
    <2>5. RowsHeld' /\ NothingHeldYet'
      BY DEF TypeOK, RowsHeld, NothingHeldYet
    <2> QED
      BY <2>2, <2>3, <2>4, <2>5
  <1> QED
    BY <1>1, <1>2, <1>3, <1>4, <1>5

\* No other transaction is past the goal's lock when one promotes its row.
LEMMA PromoteIInv ==
  ASSUME IInv, NEW t \in Requests, Promote(t)
  PROVE  IInv'
  <1> USE ActivationAssumption DEF IInv, Goto, locks, Release
  <1>1. ~IndexViolated(t)
    BY DEF Promote, IndexViolated, VictimsAreActive
  <1> USE <1>1 DEF Promote
  <1>2. goalOwner = t /\ \A u \in Requests : pc[u] \in Demoting => u = t
    BY DEF GoalHeld, Demoting
  <1>3. TypeOK'
    BY DEF TypeOK, Ended
  <1>4. GoalHeld' /\ ActivationNotRefused'
    BY <1>2 DEF TypeOK, GoalHeld, ActivationNotRefused, Demoting
  <1>5. VictimsAreActive'
    BY <1>2 DEF TypeOK, VictimsAreActive, Demoting
  <1>6. RowsHeld' /\ NothingHeldYet'
    BY DEF TypeOK, RowsHeld, NothingHeldYet
  <1> QED
    BY <1>3, <1>4, <1>5, <1>6

\* A transaction that fails gives its locks back.
LEMMA AbortIInv ==
  ASSUME IInv, NEW t \in Requests, Abort(t)
  PROVE  IInv'
  <1> USE ActivationAssumption DEF IInv, Goto, Abort, Release
  <1>1. Active' = Active
    BY DEF Active
  <1>2. TypeOK'
    BY DEF TypeOK, Ended
  <1>3. GoalHeld' /\ ActivationNotRefused'
    BY DEF TypeOK, GoalHeld, ActivationNotRefused, Demoting
  <1>4. VictimsAreActive'
    BY <1>1 DEF TypeOK, VictimsAreActive
  <1>5. RowsHeld' /\ NothingHeldYet'
    BY DEF TypeOK, RowsHeld, NothingHeldYet
  <1> QED
    BY <1>2, <1>3, <1>4, <1>5

\* Every statement of a request keeps the inductive invariant.
LEMMA StepIInv == IInv /\ [Next]_vars => IInv'
  <1> SUFFICES ASSUME IInv, [Next]_vars PROVE IInv'
    OBVIOUS
  <1>1. CASE \E r \in Rows : Create(r)
    BY <1>1, CreateIInv
  <1>2. CASE \E t \in Requests : Step(t)
    <2>1. PICK t \in Requests : Step(t)
      BY <1>2
    <2> QED
      BY <2>1, LockIInv, PromoteIInv DEF Step
  <1>3. CASE \E t \in Requests : Fail(t)
    BY <1>3, AbortIInv DEF Fail
  <1>4. CASE ResolveDeadlock
    BY <1>4, AbortIInv DEF ResolveDeadlock
  <1>5. CASE UNCHANGED vars
    BY <1>5 DEF vars, locks, IInv, TypeOK, GoalHeld, RowsHeld, VictimsAreActive, NothingHeldYet,
       ActivationNotRefused, Active
  <1> QED
    BY <1>1, <1>2, <1>3, <1>4, <1>5 DEF Next

\* The inductive invariant.
THEOREM ActivationInvariance == Spec => []IInv
  BY InitIInv, StepIInv, PTL DEF Spec

\* Every variable keeps its type.
THEOREM ActivationTypeOK == Spec => []TypeOK
  <1>1. IInv => TypeOK
    BY DEF IInv
  <1> QED
    BY <1>1, ActivationInvariance, PTL

\* However many activations of one goal run at once, the index one active row
\* per goal refuses none of them (academic.py:400-405, 455-460).
THEOREM IndexNeverDecides == Spec => []ActivationNotRefused
  <1>1. IInv => ActivationNotRefused
    BY DEF IInv
  <1> QED
    BY <1>1, ActivationInvariance, PTL

\* A deadlock needs the activation of the row that is active already.
THEOREM DeadlockNeedsReactivation == Spec => []OnlyReactivationDeadlocks
  <1>1. IInv => OnlyReactivationDeadlocks
    <2> SUFFICES ASSUME IInv, NEW t \in Requests, NEW u \in Requests, WaitFor(t, u)
                 PROVE  target[u] \in Rows /\ status[target[u]] = "active"
      BY DEF OnlyReactivationDeadlocks
    <2>1. PICK r \in victims[t] : owner[r] = u
      BY DEF WaitFor
    <2>2. r \in Active
      BY DEF IInv, VictimsAreActive, WaitFor
    <2>3. r = target[u]
      BY <2>1, <2>2 DEF IInv, RowsHeld, WaitFor, Active
    <2> QED
      BY <2>2, <2>3 DEF Active
  <1> QED
    BY <1>1, ActivationInvariance, PTL

-----------------------------------------------------------------------------
(***************************************************************************)
(* Why every request can end: the safety under ActivationsEnd.             *)
(***************************************************************************)

\* A lock is held by a transaction that is still running.
LocksOfRunning == \A r \in Rows, t \in Requests : owner[r] = t => InProgress(t)

\* The next statement of t waits for nobody.
CanGoOn(t) ==
    \/ pc[t] = "lock row" /\ (status[target[t]] = "absent" \/ owner[target[t]] = Nobody)
    \/ pc[t] = "lock goal" /\ goalOwner = Nobody
    \/ pc[t] = "lock victims" /\ \A r \in victims[t] : owner[r] \in {t, Nobody}
    \/ pc[t] \in {"demote", "promote"}

\* While a request is in progress some transaction waits for nobody, unless two
\* of them wait for each other.
SomeoneGoesOn ==
    (\E t \in Requests : InProgress(t))
        => \/ \E t \in Requests : CanGoOn(t)
           \/ \E t, u \in Requests : WaitFor(t, u)

\* The end of a transaction, whichever it is, gives its locks back.
LEMMA LocksOfRunningStep ==
  ASSUME IInv, LocksOfRunning, [Next]_vars
  PROVE  LocksOfRunning'
  <1> USE ActivationAssumption DEF LocksOfRunning, InProgress, Ended, locks
  <1>0. /\ pc \in [Requests -> {"lock row", "lock goal", "demote", "lock victims", "promote"} \cup Ended]
        /\ owner \in [Rows -> Requests \cup {Nobody}]
    BY DEF IInv, TypeOK
  <1>1. ASSUME NEW t \in Requests, Release(t), pc' = [pc EXCEPT ![t] = pc'[t]]
        PROVE  LocksOfRunning'
    BY <1>0, <1>1 DEF Release
  <1>2. ASSUME NEW t \in Requests, owner' = owner, pc' = [pc EXCEPT ![t] = pc'[t]],
               InProgress(t)', pc[t] \notin Ended
        PROVE  LocksOfRunning'
    BY <1>0, <1>2
  <1>3. ASSUME NEW t \in Requests, LockRow(t)
        PROVE  LocksOfRunning'
    BY <1>0, <1>3 DEF LockRow, Goto
  <1>4. ASSUME NEW t \in Requests, LockGoal(t) \/ FindVictims(t)
        PROVE  LocksOfRunning'
    BY <1>0, <1>2, <1>4 DEF LockGoal, FindVictims, Goto
  <1>5. ASSUME NEW t \in Requests, LockVictims(t)
        PROVE  LocksOfRunning'
    BY <1>0, <1>5 DEF LockVictims, Goto
  <1>6. ASSUME NEW t \in Requests, Promote(t)
        PROVE  LocksOfRunning'
    BY <1>0, <1>1, <1>6 DEF Promote, Goto
  <1>7. ASSUME NEW t \in Requests, NotFound(t)
        PROVE  LocksOfRunning'
    BY <1>0, <1>7 DEF NotFound, Goto, IInv, NothingHeldYet
  <1>8. ASSUME NEW t \in Requests, Abort(t)
        PROVE  LocksOfRunning'
    BY <1>0, <1>1, <1>8 DEF Abort, Goto
  <1>9. ASSUME NEW r \in Rows, Create(r)
        PROVE  LocksOfRunning'
    BY <1>9 DEF Create
  <1>10. CASE UNCHANGED vars
    BY <1>10 DEF vars
  <1> QED
    BY <1>3, <1>4, <1>5, <1>6, <1>7, <1>8, <1>9, <1>10 DEF Next, Step, Fail, ResolveDeadlock

\* However many activations, creations and confirmations share a goal, the only
\* way for all of them to wait is a pair, one of which holds the goal and waits
\* for a row of the other: longer cycles, which the locks of academic.py:399-402
\* taken row first could suggest, do not occur.
THEOREM OnlyPairsWait == Spec => []SomeoneGoesOn
  <1>1. Init => LocksOfRunning
    BY ActivationAssumption DEF Init, LocksOfRunning
  <1>2. IInv /\ LocksOfRunning /\ [Next]_vars => LocksOfRunning'
    BY LocksOfRunningStep
  <1>3. IInv /\ LocksOfRunning => SomeoneGoesOn
    <2> SUFFICES ASSUME IInv, LocksOfRunning, NEW t \in Requests, InProgress(t),
                        \A u \in Requests : ~CanGoOn(u)
                 PROVE  \E x, u \in Requests : WaitFor(x, u)
      BY DEF SomeoneGoesOn
    <2>1. TypeOK /\ GoalHeld /\ RowsHeld /\ VictimsAreActive /\ NothingHeldYet
      BY DEF IInv
    <2>2. ASSUME NEW u \in Requests, NEW x \in Requests, NEW r \in Rows, owner[r] = u, u # x,
                 goalOwner \in {x, Nobody}
          PROVE  pc[u] = "lock goal"
      <3>1. InProgress(u) /\ pc[u] # "lock row" /\ goalOwner # u
        BY <2>1, <2>2, ActivationAssumption DEF LocksOfRunning, NothingHeldYet
      <3> QED
        BY <2>1, <3>1 DEF TypeOK, InProgress, GoalHeld, Demoting
    <2>3. CASE goalOwner = Nobody
      <3>1. pc[t] = "lock row"
        BY <2>1, <2>3, ActivationAssumption DEF TypeOK, InProgress, GoalHeld, Demoting, CanGoOn
      <3>2. target[t] \in Rows /\ owner[target[t]] \in Requests \ {t}
        BY <2>1, <3>1 DEF VictimsAreActive, CanGoOn, TypeOK, NothingHeldYet
      <3>3. pc[owner[target[t]]] = "lock goal"
        BY <2>2, <2>3, <3>2
      <3> QED
        BY <2>3, <3>2, <3>3 DEF CanGoOn
    <2>4. CASE goalOwner \in Requests
      <3> DEFINE x == goalOwner
      <3>1. pc[x] = "lock victims"
        BY <2>1, <2>4 DEF GoalHeld, Demoting, CanGoOn
      <3>2. PICK r \in victims[x] : owner[r] \notin {x, Nobody}
        BY <2>4, <3>1 DEF CanGoOn
      <3>3. r \in Rows /\ owner[r] \in Requests \ {x}
        BY <2>1, <2>4, <3>2 DEF TypeOK
      <3>4. pc[owner[r]] = "lock goal"
        BY <2>2, <2>4, <3>3
      <3> QED
        BY <2>4, <3>1, <3>2, <3>3, <3>4 DEF WaitFor
    <2> QED
      BY <2>1, <2>3, <2>4 DEF TypeOK
  <1> QED
    BY <1>1, <1>2, <1>3, ActivationInvariance, PTL DEF Spec
=============================================================================
