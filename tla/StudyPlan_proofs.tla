-------------------------- MODULE StudyPlan_proofs --------------------------
(***************************************************************************)
(* Proofs about the study sessions alone (module StudySession, first part) *)
(* and composed with the plan (module StudyPlan, second part): for every   *)
(* set of students, devices, sessions, items, proposals, goals and         *)
(* horizons, for every clock and its resolution, and for any number of     *)
(* requests for a proposal in flight.  A step of the composed system is    *)
(* one of the sessions, whose invariant IInv is preserved as it was        *)
(* without a plan, or one of the plan, which touches nothing of a session  *)
(* and only items that no session holds.                                   *)
(***************************************************************************)
EXTENDS StudyPlan, Sums

-----------------------------------------------------------------------------
(***************************************************************************)
(* Types.                                                                  *)
(***************************************************************************)

\* The part of the row every transition updates keeps its type.
LEMMA StepTyped ==
    ASSUME TypeOK, NEW s \in Sessions, NEW at \in Time,
           NEW target \in OpenStatus \cup ClosedStatus, Step(s, target, at)
    PROVE  /\ status' \in [Sessions -> {"absent"} \cup OpenStatus \cup ClosedStatus]
           /\ version' \in [Sessions -> Nat]
           /\ lastAt' \in [Sessions -> Time]
           /\ inOrder' \in [Sessions -> BOOLEAN]
           /\ studied' \in [Sessions -> Nat]
           /\ pauses' \in [Sessions -> Nat]
           /\ \A t \in Sessions : t # s => status'[t] = status[t]
           /\ status'[s] = target
<1>1. lastAt[s] \in Int /\ at \in Int
  BY DEF TypeOK, Time
<1>. QED BY <1>1 DEF TypeOK, Step, Positive

\* int(total_seconds()) is a whole number, and a natural one of no negative interval.
LEMMA SecondsTyped ==
    ASSUME SessionAssumption, NEW d \in Int
    PROVE  Seconds(d) \in Int /\ (d >= 0 => Seconds(d) \in Nat)
  BY DEF SessionAssumption, Seconds

\* Pause and net durations are natural numbers.
LEMMA DurationsTyped ==
    ASSUME SessionAssumption, TypeOK, NEW s \in Sessions, Exists(s), NEW at \in Time
    PROVE  PauseTotal(s, at) \in Nat /\ NetDuration(s, at) \in Nat
<1>1. row[s] \in Row /\ row[s].started \in Int /\ at \in Int /\ openPause[s] \in Int
  BY DEF TypeOK, Row, Time, NoTime, SessionAssumption
<1>2. Seconds(at - openPause[s]) \in Int /\ Seconds(at - row[s].started) \in Int
  BY <1>1, SecondsTyped
<1>3. PauseTotal(s, at) \in Nat
  BY <1>2 DEF TypeOK, PauseTotal, Positive
<1>. QED BY <1>2, <1>3 DEF NetDuration, Positive

\* So are the columns that ending a session writes.
LEMMA FinishTyped ==
    ASSUME SessionAssumption, TypeOK, NEW s \in Sessions, NEW at \in Time,
           NEW target \in ClosedStatus, IsOpen(s), Finish(s, at, target), row' = row
    PROVE  /\ row' \in [Sessions -> Row \cup {NoRow}]
           /\ status' \in [Sessions -> {"absent"} \cup OpenStatus \cup ClosedStatus]
           /\ \A t \in Sessions : Exists(t)' => row'[t] \in Row
           /\ version' \in [Sessions -> Nat]
           /\ paused' \in [Sessions -> Nat]
           /\ net' \in [Sessions -> Nat]
           /\ ended' \in [Sessions -> Time \cup {NoTime}]
           /\ openPause' \in [Sessions -> Time \cup {NoTime}]
           /\ lastAt' \in [Sessions -> Time]
           /\ inOrder' \in [Sessions -> BOOLEAN]
           /\ studied' \in [Sessions -> Nat]
           /\ pauses' \in [Sessions -> Nat]
<1>1. Exists(s)
  BY DEF Exists, IsOpen, OpenStatus
<1>2. PauseTotal(s, at) \in Nat /\ NetDuration(s, at) \in Nat
  BY <1>1, DurationsTyped
<1>3. Step(s, target, at)
  BY DEF Finish
<1>. QED BY <1>1, <1>2, <1>3, StepTyped DEF Finish, TypeOK, Exists

\* An item keeps a status of its column whatever a session leaves it with.
LEMMA LeaveItemTyped ==
    ASSUME TypeOK, NEW s \in Sessions, NEW target \in ItemStatus, LeaveItem(s, target)
    PROVE  item' \in [Items -> ItemStatus]
  BY DEF TypeOK, LeaveItem

\* _record_mastery keeps the columns of topic_mastery.
LEMMA RecordMasteryTyped ==
    ASSUME TypeOK, NEW s \in Sessions, Exists(s), NEW seconds \in Nat, RecordMastery(s, seconds)
    PROVE  mastery' \in [MasteryKeys -> Mastery]
<1>1. MasteryKey(s) \in MasteryKeys /\ mastery[MasteryKey(s)] \in Mastery
  BY DEF TypeOK, Row, MasteryKey, MasteryKeys
<1>2. Evidence(mastery[MasteryKey(s)], seconds) \in Mastery
  BY <1>1 DEF Evidence, Mastery
<1>3. mastery' = [mastery EXCEPT ![MasteryKey(s)] = Evidence(mastery[MasteryKey(s)], seconds)]
  BY DEF RecordMastery
<1>. QED BY <1>1, <1>2, <1>3 DEF TypeOK

\* No session has begun.
LEMMA InitTyped ==
    SessionAssumption /\ InitialSessions /\ item \in [Items -> {"absent", "planned"}] => TypeOK
  BY DEF SessionAssumption, InitialSessions, TypeOK, Time, NoTime, ItemStatus, Mastery, View,
         NoView, Exists

\* Every step of a session writes columns of their types.
LEMMA NextTyped == SessionAssumption /\ TypeOK /\ [Next]_vars => TypeOK'
<1> SUFFICES ASSUME SessionAssumption, TypeOK, [Next]_vars PROVE TypeOK'
  OBVIOUS
<1>1. CASE Tick
  BY <1>1 DEF TypeOK, Tick, sessionVars, columns, history, Time, SessionAssumption, Exists
<1>2. ASSUME NEW c \in Clients, NEW s \in Sessions, ReadSession(c, s) PROVE TypeOK'
  <2>1. [session |-> s, version |-> version[s]] \in View
    BY DEF TypeOK, View
  <2>. QED BY <1>2, <2>1 DEF TypeOK, ReadSession, sessionVars, columns, history, Exists
<1>3. ASSUME NEW c \in Clients, NEW g \in Goals, NEW i \in Items \cup {NoItem},
             NEW x \in Subjects, NEW at \in Time, StartCheck(c, g, i, x, at)
      PROVE TypeOK'
  BY <1>3 DEF TypeOK, StartCheck, StartRequest, columns, history, Exists
<1>4. ASSUME NEW r \in starting, NEW s \in Sessions, StartInsert(r, s) PROVE TypeOK'
  <2>1. r \in StartRequest
    BY DEF TypeOK
  <2>2. [user |-> UserOf[r.client], goal |-> r.goal, item |-> r.item,
         subject |-> r.subject, started |-> r.at] \in Row
    BY <2>1 DEF Row, StartRequest, SessionAssumption
  <2>3. item' \in [Items -> ItemStatus]
    BY <1>4 DEF StartInsert, ItemStatus, TypeOK
  <2>4. lastAt' \in [Sessions -> Time]
    BY <1>4, <2>1 DEF StartInsert, StartRequest, TypeOK
  <2>. QED BY <1>4, <2>2, <2>3, <2>4 DEF StartInsert, TypeOK, Exists, OpenStatus
<1>5. ASSUME NEW r \in starting, StartAbort(r) PROVE TypeOK'
  BY <1>5 DEF TypeOK, StartAbort, columns, history, Exists
<1>6. ASSUME NEW c \in Clients, NEW at \in Time, Pause(c, at) PROVE TypeOK'
  <2> DEFINE s == seen[c].session
  <2>1. s \in Sessions /\ Exists(s) /\ Step(s, "paused", at)
    BY <1>6 DEF Pause, MayTransition, Exists, IsOpen, OpenStatus
  <2>. QED BY <1>6, <2>1, StepTyped DEF Pause, TypeOK, OpenStatus, Exists
<1>7. ASSUME NEW c \in Clients, NEW at \in Time, Resume(c, at) PROVE TypeOK'
  <2> DEFINE s == seen[c].session
  <2>1. s \in Sessions /\ Exists(s) /\ Step(s, "active", at)
    BY <1>7 DEF Resume, MayTransition, Exists, IsOpen, OpenStatus
  <2>2. paused' \in [Sessions -> Nat]
    <3>1. at - openPause[s] \in Nat
      BY <1>7, <2>1 DEF Resume, TypeOK, Time, SessionAssumption
    <3>2. Seconds(at - openPause[s]) \in Nat
      BY <3>1, SecondsTyped
    <3>. QED BY <1>7, <2>1, <3>2 DEF Resume, TypeOK
  <2>. QED BY <1>7, <2>1, <2>2, StepTyped DEF Resume, TypeOK, OpenStatus, Exists
<1>8. ASSUME NEW c \in Clients, NEW at \in Time, Complete(c, at) PROVE TypeOK'
  <2> DEFINE s == seen[c].session
  <2>1. s \in Sessions /\ IsOpen(s) /\ Exists(s)
    BY <1>8 DEF Complete, MayTransition, Exists, IsOpen, OpenStatus
  <2>2. mastery' \in [MasteryKeys -> Mastery]
    BY <1>8, <2>1, DurationsTyped, RecordMasteryTyped DEF Complete
  <2>3. item' \in [Items -> ItemStatus]
    BY <1>8, <2>1, LeaveItemTyped DEF Complete, ItemStatus
  <2>4. "completed" \in ClosedStatus /\ Finish(s, at, "completed") /\ row' = row
    BY <1>8 DEF Complete, ClosedStatus
  <2>. QED BY <1>8, <2>1, <2>2, <2>3, <2>4, FinishTyped DEF Complete, TypeOK
<1>9. ASSUME NEW c \in Clients, NEW at \in Time, Cancel(c, at) PROVE TypeOK'
  <2> DEFINE s == seen[c].session
  <2>1. s \in Sessions /\ IsOpen(s)
    BY <1>9 DEF Cancel, MayTransition
  <2>2. item' \in [Items -> ItemStatus]
    BY <1>9, <2>1, LeaveItemTyped DEF Cancel, ItemStatus
  <2>3. "cancelled" \in ClosedStatus /\ Finish(s, at, "cancelled") /\ row' = row
    BY <1>9 DEF Cancel, ClosedStatus
  <2>. QED BY <1>9, <2>1, <2>2, <2>3, FinishTyped DEF Cancel, TypeOK
<1>10. CASE UNCHANGED vars
  BY <1>10 DEF TypeOK, vars, sessionVars, columns, history, Exists
<1>. QED
  BY <1>1, <1>2, <1>3, <1>4, <1>5, <1>6, <1>7, <1>8, <1>9, <1>10 DEF Next, SessionNext

\* Every reachable state has well-typed rows.
THEOREM TypeCorrect == Spec => []TypeOK
<1>1. Init => TypeOK
  BY SessionAssumption, InitTyped DEF Init
<1>2. TypeOK /\ [Next]_vars => TypeOK'
  BY SessionAssumption, NextTyped
<1>. QED BY <1>1, <1>2, PTL DEF Spec

-----------------------------------------------------------------------------
(***************************************************************************)
(* The inductive invariant.  OneOpenSessionPerUser and                     *)
(* ItemHeldByOpenSession are not inductive alone: that a session works on  *)
(* an item of its own student, and so that two sessions on one item belong *)
(* to one student, was decided when the request passed its checks, before  *)
(* the insert.  The time accounting needs to know where an open session's  *)
(* clock stands.                                                           *)
(***************************************************************************)

\* A start request in flight names an item of its own student.
StartingOwnsItem ==
    \A r \in starting : r.item \in Items => GoalOwner[ItemGoal[r.item]] = UserOf[r.client]

\* So does an open session.
SessionOwnsItem ==
    \A s \in Sessions :
        IsOpen(s) /\ row[s].item \in Items => GoalOwner[ItemGoal[row[s].item]] = row[s].user

\* The pauses of a session that have ended, and the time not studied up to its
\* last event.
EndedPauses(s) == IF status[s] = "paused" THEN pauses[s] - 1 ELSE pauses[s]
Rest(s) == (lastAt[s] - row[s].started) - studied[s]

\* Nothing is recorded for a session that does not exist.  While the timestamps
\* of an open session come in order, its accumulated pause is the time it rested
\* up to its last event, short of a fraction of a second for every ended pause;
\* and an open pause began with its last event.
ClockInv ==
    \A s \in Sessions :
        /\ ~Exists(s) => /\ paused[s] = 0 /\ studied[s] = 0
                         /\ version[s] = 0 /\ pauses[s] = 0
        /\ IsOpen(s) /\ inOrder[s] =>
             /\ TicksPerSecond * paused[s] <= Rest(s)
             /\ Rest(s) <= TicksPerSecond * paused[s] + EndedPauses(s) * (TicksPerSecond - 1)
        /\ status[s] = "paused" /\ inOrder[s] => openPause[s] = lastAt[s]

IInv ==
    /\ TypeOK
    /\ StartingOwnsItem
    /\ SessionOwnsItem
    /\ OneOpenSessionPerUser
    /\ OpenPauseIffPaused
    /\ ItemHeldByOpenSession
    /\ ClockInv
    /\ NetIsTimeStudied

\* The steps that touch no session, pause or item.
Quiet == UNCHANGED <<row, columns, openPause, item, history>>

Transition(c, at) == Pause(c, at) \/ Resume(c, at) \/ Complete(c, at) \/ Cancel(c, at)

\* Every step is quiet, an insert, or a transition of some client.
LEMMA NextCases ==
    ASSUME [Next]_vars
    PROVE  \/ Quiet
           \/ \E r \in starting, s \in Sessions : StartInsert(r, s)
           \/ \E c \in Clients, at \in Time : Transition(c, at)
  BY DEF Next, SessionNext, vars, sessionVars, columns, history, Quiet, Tick, ReadSession,
         StartCheck, StartAbort, Transition

\* A transition touches one open session of the client and nobody else's.
LEMMA TransitionScope ==
    ASSUME TypeOK, NEW c \in Clients, NEW at \in Time, Transition(c, at)
    PROVE  /\ seen[c].session \in Sessions /\ IsOpen(seen[c].session) /\ row' = row
           /\ \A t \in Sessions : t # seen[c].session =>
                /\ status'[t] = status[t] /\ version'[t] = version[t]
                /\ paused'[t] = paused[t] /\ net'[t] = net[t]
                /\ ended'[t] = ended[t] /\ openPause'[t] = openPause[t]
                /\ lastAt'[t] = lastAt[t] /\ inOrder'[t] = inOrder[t]
                /\ studied'[t] = studied[t] /\ pauses'[t] = pauses[t]
  BY DEF TypeOK, Transition, Pause, Resume, Complete, Cancel, Finish, Step, MayTransition

\* What an insert does to the session: the student had no open one.
LEMMA InsertEffect ==
    ASSUME TypeOK, NEW r \in starting, NEW s \in Sessions, StartInsert(r, s)
    PROVE  /\ status[s] = "absent" /\ status'[s] = "active"
           /\ row'[s].user = UserOf[r.client] /\ row'[s].item = r.item
           /\ row'[s].started = r.at /\ lastAt'[s] = r.at /\ version'[s] = 1
           /\ \A t \in Sessions : t # s =>
                /\ status'[t] = status[t] /\ row'[t] = row[t]
                /\ lastAt'[t] = lastAt[t] /\ version'[t] = version[t]
           /\ \A t \in Sessions : ~(IsOpen(t) /\ row[t].user = UserOf[r.client])
           /\ \A i \in Items : item'[i] = IF i = r.item THEN "in_progress" ELSE item[i]
           /\ openPause' = openPause /\ paused' = paused /\ inOrder' = inOrder
           /\ studied' = studied /\ pauses' = pauses /\ net' = net /\ ended' = ended
<1>1. row'[s] = [user |-> UserOf[r.client], goal |-> r.goal, item |-> r.item,
                 subject |-> r.subject, started |-> r.at]
  BY DEF TypeOK, StartInsert
<1>2. \A i \in Items : item'[i] = IF i = r.item THEN "in_progress" ELSE item[i]
  BY DEF TypeOK, StartInsert
<1>3. \A t \in Sessions : t # s =>
        /\ status'[t] = status[t] /\ row'[t] = row[t]
        /\ lastAt'[t] = lastAt[t] /\ version'[t] = version[t]
  BY DEF TypeOK, StartInsert
<1>4. \A t \in Sessions : ~(IsOpen(t) /\ row[t].user = UserOf[r.client])
  BY DEF StartInsert, OpenSessions
<1>. QED BY <1>1, <1>2, <1>3, <1>4 DEF TypeOK, StartInsert, Exists

-----------------------------------------------------------------------------
(***************************************************************************)
(* Every conjunct of the invariant is preserved.                           *)
(***************************************************************************)
LEMMA SessionOwnsItemStep ==
    TypeOK /\ StartingOwnsItem /\ SessionOwnsItem /\ [Next]_vars => SessionOwnsItem'
<1> SUFFICES ASSUME TypeOK, StartingOwnsItem, SessionOwnsItem, [Next]_vars PROVE SessionOwnsItem'
  OBVIOUS
<1>1. CASE Quiet
  BY <1>1 DEF Quiet, columns, SessionOwnsItem, IsOpen
<1>2. ASSUME NEW r \in starting, NEW s \in Sessions, StartInsert(r, s) PROVE SessionOwnsItem'
  <2>1. r.item \in Items => GoalOwner[ItemGoal[r.item]] = UserOf[r.client]
    BY DEF StartingOwnsItem
  <2>2. /\ row'[s].user = UserOf[r.client] /\ row'[s].item = r.item
        /\ \A t \in Sessions : t # s => status'[t] = status[t] /\ row'[t] = row[t]
    BY <1>2, InsertEffect
  <2>. QED BY <2>1, <2>2 DEF SessionOwnsItem, IsOpen
<1>3. ASSUME NEW c \in Clients, NEW at \in Time, Transition(c, at) PROVE SessionOwnsItem'
  BY <1>3, TransitionScope DEF SessionOwnsItem, IsOpen
<1>. QED BY <1>1, <1>2, <1>3, NextCases

\* A start request keeps the item it has looked up.
LEMMA StartingOwnsItemStep == StartingOwnsItem /\ [Next]_vars => StartingOwnsItem'
<1> SUFFICES ASSUME StartingOwnsItem, [Next]_vars PROVE StartingOwnsItem'
  OBVIOUS
<1>1. ASSUME NEW c \in Clients, NEW g \in Goals, NEW i \in Items \cup {NoItem},
             NEW x \in Subjects, NEW at \in Time, StartCheck(c, g, i, x, at)
      PROVE StartingOwnsItem'
  BY <1>1 DEF StartCheck, StartingOwnsItem
<1>2. CASE starting' \subseteq starting
  BY <1>2 DEF StartingOwnsItem
<1>. QED
  BY <1>1, <1>2
  DEF Next, SessionNext, vars, sessionVars, Tick, ReadSession, StartInsert, StartAbort,
      Pause, Resume, Complete, Cancel

\* The index one_open_session_per_user decides at the insert.
LEMMA OneOpenStep ==
    TypeOK /\ OneOpenSessionPerUser /\ [Next]_vars => OneOpenSessionPerUser'
<1> SUFFICES ASSUME TypeOK, OneOpenSessionPerUser, [Next]_vars
             PROVE  OneOpenSessionPerUser'
  OBVIOUS
<1>1. CASE Quiet
  BY <1>1 DEF Quiet, columns, OneOpenSessionPerUser, IsOpen
<1>2. ASSUME NEW r \in starting, NEW s \in Sessions, StartInsert(r, s)
      PROVE  OneOpenSessionPerUser'
  <2>1. row'[s].user = UserOf[r.client]
    BY <1>2, InsertEffect
  <2>2. \A t \in Sessions : t # s => status'[t] = status[t] /\ row'[t] = row[t]
    BY <1>2, InsertEffect
  <2>3. \A t \in Sessions : ~(IsOpen(t) /\ row[t].user = UserOf[r.client])
    BY <1>2, InsertEffect
  <2>. QED BY <2>1, <2>2, <2>3 DEF OneOpenSessionPerUser, IsOpen
<1>3. ASSUME NEW c \in Clients, NEW at \in Time, Transition(c, at)
      PROVE  OneOpenSessionPerUser'
  <2>1. row' = row /\ \A t \in Sessions : IsOpen(t)' => IsOpen(t)
    BY <1>3, TransitionScope DEF IsOpen
  <2>. QED BY <2>1 DEF OneOpenSessionPerUser
<1>. QED BY <1>1, <1>2, <1>3, NextCases

\* What each transition leaves in the row and the item of its session.
LEMMA TransitionEffect ==
    ASSUME TypeOK, NEW c \in Clients, NEW at \in Time, NEW s \in Sessions, s = seen[c].session
    PROVE  /\ Pause(c, at) => status'[s] = "paused" /\ openPause'[s] = at /\ item' = item
           /\ Resume(c, at) => status'[s] = "active" /\ openPause'[s] = NoTime /\ item' = item
           /\ Complete(c, at) => /\ status'[s] = "completed" /\ openPause'[s] = NoTime
                                 /\ LeaveItem(s, "completed")
           /\ Cancel(c, at) => /\ status'[s] = "cancelled" /\ openPause'[s] = NoTime
                               /\ LeaveItem(s, "planned")
<1>1. Pause(c, at) => status'[s] = "paused" /\ openPause'[s] = at /\ item' = item
  BY DEF TypeOK, Pause, Step
<1>2. Resume(c, at) => status'[s] = "active" /\ openPause'[s] = NoTime /\ item' = item
  BY DEF TypeOK, Resume, Step
<1>3. Complete(c, at) =>
        status'[s] = "completed" /\ openPause'[s] = NoTime /\ LeaveItem(s, "completed")
  BY DEF TypeOK, Complete, Finish, Step
<1>4. Cancel(c, at) =>
        status'[s] = "cancelled" /\ openPause'[s] = NoTime /\ LeaveItem(s, "planned")
  BY DEF TypeOK, Cancel, Finish, Step
<1>. QED BY <1>1, <1>2, <1>3, <1>4

\* A transition writes the status and the row of the pause together.
LEMMA OpenPauseStep == TypeOK /\ OpenPauseIffPaused /\ [Next]_vars => OpenPauseIffPaused'
<1> SUFFICES ASSUME TypeOK, OpenPauseIffPaused, [Next]_vars
             PROVE  OpenPauseIffPaused'
  OBVIOUS
<1>1. CASE Quiet
  BY <1>1 DEF Quiet, columns, OpenPauseIffPaused
<1>2. ASSUME NEW r \in starting, NEW s \in Sessions, StartInsert(r, s) PROVE OpenPauseIffPaused'
  <2>1. /\ status[s] = "absent" /\ status'[s] = "active" /\ openPause' = openPause
        /\ \A t \in Sessions : t # s => status'[t] = status[t]
    BY <1>2, InsertEffect
  <2>. QED BY <2>1 DEF OpenPauseIffPaused
<1>3. ASSUME NEW c \in Clients, NEW at \in Time, Transition(c, at)
      PROVE  OpenPauseIffPaused'
  <2> DEFINE s == seen[c].session
  <2>1. at # NoTime
    BY DEF Time, NoTime
  <2>2. /\ s \in Sessions
        /\ \A t \in Sessions : t # s => status'[t] = status[t] /\ openPause'[t] = openPause[t]
    BY <1>3, TransitionScope
  <2>3. openPause'[s] # NoTime <=> status'[s] = "paused"
    BY <1>3, <2>1, <2>2, TransitionEffect DEF Transition
  <2>. QED BY <2>2, <2>3 DEF OpenPauseIffPaused
<1>. QED BY <1>1, <1>2, <1>3, NextCases

\* An item is freed by the one session that may hold it.
LEMMA ItemHeldStep ==
    /\ TypeOK /\ StartingOwnsItem /\ SessionOwnsItem
    /\ OneOpenSessionPerUser /\ ItemHeldByOpenSession /\ [Next]_vars
    => ItemHeldByOpenSession'
<1> SUFFICES ASSUME TypeOK, StartingOwnsItem, SessionOwnsItem,
                    OneOpenSessionPerUser, ItemHeldByOpenSession, [Next]_vars
             PROVE  ItemHeldByOpenSession'
  OBVIOUS
<1>1. CASE Quiet
  BY <1>1 DEF Quiet, columns, ItemHeldByOpenSession, IsOpen
<1>2. ASSUME NEW r \in starting, NEW s \in Sessions, StartInsert(r, s)
      PROVE  ItemHeldByOpenSession'
  <2>1. row'[s].item = r.item
    BY <1>2, InsertEffect
  <2>2. \A t \in Sessions : t # s => status'[t] = status[t] /\ row'[t] = row[t]
    BY <1>2, InsertEffect
  <2>3. status[s] = "absent" /\ status'[s] = "active"
    BY <1>2, InsertEffect
  <2>4. \A i \in Items : item'[i] = IF i = r.item THEN "in_progress" ELSE item[i]
    BY <1>2, InsertEffect
  <2>5. ASSUME NEW i \in Items, i = r.item
        PROVE  item'[i] = "in_progress" /\ \E t \in Sessions : IsOpen(t)' /\ row'[t].item = i
    BY <2>1, <2>3, <2>4, <2>5 DEF IsOpen, OpenStatus
  <2>6. ASSUME NEW i \in Items, i # r.item
        PROVE  item'[i] = "in_progress" <=> \E t \in Sessions : IsOpen(t)' /\ row'[t].item = i
    <3>1. item'[i] = item[i]
      BY <2>4, <2>6
    <3>2. \A t \in Sessions : (IsOpen(t)' /\ row'[t].item = i) <=> (IsOpen(t) /\ row[t].item = i)
      BY <2>1, <2>2, <2>3, <2>6 DEF IsOpen, OpenStatus
    <3>. QED BY <3>1, <3>2 DEF ItemHeldByOpenSession
  <2>. QED BY <2>5, <2>6 DEF ItemHeldByOpenSession
<1>3. ASSUME NEW c \in Clients, NEW at \in Time, Pause(c, at) \/ Resume(c, at)
      PROVE  ItemHeldByOpenSession'
  <2> DEFINE s == seen[c].session
  <2>1. /\ s \in Sessions /\ IsOpen(s) /\ row' = row
        /\ \A t \in Sessions : t # s => status'[t] = status[t]
    BY <1>3, TransitionScope DEF Transition
  <2>2. status'[s] \in OpenStatus /\ item' = item
    BY <1>3, <2>1, TransitionEffect DEF OpenStatus
  <2>3. \A t \in Sessions : IsOpen(t)' <=> IsOpen(t)
    BY <2>1, <2>2 DEF IsOpen
  <2>. QED BY <2>1, <2>2, <2>3 DEF ItemHeldByOpenSession
<1>4. ASSUME NEW c \in Clients, NEW at \in Time, Complete(c, at) \/ Cancel(c, at)
      PROVE  ItemHeldByOpenSession'
  <2> DEFINE s == seen[c].session
  <2>1. /\ s \in Sessions /\ IsOpen(s) /\ row' = row
        /\ \A t \in Sessions : t # s => status'[t] = status[t]
    BY <1>4, TransitionScope DEF Transition
  <2>2. status'[s] \notin OpenStatus /\ (LeaveItem(s, "completed") \/ LeaveItem(s, "planned"))
    BY <1>4, <2>1, TransitionEffect DEF OpenStatus
  <2>3. \A j \in Items : j = row[s].item => item'[j] # "in_progress"
    BY <2>2 DEF LeaveItem, TypeOK
  <2>4. \A j \in Items : j # row[s].item => item'[j] = item[j]
    BY <2>2 DEF LeaveItem, TypeOK
  <2>5. \A t \in Sessions : t # s => (IsOpen(t)' <=> IsOpen(t))
    BY <2>1 DEF IsOpen
  <2>6. ASSUME NEW j \in Items, j = row[s].item, NEW t \in Sessions, IsOpen(t)' PROVE row'[t].item # j
    <3>1. t # s /\ IsOpen(t)
      BY <2>2, <2>5, <2>6 DEF IsOpen
    <3>2. row[t].user # row[s].user
      BY <2>1, <3>1 DEF OneOpenSessionPerUser
    <3>3. GoalOwner[ItemGoal[j]] = row[s].user
      BY <2>1, <2>6 DEF SessionOwnsItem
    <3>4. row[t].item \in Items => GoalOwner[ItemGoal[row[t].item]] = row[t].user
      BY <3>1 DEF SessionOwnsItem
    <3>. QED BY <2>1, <3>2, <3>3, <3>4
  <2>7. ASSUME NEW j \in Items, j # row[s].item
        PROVE  item'[j] = "in_progress" <=> \E t \in Sessions : IsOpen(t)' /\ row'[t].item = j
    <3>1. \A t \in Sessions : (IsOpen(t)' /\ row'[t].item = j) <=> (IsOpen(t) /\ row[t].item = j)
      BY <2>1, <2>5, <2>7
    <3>. QED BY <2>4, <2>7, <3>1 DEF ItemHeldByOpenSession
  <2>. QED BY <2>3, <2>6, <2>7 DEF ItemHeldByOpenSession
<1>. QED BY <1>1, <1>2, <1>3, <1>4, NextCases DEF Transition

\* The columns a client's transition reads are numbers.
LEMMA ColumnTypes ==
    ASSUME TypeOK, NEW s \in Sessions, Exists(s)
    PROVE  /\ row[s].started \in Int /\ lastAt[s] \in Int /\ studied[s] \in Int
           /\ paused[s] \in Int /\ openPause[s] \in Int /\ pauses[s] \in Int
           /\ inOrder[s] \in BOOLEAN
  BY DEF TypeOK, Row, Time, NoTime

\* What a transition does to the history variables of its session.
LEMMA StepHistory ==
    ASSUME TypeOK, NEW s \in Sessions, NEW at \in Time, NEW target, Step(s, target, at)
    PROVE  /\ lastAt'[s] = at
           /\ (inOrder'[s] => inOrder[s] /\ lastAt[s] <= at)
           /\ status[s] = "active" => studied'[s] = studied[s] + Positive(at - lastAt[s])
           /\ status[s] # "active" => studied'[s] = studied[s] + 0
           /\ pauses'[s] = pauses[s] + (IF target = "paused" THEN 1 ELSE 0)
  BY DEF TypeOK, Step

\* What int(total_seconds()) cuts off is less than a second.
LEMMA SecondsBounds ==
    ASSUME SessionAssumption, NEW d \in Nat
    PROVE  /\ Seconds(d) \in Nat
           /\ TicksPerSecond * Seconds(d) <= d
           /\ d <= TicksPerSecond * Seconds(d) + (TicksPerSecond - 1)
<1>1. TicksPerSecond \in Nat \ {0}
  BY DEF SessionAssumption
<1>2. /\ d \div TicksPerSecond \in Nat
      /\ d % TicksPerSecond \in 0 .. (TicksPerSecond - 1)
      /\ d = TicksPerSecond * (d \div TicksPerSecond) + (d % TicksPerSecond)
  BY <1>1
<1>3. TicksPerSecond * (d \div TicksPerSecond) \in Nat
  BY <1>1, <1>2
<1>. QED BY <1>1, <1>2, <1>3 DEF Seconds

\* One more pause: q whole seconds of its length d, in ticks, are added to the p
\* whole seconds of the k pauses before it, which made a rest of r ticks.
LEMMA PauseArithmetic ==
    ASSUME NEW N \in Nat \ {0}, NEW p \in Nat, NEW q \in Nat, NEW k \in Int,
           NEW r \in Int, NEW d \in Nat,
           N * p <= r, r <= N * p + k * (N - 1), N * q <= d, d <= N * q + (N - 1)
    PROVE  N * (p + q) <= r + d /\ r + d <= N * (p + q) + (k + 1) * (N - 1)
<1>1. N * (p + q) = N * p + N * q /\ (k + 1) * (N - 1) = k * (N - 1) + (N - 1)
  OBVIOUS
<1>2. N * p \in Int /\ N * q \in Int /\ k * (N - 1) \in Int
  OBVIOUS
<1>. QED BY <1>1, <1>2

\* The end of a session of w whole seconds, of which a time x was studied and the
\* rest r is accumulated, in whole seconds, as p.
LEMMA NetArithmetic ==
    ASSUME NEW N \in Nat \ {0}, NEW p \in Nat, NEW w \in Nat, NEW k \in Int,
           NEW r \in Int, NEW x \in Nat,
           N * p <= r, r <= N * p + k * (N - 1),
           N * w <= r + x, r + x <= N * w + (N - 1)
    PROVE  /\ Positive(w - p) + p = w
           /\ x < N * Positive(w - p) + N
           /\ N * Positive(w - p) <= x + k * (N - 1)
<1>1. N * (w - p) = N * w - N * p /\ N * (w + 1) = N * w + N
  OBVIOUS
<1>2. N * p \in Int /\ N * w \in Int /\ k * (N - 1) \in Int
  OBVIOUS
<1>3. p <= w
  <2>1. SUFFICES ASSUME w + 1 <= p PROVE FALSE
    OBVIOUS
  <2>2. N * (w + 1) <= N * p
    BY <2>1
  <2>. QED BY <1>1, <1>2, <2>2
<1>4. Positive(w - p) = w - p
  BY <1>3 DEF Positive
<1>. QED BY <1>1, <1>2, <1>4

\* Each event closes one stretch of time, studied or paused.
LEMMA ClockStep ==
    SessionAssumption /\ TypeOK /\ OpenPauseIffPaused /\ ClockInv /\ [Next]_vars => ClockInv'
<1> SUFFICES ASSUME SessionAssumption, TypeOK, OpenPauseIffPaused, ClockInv, [Next]_vars
             PROVE  ClockInv'
  OBVIOUS
<1> DEFINE Clock(s) ==
             /\ ~Exists(s) => /\ paused[s] = 0 /\ studied[s] = 0
                              /\ version[s] = 0 /\ pauses[s] = 0
             /\ IsOpen(s) /\ inOrder[s] =>
                  /\ TicksPerSecond * paused[s] <= Rest(s)
                  /\ Rest(s) <= TicksPerSecond * paused[s]
                                + EndedPauses(s) * (TicksPerSecond - 1)
             /\ status[s] = "paused" /\ inOrder[s] => openPause[s] = lastAt[s]
<1>0. TicksPerSecond \in Nat \ {0}
  BY DEF SessionAssumption
<1>1. CASE Quiet
  BY <1>1 DEF Quiet, columns, history, ClockInv, IsOpen, Exists, Rest, EndedPauses
<1>2. ASSUME NEW r \in starting, NEW s \in Sessions, StartInsert(r, s) PROVE ClockInv'
  <2>1. /\ status[s] = "absent" /\ status'[s] = "active"
        /\ row'[s].started = r.at /\ lastAt'[s] = r.at
        /\ paused' = paused /\ studied' = studied /\ inOrder' = inOrder
        /\ openPause' = openPause /\ pauses' = pauses
    BY <1>2, InsertEffect
  <2>2. \A t \in Sessions : t # s =>
          /\ status'[t] = status[t] /\ row'[t] = row[t]
          /\ lastAt'[t] = lastAt[t] /\ version'[t] = version[t]
    BY <1>2, InsertEffect
  <2>3. Clock(s)'
    <3>1. r.at \in Int
      BY DEF TypeOK, StartRequest, Time
    <3>2. paused[s] = 0 /\ studied[s] = 0 /\ pauses[s] = 0
      BY <2>1 DEF ClockInv, Exists
    <3>3. Rest(s)' = 0 /\ EndedPauses(s)' = 0
      BY <2>1, <3>1, <3>2 DEF Rest, EndedPauses
    <3>. QED BY <1>0, <2>1, <3>2, <3>3 DEF Exists, IsOpen, OpenStatus
  <2>4. ASSUME NEW t \in Sessions, t # s PROVE Clock(t)'
    BY <2>1, <2>2, <2>4 DEF ClockInv, Exists, IsOpen, Rest, EndedPauses
  <2>. QED BY <2>3, <2>4 DEF ClockInv
<1>3. ASSUME NEW c \in Clients, NEW at \in Time, NEW s \in Sessions, s = seen[c].session,
             Transition(c, at)
      PROVE  ClockInv'
  <2>1. /\ IsOpen(s) /\ Exists(s) /\ row' = row
        /\ \A t \in Sessions : t # s =>
             /\ status'[t] = status[t] /\ version'[t] = version[t]
             /\ paused'[t] = paused[t] /\ openPause'[t] = openPause[t]
             /\ lastAt'[t] = lastAt[t] /\ inOrder'[t] = inOrder[t]
             /\ studied'[t] = studied[t] /\ pauses'[t] = pauses[t]
    BY <1>3, TransitionScope DEF Exists, IsOpen, OpenStatus
  <2>2. ASSUME NEW t \in Sessions, t # s PROVE Clock(t)'
    BY <2>1, <2>2 DEF ClockInv, Exists, IsOpen, Rest, EndedPauses
  <2>3. /\ row[s].started \in Int /\ lastAt[s] \in Int /\ studied[s] \in Int
        /\ paused[s] \in Nat /\ openPause[s] \in Int /\ pauses[s] \in Int
        /\ inOrder[s] \in BOOLEAN /\ at \in Int
    BY <2>1, ColumnTypes DEF TypeOK, Time
  <2>4. CASE Pause(c, at)
    <3>1. Step(s, "paused", at) /\ paused' = paused /\ openPause[s] = NoTime
      BY <1>3, <2>4 DEF Pause
    <3>2. status'[s] = "paused" /\ openPause'[s] = at
      BY <1>3, <2>4, TransitionEffect
    <3>3. status[s] = "active"
      BY <2>1, <3>1 DEF OpenPauseIffPaused, IsOpen, OpenStatus
    <3>4. /\ lastAt'[s] = at /\ (inOrder'[s] => inOrder[s] /\ lastAt[s] <= at)
          /\ studied'[s] = studied[s] + Positive(at - lastAt[s])
          /\ pauses'[s] = pauses[s] + 1
      BY <3>1, <3>3, StepHistory
    <3>5. inOrder'[s] => Rest(s)' = Rest(s)
      <4>1. ASSUME inOrder'[s] PROVE studied'[s] = studied[s] + (at - lastAt[s])
        BY <2>3, <3>4, <4>1 DEF Positive
      <4>. QED BY <2>1, <2>3, <3>4, <4>1 DEF Rest
    <3>6. EndedPauses(s)' = EndedPauses(s)
      BY <2>3, <3>2, <3>3, <3>4 DEF EndedPauses
    <3>7. Clock(s)'
      BY <2>1, <3>1, <3>2, <3>4, <3>5, <3>6 DEF ClockInv, Exists, IsOpen
    <3>. QED BY <2>2, <3>7 DEF ClockInv
  <2>5. CASE Resume(c, at)
    <3>1. /\ Step(s, "active", at) /\ openPause[s] # NoTime /\ at >= openPause[s]
          /\ paused'[s] = paused[s] + Seconds(at - openPause[s])
      BY <1>3, <2>5 DEF Resume, TypeOK
    <3>2. status'[s] = "active"
      BY <1>3, <2>5, TransitionEffect
    <3>3. status[s] = "paused"
      BY <3>1 DEF OpenPauseIffPaused
    <3>4. /\ lastAt'[s] = at /\ (inOrder'[s] => inOrder[s] /\ lastAt[s] <= at)
          /\ studied'[s] = studied[s] + 0 /\ pauses'[s] = pauses[s] + 0
      BY <3>1, <3>3, StepHistory
    <3>5. ASSUME inOrder'[s]
          PROVE  /\ TicksPerSecond * paused'[s] <= Rest(s)'
                 /\ Rest(s)' <= TicksPerSecond * paused'[s]
                                + EndedPauses(s)' * (TicksPerSecond - 1)
      <4>1. /\ TicksPerSecond * paused[s] <= Rest(s)
            /\ Rest(s) <= TicksPerSecond * paused[s] + EndedPauses(s) * (TicksPerSecond - 1)
            /\ openPause[s] = lastAt[s]
        BY <2>1, <3>3, <3>4, <3>5 DEF ClockInv
      <4>2. EndedPauses(s) \in Int /\ EndedPauses(s)' = EndedPauses(s) + 1
        BY <2>3, <3>2, <3>3, <3>4 DEF EndedPauses
      <4>3. Rest(s) \in Int /\ Rest(s)' = Rest(s) + (at - openPause[s])
        BY <2>1, <2>3, <3>4, <4>1 DEF Rest
      <4>4. PICK d \in Nat : d = at - openPause[s]
        BY <2>3, <3>1
      <4>5. PICK q \in Nat : /\ q = Seconds(d)
                             /\ TicksPerSecond * q <= d
                             /\ d <= TicksPerSecond * q + (TicksPerSecond - 1)
        BY SecondsBounds
      <4>6. PICK k \in Int, r \in Int, p \in Nat : k = EndedPauses(s) /\ r = Rest(s) /\ p = paused[s]
        BY <2>3, <4>2, <4>3
      <4>7. TicksPerSecond * p <= r /\ r <= TicksPerSecond * p + k * (TicksPerSecond - 1)
        BY <4>1, <4>6
      <4>8. /\ TicksPerSecond * (p + q) <= r + d
            /\ r + d <= TicksPerSecond * (p + q) + (k + 1) * (TicksPerSecond - 1)
        BY <1>0, <4>5, <4>7, PauseArithmetic
      <4>9. paused'[s] = p + q /\ Rest(s)' = r + d /\ EndedPauses(s)' = k + 1
        BY <3>1, <4>2, <4>3, <4>4, <4>5, <4>6
      <4>. QED BY <4>8, <4>9
    <3>6. Clock(s)'
      BY <2>1, <3>2, <3>5 DEF Exists, IsOpen
    <3>. QED BY <2>2, <3>6 DEF ClockInv
  <2>6. CASE Complete(c, at) \/ Cancel(c, at)
    <3>1. status'[s] \in ClosedStatus
      BY <1>3, <2>6, TransitionEffect DEF ClosedStatus
    <3>2. Clock(s)'
      BY <3>1 DEF ClosedStatus, Exists, IsOpen, OpenStatus
    <3>. QED BY <2>2, <3>2 DEF ClockInv
  <2>. QED BY <1>3, <2>4, <2>5, <2>6 DEF Transition
<1>4. ASSUME NEW c \in Clients, NEW at \in Time, Transition(c, at) PROVE ClockInv'
  BY <1>3, <1>4, TransitionScope
<1>. QED BY <1>1, <1>2, <1>4, NextCases

\* The end of a session whose clock stood in order: the accumulated pause is
\* short of the time not studied by less than a second for every pause.
LEMMA FinishRest ==
    ASSUME SessionAssumption, TypeOK, OpenPauseIffPaused, ClockInv, NEW s \in Sessions,
           IsOpen(s), NEW at \in Time, NEW target \in ClosedStatus, Finish(s, at, target),
           inOrder'[s]
    PROVE  /\ PauseTotal(s, at) \in Nat
           /\ TicksPerSecond * PauseTotal(s, at) <= (at - row[s].started) - studied'[s]
           /\ (at - row[s].started) - studied'[s]
                <= TicksPerSecond * PauseTotal(s, at) + pauses[s] * (TicksPerSecond - 1)
<1>1. Exists(s) /\ TicksPerSecond \in Nat \ {0}
  BY DEF Exists, IsOpen, OpenStatus, SessionAssumption
<1>2. /\ row[s].started \in Int /\ lastAt[s] \in Int /\ studied[s] \in Nat /\ at \in Int
      /\ paused[s] \in Nat /\ openPause[s] \in Int /\ pauses[s] \in Int
  BY <1>1, ColumnTypes DEF TypeOK, Time
<1>3. Step(s, target, at)
  BY DEF Finish
<1>4. inOrder[s] /\ lastAt[s] <= at
  BY <1>3, StepHistory
<1>5. /\ TicksPerSecond * paused[s] <= Rest(s)
      /\ Rest(s) <= TicksPerSecond * paused[s] + EndedPauses(s) * (TicksPerSecond - 1)
  BY <1>4 DEF ClockInv
<1>6. CASE status[s] = "active"
  <2>1. openPause[s] = NoTime
    BY <1>6 DEF OpenPauseIffPaused
  <2>2. studied'[s] = studied[s] + Positive(at - lastAt[s])
    BY <1>3, <1>6, StepHistory
  <2>3. (at - row[s].started) - studied'[s] = Rest(s)
    BY <1>2, <1>4, <2>2 DEF Positive, Rest
  <2>4. PauseTotal(s, at) = paused[s] /\ EndedPauses(s) = pauses[s]
    BY <1>2, <1>6, <2>1 DEF PauseTotal, EndedPauses
  <2>. QED BY <1>2, <1>5, <2>3, <2>4
<1>7. CASE status[s] = "paused"
  <2>1. openPause[s] # NoTime /\ openPause[s] = lastAt[s]
    BY <1>4, <1>7 DEF OpenPauseIffPaused, ClockInv
  <2> DEFINE d == at - openPause[s]
  <2>2. d \in Nat
    BY <1>2, <1>4, <2>1
  <2>3. /\ Seconds(d) \in Nat /\ TicksPerSecond * Seconds(d) <= d
        /\ d <= TicksPerSecond * Seconds(d) + (TicksPerSecond - 1)
    BY <2>2, SecondsBounds
  <2>4. studied'[s] = studied[s] + 0
    BY <1>3, <1>7, StepHistory
  <2>5. Rest(s) \in Int /\ (at - row[s].started) - studied'[s] = Rest(s) + d
    BY <1>2, <2>1, <2>4 DEF Rest
  <2>6. PauseTotal(s, at) = paused[s] + Seconds(d)
    BY <2>1, <2>3 DEF PauseTotal, Positive
  <2>7. EndedPauses(s) \in Int /\ pauses[s] = EndedPauses(s) + 1
    BY <1>2, <1>7 DEF EndedPauses
  <2> HIDE DEF d
  <2>8. /\ TicksPerSecond * (paused[s] + Seconds(d)) <= Rest(s) + d
        /\ Rest(s) + d <= TicksPerSecond * (paused[s] + Seconds(d))
                          + (EndedPauses(s) + 1) * (TicksPerSecond - 1)
    BY <1>1, <1>2, <1>5, <2>2, <2>3, <2>5, <2>7, PauseArithmetic
  <2>. QED BY <1>2, <2>3, <2>5, <2>6, <2>7, <2>8
<1>. QED BY <1>6, <1>7 DEF IsOpen, OpenStatus

\* What NetIsTimeStudied says of one session.
NetOf(s) ==
    /\ studied[s] < TicksPerSecond * net[s] + TicksPerSecond
    /\ TicksPerSecond * net[s] <= studied[s] + pauses[s] * (TicksPerSecond - 1)
    /\ net[s] + paused[s] = Seconds(ended[s] - row[s].started)

\* The arithmetic of _session_update: when the session's clock stood in order
\* before its end, so do its durations after it.
LEMMA FinishAddsUp ==
    ASSUME SessionAssumption, TypeOK, OpenPauseIffPaused, ClockInv, NEW s \in Sessions,
           IsOpen(s), NEW at \in Time, NEW target \in ClosedStatus, Finish(s, at, target),
           inOrder'[s], row' = row
    PROVE  NetOf(s)'
<1> DEFINE p == PauseTotal(s, at)
           T == at - row[s].started
           w == Seconds(T)
           x == studied'[s]
           r == T - x
<1>1. Exists(s) /\ TicksPerSecond \in Nat \ {0}
  BY DEF Exists, IsOpen, OpenStatus, SessionAssumption
<1>2. row[s].started \in Int /\ at \in Int /\ pauses[s] \in Int /\ at >= row[s].started
  BY <1>1, ColumnTypes DEF Time, Finish
<1>3. /\ p \in Nat /\ TicksPerSecond * p <= r
      /\ r <= TicksPerSecond * p + pauses[s] * (TicksPerSecond - 1)
  BY FinishRest
<1>4. Step(s, target, at) /\ target # "paused"
  BY DEF Finish, ClosedStatus
<1>5. x \in Nat
  BY <1>4, StepTyped DEF ClosedStatus
<1>6. pauses'[s] = pauses[s]
  BY <1>2, <1>4, StepHistory
<1>7. net'[s] = Positive(w - p) /\ paused'[s] = p /\ ended'[s] = at
  BY DEF Finish, TypeOK, NetDuration
<1>8. T \in Nat /\ r \in Int /\ r + x = T
  BY <1>2, <1>5
<1>9. w \in Nat /\ TicksPerSecond * w <= T /\ T <= TicksPerSecond * w + (TicksPerSecond - 1)
  BY <1>8, SecondsBounds
<1> HIDE DEF p, T, w, x, r
<1>10. /\ Positive(w - p) + p = w
       /\ x < TicksPerSecond * Positive(w - p) + TicksPerSecond
       /\ TicksPerSecond * Positive(w - p) <= x + pauses[s] * (TicksPerSecond - 1)
  BY <1>1, <1>2, <1>3, <1>5, <1>8, <1>9, NetArithmetic
<1>11. studied'[s] = x /\ Seconds(ended'[s] - row'[s].started) = w
  BY <1>7 DEF x, w, T
<1>. QED BY <1>6, <1>7, <1>10, <1>11 DEF NetOf

\* A session that ends in order has the time it studied as its net duration.
LEMMA NetStep ==
    /\ SessionAssumption /\ TypeOK /\ OpenPauseIffPaused /\ ClockInv /\ NetIsTimeStudied
    /\ [Next]_vars
    => NetIsTimeStudied'
<1> SUFFICES ASSUME SessionAssumption, TypeOK, OpenPauseIffPaused, ClockInv,
                    NetIsTimeStudied, [Next]_vars
             PROVE  NetIsTimeStudied'
  OBVIOUS
<1>1. CASE Quiet
  BY <1>1 DEF Quiet, columns, history, NetIsTimeStudied
<1>2. ASSUME NEW r \in starting, NEW s \in Sessions, StartInsert(r, s) PROVE NetIsTimeStudied'
  <2>1. /\ status'[s] \notin ClosedStatus /\ paused' = paused /\ net' = net /\ ended' = ended
        /\ studied' = studied /\ inOrder' = inOrder /\ pauses' = pauses
    BY <1>2, InsertEffect DEF ClosedStatus
  <2>2. \A t \in Sessions : t # s => status'[t] = status[t] /\ row'[t] = row[t]
    BY <1>2, InsertEffect
  <2>. QED BY <2>1, <2>2 DEF NetIsTimeStudied
<1>3. ASSUME NEW c \in Clients, NEW at \in Time, NEW s \in Sessions, s = seen[c].session,
             Transition(c, at)
      PROVE  NetIsTimeStudied'
  <2>1. /\ IsOpen(s) /\ row' = row
        /\ \A t \in Sessions : t # s =>
             /\ status'[t] = status[t] /\ paused'[t] = paused[t] /\ net'[t] = net[t]
             /\ ended'[t] = ended[t] /\ inOrder'[t] = inOrder[t]
             /\ studied'[t] = studied[t] /\ pauses'[t] = pauses[t]
    BY <1>3, TransitionScope
  <2>2. CASE Pause(c, at) \/ Resume(c, at)
    <3>1. status'[s] \notin ClosedStatus
      BY <1>3, <2>2, TransitionEffect DEF ClosedStatus
    <3>. QED BY <2>1, <3>1 DEF NetIsTimeStudied
  <2>3. CASE Complete(c, at) \/ Cancel(c, at)
    <3>1. PICK target \in ClosedStatus : Finish(s, at, target)
      BY <1>3, <2>3 DEF Complete, Cancel, ClosedStatus
    <3>2. inOrder'[s] => NetOf(s)'
      BY <2>1, <3>1, FinishAddsUp
    <3>. QED BY <2>1, <3>2 DEF NetIsTimeStudied, NetOf
  <2>. QED BY <1>3, <2>2, <2>3 DEF Transition
<1>4. ASSUME NEW c \in Clients, NEW at \in Time, Transition(c, at) PROVE NetIsTimeStudied'
  BY <1>3, <1>4, TransitionScope
<1>. QED BY <1>1, <1>2, <1>4, NextCases

\* Whether or not there are plan items to begin with.
LEMMA InitIInv ==
    SessionAssumption /\ InitialSessions /\ item \in [Items -> {"absent", "planned"}] => IInv
<1> SUFFICES ASSUME SessionAssumption, InitialSessions, item \in [Items -> {"absent", "planned"}]
             PROVE  IInv
  OBVIOUS
<1>1. TypeOK
  BY InitTyped
<1>2. \A s \in Sessions : status[s] = "absent" /\ ~IsOpen(s)
  BY DEF InitialSessions, IsOpen, OpenStatus
<1>3. StartingOwnsItem /\ SessionOwnsItem /\ OneOpenSessionPerUser
  BY <1>2 DEF InitialSessions, StartingOwnsItem, SessionOwnsItem, OneOpenSessionPerUser
<1>4. ItemHeldByOpenSession
  BY <1>2 DEF ItemHeldByOpenSession
<1>5. OpenPauseIffPaused /\ ClockInv /\ NetIsTimeStudied
  BY <1>2 DEF InitialSessions, OpenPauseIffPaused, ClockInv, NetIsTimeStudied, ClosedStatus, Exists
<1>. QED BY <1>1, <1>3, <1>4, <1>5 DEF IInv

\* Every step of a session keeps the inductive invariant.
LEMMA IInvStep == SessionAssumption /\ IInv /\ [Next]_vars => IInv'
  BY NextTyped, StartingOwnsItemStep, SessionOwnsItemStep, OneOpenStep, OpenPauseStep,
     ItemHeldStep, ClockStep, NetStep
  DEF IInv

\* The inductive invariant holds in every reachable state.
THEOREM Invariance == Spec => []IInv
<1>1. Init => IInv
  BY SessionAssumption, InitIInv DEF Init
<1>2. IInv /\ [Next]_vars => IInv'
  BY SessionAssumption, IInvStep
<1>. QED BY <1>1, <1>2, PTL DEF Spec

\* Whatever two devices of a student interleave, the unique index leaves him
\* at most one open session.
THEOREM OneOpenSession == Spec => []OneOpenSessionPerUser
<1>1. IInv => OneOpenSessionPerUser
  BY DEF IInv
<1>. QED BY <1>1, Invariance, PTL

\* A session has an open pause exactly while it is paused.
THEOREM PausesMatchStatus == Spec => []OpenPauseIffPaused
<1>1. IInv => OpenPauseIffPaused
  BY DEF IInv
<1>. QED BY <1>1, Invariance, PTL

\* A plan item is in progress exactly while an open session works on it.
THEOREM ItemsNeverStranded == Spec => []ItemHeldByOpenSession
<1>1. IInv => ItemHeldByOpenSession
  BY DEF IInv
<1>. QED BY <1>1, Invariance, PTL

\* The net duration of an in-order session, computed from intervals that are
\* each cut off to whole seconds, is less than a second short of the time it was
\* active and exceeds it by less than a second for every pause; net duration and
\* accumulated pause make up the whole session.
THEOREM DurationsAddUp == Spec => []NetIsTimeStudied
<1>1. IInv => NetIsTimeStudied
  BY DEF IInv
<1>. QED BY <1>1, Invariance, PTL

-----------------------------------------------------------------------------
(***************************************************************************)
(* What a step may do to a session.                                        *)
(***************************************************************************)

\* A transition moves its session one version on, along the life cycle.
LEMMA TransitionFollows ==
    ASSUME TypeOK, OpenPauseIffPaused, NEW c \in Clients, NEW at \in Time,
           NEW s \in Sessions, s = seen[c].session, Transition(c, at)
    PROVE  Follows(status[s], status'[s]) /\ version'[s] = version[s] + 1
<1>1. IsOpen(s)
  BY DEF Transition, Pause, Resume, Complete, Cancel, MayTransition
<1>2. PICK target : Step(s, target, at)
  BY DEF Transition, Pause, Resume, Complete, Cancel, Finish
<1>3. version'[s] = version[s] + 1
  BY <1>2 DEF Step, TypeOK
<1>4. Pause(c, at) => status[s] = "active" /\ status'[s] = "paused"
  BY <1>1, TransitionEffect DEF Pause, OpenPauseIffPaused, IsOpen, OpenStatus
<1>5. Resume(c, at) => status[s] = "paused" /\ status'[s] = "active"
  BY TransitionEffect DEF Resume, OpenPauseIffPaused
<1>6. Complete(c, at) \/ Cancel(c, at) => status'[s] \in ClosedStatus
  BY TransitionEffect DEF ClosedStatus
<1>7. Follows(status[s], status'[s])
  BY <1>1, <1>4, <1>5, <1>6 DEF Transition, Follows, IsOpen, OpenStatus
<1>. QED BY <1>3, <1>7

\* A step moves sessions along their life cycle only.
LEMMA LifeCycleStep ==
    ASSUME TypeOK, OpenPauseIffPaused, ClockInv, [Next]_vars, NEW s \in Sessions,
           version'[s] # version[s] \/ status'[s] # status[s]
    PROVE  Follows(status[s], status'[s]) /\ version'[s] = version[s] + 1
<1>1. CASE Quiet
  BY <1>1 DEF Quiet, columns
<1>2. ASSUME NEW r \in starting, NEW t \in Sessions, StartInsert(r, t)
      PROVE  Follows(status[s], status'[s]) /\ version'[s] = version[s] + 1
  <2>1. status[t] = "absent" /\ status'[t] = "active" /\ version'[t] = 1 /\ s = t
    BY <1>2, InsertEffect
  <2>2. version[t] = 0
    BY <2>1 DEF ClockInv, Exists
  <2>. QED BY <2>1, <2>2 DEF Follows
<1>3. ASSUME NEW c \in Clients, NEW at \in Time, Transition(c, at)
      PROVE  Follows(status[s], status'[s]) /\ version'[s] = version[s] + 1
  BY <1>3, TransitionScope, TransitionFollows
<1>. QED BY <1>1, <1>2, <1>3, NextCases

\* A session moves only along its life cycle, one version at a time, and is
\* frozen once it ended.
THEOREM LifeCycleKept == Spec => SessionLifeCycle
<1>1. IInv /\ [Next]_vars =>
        [\A s \in Sessions : version'[s] # version[s] \/ status'[s] # status[s] =>
           /\ Follows(status[s], status'[s])
           /\ version'[s] = version[s] + 1]_columns
  BY LifeCycleStep DEF IInv
<1>. QED BY <1>1, Invariance, PTL DEF Spec, SessionLifeCycle

-----------------------------------------------------------------------------
(***************************************************************************)
(* What has been studied.  The seconds of a record are a sum over all its  *)
(* completed sessions, so the proof needs to know that they are finitely   *)
(* many, whatever the set of session identifiers.                          *)
(***************************************************************************)

\* A mastery record m stands for the completed sessions done, whose net
\* durations are n.
Shows(m, n, done) ==
    /\ m.count = Cardinality(done)
    /\ m.seconds = SumFunctionOnSet(n, done)
    /\ m.state = IF done = {} THEN "not_started"
                 ELSE IF Cardinality(done) = 1 THEN "in_progress" ELSE "review"

\* Every record of topic_mastery stands for completed sessions, finitely many.
MasteryInv ==
    \A k \in MasteryKeys :
        IsFiniteSet(CompletedOn(k)) /\ Shows(mastery[k], net, CompletedOn(k))

\* One more completed session and its net duration are one more evidence.
LEMMA EvidenceShows ==
    ASSUME NEW done, IsFiniteSet(done), NEW s, s \notin done,
           NEW n, \A t \in done : n[t] \in Nat,
           NEW k, \A t \in done : k[t] = n[t], k[s] \in Nat,
           NEW m, Shows(m, n, done)
    PROVE  IsFiniteSet(done \cup {s}) /\ Shows(Evidence(m, k[s]), k, done \cup {s})
<1>1. /\ IsFiniteSet(done \cup {s})
      /\ Cardinality(done \cup {s}) = Cardinality(done) + 1
      /\ Cardinality(done) \in Nat
  BY FS_AddElement, FS_CardinalityType
<1>2. SumFunctionOnSet(k, done) = SumFunctionOnSet(n, done)
  <2>1. \A t \in done : n[t] \in Int
    OBVIOUS
  <2>. QED BY <2>1, SumEqual
<1>3. SumFunctionOnSet(k, done \cup {s}) = SumFunctionOnSet(k, done) + k[s]
  <2>1. \A t \in done \cup {s} : k[t] \in Int
    OBVIOUS
  <2>. QED BY <2>1, SumAdd
<1>4. done = {} <=> Cardinality(done) = 0
  BY FS_EmptySet
<1> DEFINE e == Evidence(m, k[s])
           all == done \cup {s}
<1>5. /\ e.count = m.count + 1 /\ e.seconds = m.seconds + k[s]
      /\ e.state = IF m.count + 1 >= 2 THEN "review" ELSE "in_progress"
  BY DEF Evidence
<1>6. all # {}
  OBVIOUS
<1>7. /\ Cardinality(all) = Cardinality(done) + 1
      /\ SumFunctionOnSet(k, all) = SumFunctionOnSet(n, done) + k[s]
  BY <1>1, <1>2, <1>3
<1> HIDE DEF e, all
<1>8. Shows(e, k, all)
  BY <1>1, <1>5, <1>6, <1>7 DEF Shows
<1>. QED BY <1>1, <1>8 DEF e, all

\* Sessions that stay completed with the durations they had are the same
\* evidence.
LEMMA SameEvidence ==
    ASSUME TypeOK, MasteryInv, NEW k \in MasteryKeys,
           CompletedOn(k)' = CompletedOn(k),
           \A t \in CompletedOn(k) : net'[t] = net[t],
           mastery'[k] = mastery[k]
    PROVE  /\ IsFiniteSet(CompletedOn(k)')
           /\ Shows(mastery'[k], net', CompletedOn(k)')
<1> DEFINE done == CompletedOn(k)
<1>1. IsFiniteSet(done) /\ Shows(mastery[k], net, done)
  BY DEF MasteryInv
<1>2. \A t \in done : net[t] \in Int /\ net'[t] = net[t]
  BY DEF CompletedOn, TypeOK
<1>3. SumFunctionOnSet(net', done) = SumFunctionOnSet(net, done)
  <2> HIDE DEF done
  <2>. QED BY <1>1, <1>2, SumEqual
<1>. QED BY <1>1, <1>3 DEF Shows

\* Only the end of a session changes a mastery record, and only its own.
LEMMA MasteryStep ==
    ASSUME SessionAssumption, TypeOK, MasteryInv, [Next]_vars
    PROVE  MasteryInv'
<1>1. CASE UNCHANGED <<row, status, net, mastery>>
  <2>1. \A k \in MasteryKeys : CompletedOn(k)' = CompletedOn(k)
    BY <1>1 DEF CompletedOn, MasteryKey
  <2>. QED BY <1>1, <2>1, SameEvidence DEF MasteryInv
<1>2. ASSUME NEW r \in starting, NEW s \in Sessions, StartInsert(r, s) PROVE MasteryInv'
  <2>1. /\ status[s] = "absent" /\ status'[s] = "active" /\ net' = net
        /\ \A t \in Sessions : t # s => status'[t] = status[t] /\ row'[t] = row[t]
    BY <1>2, InsertEffect
  <2>2. mastery' = mastery
    BY <1>2 DEF StartInsert
  <2>3. \A k \in MasteryKeys : CompletedOn(k)' = CompletedOn(k)
    BY <2>1 DEF CompletedOn, MasteryKey
  <2>. QED BY <2>1, <2>3, <2>2, SameEvidence DEF MasteryInv
<1>3. ASSUME NEW c \in Clients, NEW at \in Time, Transition(c, at), ~Complete(c, at)
      PROVE  MasteryInv'
  <2> DEFINE s == seen[c].session
  <2>1. /\ s \in Sessions /\ status[s] # "completed" /\ row' = row
        /\ \A t \in Sessions : t # s => status'[t] = status[t] /\ net'[t] = net[t]
    BY <1>3, TransitionScope DEF IsOpen, OpenStatus
  <2>2. status'[s] # "completed" /\ mastery' = mastery
    BY <1>3, <2>1, TransitionEffect DEF Transition, Pause, Resume, Cancel
  <2> HIDE DEF s
  <2>3. \A k \in MasteryKeys : CompletedOn(k)' = CompletedOn(k)
    BY <2>1, <2>2 DEF CompletedOn, MasteryKey
  <2>4. \A k \in MasteryKeys : \A t \in CompletedOn(k) : net'[t] = net[t]
    BY <2>1 DEF CompletedOn
  <2>. QED BY <2>2, <2>3, <2>4, SameEvidence DEF MasteryInv
<1>4. ASSUME NEW c \in Clients, NEW at \in Time, Complete(c, at) PROVE MasteryInv'
  <2>1. PICK s \in Sessions : s = seen[c].session
    BY <1>4, TransitionScope DEF Transition
  <2>2. /\ IsOpen(s) /\ status[s] # "completed" /\ row' = row /\ Exists(s)
        /\ \A t \in Sessions : t # s => status'[t] = status[t] /\ net'[t] = net[t]
    BY <1>4, <2>1, TransitionScope DEF IsOpen, OpenStatus, Transition, Exists
  <2>3. PICK key \in MasteryKeys : key = MasteryKey(s)
    BY <2>2 DEF TypeOK, Row, MasteryKey, MasteryKeys
  <2>4. PICK d \in Nat : d = NetDuration(s, at)
    BY <2>2, DurationsTyped
  <2>5. /\ status'[s] = "completed"
        /\ mastery' = [mastery EXCEPT ![key] = Evidence(@, d)]
        /\ net' = [net EXCEPT ![s] = d]
    BY <1>4, <2>1, <2>3, <2>4, TransitionEffect DEF Complete, RecordMastery, Finish
  <2>6. /\ \A k \in MasteryKeys :
             mastery'[k] = IF k = key THEN Evidence(mastery[key], d) ELSE mastery[k]
        /\ net'[s] = d
    BY <2>5 DEF TypeOK
  <2>7. ASSUME NEW k \in MasteryKeys
        PROVE  CompletedOn(k)' =
                 IF k = key THEN CompletedOn(k) \cup {s} ELSE CompletedOn(k)
    BY <2>2, <2>3, <2>5 DEF CompletedOn, MasteryKey
  <2>8. s \notin CompletedOn(key)
    BY <2>2 DEF CompletedOn
  <2>9. \A k \in MasteryKeys : \A t \in CompletedOn(k) :
          net'[t] = net[t] /\ net[t] \in Nat
    BY <2>2 DEF CompletedOn, TypeOK
  <2>10. /\ IsFiniteSet(CompletedOn(key)')
         /\ Shows(mastery'[key], net', CompletedOn(key)')
    <3> DEFINE done == CompletedOn(key)
               m == mastery[key]
    <3>1. IsFiniteSet(done) /\ Shows(m, net, done)
      BY DEF MasteryInv
    <3>2. mastery'[key] = Evidence(m, net'[s]) /\ CompletedOn(key)' = done \cup {s}
      BY <2>6, <2>7
    <3>3. net'[s] \in Nat /\ \A t \in done : net[t] \in Nat /\ net'[t] = net[t]
      BY <2>6, <2>9
    <3> HIDE DEF done, m
    <3>4. IsFiniteSet(done \cup {s}) /\ Shows(Evidence(m, net'[s]), net', done \cup {s})
      BY <2>8, <3>1, <3>3, EvidenceShows DEF done
    <3>. QED BY <3>2, <3>4
  <2>11. ASSUME NEW k \in MasteryKeys, k # key
         PROVE  /\ IsFiniteSet(CompletedOn(k)')
                /\ Shows(mastery'[k], net', CompletedOn(k)')
    <3>1. CompletedOn(k)' = CompletedOn(k) /\ mastery'[k] = mastery[k]
      BY <2>6, <2>7, <2>11
    <3>. QED BY <2>9, <3>1, SameEvidence
  <2>. QED BY <2>10, <2>11 DEF MasteryInv
<1>5. CASE Quiet
  <2>1. UNCHANGED <<row, status, net>>
    BY <1>5 DEF Quiet, columns
  <2>. QED BY <1>1, <1>2, <1>3, <1>4, <2>1
       DEF Next, SessionNext, vars, sessionVars, Tick, ReadSession, StartCheck, StartAbort,
           Transition
<1>. QED BY <1>2, <1>3, <1>4, <1>5, NextCases

\* Nothing is completed and nothing is recorded.
LEMMA InitMastery == InitialSessions => MasteryInv
<1> SUFFICES ASSUME InitialSessions, NEW k \in MasteryKeys
             PROVE  /\ IsFiniteSet(CompletedOn(k))
                    /\ Shows(mastery[k], net, CompletedOn(k))
  BY DEF MasteryInv
<1>1. CompletedOn(k) = {}
  BY DEF CompletedOn, InitialSessions
<1>2. IsFiniteSet({}) /\ Cardinality({}) = 0 /\ SumFunctionOnSet(net, {}) = 0
  BY FS_EmptySet, SumOfNone
<1>3. mastery[k] = [count |-> 0, seconds |-> 0, state |-> "not_started"]
  BY DEF InitialSessions
<1>. QED BY <1>1, <1>2, <1>3 DEF Shows

\* The completed sessions being finite, the counters are those of their sum.
LEMMA MasteryInvShows == MasteryInv => MasteryIsEvidence
<1> SUFFICES ASSUME MasteryInv, NEW k \in MasteryKeys
             PROVE  LET done == CompletedOn(k)
                    IN  /\ mastery[k].count = Cardinality(done)
                        /\ mastery[k].seconds = MapThenSumSet(LAMBDA s : net[s], done)
                        /\ mastery[k].state = CASE done = {} -> "not_started"
                                                   [] Cardinality(done) = 1 -> "in_progress"
                                                   [] OTHER -> "review"
  BY DEF MasteryIsEvidence
<1> DEFINE done == CompletedOn(k)
<1>1. Shows(mastery[k], net, done) /\ IsFiniteSet(done)
  BY DEF MasteryInv
<1>2. MapThenSumSet(LAMBDA s : net[s], done) = SumFunctionOnSet(net, done)
  BY Zenon DEF MapThenSumSet, SumFunctionOnSet, FoldFunctionOnSet
<1> HIDE DEF done
<1>3. mastery[k].state = CASE done = {} -> "not_started"
                             [] Cardinality(done) = 1 -> "in_progress"
                             [] OTHER -> "review"
  <2>1. Cardinality({}) = 0
    BY FS_EmptySet
  <2>. QED BY <1>1, <2>1 DEF Shows
<1>4. mastery[k].count = Cardinality(done)
  BY <1>1 DEF Shows
<1>5. mastery[k].seconds = MapThenSumSet(LAMBDA s : net[s], done)
  BY <1>1, <1>2 DEF Shows
<1>. QED BY <1>3, <1>4, <1>5 DEF done

\* A student's mastery of a subject under a goal is the number and the total of
\* the sessions on it that he completed for that goal, however many there are.
THEOREM MasteryNeverDrifts == Spec => []MasteryIsEvidence
<1>1. Init => TypeOK /\ MasteryInv
  BY SessionAssumption, InitTyped, InitMastery DEF Init
<1>2. TypeOK /\ MasteryInv /\ [Next]_vars => MasteryInv'
  BY SessionAssumption, MasteryStep
<1>. QED BY <1>1, <1>2, TypeCorrect, MasteryInvShows, PTL DEF Spec

-----------------------------------------------------------------------------
(***************************************************************************)
(* Second part: the sessions composed with the plan.                       *)
(***************************************************************************)
planState == <<vars, planVars>>

-----------------------------------------------------------------------------
(***************************************************************************)
(* The inductive invariant.                                                *)
(***************************************************************************)

\* A start request in flight names an item that exists: items are cancelled
\* between its check and its insert, but never removed.
StartingItemExists == \A r \in starting : r.item \in Items => item[r.item] # "absent"

\* What OneDraftPerUser says without counting.
DraftIsUnique == \A p, q \in Drafts : p = q

\* The drafts a request has marked as expired and not committed stay drafts
\* past their time, because they are locked, and no two requests hold one.
StaleIsHeld ==
    /\ \A r \in proposing : r.stale \subseteq Proposals
    /\ \A r \in proposing : \A p \in r.stale : prop[p] = "draft" /\ overdue[p]
    /\ \A r, s \in proposing : r # s => r.stale \cap s.stale = {}

\* The confirmed proposals of a goal that have a cycle.
Numbered(g) == {q \in Confirmed : goalOf[q] = g /\ days[q] # {}}

\* The largest revision that has a cycle, where there is one, and no revision
\* more than one above it: proposals without a single day get that number
\* without using it up.
LastRevision ==
    \A g \in Goals :
        \/ /\ Numbered(g) = {}
           /\ \A q \in Confirmed : goalOf[q] = g => revision[q] <= 1
        \/ \E q \in Numbered(g) :
             /\ \A r \in Numbered(g) : revision[r] <= revision[q]
             /\ \A r \in Confirmed : goalOf[r] = g => revision[r] <= revision[q] + 1

PInv ==
    /\ IInv
    /\ PlanTypeOK
    /\ StartingItemExists
    /\ DraftIsUnique
    /\ StaleIsHeld
    /\ ItemsHaveProvenance
    /\ LastRevision
    /\ OneCalendar
    /\ ReplanSupersedes

-----------------------------------------------------------------------------
(***************************************************************************)
(* The steps.                                                              *)
(***************************************************************************)

\* The plan never touches a session, the clock or what the devices know.
SessionsUntouched == UNCHANGED <<now, row, columns, openPause, mastery, starting, seen, history>>

\* What every step but a confirmation leaves alone: what is confirmed stays as
\* it is and nothing else becomes confirmed.
Calm ==
    /\ \A p \in Proposals :
         /\ prop[p] = "confirmed" <=> prop'[p] = "confirmed"
         /\ prop[p] = "confirmed" =>
              kind'[p] = kind[p] /\ goalOf'[p] = goalOf[p] /\ days'[p] = days[p]
    /\ \A g \in Goals : goal[g] = "active" => goal'[g] = "active"
    /\ UNCHANGED <<revision, available, cut>>

\* Both ways to confirm, with the items that they cancel.
Confirms(p, g, superseded) ==
    /\ MayConfirm(p)
    /\ ActiveGoals \subseteq {g}
    /\ goalOf[p] = g \/ goal[g] = "absent"
    /\ \/ superseded = Superseded(g)
       \/ superseded = {} /\ kind[p] # "replan"
       \/ superseded = {} /\ ActiveGoals = {} /\ goal[g] = "absent"
    /\ Materialise(p, g, superseded)
    /\ UNCHANGED Undisturbed

\* What the two paths of a confirmation write.
LEMMA ConfirmForms ==
    ASSUME NEW p \in Proposals, NEW g \in Goals, ConfirmForExam(p, g) \/ ConfirmForGoal(p, g)
    PROVE  \E superseded \in SUBSET Items : Confirms(p, g, superseded)
<1>1. CASE ConfirmForExam(p, g)
  <2>1. Confirms(p, g, {})
    BY <1>1 DEF ConfirmForExam, Confirms
  <2>. QED BY <2>1
<1>2. CASE ConfirmForGoal(p, g)
  <2> DEFINE X == IF kind[p] = "replan" THEN Superseded(g) ELSE {}
  <2>1. Confirms(p, g, X)
    <3>. HIDE DEF X
    <3>1. X = Superseded(g) \/ (X = {} /\ kind[p] # "replan")
      BY DEF X
    <3>2. Materialise(p, g, X)
      BY <1>2 DEF ConfirmForGoal, X
    <3>. QED BY <1>2, <3>1, <3>2 DEF ConfirmForGoal, Confirms
  <2>2. X \in SUBSET Items
    BY DEF Superseded
  <2>. QED BY <2>1, <2>2
<1>. QED BY <1>1, <1>2

\* Where a step leaves a confirmation aside it is calm.
LEMMA StepForms ==
    ASSUME PlanTypeOK, StaleIsHeld, [PlanNext]_planState
    PROVE  \/ [Next]_vars /\ UNCHANGED planVars /\ Calm
           \/ SessionsUntouched /\ item' = item /\ Calm
           \/ /\ SessionsUntouched
              /\ \E p \in Proposals, g \in Goals, superseded \in SUBSET Items : Confirms(p, g, superseded)
<1>1. CASE UNCHANGED planVars /\ [Next]_vars
  BY <1>1 DEF planVars, proposals, Calm
<1>2. CASE Evening \/ Midnight
  BY <1>2 DEF Evening, Midnight, Calm, SessionsUntouched, vars, sessionVars, columns, history, proposals
<1>3. ASSUME NEW p \in Proposals, PassExpiry(p) PROVE SessionsUntouched /\ item' = item /\ Calm
  BY <1>3 DEF PassExpiry, Calm, SessionsUntouched, vars, sessionVars, columns, history
<1>4. ASSUME NEW g \in Goals, PrepareGoal(g) \/ ActivateGoal(g)
      PROVE  SessionsUntouched /\ item' = item /\ Calm
  <2>1. \A h \in Goals : goal[h] = "active" => goal'[h] = "active"
    BY <1>4 DEF PrepareGoal, ActivateGoal, PlanTypeOK
  <2>. QED
    BY <1>4, <2>1
    DEF PrepareGoal, ActivateGoal, Calm, SessionsUntouched, vars, sessionVars, columns, history, proposals
<1>5. ASSUME NEW k \in {"create", "replan"}, NEW g \in Goals \cup {NoGoal}, NEW ds \in Horizons,
             ProposeCheck(k, g, ds)
      PROVE  SessionsUntouched /\ item' = item /\ Calm
  BY <1>5 DEF ProposeCheck, Calm, SessionsUntouched, vars, sessionVars, columns, history
<1>6. ASSUME NEW r \in proposing, NEW p \in Proposals, ProposeInsert(r, p)
      PROVE  SessionsUntouched /\ item' = item /\ Calm
  <2>1. \A q \in Proposals :
          prop'[q] = IF q = p THEN "draft" ELSE IF q \in r.stale THEN "expired" ELSE prop[q]
    BY <1>6 DEF ProposeInsert
  <2>2. \A q \in r.stale : prop[q] = "draft"
    BY DEF StaleIsHeld
  <2>3. \A q \in Proposals : q # p => kind'[q] = kind[q] /\ goalOf'[q] = goalOf[q] /\ days'[q] = days[q]
    BY <1>6 DEF ProposeInsert, PlanTypeOK
  <2>4. prop[p] = "absent" /\ SessionsUntouched /\ item' = item /\ UNCHANGED <<revision, goal, available, cut>>
    BY <1>6 DEF ProposeInsert, SessionsUntouched, vars, sessionVars, columns, history
  <2>. QED BY <2>1, <2>2, <2>3, <2>4 DEF Calm
<1>7. ASSUME NEW r \in proposing, ProposeAbort(r) PROVE SessionsUntouched /\ item' = item /\ Calm
  BY <1>7 DEF ProposeAbort, Calm, SessionsUntouched, vars, sessionVars, columns, history
<1>8. CASE CurrentProposal
  <2>1. \A q \in Proposals : prop'[q] # prop[q] => prop[q] = "draft" /\ prop'[q] = "expired"
    BY <1>8 DEF CurrentProposal, Drafts
  <2>. QED BY <1>8, <2>1 DEF CurrentProposal, Calm, SessionsUntouched, vars, sessionVars, columns, history
<1>9. ASSUME NEW p \in Proposals, CancelProposal(p) PROVE SessionsUntouched /\ item' = item /\ Calm
  <2>1. \A q \in Proposals : prop'[q] # prop[q] => prop[q] = "draft" /\ prop'[q] = "cancelled"
    BY <1>9 DEF CancelProposal, PlanTypeOK
  <2>. QED BY <1>9, <2>1 DEF CancelProposal, Calm, SessionsUntouched, vars, sessionVars, columns, history
<1>10. ASSUME NEW p \in Proposals, NEW g \in Goals, ConfirmForExam(p, g) \/ ConfirmForGoal(p, g)
       PROVE  /\ SessionsUntouched
              /\ \E superseded \in SUBSET Items : Confirms(p, g, superseded)
  BY <1>10, ConfirmForms
  DEF ConfirmForExam, ConfirmForGoal, SessionsUntouched, Undisturbed, columns, history
<1>11. CASE UNCHANGED planState
  BY <1>1, <1>11 DEF planState
<1>. QED
  BY <1>1, <1>2, <1>3, <1>4, <1>5, <1>6, <1>7, <1>8, <1>9, <1>10, <1>11
  DEF PlanNext, PlanStep, SessionStep, Propose

-----------------------------------------------------------------------------
(***************************************************************************)
(* Types.                                                                  *)
(***************************************************************************)

\* The first revision is number one.
LEMMA FirstRevision ==
    ASSUME NEW g \in Goals, Numbered(g) = {}
    PROVE  NextRevision(g) = 1
<1> DEFINE R == {0} \cup {revision[r] : r \in Numbered(g)}
<1>1. NextRevision(g) = 1 + Max(R)
  BY DEF NextRevision, Numbered
<1>2. R = {0}
  OBVIOUS
<1>3. Max({0}) = 0
  BY DEF Max
<1>. QED BY <1>1, <1>2, <1>3

\* Where there is a numbered revision the next one follows the largest.
LEMMA RevisionAfter ==
    ASSUME PlanTypeOK, NEW g \in Goals, NEW q \in Numbered(g),
           \A r \in Numbered(g) : revision[r] <= revision[q]
    PROVE  NextRevision(g) = revision[q] + 1
<1> DEFINE R == {0} \cup {revision[r] : r \in Numbered(g)}
<1>1. /\ NextRevision(g) = 1 + Max(R)
      /\ R \subseteq Nat /\ revision[q] \in Nat
      /\ revision[q] \in R /\ \A x \in R : revision[q] >= x
  BY DEF NextRevision, Numbered, Confirmed, PlanTypeOK
<1>2. Max(R) \in R /\ \A x \in R : Max(R) >= x
  BY <1>1 DEF Max
<1>. HIDE DEF R
<1>3. Max(R) \in Nat /\ Max(R) >= revision[q] /\ revision[q] >= Max(R)
  BY <1>1, <1>2
<1>. QED BY <1>1, <1>3

\* The number of a new revision is positive, above every numbered revision of
\* its goal and not below any other.
LEMMA NextRevisionAbove ==
    ASSUME PlanTypeOK, LastRevision, NEW g \in Goals
    PROVE  /\ NextRevision(g) \in Nat \ {0}
           /\ \A q \in Numbered(g) : revision[q] < NextRevision(g)
           /\ \A q \in Confirmed : goalOf[q] = g => revision[q] <= NextRevision(g)
<1>1. (\A q \in Proposals : revision[q] \in Nat) /\ Numbered(g) \subseteq Proposals
  BY DEF PlanTypeOK, Numbered, Confirmed
<1>2. CASE Numbered(g) = {} /\ \A q \in Confirmed : goalOf[q] = g => revision[q] <= 1
  BY <1>2, FirstRevision
<1>3. ASSUME NEW q \in Numbered(g), \A r \in Numbered(g) : revision[r] <= revision[q],
             \A r \in Confirmed : goalOf[r] = g => revision[r] <= revision[q] + 1
      PROVE  /\ NextRevision(g) \in Nat \ {0}
             /\ \A r \in Numbered(g) : revision[r] < NextRevision(g)
             /\ \A r \in Confirmed : goalOf[r] = g => revision[r] <= NextRevision(g)
  <2>1. NextRevision(g) = revision[q] + 1
    BY <1>3, RevisionAfter
  <2>. QED BY <1>1, <1>3, <2>1
<1>. QED BY <1>2, <1>3 DEF LastRevision

\* The date of the database is a number.
LEMMA CurrentDateTyped ==
    ASSUME PlanAssumption, PlanTypeOK
    PROVE  CurrentDate \in Nat /\ today \in Nat /\ CurrentDate >= today
  BY DEF PlanAssumption, PlanTypeOK, CurrentDate, Days

\* A confirmed proposal has a revision and a goal of its own.
LEMMA ConfirmTyped ==
    ASSUME PlanAssumption, PlanTypeOK, LastRevision, NEW p \in Proposals, NEW g \in Goals,
           NEW superseded \in SUBSET Items, Confirms(p, g, superseded)
    PROVE  /\ prop' = [prop EXCEPT ![p] = "confirmed"]
           /\ goalOf' = [goalOf EXCEPT ![p] = g]
           /\ revision' = [revision EXCEPT ![p] = NextRevision(g)]
           /\ NextRevision(g) \in Nat \ {0}
           /\ goal' = [goal EXCEPT ![g] = "active"]
           /\ available' = p
           /\ cut' = [cut EXCEPT ![p] = CurrentDate]
           /\ CurrentDate \in Nat
           /\ item' \in [Items -> ItemStatus]
           /\ UNCHANGED <<calendar, overdue, kind, days, proposing>>
<1>1. item' \in [Items -> ItemStatus]
  BY DEF Confirms, Materialise, PlanTypeOK, TypeOK, ItemStatus
<1>. QED BY <1>1, NextRevisionAbove, CurrentDateTyped DEF Confirms, Materialise, Undisturbed

\* TypeOK needs only the items of a step that leaves the sessions alone.
LEMMA UntouchedTyped ==
    ASSUME TypeOK, SessionsUntouched, item' \in [Items -> ItemStatus]
    PROVE  TypeOK'
  BY DEF TypeOK, SessionsUntouched, columns, history, Exists

\* Every step of a plan writes columns of their types.
LEMMA PlanTyped ==
    SessionAssumption /\ PlanAssumption /\ PlanTypeOK /\ StaleIsHeld /\ LastRevision
    /\ [PlanNext]_planState => PlanTypeOK'
<1> SUFFICES ASSUME SessionAssumption, PlanAssumption, PlanTypeOK, StaleIsHeld, LastRevision,
                    [PlanNext]_planState
             PROVE  PlanTypeOK'
  OBVIOUS
<1>0. TypeOK /\ item \in [Items -> ItemStatus]
  BY DEF PlanTypeOK, TypeOK
<1>a. ASSUME SessionsUntouched, item' = item PROVE TypeOK'
  BY <1>0, <1>a, UntouchedTyped
<1>1. CASE UNCHANGED planVars /\ [Next]_vars
  <2>1. TypeOK'
    BY <1>0, <1>1, NextTyped
  <2>. QED BY <1>1, <2>1 DEF PlanTypeOK, planVars, proposals, calendar
<1>2. CASE Evening \/ Midnight
  <2>0. evening' \in BOOLEAN
    BY <1>2 DEF Evening, Midnight
  <2>1. today' \in Days
    <3>1. today \in Days /\ (today' = today \/ (today < MaxDay /\ today' = today + 1))
      BY <1>2 DEF Evening, Midnight, PlanTypeOK
    <3>. QED BY <3>1 DEF Days, PlanAssumption
  <2>2. TypeOK'
    BY <1>2, <1>a DEF Evening, Midnight, SessionsUntouched, vars, sessionVars, columns, history
  <2>. QED BY <1>2, <2>0, <2>1, <2>2 DEF Evening, Midnight, PlanTypeOK, proposals
<1>3. ASSUME NEW p \in Proposals, PassExpiry(p) PROVE PlanTypeOK'
  <2>1. TypeOK'
    BY <1>3, <1>a DEF PassExpiry, SessionsUntouched, vars, sessionVars, columns, history
  <2>. QED BY <1>3, <2>1 DEF PassExpiry, PlanTypeOK, calendar
<1>4. ASSUME NEW g \in Goals, PrepareGoal(g) \/ ActivateGoal(g) PROVE PlanTypeOK'
  <2>1. TypeOK'
    BY <1>4, <1>a
    DEF PrepareGoal, ActivateGoal, SessionsUntouched, vars, sessionVars, columns, history
  <2>. QED BY <1>4, <2>1 DEF PrepareGoal, ActivateGoal, PlanTypeOK, calendar, proposals
<1>5. ASSUME NEW k \in {"create", "replan"}, NEW g \in Goals \cup {NoGoal}, NEW ds \in Horizons,
             ProposeCheck(k, g, ds)
      PROVE  PlanTypeOK'
  <2>1. TypeOK'
    BY <1>5, <1>a DEF ProposeCheck, SessionsUntouched, vars, sessionVars, columns, history
  <2>2. [kind |-> k, goal |-> g, days |-> ds, stale |-> Drafts] \in Request
    BY DEF Request, Drafts
  <2>. QED BY <1>5, <2>1, <2>2 DEF ProposeCheck, PlanTypeOK, calendar
<1>6. ASSUME NEW r \in proposing, NEW p \in Proposals, ProposeInsert(r, p) PROVE PlanTypeOK'
  <2>1. TypeOK'
    BY <1>6, <1>a DEF ProposeInsert, SessionsUntouched, vars, sessionVars, columns, history
  <2>2. r \in Request
    BY DEF PlanTypeOK
  <2>3. \A q \in Proposals :
          prop'[q] = IF q = p THEN "draft" ELSE IF q \in r.stale THEN "expired" ELSE prop[q]
    BY <1>6 DEF ProposeInsert
  <2>4. /\ prop' \in [Proposals -> {"absent", "draft", "confirmed", "expired", "cancelled"}]
        /\ kind' \in [Proposals -> {"create", "replan"}]
        /\ goalOf' \in [Proposals -> Goals \cup {NoGoal}]
        /\ days' \in [Proposals -> Horizons \cup {{}}]
        /\ proposing' \subseteq Request
    BY <1>6, <2>2 DEF ProposeInsert, PlanTypeOK, Request
  <2>5. \A q \in Proposals : prop'[q] = "confirmed" <=> prop[q] = "confirmed"
    BY <1>6, <2>3 DEF ProposeInsert, StaleIsHeld
  <2>6. \A q \in Proposals : prop'[q] = "confirmed" => goalOf'[q] = goalOf[q]
    BY <1>6, <2>3 DEF ProposeInsert, PlanTypeOK
  <2>7. UNCHANGED <<calendar, overdue, revision, goal, available, cut>>
    BY <1>6 DEF ProposeInsert
  <2>. QED BY <2>1, <2>4, <2>5, <2>6, <2>7 DEF PlanTypeOK, calendar
<1>7. ASSUME NEW r \in proposing, ProposeAbort(r) PROVE PlanTypeOK'
  <2>1. TypeOK'
    BY <1>7, <1>a DEF ProposeAbort, SessionsUntouched, vars, sessionVars, columns, history
  <2>. QED BY <1>7, <2>1 DEF ProposeAbort, PlanTypeOK, calendar
<1>8. CASE CurrentProposal
  <2>1. TypeOK'
    BY <1>8, <1>a DEF CurrentProposal, SessionsUntouched, vars, sessionVars, columns, history
  <2>. QED BY <1>8, <2>1 DEF CurrentProposal, PlanTypeOK, calendar, Drafts
<1>9. ASSUME NEW p \in Proposals, CancelProposal(p) PROVE PlanTypeOK'
  <2>1. TypeOK'
    BY <1>9, <1>a DEF CancelProposal, SessionsUntouched, vars, sessionVars, columns, history
  <2>. QED BY <1>9, <2>1 DEF CancelProposal, PlanTypeOK, calendar
<1>10. ASSUME NEW p \in Proposals, NEW g \in Goals, ConfirmForExam(p, g) \/ ConfirmForGoal(p, g)
       PROVE  PlanTypeOK'
  <2>1. PICK superseded \in SUBSET Items : Confirms(p, g, superseded)
    BY <1>10, ConfirmForms
  <2>2. SessionsUntouched
    BY <2>1 DEF Confirms, SessionsUntouched, Undisturbed, columns, history
  <2>3. TypeOK'
    BY <1>0, <2>1, <2>2, ConfirmTyped, UntouchedTyped
  <2>4. /\ prop' = [prop EXCEPT ![p] = "confirmed"]
        /\ goalOf' = [goalOf EXCEPT ![p] = g]
        /\ revision' = [revision EXCEPT ![p] = NextRevision(g)]
        /\ NextRevision(g) \in Nat \ {0}
    BY <2>1, ConfirmTyped
  <2>5. /\ goal' = [goal EXCEPT ![g] = "active"] /\ available' = p
        /\ cut' = [cut EXCEPT ![p] = CurrentDate] /\ CurrentDate \in Nat
        /\ UNCHANGED <<today, evening, overdue, kind, days, proposing>>
    BY <2>1, ConfirmTyped DEF calendar
  <2>6. /\ prop' \in [Proposals -> {"absent", "draft", "confirmed", "expired", "cancelled"}]
        /\ goalOf' \in [Proposals -> Goals \cup {NoGoal}]
        /\ revision' \in [Proposals -> Nat]
        /\ \A q \in Proposals : /\ revision'[q] > 0 <=> prop'[q] = "confirmed"
                                /\ prop'[q] = "confirmed" => goalOf'[q] \in Goals
    BY <2>4 DEF PlanTypeOK
  <2>7. /\ goal' \in [Goals -> {"absent", "inactive", "active"}]
        /\ available' \in Proposals \cup {NoProposal}
        /\ cut' \in [Proposals -> Nat]
    BY <2>5 DEF PlanTypeOK
  <2>. QED BY <2>3, <2>5, <2>6, <2>7 DEF PlanTypeOK
<1>11. CASE UNCHANGED planState
  BY <1>1, <1>11 DEF planState
<1>. QED
  BY <1>1, <1>2, <1>3, <1>4, <1>5, <1>6, <1>7, <1>8, <1>9, <1>10, <1>11
  DEF PlanNext, PlanStep, SessionStep, Propose

-----------------------------------------------------------------------------
(***************************************************************************)
(* Drafts.                                                                 *)
(***************************************************************************)
LEMMA DraftStep ==
    PlanTypeOK /\ DraftIsUnique /\ StaleIsHeld /\ [PlanNext]_planState
    => DraftIsUnique' /\ StaleIsHeld'
<1> SUFFICES ASSUME PlanTypeOK, DraftIsUnique, StaleIsHeld, [PlanNext]_planState
             PROVE  DraftIsUnique' /\ StaleIsHeld'
  OBVIOUS
<1>1. CASE UNCHANGED <<prop, overdue, proposing>>
  BY <1>1 DEF DraftIsUnique, StaleIsHeld, Drafts
<1>2. ASSUME NEW p \in Proposals, PassExpiry(p) PROVE DraftIsUnique' /\ StaleIsHeld'
  BY <1>2 DEF PassExpiry, DraftIsUnique, StaleIsHeld, Drafts, PlanTypeOK
<1>3. ASSUME NEW k \in {"create", "replan"}, NEW g \in Goals \cup {NoGoal}, NEW ds \in Horizons,
             ProposeCheck(k, g, ds)
      PROVE  DraftIsUnique' /\ StaleIsHeld'
  <2> DEFINE q == [kind |-> k, goal |-> g, days |-> ds, stale |-> Drafts]
  <2>1. proposing' = proposing \cup {q} /\ prop' = prop /\ overdue' = overdue
    BY <1>3 DEF ProposeCheck
  <2>2. q.stale = Drafts /\ Drafts \subseteq Proposals
    BY DEF Drafts
  <2>3. \A d \in Drafts : prop[d] = "draft" /\ overdue[d] /\ \A r \in proposing : d \notin r.stale
    BY <1>3 DEF ProposeCheck, Locked, Drafts
  <2>. HIDE DEF q
  <2>. QED BY <2>1, <2>2, <2>3 DEF DraftIsUnique, StaleIsHeld, Drafts
<1>4. ASSUME NEW r \in proposing, NEW p \in Proposals, ProposeInsert(r, p)
      PROVE  DraftIsUnique' /\ StaleIsHeld'
  <2>1. \A q \in Proposals :
          prop'[q] = IF q = p THEN "draft" ELSE IF q \in r.stale THEN "expired" ELSE prop[q]
    BY <1>4 DEF ProposeInsert
  <2>2. \A q \in Proposals : prop[q] = "draft" => q \in r.stale
    BY <1>4 DEF ProposeInsert, Drafts
  <2>3. \A q \in Proposals : prop'[q] = "draft" => q = p
    BY <2>1, <2>2
  <2>4. \A s \in proposing : s # r => s.stale = {}
    BY <2>2 DEF StaleIsHeld
  <2>5. proposing' = proposing \ {r}
    BY <1>4 DEF ProposeInsert
  <2>. QED BY <2>3, <2>4, <2>5 DEF DraftIsUnique, StaleIsHeld, Drafts
<1>5. ASSUME NEW r \in proposing, ProposeAbort(r) PROVE DraftIsUnique' /\ StaleIsHeld'
  BY <1>5 DEF ProposeAbort, DraftIsUnique, StaleIsHeld, Drafts
<1>6. CASE CurrentProposal
  <2>1. \A q \in Proposals :
          prop'[q] = IF q \in Drafts /\ overdue[q] /\ ~Locked(q) THEN "expired" ELSE prop[q]
    BY <1>6 DEF CurrentProposal
  <2>2. UNCHANGED <<overdue, proposing>>
    BY <1>6 DEF CurrentProposal
  <2>. QED BY <2>1, <2>2 DEF DraftIsUnique, StaleIsHeld, Drafts, Locked
<1>7. ASSUME NEW p \in Proposals, CancelProposal(p) PROVE DraftIsUnique' /\ StaleIsHeld'
  <2>1. \A q \in Proposals : prop'[q] = IF q = p THEN "cancelled" ELSE prop[q]
    BY <1>7 DEF CancelProposal, PlanTypeOK
  <2>2. UNCHANGED <<overdue, proposing>> /\ \A r \in proposing : p \notin r.stale
    BY <1>7 DEF CancelProposal, Locked
  <2>. QED BY <2>1, <2>2 DEF DraftIsUnique, StaleIsHeld, Drafts
<1>8. ASSUME NEW p \in Proposals, NEW g \in Goals, ConfirmForExam(p, g) \/ ConfirmForGoal(p, g)
      PROVE  DraftIsUnique' /\ StaleIsHeld'
  <2>1. PICK superseded \in SUBSET Items : Confirms(p, g, superseded)
    BY <1>8, ConfirmForms
  <2>2. \A q \in Proposals : prop'[q] = IF q = p THEN "confirmed" ELSE prop[q]
    BY <2>1 DEF Confirms, Materialise, PlanTypeOK
  <2>3. UNCHANGED <<overdue, proposing>> /\ ~overdue[p]
    BY <2>1 DEF Confirms, Undisturbed, MayConfirm
  <2>. QED BY <2>2, <2>3 DEF DraftIsUnique, StaleIsHeld, Drafts
<1>9. CASE Evening \/ Midnight
  BY <1>1, <1>9 DEF Evening, Midnight, proposals
<1>10. ASSUME NEW g \in Goals, PrepareGoal(g) \/ ActivateGoal(g)
       PROVE  DraftIsUnique' /\ StaleIsHeld'
  BY <1>1, <1>10 DEF PrepareGoal, ActivateGoal, proposals
<1>11. CASE UNCHANGED planVars
  BY <1>1, <1>11 DEF planVars, proposals
<1>. QED
  BY <1>2, <1>3, <1>4, <1>5, <1>6, <1>7, <1>8, <1>9, <1>10, <1>11
  DEF PlanNext, PlanStep, SessionStep, Propose, planState

-----------------------------------------------------------------------------
(***************************************************************************)
(* Items.                                                                  *)
(***************************************************************************)

\* A confirmation touches an item in two ways: what it plans did not exist,
\* and what it cancels was planned, for a day not over, and not being studied.
LEMMA ConfirmItems ==
    ASSUME PlanAssumption, PlanTypeOK, ItemsHaveProvenance, NEW p \in Proposals, NEW g \in Goals,
           NEW superseded \in SUBSET Items, Confirms(p, g, superseded), NEW i \in Items
    PROVE  /\ i[1] \in Proposals /\ i[2] \in Days /\ i[3] \in Goals
           /\ i[1] = p => item[i] = "absent"
           /\ i[1] = p /\ i[2] \in days[p] /\ i[3] = g => item'[i] = "planned"
           /\ i \in superseded => /\ item[i] = "planned" /\ item'[i] = "cancelled"
                                 /\ i[3] = g
                                 /\ i[2] >= CurrentDate /\ i \notin Studying
           /\ item'[i] # item[i] => (i[1] = p /\ i[2] \in days[p] /\ i[3] = g)
                                    \/ i \in superseded
<1>1. i[1] \in Proposals /\ i[2] \in Days /\ i[3] \in Goals
  BY DEF PlanAssumption
<1>2. i[1] = p => item[i] = "absent"
  BY DEF ItemsHaveProvenance, Confirms, MayConfirm
<1>3. i \in superseded => /\ item[i] = "planned" /\ i[3] = g
                         /\ i[2] >= CurrentDate /\ i \notin Studying
  BY DEF Confirms, Superseded
<1>4. item'[i] = IF i[1] = p /\ i[2] \in days[p] /\ i[3] = g THEN "planned"
                 ELSE IF i \in superseded THEN "cancelled" ELSE item[i]
  BY DEF Confirms, Materialise
<1>. QED BY <1>1, <1>2, <1>3, <1>4

\* A session leaves an item that exists with a status, and only items that
\* exist can be worked on.
LEMMA SessionItems ==
    ASSUME IInv, StartingItemExists, [Next]_vars, NEW i \in Items, item'[i] # item[i]
    PROVE  /\ item[i] # "absent" /\ item'[i] # "absent"
           /\ item'[i] = "planned" =>
                \E s \in Sessions : row[s].item = i /\ row' = row /\ status'[s] = "cancelled"
<1>0. TypeOK /\ ItemHeldByOpenSession
  BY DEF IInv
<1>1. CASE Quiet
  BY <1>1 DEF Quiet
<1>2. ASSUME NEW r \in starting, NEW s \in Sessions, StartInsert(r, s)
      PROVE  item[i] # "absent" /\ item'[i] = "in_progress"
  BY <1>0, <1>2, InsertEffect DEF StartingItemExists
<1>3. ASSUME NEW c \in Clients, NEW at \in Time, Transition(c, at)
      PROVE  /\ item[i] # "absent" /\ item'[i] # "absent"
             /\ item'[i] = "planned" =>
                  \E s \in Sessions : row[s].item = i /\ row' = row /\ status'[s] = "cancelled"
  <2>1. PICK s \in Sessions : s = seen[c].session /\ IsOpen(s) /\ row' = row
    BY <1>0, <1>3, TransitionScope
  <2>2. ASSUME NEW target \in {"completed", "planned"}, LeaveItem(s, target)
        PROVE  row[s].item = i /\ item'[i] = target
    BY <1>0, <2>2 DEF LeaveItem, TypeOK
  <2>3. CASE Complete(c, at)
    BY <1>0, <2>1, <2>2, <2>3, TransitionEffect DEF ItemHeldByOpenSession
  <2>4. CASE Cancel(c, at)
    BY <1>0, <2>1, <2>2, <2>4, TransitionEffect DEF ItemHeldByOpenSession
  <2>5. CASE Pause(c, at) \/ Resume(c, at)
    BY <1>0, <2>1, <2>5, TransitionEffect
  <2>. QED BY <1>3, <2>3, <2>4, <2>5 DEF Transition
<1>. QED BY <1>1, <1>2, <1>3, NextCases

\* An item that a start request has looked up is not deleted.
LEMMA StartingItemStep ==
    PlanAssumption /\ PInv /\ [PlanNext]_planState => StartingItemExists'
<1> SUFFICES ASSUME PlanAssumption, PInv, [PlanNext]_planState PROVE StartingItemExists'
  OBVIOUS
<1>1. CASE [Next]_vars
  <2>1. \A i \in Items : item[i] # "absent" => item'[i] # "absent"
    BY <1>1, SessionItems DEF PInv
  <2>2. ASSUME NEW c \in Clients, NEW g \in Goals, NEW i \in Items \cup {NoItem},
               NEW x \in Subjects, NEW at \in Time, StartCheck(c, g, i, x, at)
        PROVE  StartingItemExists'
    BY <2>2 DEF StartCheck, StartingItemExists, PInv
  <2>3. CASE starting' \subseteq starting
    BY <2>1, <2>3 DEF StartingItemExists, PInv
  <2>. QED
    BY <1>1, <2>2, <2>3
    DEF Next, SessionNext, vars, sessionVars, Tick, ReadSession, StartInsert, StartAbort,
        Pause, Resume, Complete, Cancel
<1>2. CASE SessionsUntouched /\ item' = item
  BY <1>2 DEF SessionsUntouched, StartingItemExists, PInv
<1>3. ASSUME SessionsUntouched, NEW p \in Proposals, NEW g \in Goals, NEW superseded \in SUBSET Items,
             Confirms(p, g, superseded)
      PROVE  StartingItemExists'
  <2>1. \A i \in Items : item[i] # "absent" => item'[i] # "absent"
    BY <1>3, ConfirmItems DEF PInv
  <2>. QED BY <1>3, <2>1 DEF SessionsUntouched, StartingItemExists, PInv
<1>. QED BY <1>1, <1>2, <1>3, StepForms DEF PInv

\* A confirmation is what makes items, and only those its proposal planned.
LEMMA ProvenanceStep ==
    PlanAssumption /\ PInv /\ [PlanNext]_planState => ItemsHaveProvenance'
<1> SUFFICES ASSUME PlanAssumption, PInv, [PlanNext]_planState PROVE ItemsHaveProvenance'
  OBVIOUS
<1>0. \A i \in Items : i[1] \in Proposals
  BY DEF PlanAssumption
<1>1. CASE [Next]_vars /\ Calm
  <2>1. \A i \in Items : item[i] = "absent" <=> item'[i] = "absent"
    BY <1>1, SessionItems DEF PInv
  <2>. QED BY <1>0, <1>1, <2>1 DEF Calm, ItemsHaveProvenance, PInv
<1>2. CASE item' = item /\ Calm
  BY <1>0, <1>2 DEF Calm, ItemsHaveProvenance, PInv
<1>3. ASSUME NEW p \in Proposals, NEW g \in Goals, NEW superseded \in SUBSET Items, Confirms(p, g, superseded)
      PROVE  ItemsHaveProvenance'
  <2>1. \A q \in Proposals : prop'[q] = IF q = p THEN "confirmed" ELSE prop[q]
    BY <1>3 DEF Confirms, Materialise, PInv, PlanTypeOK
  <2>2. days' = days /\ \A q \in Proposals : goalOf'[q] = IF q = p THEN g ELSE goalOf[q]
    BY <1>3 DEF Confirms, Materialise, Undisturbed, PInv, PlanTypeOK
  <2>3. ASSUME NEW i \in Items
        PROVE  item'[i] # "absent" <=> /\ prop'[i[1]] = "confirmed" /\ i[2] \in days'[i[1]]
                                       /\ i[3] = goalOf'[i[1]]
    <3>1. CASE i[1] = p
      BY <1>0, <1>3, <2>1, <2>2, <3>1, ConfirmItems DEF PInv
    <3>2. CASE i[1] # p
      BY <1>0, <1>3, <2>1, <2>2, <3>2, ConfirmItems DEF PInv, ItemsHaveProvenance
    <3>. QED BY <3>1, <3>2
  <2>. QED BY <2>3 DEF ItemsHaveProvenance
<1>. QED BY <1>1, <1>2, <1>3, StepForms DEF PInv

\* A step of the plan preserves the invariant of the sessions: no item it
\* touches is held or becomes held.
LEMMA SessionInvStep ==
    SessionAssumption /\ PlanAssumption /\ PInv /\ [PlanNext]_planState => IInv'
<1> SUFFICES ASSUME SessionAssumption, PlanAssumption, PInv, [PlanNext]_planState PROVE IInv'
  OBVIOUS
<1>1. CASE [Next]_vars
  BY <1>1, IInvStep DEF PInv
<1>2. ASSUME SessionsUntouched, item' \in [Items -> ItemStatus],
             \A i \in Items : item'[i] = "in_progress" <=> item[i] = "in_progress"
      PROVE  IInv'
  <2>1. TypeOK'
    BY <1>2, UntouchedTyped DEF PInv, IInv
  <2>2. UNCHANGED <<row, status, version, paused, net, ended, openPause, starting>>
    BY <1>2 DEF SessionsUntouched, columns
  <2>3. UNCHANGED <<lastAt, inOrder, studied, pauses>>
    BY <1>2 DEF SessionsUntouched, history
  <2>4. StartingOwnsItem' /\ SessionOwnsItem' /\ OneOpenSessionPerUser' /\ OpenPauseIffPaused'
    BY <2>2 DEF PInv, IInv, StartingOwnsItem, SessionOwnsItem, OneOpenSessionPerUser,
                OpenPauseIffPaused, IsOpen
  <2>5. ItemHeldByOpenSession'
    BY <1>2, <2>2 DEF PInv, IInv, ItemHeldByOpenSession, IsOpen
  <2>6. ClockInv' /\ NetIsTimeStudied'
    BY <2>2, <2>3 DEF PInv, IInv, ClockInv, NetIsTimeStudied, IsOpen, Exists, Rest, EndedPauses
  <2>. QED BY <2>1, <2>4, <2>5, <2>6 DEF IInv
<1>3. CASE SessionsUntouched /\ item' = item
  BY <1>2, <1>3 DEF PInv, PlanTypeOK, TypeOK
<1>4. ASSUME SessionsUntouched, NEW p \in Proposals, NEW g \in Goals, NEW superseded \in SUBSET Items,
             Confirms(p, g, superseded)
      PROVE  IInv'
  <2>1. item' \in [Items -> ItemStatus]
    BY <1>4, ConfirmTyped DEF PInv
  <2>2. ASSUME NEW i \in Items
        PROVE  item'[i] = "in_progress" <=> item[i] = "in_progress"
    <3>1. PlanTypeOK /\ ItemsHaveProvenance
      BY DEF PInv
    <3>2. item'[i] # item[i] => (i[1] = p /\ i[2] \in days[p] /\ i[3] = g)
                                \/ i \in superseded
      BY <1>4, <3>1, ConfirmItems
    <3>3. i[1] = p => item[i] = "absent"
      BY <1>4, <3>1, ConfirmItems
    <3>4. i[1] = p /\ i[2] \in days[p] /\ i[3] = g => item'[i] = "planned"
      BY <1>4, <3>1, ConfirmItems
    <3>5. i \in superseded => item[i] = "planned" /\ item'[i] = "cancelled"
      BY <1>4, <3>1, ConfirmItems
    <3>. QED BY <3>2, <3>3, <3>4, <3>5
  <2>. QED BY <1>2, <1>4, <2>1, <2>2
<1>. QED BY <1>1, <1>3, <1>4, StepForms DEF PInv

-----------------------------------------------------------------------------
(***************************************************************************)
(* The calendar of the goal.                                               *)
(***************************************************************************)

\* A calm step leaves the confirmed proposals and their numbers alone.
LEMMA CalmRevisions ==
    ASSUME Calm
    PROVE  /\ Confirmed' = Confirmed
           /\ revision' = revision /\ available' = available /\ cut' = cut
           /\ \A q \in Confirmed :
                kind'[q] = kind[q] /\ goalOf'[q] = goalOf[q] /\ days'[q] = days[q]
           /\ \A g : Numbered(g)' = Numbered(g)
<1>1. Confirmed' = Confirmed
  BY DEF Calm, Confirmed
<1>2. \A q \in Confirmed : kind'[q] = kind[q] /\ goalOf'[q] = goalOf[q] /\ days'[q] = days[q]
  BY DEF Calm, Confirmed
<1>3. \A g : Numbered(g)' = Numbered(g)
  BY <1>1, <1>2 DEF Numbered
<1>. QED BY <1>1, <1>2, <1>3 DEF Calm

\* A confirmation finds no calendar of another goal.
LEMMA ConfirmRevisions ==
    ASSUME PlanAssumption, PlanTypeOK, LastRevision, OneCalendar, NEW p \in Proposals, NEW g \in Goals,
           NEW superseded \in SUBSET Items, Confirms(p, g, superseded)
    PROVE  /\ p \notin Confirmed /\ Confirmed' = Confirmed \cup {p}
           /\ \A q \in Confirmed : goalOf[q] = g /\ goalOf'[q] = g
           /\ goalOf'[p] = g /\ days' = days /\ kind' = kind
           /\ \A q \in Confirmed : q # p /\ revision'[q] = revision[q] /\ cut'[q] = cut[q]
           /\ \A q \in Proposals : revision'[q] \in Nat /\ revision[q] \in Nat
           /\ \A q \in Confirmed : revision[q] <= revision'[p]
           /\ \A q \in Confirmed : days[q] # {} => revision[q] < revision'[p]
           /\ cut'[p] = CurrentDate /\ available' = p /\ goal'[g] = "active"
<1>1. /\ prop' = [prop EXCEPT ![p] = "confirmed"] /\ goalOf' = [goalOf EXCEPT ![p] = g]
      /\ revision' = [revision EXCEPT ![p] = NextRevision(g)] /\ NextRevision(g) \in Nat
      /\ goal' = [goal EXCEPT ![g] = "active"] /\ available' = p
      /\ cut' = [cut EXCEPT ![p] = CurrentDate] /\ UNCHANGED <<kind, days>>
  BY ConfirmTyped
<1>2. p \notin Confirmed /\ Confirmed' = Confirmed \cup {p}
  BY <1>1 DEF Confirms, MayConfirm, Confirmed, PlanTypeOK
<1>3. \A q \in Confirmed : goalOf[q] = g
  <2>1. \A q \in Confirmed : goalOf[q] \in Goals /\ goal[goalOf[q]] = "active"
    BY DEF OneCalendar, PlanTypeOK, Confirmed
  <2>. QED BY <2>1 DEF Confirms, ActiveGoals
<1>4. \A q \in Confirmed : q \in Proposals /\ q # p
  BY <1>2 DEF Confirmed
<1>5. \A q \in Confirmed : /\ revision[q] <= NextRevision(g)
                           /\ days[q] # {} => revision[q] < NextRevision(g)
  BY <1>3, NextRevisionAbove DEF Numbered
<1>6. goalOf'[p] = g /\ revision'[p] = NextRevision(g) /\ cut'[p] = CurrentDate /\ goal'[g] = "active"
  BY <1>1 DEF PlanTypeOK
<1>7. \A q \in Confirmed : goalOf'[q] = g /\ revision'[q] = revision[q] /\ cut'[q] = cut[q]
  BY <1>1, <1>3, <1>4 DEF PlanTypeOK
<1>8. \A q \in Proposals : revision'[q] \in Nat /\ revision[q] \in Nat
  BY <1>1 DEF PlanTypeOK
<1>. QED BY <1>1, <1>2, <1>3, <1>4, <1>5, <1>6, <1>7, <1>8

\* A revision is numbered after all those of its goal.
LEMMA LastRevisionStep ==
    PlanAssumption /\ PInv /\ [PlanNext]_planState => LastRevision'
<1> SUFFICES ASSUME PlanAssumption, PInv, [PlanNext]_planState PROVE LastRevision'
  OBVIOUS
<1>1. CASE Calm
  BY <1>1, CalmRevisions DEF LastRevision, PInv
<1>2. ASSUME NEW p \in Proposals, NEW g \in Goals, NEW superseded \in SUBSET Items, Confirms(p, g, superseded)
      PROVE  LastRevision'
  <2>1. /\ p \notin Confirmed /\ Confirmed' = Confirmed \cup {p}
        /\ \A q \in Confirmed' : goalOf'[q] = g
        /\ \A q \in Confirmed : goalOf[q] = g
        /\ days' = days
        /\ \A q \in Confirmed : q # p /\ revision'[q] = revision[q]
        /\ \A q \in Proposals : revision'[q] \in Nat /\ revision[q] \in Nat
        /\ \A q \in Confirmed : revision[q] <= revision'[p]
        /\ \A q \in Confirmed : days[q] # {} => revision[q] < revision'[p]
    BY <1>2, ConfirmRevisions DEF PInv
  <2>2. Confirmed \subseteq Proposals
    BY DEF Confirmed
  <2>3. ASSUME NEW h \in Goals, h # g PROVE Numbered(h)' = {} /\ \A q \in Confirmed' : goalOf'[q] # h
    BY <2>1, <2>3 DEF Numbered
  <2>4. CASE days[p] # {}
    <3>1. p \in Numbered(g)' /\ \A q \in Confirmed' : revision'[q] <= revision'[p]
      BY <2>1, <2>2, <2>4 DEF Numbered
    <3>2. \A q \in Numbered(g)' : q \in Confirmed'
      BY DEF Numbered
    <3>3. \A q \in Confirmed' : revision'[q] <= revision'[p] + 1
      BY <2>1, <2>2, <3>1
    <3>. QED BY <2>3, <3>1, <3>2, <3>3 DEF LastRevision
  <2>5. CASE days[p] = {}
    <3>1. Numbered(g)' = Numbered(g) /\ Numbered(g) \subseteq Confirmed
      BY <2>1, <2>5 DEF Numbered
    <3>2. revision'[p] = NextRevision(g)
      BY <1>2, ConfirmTyped DEF PInv, PlanTypeOK
    <3>3. CASE Numbered(g) = {}
      <4>1. NextRevision(g) = 1
        BY <3>3, FirstRevision
      <4>. QED BY <2>1, <2>2, <2>3, <3>1, <3>2, <3>3, <4>1 DEF LastRevision, PInv
    <3>4. ASSUME NEW q \in Numbered(g), \A r \in Numbered(g) : revision[r] <= revision[q],
                 \A r \in Confirmed : goalOf[r] = g => revision[r] <= revision[q] + 1
          PROVE  LastRevision'
      <4>1. NextRevision(g) = revision[q] + 1
        BY <3>4, RevisionAfter DEF PInv
      <4>2. \A r \in Confirmed' : revision'[r] <= revision'[q] + 1
        BY <2>1, <2>2, <3>1, <3>2, <3>4, <4>1
      <4>3. \A r \in Numbered(g)' : revision'[r] <= revision'[q]
        BY <2>1, <3>1, <3>4
      <4>. QED BY <2>3, <3>1, <4>2, <4>3 DEF LastRevision
    <3>. QED BY <3>3, <3>4 DEF LastRevision, PInv
  <2>. QED BY <2>4, <2>5
<1>. QED BY <1>1, <1>2, StepForms DEF PInv

\* A change of goal leaves no calendar of another one in force.
LEMMA OneCalendarStep ==
    PlanAssumption /\ PInv /\ [PlanNext]_planState => OneCalendar'
<1> SUFFICES ASSUME PlanAssumption, PInv, [PlanNext]_planState PROVE OneCalendar'
  OBVIOUS
<1>0. \A q \in Confirmed : goalOf[q] \in Goals
  BY DEF PInv, PlanTypeOK, Confirmed
<1>1. CASE Calm
  <2>1. \A g \in Goals : goal[g] = "active" => goal'[g] = "active"
    BY <1>1 DEF Calm
  <2>. QED BY <1>0, <1>1, <2>1, CalmRevisions DEF OneCalendar, PInv
<1>2. ASSUME NEW p \in Proposals, NEW g \in Goals, NEW superseded \in SUBSET Items, Confirms(p, g, superseded)
      PROVE  OneCalendar'
  <2>1. /\ p \notin Confirmed /\ Confirmed' = Confirmed \cup {p}
        /\ \A q \in Confirmed' : goalOf'[q] = g
        /\ days' = days /\ available' = p /\ goal'[g] = "active"
        /\ \A q \in Confirmed : q # p /\ revision'[q] = revision[q]
        /\ \A q \in Proposals : revision'[q] \in Nat /\ revision[q] \in Nat
        /\ \A q \in Confirmed : revision[q] <= revision'[p]
        /\ \A q \in Confirmed : days[q] # {} => revision[q] < revision'[p]
    BY <1>2, ConfirmRevisions DEF PInv
  <2>2. Confirmed \subseteq Proposals
    BY DEF Confirmed
  <2>3. \A q \in Confirmed' : revision'[p] >= revision'[q]
    BY <2>1, <2>2
  <2>4. \A q, r \in Confirmed' : revision'[q] = revision'[r] => q = r \/ days'[q] = {} \/ days'[r] = {}
    <3>1. \A q, r \in Confirmed : revision[q] = revision[r] => q = r \/ days[q] = {} \/ days[r] = {}
      BY DEF OneCalendar, PInv
    <3>2. \A q \in Confirmed : revision'[q] = revision'[p] => days[q] = {}
      BY <2>1, <2>2
    <3>. QED BY <2>1, <3>1, <3>2
  <2>. QED BY <2>1, <2>3, <2>4 DEF OneCalendar
<1>. QED BY <1>1, <1>2, StepForms DEF PInv

\* A session that was cancelled stays so, on the item it worked on.
LEMMA CancelledStays ==
    ASSUME IInv, [Next]_vars, NEW i, NEW s \in Sessions, WorkedOn(i, s)
    PROVE  WorkedOn(i, s)'
<1>0. TypeOK
  BY DEF IInv
<1>1. CASE Quiet
  BY <1>1 DEF Quiet, columns, WorkedOn
<1>2. ASSUME NEW r \in starting, NEW t \in Sessions, StartInsert(r, t) PROVE WorkedOn(i, s)'
  BY <1>0, <1>2, InsertEffect DEF WorkedOn
<1>3. ASSUME NEW c \in Clients, NEW at \in Time, Transition(c, at) PROVE WorkedOn(i, s)'
  BY <1>0, <1>3, TransitionScope DEF WorkedOn, IsOpen, OpenStatus
<1>. QED BY <1>1, <1>2, <1>3, NextCases

\* A confirmed replanning supersedes the items after its day.
LEMMA ReplanStep ==
    PlanAssumption /\ PInv /\ [PlanNext]_planState => ReplanSupersedes'
<1> SUFFICES ASSUME PlanAssumption, PInv, [PlanNext]_planState,
                    NEW r \in Confirmed', NEW p \in Confirmed',
                    kind'[r] = "replan", goalOf'[p] = goalOf'[r], revision'[p] < revision'[r],
                    NEW d \in days'[p], d >= cut'[r],
                    item'[<<p, d, goalOf'[p]>>] = "planned"
             PROVE  \E s \in Sessions :
                      status'[s] = "cancelled" /\ row'[s].item = <<p, d, goalOf'[p]>>
  BY DEF ReplanSupersedes, WorkedOn
<1>h. PICK h : h = goalOf'[p]
  OBVIOUS
<1> SUFFICES \E s \in Sessions : WorkedOn(<<p, d, h>>, s)'
  BY <1>h DEF WorkedOn
<1> DEFINE i == <<p, d, h>>
<1>0. i[1] = p /\ i[2] = d /\ i[3] = h /\ p \in Proposals /\ Confirmed \subseteq Proposals
  BY DEF Confirmed
<1>1. CASE SessionsUntouched /\ item' = item /\ Calm
  <2>1. /\ r \in Confirmed /\ p \in Confirmed /\ kind[r] = "replan" /\ goalOf[p] = goalOf[r]
        /\ revision[p] < revision[r] /\ d \in days[p] /\ d >= cut[r] /\ item[i] = "planned"
        /\ h = goalOf[p]
    BY <1>1, <1>h, CalmRevisions
  <2>2. \E s \in Sessions : WorkedOn(i, s)
    BY <2>1 DEF ReplanSupersedes, PInv
  <2>. QED BY <1>1, <2>2 DEF WorkedOn, SessionsUntouched, columns
<1>2. CASE [Next]_vars /\ Calm
  <2>1. /\ r \in Confirmed /\ p \in Confirmed /\ kind[r] = "replan" /\ goalOf[p] = goalOf[r]
        /\ revision[p] < revision[r] /\ d \in days[p] /\ d >= cut[r] /\ h = goalOf[p]
    BY <1>2, <1>h, CalmRevisions
  <2>2. i \in Items
    BY <2>1 DEF PlanAssumption, PInv, PlanTypeOK, Confirmed
  <2>3. CASE item[i] = "planned"
    <3>1. PICK s \in Sessions : WorkedOn(i, s)
      BY <2>1, <2>3 DEF ReplanSupersedes, PInv
    <3>2. WorkedOn(i, s)'
      BY <1>2, <3>1, CancelledStays DEF PInv
    <3>. QED BY <3>2
  <2>4. CASE item[i] # "planned"
    BY <1>h, <1>2, <2>2, <2>4, SessionItems DEF PInv, WorkedOn
  <2>. QED BY <2>3, <2>4
<1>3. ASSUME SessionsUntouched, NEW q \in Proposals, NEW g \in Goals, NEW superseded \in SUBSET Items,
             Confirms(q, g, superseded)
      PROVE  \E s \in Sessions : WorkedOn(i, s)'
  <2>1. /\ q \notin Confirmed /\ Confirmed' = Confirmed \cup {q}
        /\ \A t \in Confirmed : goalOf[t] = g /\ goalOf'[t] = g
        /\ \A t \in Confirmed : t # q /\ revision'[t] = revision[t] /\ cut'[t] = cut[t]
        /\ \A t \in Proposals : revision'[t] \in Nat
        /\ \A t \in Confirmed : revision[t] <= revision'[q]
        /\ cut'[q] = CurrentDate /\ days' = days /\ kind' = kind
    BY <1>3, ConfirmRevisions DEF PInv
  <2>2. p \in Confirmed
    BY <1>0, <2>1
  <2>3. i \in Items /\ h = g /\ h = goalOf[p]
    BY <1>0, <1>h, <2>1, <2>2 DEF PlanAssumption, PInv, PlanTypeOK
  <2>4. item[i] = "planned" /\ i \notin superseded
    BY <1>0, <1>h, <1>3, <2>1, <2>2, <2>3, ConfirmItems DEF PInv
  <2>5. CASE r \in Confirmed
    <3>1. \E s \in Sessions : WorkedOn(i, s)
      BY <2>1, <2>2, <2>3, <2>4, <2>5 DEF ReplanSupersedes, PInv
    <3>. QED BY <1>3, <3>1 DEF WorkedOn, SessionsUntouched, columns
  <2>6. CASE r = q
    <3>1. superseded = Superseded(g)
      <4>1. ActiveGoals # {}
        BY <2>2 DEF PInv, OneCalendar, PlanTypeOK, Confirmed, ActiveGoals
      <4>. QED BY <1>3, <2>1, <2>6, <4>1 DEF Confirms
    <3>2. i[3] = g /\ i[2] >= CurrentDate
      BY <1>0, <2>1, <2>3, <2>6
    <3>3. i \in Studying
      BY <2>3, <2>4, <3>1, <3>2 DEF Superseded
    <3>4. item[i] = "in_progress"
      BY <2>3, <3>3 DEF Studying, PInv, IInv, ItemHeldByOpenSession
    <3>. QED BY <2>4, <3>4
  <2>. QED BY <2>1, <2>5, <2>6
<1>. QED BY <1>1, <1>2, <1>3, StepForms DEF PInv

-----------------------------------------------------------------------------
(***************************************************************************)
(* The theorems.                                                           *)
(***************************************************************************)
LEMMA InitPInv == SessionAssumption /\ PlanAssumption /\ PlanInit => PInv
<1> SUFFICES ASSUME SessionAssumption, PlanAssumption, PlanInit PROVE PInv
  OBVIOUS
<1>1. InitialSessions /\ item = [i \in Items |-> "absent"] /\ starting = {}
  BY DEF PlanInit, InitialSessions
<1>2. IInv
  BY <1>1, InitIInv
<1>3. PlanTypeOK
  <2>1. TypeOK /\ today \in Days /\ evening \in BOOLEAN
    <3>1. 1 \in 1 .. MaxDay
      BY DEF PlanAssumption
    <3>2. TypeOK /\ today = 1 /\ evening = FALSE
      BY <1>2 DEF PlanInit, IInv
    <3>. QED BY <3>1, <3>2 DEF Days
  <2>2. /\ prop = [p \in Proposals |-> "absent"]
        /\ overdue = [p \in Proposals |-> FALSE]
        /\ kind = [p \in Proposals |-> "create"]
        /\ goalOf = [p \in Proposals |-> NoGoal]
        /\ days = [p \in Proposals |-> {}]
        /\ revision = [p \in Proposals |-> 0]
        /\ goal = [g \in Goals |-> "absent"]
        /\ available = NoProposal
        /\ proposing = {}
        /\ cut = [p \in Proposals |-> 0]
    BY DEF PlanInit
  <2>. QED BY <2>1, <2>2 DEF PlanTypeOK
<1>4. Confirmed = {} /\ Drafts = {} /\ proposing = {}
  BY DEF PlanInit, Confirmed, Drafts
<1>5. StartingItemExists /\ DraftIsUnique /\ StaleIsHeld /\ OneCalendar /\ ReplanSupersedes
  BY <1>1, <1>4 DEF StartingItemExists, DraftIsUnique, StaleIsHeld, OneCalendar, ReplanSupersedes
<1>6. LastRevision
  BY <1>4 DEF LastRevision, Numbered
<1>7. ItemsHaveProvenance
  BY <1>1 DEF PlanInit, ItemsHaveProvenance, PlanAssumption
<1>. QED BY <1>2, <1>3, <1>5, <1>6, <1>7 DEF PInv

\* The inductive invariant of the composed system.
THEOREM PlanInvariance == PlanSpec => []PInv
<1>1. PlanInit => PInv
  BY SessionAssumption, PlanAssumption, InitPInv
<1>2. PInv /\ [PlanNext]_planState => PInv'
  <2> SUFFICES ASSUME PInv, [PlanNext]_planState PROVE PInv'
    OBVIOUS
  <2>1. PlanTypeOK' /\ DraftIsUnique' /\ StaleIsHeld'
    BY SessionAssumption, PlanAssumption, PlanTyped, DraftStep DEF PInv
  <2>2. IInv' /\ StartingItemExists' /\ ItemsHaveProvenance'
    BY SessionAssumption, PlanAssumption, SessionInvStep, StartingItemStep, ProvenanceStep
  <2>3. LastRevision' /\ OneCalendar' /\ ReplanSupersedes'
    BY PlanAssumption, LastRevisionStep, OneCalendarStep, ReplanStep
  <2>. QED BY <2>1, <2>2, <2>3 DEF PInv
<1>. QED BY <1>1, <1>2, PTL DEF PlanSpec, planState

\* Every column of the plan keeps its type; exactly the confirmed proposals
\* have a revision, and each of them a goal.
THEOREM PlanTypeCorrect == PlanSpec => []PlanTypeOK
<1>1. PInv => PlanTypeOK
  BY DEF PInv
<1>. QED BY <1>1, PlanInvariance, PTL

\* However many requests race, a student has at most one draft to answer.
THEOREM OneDraft == PlanSpec => []OneDraftPerUser
<1>1. PInv => OneDraftPerUser
  <2> SUFFICES ASSUME PInv PROVE Cardinality(Drafts) <= 1
    BY DEF OneDraftPerUser
  <2>1. CASE Drafts = {}
    BY <2>1, FS_EmptySet
  <2>2. ASSUME NEW p \in Drafts PROVE Cardinality(Drafts) <= 1
    <3>1. Drafts = {p}
      BY DEF PInv, DraftIsUnique
    <3>. QED BY <3>1, FS_Singleton
  <2>. QED BY <2>1, <2>2
<1>. QED BY <1>1, PlanInvariance, PTL

\* Items exist exactly where a confirmed proposal planned them.
THEOREM ItemsStandForPlans == PlanSpec => []ItemsHaveProvenance
<1>1. PInv => ItemsHaveProvenance
  BY DEF PInv
<1>. QED BY <1>1, PlanInvariance, PTL

\* The calendars are those of the active goal, numbered as they were confirmed.
THEOREM CalendarIsOne == PlanSpec => []OneCalendar
<1>1. PInv => OneCalendar
  BY DEF PInv
<1>. QED BY <1>1, PlanInvariance, PTL

\* After a replanning nothing of the earlier calendar still waits for a day
\* that it covers, whatever sessions were doing when it was confirmed.
THEOREM ReplanningWins == PlanSpec => []ReplanSupersedes
<1>1. PInv => ReplanSupersedes
  BY DEF PInv
<1>. QED BY <1>1, PlanInvariance, PTL

\* Composed with the plan, an item is still in progress exactly while an open
\* session works on it: a replanning never takes an item from under a session.
THEOREM ReplanKeepsSessionItems == PlanSpec => []ItemHeldByOpenSession
<1>1. PInv => ItemHeldByOpenSession
  BY DEF PInv, IInv
<1>. QED BY <1>1, PlanInvariance, PTL

-----------------------------------------------------------------------------
(***************************************************************************)
(* What a step may do to a proposal and to the past.                       *)
(***************************************************************************)
LEMMA ProposalStep ==
    ASSUME PlanTypeOK, StaleIsHeld, [PlanNext]_planState, NEW p \in Proposals, prop'[p] # prop[p]
    PROVE  \/ prop[p] = "absent" /\ prop'[p] = "draft"
           \/ prop[p] = "draft" /\ prop'[p] = "cancelled"
           \/ prop[p] = "draft" /\ prop'[p] = "expired" /\ overdue[p]
           \/ prop[p] = "draft" /\ prop'[p] = "confirmed" /\ ~overdue[p]
<1> DEFINE Answered == \/ prop[p] = "absent" /\ prop'[p] = "draft"
                       \/ prop[p] = "draft" /\ prop'[p] = "cancelled"
                       \/ prop[p] = "draft" /\ prop'[p] = "expired" /\ overdue[p]
                       \/ prop[p] = "draft" /\ prop'[p] = "confirmed" /\ ~overdue[p]
<1>1. prop' # prop
  OBVIOUS
<1>2. ASSUME NEW r \in proposing, NEW q \in Proposals, ProposeInsert(r, q) PROVE Answered
  <2>1. prop'[p] = IF p = q THEN "draft" ELSE IF p \in r.stale THEN "expired" ELSE prop[p]
    BY <1>2 DEF ProposeInsert
  <2>2. prop[q] = "absent" /\ (p \in r.stale => prop[p] = "draft" /\ overdue[p])
    BY <1>2 DEF ProposeInsert, StaleIsHeld
  <2>. QED BY <2>1, <2>2
<1>3. CASE CurrentProposal
  BY <1>3 DEF CurrentProposal, Drafts
<1>4. ASSUME NEW q \in Proposals, CancelProposal(q) PROVE Answered
  BY <1>4 DEF CancelProposal, PlanTypeOK
<1>5. ASSUME NEW q \in Proposals, NEW g \in Goals, ConfirmForExam(q, g) \/ ConfirmForGoal(q, g)
      PROVE  Answered
  <2>1. prop' = [prop EXCEPT ![q] = "confirmed"] /\ prop[q] = "draft" /\ ~overdue[q]
    BY <1>5 DEF ConfirmForExam, ConfirmForGoal, Materialise, MayConfirm
  <2>. QED BY <2>1 DEF PlanTypeOK
<1>. QED
  BY <1>1, <1>2, <1>3, <1>4, <1>5
  DEF PlanNext, PlanStep, SessionStep, Propose, planState, planVars, proposals, Evening, Midnight, PassExpiry,
      PrepareGoal, ActivateGoal, ProposeCheck, ProposeAbort

\* A proposal is answered once, and confirmed only in its 30 minutes.
THEOREM ProposalAnsweredOnce == PlanSpec => ProposalLifeCycle
<1>1. PInv /\ [PlanNext]_planState =>
        [\A p \in Proposals : prop'[p] # prop[p] =>
           \/ prop[p] = "absent" /\ prop'[p] = "draft"
           \/ prop[p] = "draft" /\ prop'[p] = "cancelled"
           \/ prop[p] = "draft" /\ prop'[p] = "expired" /\ overdue[p]
           \/ prop[p] = "draft" /\ prop'[p] = "confirmed" /\ ~overdue[p]]_prop
  BY ProposalStep DEF PInv
<1>. QED BY <1>1, PlanInvariance, PTL DEF PlanSpec, ProposalLifeCycle, planState

\* No step of a plan rewrites the past.
LEMMA HistoryStep ==
    ASSUME PlanAssumption, PInv, [PlanNext]_planState, prop' # prop, NEW i \in Items,
           item'[i] # item[i]
    PROVE  \/ item[i] = "absent" /\ item'[i] = "planned" /\ prop'[i[1]] # prop[i[1]]
           \/ /\ item[i] = "planned" /\ item'[i] = "cancelled"
              /\ i[2] >= today
              /\ i \notin Studying
<1>1. ~(UNCHANGED planVars) /\ item' # item
  BY DEF planVars, proposals
<1>2. PICK p \in Proposals, g \in Goals, superseded \in SUBSET Items : Confirms(p, g, superseded)
  BY <1>1, StepForms DEF PInv
<1>3. CASE i[1] = p /\ i[2] \in days[p] /\ i[3] = g
  <2>1. prop[p] = "draft" /\ prop'[p] = "confirmed"
    BY <1>2 DEF Confirms, MayConfirm, Materialise, PInv, PlanTypeOK
  <2>. QED BY <1>2, <1>3, <2>1, ConfirmItems DEF PInv
<1>4. CASE i \in superseded
  <2>1. item[i] = "planned" /\ item'[i] = "cancelled" /\ i[2] >= CurrentDate /\ i \notin Studying
    BY <1>2, <1>4, ConfirmItems DEF PInv
  <2>2. i[2] \in Nat
    BY <1>2, ConfirmItems DEF PInv, Days
  <2>3. i[2] >= today
    BY <2>1, <2>2, CurrentDateTyped DEF PInv
  <2>. QED BY <2>1, <2>3
<1>. QED BY <1>2, <1>3, <1>4, ConfirmItems DEF PInv

\* No confirmation rewrites the past or touches an item being studied.
THEOREM PastIsKept == PlanSpec => HistoryKept
<1>1. PInv /\ [PlanNext]_planState =>
        [prop' # prop =>
           \A i \in Items : item'[i] # item[i] =>
             \/ item[i] = "absent" /\ item'[i] = "planned" /\ prop'[i[1]] # prop[i[1]]
             \/ /\ item[i] = "planned" /\ item'[i] = "cancelled"
                /\ i[2] >= today
                /\ i \notin Studying]_<<item, prop>>
  BY PlanAssumption, HistoryStep
<1>. QED BY <1>1, PlanInvariance, PTL DEF PlanSpec, HistoryKept, planState

\* What a student has studied is counted as it was without a plan.
LEMMA PlanMasteryStep ==
    SessionAssumption /\ PlanAssumption /\ PInv /\ MasteryInv /\ [PlanNext]_planState => MasteryInv'
<1> SUFFICES ASSUME SessionAssumption, PlanAssumption, PInv, MasteryInv, [PlanNext]_planState
             PROVE  MasteryInv'
  OBVIOUS
<1>1. CASE [Next]_vars
  BY <1>1, MasteryStep DEF PInv, IInv
<1>2. CASE SessionsUntouched
  <2>1. UNCHANGED <<row, status, net, mastery>>
    BY <1>2 DEF SessionsUntouched, columns
  <2>2. \A k \in MasteryKeys : CompletedOn(k)' = CompletedOn(k)
    BY <2>1 DEF CompletedOn, MasteryKey
  <2>. QED BY <2>1, <2>2, SameEvidence DEF MasteryInv, PInv, IInv
<1>. QED BY <1>1, <1>2, StepForms DEF PInv

\* Proposals, confirmations and replannings change nothing of what the
\* sessions promise: each student has one open session and an open pause only
\* while it is paused, net durations tell the time studied but for fractions of
\* a second, and mastery counts what was completed for each goal.
THEOREM PlanKeepsSessions ==
    PlanSpec => [](OneOpenSessionPerUser /\ OpenPauseIffPaused /\ NetIsTimeStudied
                     /\ MasteryIsEvidence)
<1>1. PlanInit => MasteryInv
  BY InitMastery DEF PlanInit, InitialSessions
<1>2. PInv /\ MasteryInv /\ [PlanNext]_planState => MasteryInv'
  BY SessionAssumption, PlanAssumption, PlanMasteryStep
<1>3. PInv /\ MasteryInv =>
        OneOpenSessionPerUser /\ OpenPauseIffPaused /\ NetIsTimeStudied /\ MasteryIsEvidence
  BY MasteryInvShows DEF PInv, IInv
<1>. QED BY <1>1, <1>2, <1>3, PlanInvariance, PTL DEF PlanSpec, planState

\* Nor of what a step may do to one.
THEOREM PlanKeepsTransitions == PlanSpec => SessionLifeCycle
<1>1. PInv /\ [PlanNext]_planState =>
        [\A s \in Sessions : version'[s] # version[s] \/ status'[s] # status[s] =>
           /\ Follows(status[s], status'[s])
           /\ version'[s] = version[s] + 1]_columns
  <2> SUFFICES ASSUME PInv, [PlanNext]_planState, columns' # columns,
                      NEW s \in Sessions, version'[s] # version[s] \/ status'[s] # status[s]
               PROVE  Follows(status[s], status'[s]) /\ version'[s] = version[s] + 1
    OBVIOUS
  <2>1. [Next]_vars
    BY StepForms DEF PInv, SessionsUntouched
  <2>. QED BY <2>1, LifeCycleStep DEF PInv, IInv
<1>. QED BY <1>1, PlanInvariance, PTL DEF PlanSpec, planState, SessionLifeCycle
=============================================================================
