---------------------------- MODULE StudySession ----------------------------
(***************************************************************************)
(* The study sessions of apps/api/src/academic.py and the rows they touch: *)
(* study_sessions, study_session_pauses, study_plan_items.status and       *)
(* topic_mastery (database/migrations/002_academic_core.sql).              *)
(*                                                                         *)
(* A mutation is one database transaction.  A transition locks the session *)
(* row first (SELECT ... FOR UPDATE) and is therefore one step.  Starting  *)
(* a session is not: it looks for an open session, the goal and the item   *)
(* without locking anything and inserts later, when only the unique index  *)
(* one_open_session_per_user is left to arbitrate between two devices.     *)
(* A client posts transitions from the last copy of the session it read,   *)
(* which another device may have made stale in the meantime.               *)
(*                                                                         *)
(* Abstracted: observations, the audit rows, and the HTTP status of a      *)
(* refused request (a refused request changes no row: the transaction is   *)
(* rolled back).  Timestamps are ticks of the server's clock, of which a   *)
(* second has TicksPerSecond; durations are stored in whole seconds.  The  *)
(* active topics of a subject all receive the same evidence, so one        *)
(* mastery record stands for the topics of a subject.                      *)
(***************************************************************************)
EXTENDS Integers, FiniteSetsExt

CONSTANTS
    Users,      \* students
    Clients,    \* devices (chats, command line) that act for a student
    UserOf,     \* the student a client acts for
    Goals,      \* identifiers of study_goals rows
    GoalOwner,  \* the student a goal belongs to
    Sessions,   \* identifiers of study_sessions rows
    Items,      \* identifiers of study_plan_items rows
    ItemGoal,   \* the goal of the item's cycle
    Subjects,   \* subjects of the syllabus
    SubjectOf,  \* the subject of an item
    NoItem,     \* the NULL plan_item_id of a session outside the plan
    NoSession,  \* a client that has not read a session yet
    TicksPerSecond, \* the resolution of a timestamp
    MaxTime,    \* bound of the model: the last instant of the clock
    MaxVersion  \* bound of the model: the last version of a session

ASSUME SessionAssumption ==
    /\ UserOf \in [Clients -> Users]
    /\ GoalOwner \in [Goals -> Users]
    /\ ItemGoal \in [Items -> Goals]
    /\ SubjectOf \in [Items -> Subjects]
    /\ NoItem \notin Items
    /\ NoSession \notin Sessions
    /\ TicksPerSecond \in Nat \ {0}
    /\ MaxTime \in Nat
    /\ MaxVersion \in Nat \ {0}

VARIABLES
    now,        \* the server's clock
    row,        \* study_sessions: the columns fixed by the insert
    status,     \* study_sessions.status
    version,    \* study_sessions.version
    paused,     \* study_sessions.accumulated_pause_seconds
    net,        \* study_sessions.net_duration_seconds
    ended,      \* study_sessions.ended_at, or NoTime
    openPause,  \* start of the session's pause that has no end, or NoTime
    item,       \* study_plan_items.status
    mastery,    \* topic_mastery per student, goal and subject
    starting,   \* start requests that passed their checks, not yet inserted
    seen,       \* the copy of the open session each client read last
    lastAt,     \* history: the last timestamp recorded for a session
    inOrder,    \* history: the session's timestamps never went backwards
    studied,    \* history: ticks between events during which it was active
    pauses      \* history: pauses the session has begun

columns == <<status, version, paused, net, ended>>
sessionVars == <<row, columns, openPause, item, mastery, starting>>
history == <<lastAt, inOrder, studied, pauses>>
vars == <<now, sessionVars, seen, history>>

NoTime == -1
Time == 0 .. MaxTime
OpenStatus == {"active", "paused"}
ClosedStatus == {"completed", "cancelled"}
ItemStatus == {"absent", "planned", "in_progress", "completed", "cancelled"}

Row == [user : Users, goal : Goals, item : Items \cup {NoItem}, subject : Subjects,
        started : Time]
NoRow == [user |-> NoSession, goal |-> NoItem, item |-> NoItem, subject |-> NoItem,
          started |-> 0]

StartRequest == [client : Clients, goal : Goals, item : Items \cup {NoItem},
                 subject : Subjects, at : Time]

\* The primary key of topic_mastery, and the row a session is evidence for.
MasteryKeys == Users \X Goals \X Subjects
MasteryKey(s) == <<row[s].user, row[s].goal, row[s].subject>>

Mastery == [count : Nat, seconds : Nat, state : {"not_started", "in_progress", "review"}]

View == [session : Sessions \cup {NoSession}, version : Nat]
NoView == [session |-> NoSession, version |-> 0]

Exists(s) == status[s] # "absent"
IsOpen(s) == status[s] \in OpenStatus
OpenSessions(u) == {s \in Sessions : IsOpen(s) /\ row[s].user = u}

Positive(x) == IF x > 0 THEN x ELSE 0

\* int(d.total_seconds()), of an interval that is not negative.
Seconds(d) == d \div TicksPerSecond

\* Before the first session: everything but the plan items.
InitialSessions ==
    /\ now = 0
    /\ row = [s \in Sessions |-> NoRow]
    /\ status = [s \in Sessions |-> "absent"]
    /\ version = [s \in Sessions |-> 0]
    /\ paused = [s \in Sessions |-> 0]
    /\ net = [s \in Sessions |-> 0]
    /\ ended = [s \in Sessions |-> NoTime]
    /\ openPause = [s \in Sessions |-> NoTime]
    /\ mastery = [k \in MasteryKeys |->
                    [count |-> 0, seconds |-> 0, state |-> "not_started"]]
    /\ starting = {}
    /\ seen = [c \in Clients |-> NoView]
    /\ lastAt = [s \in Sessions |-> 0]
    /\ inOrder = [s \in Sessions |-> TRUE]
    /\ studied = [s \in Sessions |-> 0]
    /\ pauses = [s \in Sessions |-> 0]

Init == InitialSessions /\ item = [i \in Items |-> "planned"]

-----------------------------------------------------------------------------
(***************************************************************************)
(* Clock and clients.                                                      *)
(***************************************************************************)
Tick ==
    /\ now < MaxTime
    /\ now' = now + 1
    /\ UNCHANGED <<sessionVars, seen, history>>

\* GET /sessions/current, /sessions and /sessions/{id}: a client reads a
\* session of its student, open or not.
ReadSession(c, s) ==
    /\ Exists(s)
    /\ row[s].user = UserOf[c]
    /\ seen' = [seen EXCEPT ![c] = [session |-> s, version |-> version[s]]]
    /\ UNCHANGED <<now, sessionVars, history>>

-----------------------------------------------------------------------------
(***************************************************************************)
(* POST /sessions/start.                                                   *)
(***************************************************************************)

\* The checks, read without a lock.  The goal must be the student's; the item
\* must exist, be of a cycle of that goal and of the same subject; its status
\* is not looked at.
StartCheck(c, g, i, x, at) ==
    /\ at <= now
    /\ ~ \E r \in starting : r.client = c
    /\ OpenSessions(UserOf[c]) = {}
    /\ GoalOwner[g] = UserOf[c]
    /\ i \in Items => /\ item[i] # "absent"
                      /\ ItemGoal[i] = g
                      /\ SubjectOf[i] = x
    /\ starting' = starting \cup
         {[client |-> c, goal |-> g, item |-> i, subject |-> x, at |-> at]}
    /\ UNCHANGED <<now, row, columns, openPause, item, mastery, seen, history>>

\* Mutant: the insert relies on the check made before it.
StartInsertNoIndex(r, s) ==
    /\ r \in starting
    /\ ~Exists(s)
    /\ starting' = starting \ {r}
    /\ row' = [row EXCEPT ![s] = [user |-> UserOf[r.client], goal |-> r.goal,
                                  item |-> r.item, subject |-> r.subject, started |-> r.at]]
    /\ status' = [status EXCEPT ![s] = "active"]
    /\ version' = [version EXCEPT ![s] = 1]
    /\ item' = IF r.item \in Items THEN [item EXCEPT ![r.item] = "in_progress"] ELSE item
    /\ lastAt' = [lastAt EXCEPT ![s] = r.at]
    /\ UNCHANGED <<now, paused, net, ended, openPause, mastery, seen, inOrder, studied, pauses>>

\* The insert commits if the unique index allows it, and with it the item.
StartInsert(r, s) ==
    /\ r \in starting
    /\ ~Exists(s)
    /\ OpenSessions(UserOf[r.client]) = {}
    /\ starting' = starting \ {r}
    /\ row' = [row EXCEPT ![s] = [user |-> UserOf[r.client], goal |-> r.goal,
                                  item |-> r.item, subject |-> r.subject, started |-> r.at]]
    /\ status' = [status EXCEPT ![s] = "active"]
    /\ version' = [version EXCEPT ![s] = 1]
    /\ item' = IF r.item \in Items THEN [item EXCEPT ![r.item] = "in_progress"] ELSE item
    /\ lastAt' = [lastAt EXCEPT ![s] = r.at]
    /\ UNCHANGED <<now, paused, net, ended, openPause, mastery, seen, inOrder, studied, pauses>>

\* Unique violation, failed statement or lost connection: rolled back.
StartAbort(r) ==
    /\ r \in starting
    /\ starting' = starting \ {r}
    /\ UNCHANGED <<now, row, columns, openPause, item, mastery, seen, history>>

-----------------------------------------------------------------------------
(***************************************************************************)
(* POST /sessions/{id}/pause, /resume, /complete and /cancel.              *)
(***************************************************************************)

\* What _transition checks under the row lock.  All four targets accept both
\* open states: the finer checks are in the actions.
MayTransition(c, at) ==
    LET s == seen[c].session
    IN  /\ s \in Sessions
        /\ row[s].user = UserOf[c]
        /\ version[s] = seen[c].version
        /\ IsOpen(s)
        /\ at <= now
        /\ version[s] < MaxVersion

\* The update of the session row common to all targets.
Step(s, target, at) ==
    /\ status' = [status EXCEPT ![s] = target]
    /\ version' = [version EXCEPT ![s] = @ + 1]
    /\ lastAt' = [lastAt EXCEPT ![s] = at]
    /\ inOrder' = [inOrder EXCEPT ![s] = @ /\ lastAt[s] <= at]
    /\ studied' = [studied EXCEPT ![s] =
                     @ + (IF status[s] = "active" THEN Positive(at - lastAt[s]) ELSE 0)]
    /\ pauses' = [pauses EXCEPT ![s] = @ + (IF target = "paused" THEN 1 ELSE 0)]

\* Mutant: a second open pause is accepted.
PauseAgain(c, at) ==
    LET s == seen[c].session IN
    /\ MayTransition(c, at)
    /\ at >= row[s].started
    /\ openPause' = [openPause EXCEPT ![s] = at]
    /\ Step(s, "paused", at)
    /\ UNCHANGED <<now, row, paused, net, ended, item, mastery, starting, seen>>

\* A second open pause violates one_open_pause_per_session.
Pause(c, at) ==
    LET s == seen[c].session IN
    /\ MayTransition(c, at)
    /\ openPause[s] = NoTime
    /\ at >= row[s].started
    /\ openPause' = [openPause EXCEPT ![s] = at]
    /\ Step(s, "paused", at)
    /\ UNCHANGED <<now, row, paused, net, ended, item, mastery, starting, seen>>

Resume(c, at) ==
    LET s == seen[c].session IN
    /\ MayTransition(c, at)
    /\ openPause[s] # NoTime
    /\ at >= openPause[s]
    /\ openPause' = [openPause EXCEPT ![s] = NoTime]
    /\ paused' = [paused EXCEPT ![s] = @ + Seconds(at - openPause[s])]
    /\ Step(s, "active", at)
    /\ UNCHANGED <<now, row, net, ended, item, mastery, starting, seen>>

\* Mutant: the pause that is still open is not counted.
PauseTotalClosedOnly(s, at) == paused[s]

\* Accumulated pause at the end of the session, the open pause included.
PauseTotal(s, at) ==
    paused[s] + (IF openPause[s] = NoTime THEN 0 ELSE Positive(Seconds(at - openPause[s])))

NetDuration(s, at) == Positive(Seconds(at - row[s].started) - PauseTotal(s, at))

\* Mutant: the open pause is left open.
FinishKeepsPause(s, at, target) ==
    /\ at >= row[s].started
    /\ ended' = [ended EXCEPT ![s] = at]
    /\ paused' = [paused EXCEPT ![s] = PauseTotal(s, at)]
    /\ net' = [net EXCEPT ![s] = NetDuration(s, at)]
    /\ Step(s, target, at)
    /\ UNCHANGED openPause

\* _session_update for a terminal status.  Closing a pause before it began
\* violates the CHECK of study_session_pauses and rolls the request back.
Finish(s, at, target) ==
    /\ at >= row[s].started
    /\ openPause[s] # NoTime => at >= openPause[s]
    /\ openPause' = [openPause EXCEPT ![s] = NoTime]
    /\ ended' = [ended EXCEPT ![s] = at]
    /\ paused' = [paused EXCEPT ![s] = PauseTotal(s, at)]
    /\ net' = [net EXCEPT ![s] = NetDuration(s, at)]
    /\ Step(s, target, at)

\* Mutant: the item is forgotten.
LeaveItemAlone(s, target) == item' = item

\* The status the session's item is left with, whatever it was before.
LeaveItem(s, target) ==
    item' = IF row[s].item \in Items THEN [item EXCEPT ![row[s].item] = target] ELSE item

Evidence(m, seconds) ==
    [count |-> m.count + 1, seconds |-> m.seconds + seconds,
     state |-> IF m.count + 1 >= 2 THEN "review" ELSE "in_progress"]

\* Mutant: the row is looked up without its goal.
RecordMasteryAnyGoal(s, seconds) ==
    \E g \in Goals :
        mastery' = [mastery EXCEPT ![MasteryKey(s)] =
                      Evidence(mastery[<<row[s].user, g, row[s].subject>>], seconds)]

\* _record_mastery
RecordMastery(s, seconds) ==
    mastery' = [mastery EXCEPT ![MasteryKey(s)] = Evidence(@, seconds)]

Complete(c, at) ==
    LET s == seen[c].session IN
    /\ MayTransition(c, at)
    /\ Finish(s, at, "completed")
    /\ LeaveItem(s, "completed")
    /\ RecordMastery(s, NetDuration(s, at))
    /\ UNCHANGED <<now, row, starting, seen>>

Cancel(c, at) ==
    LET s == seen[c].session IN
    /\ MayTransition(c, at)
    /\ Finish(s, at, "cancelled")
    /\ LeaveItem(s, "planned")
    /\ UNCHANGED <<now, row, mastery, starting, seen>>

-----------------------------------------------------------------------------
SessionNext ==
    \/ \E c \in Clients, s \in Sessions : ReadSession(c, s)
    \/ \E c \in Clients, g \in Goals, i \in Items \cup {NoItem}, x \in Subjects, at \in Time :
         StartCheck(c, g, i, x, at)
    \/ \E r \in starting, s \in Sessions : StartInsert(r, s)
    \/ \E r \in starting : StartAbort(r)
    \/ \E c \in Clients, at \in Time : Pause(c, at)
    \/ \E c \in Clients, at \in Time : Resume(c, at)
    \/ \E c \in Clients, at \in Time : Complete(c, at)
    \/ \E c \in Clients, at \in Time : Cancel(c, at)

Next == Tick \/ SessionNext

Spec == Init /\ [][Next]_vars

-----------------------------------------------------------------------------
(***************************************************************************)
(* Properties.                                                             *)
(***************************************************************************)

\* Every row and history variable holds a value of its column.
TypeOK ==
    /\ now \in Time
    /\ row \in [Sessions -> Row \cup {NoRow}]
    /\ status \in [Sessions -> {"absent"} \cup OpenStatus \cup ClosedStatus]
    /\ \A s \in Sessions : Exists(s) => row[s] \in Row
    /\ version \in [Sessions -> Nat]
    /\ paused \in [Sessions -> Nat]
    /\ net \in [Sessions -> Nat]
    /\ ended \in [Sessions -> Time \cup {NoTime}]
    /\ openPause \in [Sessions -> Time \cup {NoTime}]
    /\ item \in [Items -> ItemStatus]
    /\ mastery \in [MasteryKeys -> Mastery]
    /\ starting \subseteq StartRequest
    /\ seen \in [Clients -> View]
    /\ lastAt \in [Sessions -> Time]
    /\ inOrder \in [Sessions -> BOOLEAN]
    /\ studied \in [Sessions -> Nat]
    /\ pauses \in [Sessions -> Nat]

\* A student has at most one active or paused session, whatever his devices
\* do at the same time: start_session looks without a lock, and only the
\* unique index at the insert decides.
OneOpenSessionPerUser ==
    \A s, t \in Sessions :
        IsOpen(s) /\ IsOpen(t) /\ row[s].user = row[t].user => s = t

\* A session has an open pause exactly while it is paused.  The table of
\* allowed transitions accepts pause and resume in both open states, so the
\* pause rows alone keep the two in step.
OpenPauseIffPaused ==
    \A s \in Sessions : openPause[s] # NoTime <=> status[s] = "paused"

\* A plan item is in progress exactly while an open session works on it: no
\* path strands an item in progress, and none frees one being studied.
ItemHeldByOpenSession ==
    \A i \in Items :
        item[i] = "in_progress" <=> \E s \in Sessions : IsOpen(s) /\ row[s].item = i

\* The net duration computed at the end of a session, from its start, its
\* accumulated pauses and the pause still open, each cut off to whole seconds,
\* tells the time the session really was active between its events: it is less
\* than a second short, and over by less than a second for every pause, whose
\* fraction counts as study; and net and pause make up the whole.  All that
\* whenever the timestamps arrive in order.  (The code compares a pause with the
\* start of the session and an end with the open pause only, so a client that
\* sends timestamps out of order can have one second subtracted twice.)
NetIsTimeStudied ==
    \A s \in Sessions :
        status[s] \in ClosedStatus /\ inOrder[s] =>
            /\ studied[s] < TicksPerSecond * net[s] + TicksPerSecond
            /\ TicksPerSecond * net[s] <= studied[s] + pauses[s] * (TicksPerSecond - 1)
            /\ net[s] + paused[s] = Seconds(ended[s] - row[s].started)

CompletedOn(k) == {s \in Sessions : status[s] = "completed" /\ MasteryKey(s) = k}

\* topic_mastery never drifts from the sessions: the count and seconds of a
\* student under a goal are those of his completed sessions on the subject for
\* that goal, and it calls for review from the second one on.
MasteryIsEvidence ==
    \A k \in MasteryKeys :
        LET done == CompletedOn(k)
        IN  /\ mastery[k].count = Cardinality(done)
            /\ mastery[k].seconds = MapThenSumSet(LAMBDA s : net[s], done)
            /\ mastery[k].state = CASE done = {} -> "not_started"
                                    [] Cardinality(done) = 1 -> "in_progress"
                                    [] OTHER -> "review"

Follows(from, to) ==
    \/ from = "absent" /\ to = "active"
    \/ from = "active" /\ to \in {"paused"} \cup ClosedStatus
    \/ from = "paused" /\ to \in {"active"} \cup ClosedStatus

\* A session moves only along the documented life cycle, one version at a
\* time, and is frozen once it ended.
SessionLifeCycle ==
    [][\A s \in Sessions : version'[s] # version[s] \/ status'[s] # status[s] =>
         /\ Follows(status[s], status'[s])
         /\ version'[s] = version[s] + 1]_columns
=============================================================================
