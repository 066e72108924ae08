----------------------------- MODULE StudyPlan -----------------------------
(***************************************************************************)
(* The adaptive study plan of one student: apps/api/src/study_plan.py on   *)
(* the tables of database/migrations/009_adaptive_study_plan.sql, composed *)
(* with the study sessions, which work on the items a plan consists of.    *)
(*                                                                         *)
(* A proposal is a simulation kept for 30 minutes.  Confirming it writes   *)
(* one more revision of the goal's calendar; a replanning also cancels the *)
(* items of the calendar so far that are planned for the future and not    *)
(* being studied.  The confirmation locks the proposal and the goal and is *)
(* one step.  Creating a proposal is two: it looks for a pending draft and *)
(* inserts later, when a partial unique index arbitrates.                  *)
(*                                                                         *)
(* Dates: the student's calendar is in his own time zone, west of          *)
(* Greenwich, and the database runs in UTC.  Every evening CURRENT_DATE is *)
(* therefore already tomorrow's date.                                      *)
(*                                                                         *)
(* Abstracted: the calendar engine (module PlanEngine).  A proposal holds  *)
(* the days it plans; all that it plans for one day is one item that fills *)
(* the student's availability of that day, and a cycle row is implied by   *)
(* its items: <<p, d, g>> is the item of proposal p for day d in a cycle   *)
(* of goal g, the goal that the confirmation finds or creates.             *)
(* PrepareGoal is POST /goals together with the activation of a syllabus   *)
(* for the new goal.  The recalculation that a confirmation compares with  *)
(* the stored snapshot is deterministic and always agrees.                 *)
(***************************************************************************)
EXTENDS StudySession

CONSTANTS
    Proposals,  \* identifiers of study_plan_proposals rows
    NoGoal,     \* the goal_id of a proposal made for an exam, until confirmed
    NoProposal,
    MaxDay,     \* bound of the model: the last day, which has no evening
    Horizons,   \* bound of the model: the sets of days a proposal may plan
    MaxProposing \* bound of the model: requests for a proposal in flight

Days == 1 .. MaxDay

ASSUME PlanAssumption ==
    /\ MaxDay \in Nat \ {0}
    /\ Items = Proposals \X Days \X Goals
    /\ \A i \in Items : ItemGoal[i] = i[3]
    /\ Horizons \subseteq SUBSET Days
    /\ MaxProposing \in Nat
    /\ NoGoal \notin Goals
    /\ NoProposal \notin Proposals

VARIABLES
    today,      \* the student's date
    evening,    \* the database's date is already the next one
    prop,       \* study_plan_proposals.status
    overdue,    \* expires_at has passed
    kind,       \* study_plan_proposals.proposal_type
    goalOf,     \* study_plan_proposals.goal_id
    days,       \* the days the proposal plans
    revision,   \* study_cycles.plan_revision of the proposal's cycles
    goal,       \* study_goals: absent, inactive or active
    available,  \* the proposal whose availability the profile holds
    proposing,  \* proposals that were checked and not yet inserted
    cut         \* history: CURRENT_DATE when the proposal was confirmed

proposals == <<prop, overdue, kind, goalOf, days, revision, proposing>>
calendar == <<today, evening>>
planVars == <<calendar, proposals, goal, available, cut>>

CurrentDate == IF evening THEN today + 1 ELSE today

Request == [kind : {"create", "replan"}, goal : Goals \cup {NoGoal},
            days : Horizons, stale : SUBSET Proposals]

Drafts == {p \in Proposals : prop[p] = "draft"}
Confirmed == {p \in Proposals : prop[p] = "confirmed"}
ActiveGoals == {g \in Goals : goal[g] = "active"}

\* The items an open session works on.
Studying == {i \in Items : \E s \in Sessions : IsOpen(s) /\ row[s].item = i}

PlanInit ==
    /\ InitialSessions
    /\ item = [i \in Items |-> "absent"]
    /\ today = 1
    /\ evening = FALSE
    /\ prop = [p \in Proposals |-> "absent"]
    /\ overdue = [p \in Proposals |-> FALSE]
    /\ kind = [p \in Proposals |-> "create"]
    /\ goalOf = [p \in Proposals |-> NoGoal]
    /\ days = [p \in Proposals |-> {}]
    /\ revision = [p \in Proposals |-> 0]
    /\ goal = [g \in Goals |-> "absent"]
    /\ available = NoProposal
    /\ proposing = {}
    /\ cut = [p \in Proposals |-> 0]

-----------------------------------------------------------------------------
(***************************************************************************)
(* Time.                                                                   *)
(***************************************************************************)
Evening ==
    /\ ~evening
    /\ today < MaxDay
    /\ evening' = TRUE
    /\ UNCHANGED <<vars, today, proposals, goal, available, cut>>

Midnight ==
    /\ evening
    /\ today < MaxDay
    /\ today' = today + 1
    /\ evening' = FALSE
    /\ UNCHANGED <<vars, proposals, goal, available, cut>>

\* 30 minutes after the proposal was made.
PassExpiry(p) ==
    /\ prop[p] = "draft"
    /\ ~overdue[p]
    /\ overdue' = [overdue EXCEPT ![p] = TRUE]
    /\ UNCHANGED <<vars, calendar, prop, kind, goalOf, days, revision, proposing,
                   goal, available, cut>>

-----------------------------------------------------------------------------
(***************************************************************************)
(* Goals.                                                                  *)
(***************************************************************************)
PrepareGoal(g) ==
    /\ goal[g] = "absent"
    /\ goal' = [goal EXCEPT ![g] = "inactive"]
    /\ UNCHANGED <<vars, calendar, proposals, available, cut>>

\* POST /goals/{id}/activate.  Nothing deactivates a goal: while another one
\* is active the index one_active_goal_per_user refuses the update.
ActivateGoal(g) ==
    /\ goal[g] # "absent"
    /\ ActiveGoals \subseteq {g}
    /\ goal' = [goal EXCEPT ![g] = "active"]
    /\ UNCHANGED <<vars, calendar, proposals, available, cut>>

-----------------------------------------------------------------------------
(***************************************************************************)
(* POST /plan/proposals, /plan/replan/proposals and /plan, GET             *)
(* /plan/proposals/current, POST /plan/proposals/{id}/cancel.              *)
(***************************************************************************)

\* A draft whose expiry another request has written and not committed.
Locked(p) == \E r \in proposing : p \in r.stale

\* The simulation, the expiry of overdue drafts and the search for a draft.
\* Only a plan for an existing goal can be a replanning.
ProposeCheck(k, g, ds) ==
    /\ g \in Goals => goal[g] # "absent"
    /\ k = "replan" => g \in Goals
    /\ \A p \in Drafts : overdue[p] /\ ~Locked(p)
    /\ Cardinality(proposing) < MaxProposing
    /\ proposing' = proposing \cup {[kind |-> k, goal |-> g, days |-> ds, stale |-> Drafts]}
    /\ UNCHANGED <<vars, calendar, prop, overdue, kind, goalOf, days, revision,
                   goal, available, cut>>

\* Mutant: the insert relies on the search made before it.
ProposeInsertNoIndex(r, p) ==
    /\ r \in proposing
    /\ prop[p] = "absent"
    /\ proposing' = proposing \ {r}
    /\ prop' = [q \in Proposals |-> IF q = p THEN "draft"
                                    ELSE IF q \in r.stale THEN "expired" ELSE prop[q]]
    /\ kind' = [kind EXCEPT ![p] = r.kind]
    /\ goalOf' = [goalOf EXCEPT ![p] = r.goal]
    /\ days' = [days EXCEPT ![p] = r.days]
    /\ UNCHANGED <<vars, calendar, overdue, revision, goal, available, cut>>

\* The insert, refused by one_draft_plan_proposal_per_user if another request
\* inserted first, and the commit of the expiry.
ProposeInsert(r, p) ==
    /\ r \in proposing
    /\ prop[p] = "absent"
    /\ Drafts \subseteq r.stale
    /\ proposing' = proposing \ {r}
    /\ prop' = [q \in Proposals |-> IF q = p THEN "draft"
                                    ELSE IF q \in r.stale THEN "expired" ELSE prop[q]]
    /\ kind' = [kind EXCEPT ![p] = r.kind]
    /\ goalOf' = [goalOf EXCEPT ![p] = r.goal]
    /\ days' = [days EXCEPT ![p] = r.days]
    /\ UNCHANGED <<vars, calendar, overdue, revision, goal, available, cut>>

ProposeAbort(r) ==
    /\ r \in proposing
    /\ proposing' = proposing \ {r}
    /\ UNCHANGED <<vars, calendar, prop, overdue, kind, goalOf, days, revision,
                   goal, available, cut>>

\* Asking for the pending proposal expires it when its time has passed.
CurrentProposal ==
    /\ \E p \in Drafts : overdue[p] /\ ~Locked(p)
    /\ prop' = [p \in Proposals |->
                  IF p \in Drafts /\ overdue[p] /\ ~Locked(p) THEN "expired" ELSE prop[p]]
    /\ UNCHANGED <<vars, calendar, overdue, kind, goalOf, days, revision, proposing,
                   goal, available, cut>>

\* An overdue draft may still be cancelled.
CancelProposal(p) ==
    /\ prop[p] = "draft"
    /\ ~Locked(p)
    /\ prop' = [prop EXCEPT ![p] = "cancelled"]
    /\ UNCHANGED <<vars, calendar, overdue, kind, goalOf, days, revision, proposing,
                   goal, available, cut>>

-----------------------------------------------------------------------------
(***************************************************************************)
(* POST /plan/proposals/{id}/confirm.                                      *)
(***************************************************************************)

\* Mutant: a proposal is refused only once it is confirmed.
MayConfirmUnlessConfirmed(p) == prop[p] \notin {"absent", "confirmed"} /\ ~overdue[p]

\* Marking an overdue draft expired is rolled back with the refusal.
MayConfirm(p) == prop[p] = "draft" /\ ~overdue[p]

\* Mutant: the past is cancelled too.
SupersededAnyDay(g) ==
    {i \in Items : i[3] = g /\ item[i] = "planned" /\ i \notin Studying}

\* Mutant: only what follows the current date is cancelled.
SupersededAfterToday(g) ==
    {i \in Items : /\ i[3] = g
                   /\ item[i] = "planned"
                   /\ i[2] > CurrentDate
                   /\ i \notin Studying}

\* What a replanning of the goal cancels.
Superseded(g) ==
    {i \in Items : /\ i[3] = g
                   /\ item[i] = "planned"
                   /\ i[2] >= CurrentDate
                   /\ i \notin Studying}

\* The revision after the last one that has a cycle.
NextRevision(g) ==
    1 + Max({0} \cup {revision[q] : q \in {q \in Confirmed : goalOf[q] = g /\ days[q] # {}}})

\* Mutant: a replanning deletes the items it supersedes.
MaterialiseDeleting(p, g, superseded) ==
    /\ prop' = [prop EXCEPT ![p] = "confirmed"]
    /\ goalOf' = [goalOf EXCEPT ![p] = g]
    /\ revision' = [revision EXCEPT ![p] = NextRevision(g)]
    /\ item' = [i \in Items |-> IF i[1] = p /\ i[2] \in days[p] /\ i[3] = g THEN "planned"
                                ELSE IF i \in superseded THEN "absent" ELSE item[i]]
    /\ goal' = [goal EXCEPT ![g] = "active"]
    /\ available' = p
    /\ cut' = [cut EXCEPT ![p] = CurrentDate]

\* The goal becomes active and receives the proposal's items.
Materialise(p, g, superseded) ==
    /\ prop' = [prop EXCEPT ![p] = "confirmed"]
    /\ goalOf' = [goalOf EXCEPT ![p] = g]
    /\ revision' = [revision EXCEPT ![p] = NextRevision(g)]
    /\ item' = [i \in Items |-> IF i[1] = p /\ i[2] \in days[p] /\ i[3] = g THEN "planned"
                                ELSE IF i \in superseded THEN "cancelled" ELSE item[i]]
    /\ goal' = [goal EXCEPT ![g] = "active"]
    /\ available' = p
    /\ cut' = [cut EXCEPT ![p] = CurrentDate]

\* What a confirmation leaves alone.
Undisturbed == <<now, row, columns, openPause, mastery, starting, seen, history,
                 calendar, overdue, kind, days, proposing>>

\* Mutant: a second goal is activated next to the first one.
ConfirmForExamAnyway(p, g) ==
    /\ MayConfirm(p)
    /\ goalOf[p] = NoGoal
    /\ goal[g] = "absent"
    /\ Materialise(p, g, {})
    /\ UNCHANGED Undisturbed

\* A plan for an exam creates its goal, unless the student has an active one.
ConfirmForExam(p, g) ==
    /\ MayConfirm(p)
    /\ goalOf[p] = NoGoal
    /\ ActiveGoals = {}
    /\ goal[g] = "absent"
    /\ Materialise(p, g, {})
    /\ UNCHANGED Undisturbed

\* A plan for an existing goal activates it, which the index refuses while
\* another one is active: then everything is rolled back.
ConfirmForGoal(p, g) ==
    /\ MayConfirm(p)
    /\ goalOf[p] = g
    /\ ActiveGoals \subseteq {g}
    /\ Materialise(p, g, IF kind[p] = "replan" THEN Superseded(g) ELSE {})
    /\ UNCHANGED Undisturbed

-----------------------------------------------------------------------------
Propose ==
    \/ \E k \in {"create", "replan"}, g \in Goals \cup {NoGoal}, ds \in Horizons :
         ProposeCheck(k, g, ds)
    \/ \E r \in proposing, p \in Proposals : ProposeInsert(r, p)
    \/ \E r \in proposing : ProposeAbort(r)

PlanStep ==
    \/ Evening \/ Midnight
    \/ \E p \in Proposals : PassExpiry(p)
    \/ \E g \in Goals : PrepareGoal(g) \/ ActivateGoal(g)
    \/ Propose
    \/ CurrentProposal
    \/ \E p \in Proposals : CancelProposal(p)
    \/ \E p \in Proposals, g \in Goals : ConfirmForExam(p, g) \/ ConfirmForGoal(p, g)

\* A session is started for a goal that exists.
SessionStep ==
    /\ Next
    /\ \A r \in starting' : goal[r.goal] # "absent"
    /\ UNCHANGED planVars

PlanNext == PlanStep \/ SessionStep

PlanSpec == PlanInit /\ [][PlanNext]_<<vars, planVars>>

-----------------------------------------------------------------------------
(***************************************************************************)
(* Properties.                                                             *)
(***************************************************************************)

\* Every column holds a value of its type; only a confirmed proposal has a
\* revision, and it has a goal.
PlanTypeOK ==
    /\ TypeOK
    /\ today \in Days
    /\ evening \in BOOLEAN
    /\ prop \in [Proposals -> {"absent", "draft", "confirmed", "expired", "cancelled"}]
    /\ overdue \in [Proposals -> BOOLEAN]
    /\ kind \in [Proposals -> {"create", "replan"}]
    /\ goalOf \in [Proposals -> Goals \cup {NoGoal}]
    /\ days \in [Proposals -> Horizons \cup {{}}]
    /\ revision \in [Proposals -> Nat]
    /\ goal \in [Goals -> {"absent", "inactive", "active"}]
    /\ available \in Proposals \cup {NoProposal}
    /\ proposing \subseteq Request
    /\ cut \in [Proposals -> Nat]
    /\ \A p \in Proposals : /\ revision[p] > 0 <=> prop[p] = "confirmed"
                            /\ prop[p] = "confirmed" => goalOf[p] \in Goals

\* Whatever requests race, a student has one proposal to answer at a time.
OneDraftPerUser == Cardinality(Drafts) <= 1

\* An item exists exactly if the confirmed proposal it points to planned its
\* day, and in a cycle of that proposal's goal: no proposal that expired or was
\* cancelled has items, and no replanning removes one.
ItemsHaveProvenance ==
    \A i \in Items :
        item[i] # "absent" <=>
            prop[i[1]] = "confirmed" /\ i[2] \in days[i[1]] /\ i[3] = goalOf[i[1]]

\* All confirmed calendars belong to the one active goal; those that hold
\* items are numbered in the order of confirmation, and the availability kept
\* in the profile is that of the last one.
OneCalendar ==
    \A p, q \in Confirmed :
        /\ goalOf[p] = goalOf[q]
        /\ goal[goalOf[p]] = "active"
        /\ revision[p] = revision[q] => p = q \/ days[p] = {} \/ days[q] = {}
        /\ revision[available] >= revision[p]

WorkedOn(i, s) == status[s] = "cancelled" /\ row[s].item = i

\* Once a replanning is confirmed, nothing that an earlier revision planned
\* for that day (of the database) or later waits to be studied any more: it
\* was studied, is being studied, or is cancelled.  The one way back is a
\* session that had begun on it and is cancelled after the replanning.
ReplanSupersedes ==
    \A r, p \in Confirmed :
        kind[r] = "replan" /\ goalOf[p] = goalOf[r] /\ revision[p] < revision[r] =>
            \A d \in days[p] :
                d >= cut[r] /\ item[<<p, d, goalOf[p]>>] = "planned" =>
                    \E s \in Sessions : WorkedOn(<<p, d, goalOf[p]>>, s)

\* A confirmation never rewrites the past: the items it touches are its own
\* and those, neither begun nor finished, whose day is not over for the
\* student or the database.
HistoryKept ==
    [][prop' # prop =>
         \A i \in Items : item'[i] # item[i] =>
             \/ item[i] = "absent" /\ item'[i] = "planned" /\ prop'[i[1]] # prop[i[1]]
             \/ /\ item[i] = "planned" /\ item'[i] = "cancelled"
                /\ i[2] >= today
                /\ i \notin Studying]_<<item, prop>>

\* A proposal is answered once: it leaves the state draft for good, and is
\* never confirmed after its 30 minutes.
ProposalLifeCycle ==
    [][\A p \in Proposals : prop'[p] # prop[p] =>
         \/ prop[p] = "absent" /\ prop'[p] = "draft"
         \/ prop[p] = "draft" /\ prop'[p] = "cancelled"
         \/ prop[p] = "draft" /\ prop'[p] = "expired" /\ overdue[p]
         \/ prop[p] = "draft" /\ prop'[p] = "confirmed" /\ ~overdue[p]]_prop

(***************************************************************************)
(* What the documentation says and the code does not keep.                 *)
(***************************************************************************)

\* docs/06-MODELO-ACADEMICO.md: the daily calendar never exceeds the local
\* availability of the profile.  Each item fills its day, so two items that
\* wait for the same day do.  A proposal made with the goal's id and not as a
\* replanning is confirmed on top of the calendar the goal already has.
DailyCapacity ==
    \A d \in Days : Cardinality({i \in Items : i[2] = d /\ item[i] = "planned"}) <= 1

\* docs/12-PLANEJADOR-ADAPTATIVO.md: dates are interpreted in the time zone
\* of the profile.  The replanning compares them with CURRENT_DATE, so in the
\* evening what is still planned for the student's day stays planned.
ReplanDatesAreLocal ==
    [][\A p \in Proposals :
         prop[p] = "draft" /\ prop'[p] = "confirmed" /\ kind[p] = "replan" =>
             \A i \in Items :
                 i[1] # p /\ i[2] >= today /\ i \notin Studying => item'[i] # "planned"]_<<item, prop>>
=============================================================================
