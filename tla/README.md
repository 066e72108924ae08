# Mentor Concursos in TLA+

Formal models of *Mentor Concursos*, a study mentor for Brazilian public
examinations: a FastAPI service over PostgreSQL, an ingestion worker, a Telegram
dispatcher and a command-line skill. The modules below are translated from the
code; TLC checks them on small instances and TLAPS proves their most important
properties for every instance.

1. [The system](#1-the-system)
2. [Modules](#2-modules)
3. [Runs](#3-runs)
4. [Proofs](#4-proofs)
5. [Where code and documentation disagree](#5-where-code-and-documentation-disagree)
6. [What is not modelled](#6-what-is-not-modelled)
7. [Plan](#7-plan)

Run a model with `tlc -workers 2 -config X.cfg M` and the proofs with
`tlapm M_proofs.tla`. `PROJECT.json` maps each definition to the lines it models.

## 1. The system

| component | state | operations | interacts with |
|---|---|---|---|
| Study sessions (`apps/api/src/academic.py`) | `study_sessions`, `study_session_pauses`, `study_plan_items.status`, `topic_mastery` | start, pause, resume, complete, cancel, reads | plan items are created by the plan; every mutation goes through `_mutate` |
| Idempotent mutations (`academic.py`: `_mutate`) | `idempotency_keys` | lookup, insert, operation, finish, commit | wraps every mutation of the API; used by both clients |
| Adaptive plan (`study_plan.py`) | `study_plan_proposals`, `study_goals`, `study_cycles`, `study_plan_items`, availability in `user_profiles` | propose, current, cancel, confirm, replan | calls the engine; cancels items that sessions may be working on |
| Calendar engine (`study_plan_engine.py`) | none (pure) | `largest_remainder`, `_blocks`, `build_plan` | called at proposal and again at confirmation |
| Goals, syllabi, cycles by hand (`academic.py`) | `study_goals`, `syllabus_versions`, `study_cycles` | create, import, activate | row locks and unique indexes: one active goal, syllabus, cycle |
| Practice (`practice.py`) | `practice_questions`, `practice_attempts`, `practice_review_items`, `practice_error_book`, `practice_runs` | create a question or a simulation, answer, cancel, due reviews | cites versions of the knowledge base and locks them while an answer is graded |
| Knowledge base (`knowledge.py`, `knowledge_review.py`, `books.py`, `process-pilot-source.py`, `source_refresh.py`) | `knowledge_sources`, `knowledge_source_versions`, `knowledge_chunks`, `source_reviews` | create a source, add a version, upload a book, process, approve, reject, refresh, retrieve | requests jobs, any number per version; the processing script completes the one it is given |
| Ingestion worker (`main.py`, `pipeline.py` of `apps/worker/src`) | `ingestion_jobs`: lease, attempts, next attempt | claim, handle, report a failure | one job per version and key of a request |
| Telegram dispatcher (`infra/hermes/mentor_telegram_dispatcher.py`) | in memory, per chat: the question that waits for an answer (`CURRENT`), the conversation about a plan (`PLAN_FLOWS`), offers | commands, conversation, confirmation | calls the API in threads, without a retry, under a key derived from the message |
| Command-line skill (`infra/hermes/skills/mentor-study`) | none | one command per call, retried once under the same key | calls the API |
| Signed context, rate limits (`auth.py`, `rate_limit.py`) | nonces and counters in Redis | accept a context once, count a request | in front of the academic and of the internal routes |
| Migrations, roles, topic tree (`scripts`, `database`) | `schema_migrations`, `users.role`, `topics` | apply, promote, demote, move | a database lock or trigger each |

The components meet in the database. The API keeps no state in its process: a
request is a transaction at READ COMMITTED, so what is hard about it is what two
transactions may do between each other's statements, and which unique index, row
lock or version column arbitrates. The dispatcher is the opposite: one process,
coroutines, and dictionaries that a handler reads before it awaits the API and
writes after it.

**What is hard.** Two devices of one student start a session at the same time. A
client changes a session from a copy another device has outdated. A client gives
up on a request that is still running and sends it again. A process dies between
statements, or with a job under its lease. A worker reports on a job that is no
longer its own. A search reads the knowledge base twice while a review commits.
A draft expires while it is being answered. A replanning cancels items while one
of them is being studied. A text is withdrawn while an answer about it is graded.
Transactions take the locks of one goal in an order that can close a cycle. A
message of a chat is handled while the one before awaits the API, a call that was
given up is performed later, a restart forgets the conversation and has messages
delivered again. Dates of the student and of the
database differ every evening. Rounding must neither lose nor invent minutes.
`PROJECT.json` lists each hazard at its line with the properties that cover it.

**What makes each component correct.**

- *Sessions*: one open session per student; the pause rows, the status and the
  item status agree whatever is interleaved; the net duration tells the time
  really studied, but for the fractions of seconds that are cut off; the mastery
  counters of a goal are those of its completed sessions.
- *Mutations*: an operation takes effect at most once per key; whoever is told
  of a success is told the truth; no crash separates a key from its effect; no
  request waits for ever.
- *Plan*: one draft at a time, answered once and in time; an item exists exactly
  if its confirmed proposal planned it; all calendars belong to the active goal;
  a replanning supersedes the future and never the past or an open session.
- *Engine*: capacity and budgets are respected, rounding is fair, nothing that
  could be scheduled is given up, the loops end.
- *Queue*: a job is under a lease exactly while an attempt is open; only its own
  worker, time or the end of the work takes it from there; a job fails only when
  its attempts are used up; a finished job is not opened again.
- *Knowledge base*: a source has one indexed version at most; a version, its
  chunks and its decision tell the same story; nothing is quoted that was not
  approved or is the user's own; accepted content is replaced, never withdrawn.
- *Practice*: the review schedule and the error book tell what the attempts tell;
  one simulation at a time; nothing is graded on text out of service.
- *Activation*: activations of one goal take turns, so the index refuses none;
  they deadlock only when one repeats what is so already; all of them end.
- *Dispatcher*: a success or a refusal that a reply claims is true (the sentence
  for a call that timed out claims more than is known, section 5); a message
  has one effect however often it is delivered; the chat confirms only a plan whose
  summary it showed.

## 2. Modules

```
 StudySession ──── EXTENDS ──── StudyPlan          Idempotency ── refines ── AtMostOnce
      │                             │                   │
 MCStudySession               MCStudyPlan         MCIdempotency       PlanEngine ── MCPlanEngine
                              StudyPlan_proofs    Idempotency_proofs       │
                                    │                                PlanEngine_proofs
                                    └─────────────── Sums ─────────────────┘

 IngestionQueue ── EXTENDS ── KnowledgeBase
                                    │
                             MCKnowledgeBase, KnowledgeBase_proofs

 TelegramDispatcher                 Practice                 Activation (with its cfg)
      │                                │                        │
 MCTelegramDispatcher               MCPractice               Activation_proofs
 TelegramDispatcher_proofs          Practice_proofs
```

### StudySession

`row`, `status`, `version`, `paused`, `net` and `ended` are the columns of
`study_sessions`; `openPause` is the row of `study_session_pauses` without an
end; `item` and `mastery` are the columns of `study_plan_items` and
`topic_mastery` that sessions write, the latter per student, goal and subject
(`MasteryKeys`: the active topics of a subject all receive the same evidence).
`seen` is what each device knows.

A timestamp is a number of ticks, `TicksPerSecond` to a second. The columns hold
whole seconds: `Seconds` is `int(d.total_seconds())`, which cuts the length of each
pause (in `Resume` and `PauseTotal`) and of the session (in `NetDuration`) off by
itself.

| action | code |
|---|---|
| `StartCheck`, `StartInsert`, `StartAbort` | `start_session`: the checks take no lock, so other transactions run between them and the insert; the index `one_open_session_per_user` decides there |
| `Pause`, `Resume`, `Complete`, `Cancel` | `_transition`: the row is locked first, so a transition is one step, with `_session_update` and `_record_mastery` in it |
| `ReadSession` | the `GET` routes; a client's copy may be stale when it acts on it |
| `Tick` | the clock; a client states the time of an event, never later than now |

The table of allowed transitions in the code lets all four targets start from
both open states. The finer rules come from the pause rows: a second open pause
violates an index, a resume finds no open pause. The model has those rules and
not the documented life cycle, and `SessionLifeCycle` is then a consequence.
`lastAt`, `inOrder`, `studied` and `pauses` are history variables for
`NetIsTimeStudied`. What is cut off a pause counts as study: the net duration may
exceed the time studied, by less than a second for every pause, and falls short
of it by less than a second in all. That is what the property says; the equality
of both is true only of timestamps in whole seconds, which the API does not ask
for (`academic.py:146-151`).

The comparison of versions in `_transition` is a guard of the transition's own
step, which holds the lock of the row. That a stale request is refused is then no
property of its own; what it rests on is: `SessionLifeCycle` says that no change of
a session leaves its version as it was.

### Idempotency and AtMostOnce

One request is one transaction: `pc` is its place in `_mutate`. `writer` is the
uncommitted row of a key that makes other inserts wait; `stored` the committed
one. Clients send a command, wait, and send it again under the same key
(`MaxAttempts` = 2 for the skill, 1 for the dispatcher); the earlier request may
still be running. `Crash` rolls back at any point before the commit. `AtMostOnce`
is the promise of `docs/adr/ADR-012`: a key is performed once and every later
success is a replay with the same payload. `AtMostOnceSpec` is the refinement
`performed <- stored`, `reply <- the request an answer reports`.

### StudyPlan

Extends `StudySession`: a plan's items are the items sessions work on, and every
step is a step of one of the two. `ProposeCheck`/`ProposeInsert` are the two ends
of `create_proposal` (search, then insert under
`one_draft_plan_proposal_per_user`), with the overdue drafts it has expired and
not committed locked in between. `ConfirmForExam` and `ConfirmForGoal` are the two
paths of `_persist_confirmed`, with the whole of the materialisation in one step,
since the proposal and goal rows are locked and one transaction rolls everything
back. A confirmation that fails half-way is therefore outside the model.
`SessionStep` is a step of a session, started only for a goal that exists; the items
`<<p, d, g>>` belong to the goal of the cycle they are written to.
`Evening` and `Midnight` make the database's
`CURRENT_DATE` run ahead of the student's date.

The engine is replaced by the set of days a proposal plans, an item filling its
day; `PlanEngine` models what happens inside a day.

### PlanEngine

`LargestRemainder`, `Cut`, `Blocks` and `Available` (the days of the horizon that
have any time) are the pure functions; the actions are passes of the loops of
`build_plan`. Subjects are numbered in the order of the
syllabus and come with their adaptive weight, an integer of at least 1. The model
was compared with the Python engine on sample plans.

### IngestionQueue

`job` is a row of `ingestion_jobs`: status, attempts, owner, whether its lease is
live or has run out, and whether its next attempt is due. `worker` is what
`consume_once` is doing in each process.

| action | code |
|---|---|
| `Enqueue` | the upsert of `POST /versions/{id}/ingest` |
| `Claim` | `claim_job`: a claimable row, any of them since rows that others have locked are passed over (`SKIP LOCKED`), and the lines of `consume_once` before its `try` |
| `HandlerReturns`, `HandlerFails` | the `try` block; the failure is written for the row the worker still owns, with the number of attempts of the row it claimed |
| `LeaseExpires`, `RetryDue` | 300 seconds and one minute pass |
| `Crash`, `Restart` | the process dies anywhere; the container comes back |

The repository registers no handler (`HANDLERS` is empty), so handlers are
external: one returns, after which the worker writes nothing, or raises.

`ClaimedColumns` are the columns of the row that `claim_job` hands over. In the
code it is a row of `ingestion_jobs`, which has no `source_type`
(`JobColumns`); the unit tests put a row that has one in its place. With the
code's row the first claim ends the process (section 5); `knowledge_base` takes
the row of the tests, without which nothing after the claim (`main.py:92-112`)
could be reached.

### KnowledgeBase

Extends `IngestionQueue`; its jobs are pairs of a version and the key of the
request, which is what the upsert conflicts on (`knowledge.py:254`). `source`, `version`, `chunks`
and `storage` are the columns of the three tables (the chunks of a version change
together), `reviews` the decisions about a version, `found` and `answer` what the
two searches of `retrieve` saw.

| action | code |
|---|---|
| `CreateSource`, `CreateVersion`, `RequestIngest` | the routes of `knowledge.py` |
| `UploadBook` | the transaction of `books.py`: indexed at once, for its owner |
| `Refresh` | `apply_update`: a text not seen before becomes a quarantined version |
| `ProcessVersion` | the transaction of `process-pilot-source.py`, which completes the job it is given, of whatever version and whoever holds it |
| `Approve`, `Reject` | `review_knowledge_version`, with the versions it supersedes |
| `SearchLexical`, `SearchVector` | the two statements of `retrieve` |

Three things the code does are worth knowing. A version created by the API stays
`received`: no code takes it further, since only quarantined versions are
processed. An older text that a site publishes again is reported as a change and
has its version already, so nothing is stored. A storage key of a refresh or a
book is made of the text alone and is unique in the table: when two sources
publish the same text the second transaction fails.

`process_fixture_text` is not an action: it writes a job status that the CHECK of
the column does not allow, so its transaction always rolls back.

### Practice

`cites`, `attempts`, `review`, `book` and `run` are the five tables of migration
005 for one student; `served` says which versions are indexed, of an approved
source. `answering` are the transactions of `answer_question` after their
`SELECT ... FOR UPDATE`, `creating` those of questions and simulations between
the evidence they found and their insert.

| action | code |
|---|---|
| `FindEvidence`, `CreateQuestion`, `CreateSimulation`, `CreateFails` | `_indexed_chunks` takes no lock; the inserts come later, and the index `practice_runs_one_active_idx` decides between two simulations, taking the questions with it when it refuses |
| `BeginAnswer` | the question is locked with its version, source and chunk, and the review row is read |
| `CommitAnswer`, `AnswerFails` | the attempt, the review row computed from what was read, and the error book, or nothing |
| `CancelPractice` | every active run; nothing in the code completes one |
| `Publish`, `Withdraw` | the knowledge base, which has to wait for the locks of an answer |

### Activation

The statements of `activate_syllabus` and `activate_cycle`, which have the same
shape: `SELECT ... JOIN study_goals ... FOR UPDATE` locks the row (`LockRow`) and,
since it names no table, the goal (`LockGoal`); one `UPDATE` finds the active rows
(`FindVictims`) and waits for them (`LockVictims`); a second one promotes the row
under a partial unique index (`Promote`). A confirmation of a plan holds the goal
too and is a request without a row (`NoRow`). `ResolveDeadlock` is PostgreSQL's
deadlock detector.

Own row first and goal second is against the order of the `UPDATE`, which needs
the rows of others while it holds the goal. It is harmless unless a request locks
the row that is active already: only then does another one wait for it.

### TelegramDispatcher

One chat. A handler (`task`) is a coroutine that begins, calls the API and goes on
when the answer is there or 30 seconds have passed; `net` are the calls the API
has not dealt with, among them those nobody waits for any more. `question` is
`CURRENT`; `flow` is the record of `PLAN_FLOWS`, and `holders` are the handlers
whose reference is to that very record and not to one replaced since.

| action | code |
|---|---|
| `Arrive` | `guarded`: a command or a text of the chat |
| `BeginPractice`, `BeginAnswer`, `BeginPlan`, `BeginReply` | the lines of a handler before its first await |
| `Collect`, `LeaveFlow`, `FlowTooOld` | `_plan_reply` without a call: an answer is stored, "cancelar", 30 minutes of silence |
| `QuestionAsked` ... `PlanCreated` | what each handler does with the answer of the API |
| `Refused`, `GiveUp` | an HTTP error; a timeout, a broken connection or an unreadable body |
| `Restart` | the gateway restarts: handlers and memory are gone, a message that was not answered may be delivered again |
| `ReadCurrent` ... `Drop`, `Elsewhere` | the API as its clients see it, one step per request, and other clients |

The effects of the API are recorded per message and body, which is what
`_begin_idempotency` does with the key of `_call_bytes`; `Idempotency` shows that
the API keeps that promise. `shown` and `revealed` are history variables.

`/responder` removes whatever question the chat keeps when the answer is back, and
a late answer to `/questao` stores one: a newer question may be dropped unanswered.
A conversation of which a handler still awaits something may be replaced: the
handler then writes to a record nobody reads, and its proposal is reached again
only by `/plano`.

## 3. Runs

| run | shows | distinct states |
|---|---|---|
| `study_session` | the invariants of sessions, pauses, items and mastery; life cycle | 990,640 |
| `session_clock` | `NetIsTimeStudied` on a clock finer than a second | 434,023 |
| `idempotency` | effects, answers, keys, refinement of `AtMostOnce`, every request ends | 21,204 |
| `study_plan` | drafts, provenance, revisions, replanning, item status under both modules | 1,511,478 |
| `plan_engine` | capacity, budgets, fairness of rounding, blocks, no waste, termination | 8,688 |
| `knowledge_base` | versions, chunks and decisions agree, and so do jobs and leases; answers; leases; life cycle of content | 234,374 |
| `telegram` | true replies, one effect per message, confirmation of what was shown, no revealed question kept | 1,152,468 |
| `practice` | review row and error book agree with the attempts; one simulation; grading on text in service | 171,250 |
| `activation` | no refusal by the index, which deadlocks there are, every request ends | 35,964 |
| `layered_calendar`, `evening_replan`, `accepted_content` | counterexamples, see section 5 | |

The type invariants of the modules with proofs are theorems and not repeated in
the runs; that of `PlanEngine` is a part of `BudgetsConserved`.

**Bounds.**

- `study_session`: one student with two devices and two goals, two sessions, one
  item, `MaxTime` 1, one tick per second, `MaxVersion` 3. Two devices are what races
  need; the second session is needed for a second start and for the mastery to
  accumulate and reach `review` under one goal, or to begin under the other. Three
  versions allow start, pause and an end or a resume, so a session is ended in both
  open states; what follows a resume is left to `session_clock` and the proofs.
  Sessions of different students share no row, so one student is enough. Sessions
  and devices are interchangeable (symmetry; no liveness is checked here).
- `session_clock`: one session and one device, three ticks per second, `MaxTime` 6,
  `MaxVersion` 7: two whole pauses and an end in a third, with every choice of
  timestamps. Seven instants are two whole seconds; with three ticks per second a
  pause of no, some and all of a second occur, and the fractions cut off two pauses
  can make up a second of net duration that was not studied.
- `idempotency`: two commands with different payloads under the same key, two
  attempts each: four transactions on one key. Keys are independent. No symmetry,
  because a liveness property is checked.
- `study_plan`: two proposals, two goals, two days, two requests for a proposal
  in flight, one device and one session whose clock stands still (`MaxTime` 0,
  `MaxVersion` 2). Two proposals are a calendar and its replanning, or two drafts
  in a race; two goals a change of goal; two days a past and a future. Every
  proposal plans both days: horizons that leave a day out are not run, and the
  guards treat the empty and partial ones like the others. What more sessions and
  devices do to each other is the subject of `study_session`. The last day has no
  evening, after which no item would be left to supersede.
- `plan_engine`: 1,080 combinations of horizon, block, shares and weights before
  `Accepted`; day lengths lie on both sides of one and two blocks (15, 20, 35,
  44, 59, 60, 95, 120 minutes), blocks on both sides of 30 minutes, shares with a
  zero and without recovery, weights with ties.

- `knowledge_base`: one source, three texts of which one is suspicious, two versions
  (`MaxVersions`), two keys and two requested jobs (`MaxJobs`), two workers and two
  attempts per job where the code has five. Two versions are a replacement or two
  reviews in a race; a third would repeat the second, because a review looks at the
  indexed versions of the source as a set, of which there is one at most. Two jobs
  are two of one version or one of each, and processing may complete either. Two
  workers are one that lost a job and one that has it; a first and a last attempt
  are all the code tells apart. One search is in flight, since searches write
  nothing the model keeps. Sources meet only in the storage keys: `accepted_content`
  has two, and the proofs any number.

- `telegram`: two messages whose handlers or calls are alive at a time (an
  identifier is used again when nothing is left of its message), two questions,
  two proposals, one restart. Races are between two handlers, or a handler and
  a call given up; two proposals are one shown and one that replaced it. A
  behaviour uses the commands of one of the four `Mixes`: questions, simulations and
  plans share the machinery of the handlers and no state of the dispatcher.
  Messages, questions and proposals are interchangeable (symmetry; safety only).
- `practice`: two questions, two runs, two versions, two transactions of a kind at
  a time and five answers to a question, which run through all the steps of the
  schedule (1, 3, 7, 15 and 30 days) and back.
- `activation`: three rows and three requests: one row active, one that is
  activated and a third party. Every choice of targets is an initial state; no
  symmetry, because a liveness property is checked.

Variables that bound a model (`MaxTime`, `MaxVersions`, `MaxVersion`, `MaxDay`, `Horizons`,
`MaxProposing`, `MaxAttempts` and `MaxWorking` of `Practice`, `MaxRestarts`, `Mixes`) are constants and named as bounds in their modules.

**Fairness** is assumed in three places. In `Idempotency`, each request is served by
a thread of its own, so the steps of its transaction are weakly fair (a blocked
insert is not enabled, and PostgreSQL releases a key when its transaction ends);
a waiting client either receives the answer or times out, since its waits are
bounded (12 s in the skill, 30 s in the dispatcher). A crash, an expiry and
sending a command are not fair. In `PlanEngine`, the loops of one call run on.
In `Activation`, a transaction that can take its next step does (PostgreSQL wakes
who waits for a lock that was released), and the deadlock detector looks after
`deadlock_timeout`; the failure of a transaction is not fair. Requests are
finitely many, so no one is overtaken for ever.
No fairness is assumed of students, operators, reviewers, workers, the network or the gateway: the other
modules state safety only.

**Deadlock** is checked in the runs of `StudySession`, `StudyPlan` and
`KnowledgeBase`. It is not
in `Idempotency`, where all commands have been answered in the end, and in
`PlanEngine`, where the algorithm returns; there `RequestsEnd` and `Terminates`
say that nothing stops too early. In `Activation`, where `ActivationsEnd` says it,
all requests end. In `Practice` and `TelegramDispatcher` the check would be empty:
a text can always be withdrawn or published, a message can arrive or be given up.

## 4. Proofs

The theorems hold for every number of students, devices, sessions, items, keys,
commands and attempts, from the named assumptions on the constants
(`SessionAssumption`, `IdempotencyAssumption`, `PlanAssumption`,
`QueueAssumption`, `KnowledgeAssumption`, `DispatcherAssumption`,
`PracticeAssumption`, `ActivationAssumption`, `EngineAssumption`), which only say what the foreign keys
of the tables say, that goals have owners, that jobs are those of versions and keys,
that a job has at least one attempt, that a second has at least one tick, that minutes and percentages are natural numbers and weights at
least 1, and that the values standing for nothing are none of the others. The
set of sessions need not be finite.

**Sums.** What the other proofs need about finite sums, recursive functions and
induction. The library's induction rules quantify over predicates, which the
provers cannot instantiate. Here they are stated over sets and derived from the
existence of minimal elements: a set with 0 and all successors holds every number
(`NatSetInduction`), a family of subsets closed under one more element holds the
whole of a finite set (`FiniteSetInduction`), a recursion towards smaller ranks
has a solution (`RecursionExists`). From the last follows that a sum is the value
of a table (`SumIsTable`), hence that any term may be taken out of it
(`SumRemove`), and the rest: sums grow, scale, add up and compare term by term.

**StudyPlan_proofs, the sessions.** `TypeCorrect`, `OneOpenSession`, `PausesMatchStatus`,
`ItemsNeverStranded`, `DurationsAddUp`, `LifeCycleKept`. None
but typing is inductive alone. The inductive invariant `IInv` adds:

- `StartingOwnsItem`, `SessionOwnsItem`: a start request and a session only name
  items of their own student. Without it two students could hold one item, and
  closing one session would free the item under the other.
- `ClockInv`: for an open session whose timestamps came in order, the time between
  its start and its last event is `studied` and a rest, which is at least the whole
  seconds in `paused` and exceeds them by less than a second for every pause that
  has ended. It is what makes the net duration right when the session ends, and it
  needs `OpenPauseIffPaused` to know on which side the current stretch counts.

`ItemHeldByOpenSession` in turn needs `OneOpenSessionPerUser`: an item is freed by
the only session that may hold it. The life cycle follows from the pause rows by
`OpenPauseIffPaused`.

`MasteryNeverDrifts` proves `MasteryIsEvidence`, a sum over sessions that grows
by one term at each completion. Its invariant `MasteryInv` adds to the property
that a student has completed finitely many sessions on a subject for a goal; the
sum then gains exactly the net duration the transition computes, and no other
transition touches a session that is completed (`SameEvidence`).

**Idempotency_proofs.** `TypeCorrect`, `AtMostOnceEver`, `SuccessToldIsTrue`,
`KeyAndEffectTogether` and `Implements`, the refinement of `AtMostOnce`. The
inductive invariant says that a transaction past its insert is the writer of its
key, that a key with a writer has no committed row, and that every answer of
success names an effect with the same payload. `NobodyWaitsForTheDead` is what
makes `RequestsEnd` possible: an insert that waits for its key waits for a
transaction that runs and waits for nobody.

**StudyPlan_proofs, the plan.** `PlanTypeCorrect`, `OneDraft`, `ItemsStandForPlans`,
`CalendarIsOne`, `ReplanningWins`, `ReplanKeepsSessionItems`, `ProposalAnsweredOnce`
and `PastIsKept`, for every horizon and any number of requests in flight, the
empty and partial horizons TLC does not try included. A step of `PlanSpec` is a
step of the sessions, which preserves `IInv` by the lemma `IInvStep` and leaves
the plan alone, or one of the plan, which leaves the sessions alone and is either
`Calm` (nothing becomes confirmed) or one of the two confirmations (`Confirms`).
`PInv` is `IInv`, the invariants of the plan, and:

- `StartingItemExists`: the item of a start request in flight exists. Otherwise
  the insert would put an item in progress that no proposal planned.
- `StaleIsHeld`: the drafts an uncommitted request has expired are still drafts
  past their time, and no two requests hold one; `ProposalLifeCycle` needs it to
  know what the insert later expires.
- `LastRevision`: the largest numbered revision of a goal is attained, so that
  the next number is above all of them. It spares an induction over the set.

`ReplanSupersedes` holds because a superseded item that is kept is being studied
at that moment, hence in progress by `ItemHeldByOpenSession`, and comes back to
`planned` only by a cancellation, which the property allows.

`PlanKeepsSessions` and `PlanKeepsTransitions` carry the theorems of the sessions
over to the composition, where confirmations create and cancel the items that
sessions work on: a step of the plan changes no column a session owns.

**PlanEngine_proofs.** `DaysFit`, `BudgetsAreConserved`, `RoundingIsFair`,
`DaysAreCovered`, `NothingLost` and `LoopsAdvance`, for every horizon, length of a
block, shares and number of subjects. Two lemmas are about the pure functions.
`LargestRemainderIsFair`: the ranks of the remainders are distinct, so exactly as
many units are handed out as the integer parts left over. `BlocksFacts`: what
`_blocks` cuts covers the day, by induction over the minutes left. The inductive
invariant `IInv` is what the loops keep between two passes:

- `Loops`: the blocks still to be filled last 15 minutes or more, and belong to a
  day that is open.
- `RoomForBlocks`: the minutes placed on a day and the blocks it has left fit into
  it together. `DayWithinCapacity` alone is not inductive, since a block to come
  could exceed the day; `NoneAhead` (no item lies on a later day) says that a day
  begins empty.
- `ActivitiesBounded`, `SubjectsConserved`, `MinutesConserved`: what was placed and
  what is left of an activity stay within its budget; for a subject, and for all
  of them together, they are equal to it, which keeps the margin of recovery free.

`NothingLost` holds because the activity and the subject chosen are the largest
ones left: if one of them is below 15 minutes so are all of its kind.
`LoopsAdvance` is the argument under `Terminates`: every pass decreases the days
ahead, then the day that is open, then the blocks left.

**KnowledgeBase_proofs.** `TypeCorrect`, `JobsAgreement`, `OneIndexed`,
`VersionsAgreement`, `AnswersApproved`, `ContentReplaced` and `LeasesRespected`,
for any sources, texts, workers, attempts and number of versions. The inductive
invariant `IInv` is that of the queue and that of the knowledge base:

- `WorkerKnows`: a worker that still owns its job counts the attempts as the row
  does. A report decides by the worker's own count whether the job has failed, and
  `JobsAgree` (a failed job has used all its attempts) is true because a report
  that counts differently matches no row.
- `Provenance`: a version on its way to a review is no book, and what was accepted
  is a book or raised no suspicion.
- `SourceThere`: a source that does not exist has no versions, so a book is the
  only version of its new source.
- `Quoted`: what a search found was accepted at some time. It cannot say
  "is indexed": a review may supersede a version between the two searches.

The steps on one version share the lemma `OneVersion`; an approval, which changes
several, is proved apart, and a step of the queue
touches none of them (`KnowledgeUntouched`). Which job a processing completes
matters to the queue's invariant alone, which holds for any (`CompletionQInv`).

**TelegramDispatcher_proofs.** `DispatcherTypeOK`, `RepliesAreTruthful`,
`RepeatedMessageHasOneEffect`, `NoRevealedQuestionIsKept` and
`ConfirmationsAreOfWhatWasShown`, for any messages, questions, proposals, mixes and
restarts. The inductive invariant has four parts besides typing:

- `MessagesOK`: the calls and the effects of a message are those of its command, and
  an answer that was not used yet is what some effect of the message made.
- `FirstsOK`: a message delivered once has at most one call on its way, and no
  effect before its answer; without it a refusal could follow an effect.
- `QuestionsOK`: a question that was made and not delivered yet is neither kept,
  nor being answered, nor revealed, whoever makes the next one.
- `FlowShown`: the proposal a conversation waits to confirm was shown. Cancelling
  forgets both, and what a handler still holds is then no longer in `PLAN_FLOWS`.

**Practice_proofs.** `PracticeTypeOK`, `RowsTellTheAttempts`,
`AtMostOneActiveRun` and `AttemptsGradedOnServedText`, for any questions, runs,
versions and bounds. The inductive invariant says that an answer in progress knows
the review row as it is (`found`, `streak`), that at most one is in progress for
what cites one version, and that this version is in service.

**Activation_proofs.** `ActivationTypeOK`, `IndexNeverDecides` and
`DeadlockNeedsReactivation`, for any rows and number of requests. The inductive
invariant says that exactly the transaction past its second lock holds the goal
(`GoalHeld`), hence that what its first `UPDATE` found is what is active when it
promotes its row (`VictimsAreActive`), and that one waiting for the goal holds no
row but its own (`RowsHeld`). `OnlyPairsWait` adds that only running transactions
hold locks: then one of them can go on unless two wait for each other, so that the
detector of the model, which looks for pairs, misses no deadlock.

**Only model-checked.** The three liveness properties `RequestsEnd`, `Terminates`
and `ActivationsEnd`: fairness and ENABLED are out of the provers' reach. Their
safety cores are proved: who waits waits for somebody who can go on
(`NobodyWaitsForTheDead`, `OnlyPairsWait`), and no loop goes on for ever
(`LoopsAdvance`). Every other property of a passing run is a theorem. Since the
provers know no recursive operators, `Blocks` and `Available` are recursive
functions, and totals are the library's `SumFunction`.

## 5. Where code and documentation disagree

Each of these is the counterexample of a run.

| run | documentation | code |
|---|---|---|
| `layered_calendar` | docs/06: the calendar never exceeds the daily availability | a proposal for an existing goal that is not a replanning is confirmed on top of its calendar |
| `evening_replan` | docs/12: dates are in the profile's time zone | a replanning compares them with `CURRENT_DATE` in UTC and leaves the evening's items planned |
| `accepted_content` | `process-pilot-source.py:161`, ADR-019: accepted content stays until it is replaced | processing the next version sets the source back to `pending_review`, and `retrieve` asks for an approved source |

These were met while modelling and follow from one or two lines, without a run:

- ADR-012:5-6 lets keys expire in 24 hours; `expires_at` is written
  (`academic.py:225`) and never read (line 215). The skill derives its keys from
  the payload, so the same command of a later day is answered with the old
  response and not performed.
- The worker's unit tests (`tests/unit/test_worker_consumer.py:64,96`) hand a row
  with `source_type` to its handler; the row of `claim_job` has no such column, and
  looking it up ends the process before the `try` (`main.py:90`).
- `process-pilot-source.py:3` takes "uma versão/job já registrados"; the script
  completes the job JOB_ID (line 162) and never compares it with VERSION_ID. Given
  the job of another version it completes that one, and the version's own job stays
  in the queue.
- The net duration (`academic.py:501,503,574`) is whole seconds minus pauses each cut
  off to whole seconds: many short pauses count as study.
- docs/12:31-32 puts reviews after the first contact with a subject;
  `study_plan_engine.py:204-210` chooses activity and subject independently.
- "Nenhuma operação acadêmica foi realizada" is also the reply to a call that timed
  out (`mentor_telegram_dispatcher.py:456`), which may have been or may yet be
  performed. `TruthfulReply` is what remains true of it.
- "Criação do plano cancelada. Nenhuma alteração foi feita." (line 309) may be said
  while the confirmation of the plan awaits its answer, and the plan is created.
- docs/08 has questions only about indexed evidence; `practice.py:78` reads it
  without a lock, so a question may be stored about text superseded meanwhile. Its
  answers are refused.
- Migration 003 prevents cycles of topics (line 1) and `set-user-role.py:38` the
  demotion of the last administrator. Both check committed rows and lock none of
  them (lines 15-20; line 35), so two transactions that are open together can each
  pass the check: two topics each moved below the other, or the last two
  administrators demoted at once.
- The trigger of migration 003 wants a parent of the same subject (line 13) and is
  not asked about the children of a topic whose subject changes.
- Cancelling a session on an item that was completed before makes the item
  `planned` again, where migration 009 says that completed history is never erased.

## 6. What is not modelled

- Reads without effect on state (listings, catalogue, audit queries), answer
  generation, PDF, health, metrics, configuration, start-up: pure input/output.
- Text extraction, chunking, embeddings and connectors: text and numeric
  processing without protocol state.
- Deployment files, seeds and benchmarks: configuration and data.
- Inside the modelled parts: audit rows, observations and HTTP codes. They are
  written in the same transaction and no property depends on them.
- The recalculation at a confirmation: the engine is deterministic on the stored
  snapshot, so it agrees with the stored result.
- In the dispatcher: commands that only read, `/perguntar`, the consultation memory,
  saved lessons and documents, the offer of a plan in a free conversation, and the
  parsing of dates, days and durations in the student's sentences.
- Signed context: one check and one `SET NX` per request. The nonces matter to a
  request that is sent twice unchanged; the clients of the repository draw a new
  one for every call (`mentor_telegram_dispatcher.py:84`), also when they retry.
- Rate limits, the migration runner, the role script and the trigger on topics: one
  script or statement each; what two actors can do to the last two is in section 5.
- The status of every component is in `PROJECT.json`.

## 7. Plan

In this order; those marked * are done.

1. * `StudySession` with its proofs.
2. * `Idempotency` implementing `AtMostOnce`, with the refinement proved.
3. * `StudyPlan`, composed with `StudySession`, which it extends.
4. * `PlanEngine`.
5. * `IngestionQueue` and `KnowledgeBase`, which extends it, with their proofs.
6. * `Practice` with its proofs.
7. * `TelegramDispatcher` with its proofs, and `Activation` with its own.
8. * The invariants of `StudyPlan` on top of those of `StudySession`, proved.
9. * `PlanEngine`, the mastery counters, and the safety under the liveness
   properties, proved.
10. Abstract specifications of the queue and of the knowledge base (a version is
   served only after a decision) with their refinements; the answers of
   `Practice` on the versions of `KnowledgeBase` in place of `served`.
