------------------------- MODULE TelegramDispatcher -------------------------
(***************************************************************************)
(* The commands a student types in one private chat with the bot:          *)
(* infra/hermes/mentor_telegram_dispatcher.py.  Handlers are coroutines.   *)
(* Every call of the API runs in a thread and is awaited for at most 30    *)
(* seconds, so other messages are handled between the call and its answer, *)
(* and a call that was given up may still be performed.  A POST carries a  *)
(* key derived from the message and the body, under which the API performs *)
(* it once (module Idempotency).                                           *)
(*                                                                         *)
(* The dispatcher remembers in memory the question that waits for an       *)
(* answer and the conversation about a plan (PLAN_FLOWS).  A restart of    *)
(* the gateway forgets both, kills the handlers and may have Telegram      *)
(* deliver again the messages they had not answered.                       *)
(*                                                                         *)
(* Abstracted: the API is the state the commands change, each request one  *)
(* step (modules StudyPlan and Practice); other clients of the student     *)
(* change his proposals too.  pausar, retomar and finalizar read the open  *)
(* session and change it with its version like every client of module      *)
(* StudySession; commands that only read, perguntar, and the offer of a    *)
(* plan in a free conversation are left out.  An identifier of Messages    *)
(* stands for another message once nothing is left of the one before.      *)
(***************************************************************************)
EXTENDS Naturals, FiniteSets

CONSTANTS
    Messages,   \* bound of the model: messages with a handler or a request
    Questions, Proposals,
    Nothing,    \* no question, no proposal, no answer yet
    Mixes,      \* bound of the model: commands used in one behaviour
    MaxRestarts \* bound of the model

Practising == {"questao", "simulado", "cancelar"}
Planning == {"plano", "ajustar", "desistir"}    \* desistir is /plano cancelar
Replying == {"bloco", "confirmo"}               \* plain text in a conversation
Commands == Practising \cup {"responder"} \cup Planning \cup Replying

ASSUME DispatcherAssumption ==
    /\ Mixes \subseteq SUBSET Commands
    /\ (Questions \cup Proposals) \cap {Nothing, "none", "some", "ok", "refused"} = {}
    /\ Nothing \notin {"none", "some", "ok", "refused"}
    /\ MaxRestarts \in Nat

VARIABLES
    question,   \* CURRENT: the question kept for the next answer
    flow,       \* PLAN_FLOWS: stage of the conversation, proposal shown in it
    holders,    \* handlers whose flow object is the one in PLAN_FLOWS
    task,       \* the handler of each message
    answer,     \* the API's answer to what the handler awaits
    told,       \* what the handler claimed in reply to an answer of the API
    net,        \* requests the API has not dealt with
    prop,       \* study_plan_proposals.status
    asked,      \* practice_questions
    running,    \* a simulation is active
    effects,    \* what the API has performed for a message, by body
    restarts,
    mix,        \* the commands used in this behaviour
    shown,      \* history: proposals shown since the creation was last cancelled
    revealed    \* history: questions whose correct answer was shown

memory == <<question, flow, holders>>
handlers == <<task, answer, told>>
api == <<prop, asked, running, effects>>
past == <<shown, revealed>>
vars == <<memory, handlers, net, api, restarts, mix, past>>

Awaits == {"current", "goals", "exams", "post"}
Stages == {"none", "exam", "deadline", "days", "availability", "block", "confirmation"}
NextStage == [exam |-> "deadline", deadline |-> "days", days |-> "availability",
              availability |-> "block"]

Task(c, w, a, g) == [cmd |-> c, waits |-> w, arg |-> a, again |-> g]
Flow(s, p) == [stage |-> s, pid |-> p]
NoFlow == Flow("none", Nothing)

Drafts == {p \in Proposals : prop[p] = "draft"}
Idle(m) == task[m].waits = "no"
Waiting(m) == task[m].waits \in Awaits

Init ==
    /\ question = Nothing
    /\ flow = NoFlow
    /\ holders = {}
    /\ task = [m \in Messages |-> Task("questao", "no", Nothing, FALSE)]
    /\ answer = [m \in Messages |-> Nothing]
    /\ told = [m \in Messages |-> "silence"]
    /\ net = {}
    /\ prop = [p \in Proposals |-> "absent"]
    /\ asked = {}
    /\ running = FALSE
    /\ effects = [m \in Messages |-> {}]
    /\ restarts = 0
    /\ mix \in Mixes
    /\ shown = {}
    /\ revealed = {}

-----------------------------------------------------------------------------
(***************************************************************************)
(* What handlers are made of.                                              *)
(***************************************************************************)

\* The handler calls the API in a thread and awaits the answer.
Call(m, w, a) ==
    /\ task' = [task EXCEPT ![m] = Task(task[m].cmd, w, a, task[m].again)]
    /\ answer' = [answer EXCEPT ![m] = Nothing]
    /\ net' = net \cup {[msg |-> m, cmd |-> task[m].cmd, what |-> w, arg |-> a,
                         life |-> restarts]}
    /\ UNCHANGED told

\* The handler returns its reply.
Finish(m, text) ==
    /\ task' = [task EXCEPT ![m] = Task(task[m].cmd, "no", Nothing, task[m].again)]
    /\ answer' = [answer EXCEPT ![m] = Nothing]
    /\ told' = [told EXCEPT ![m] = text]
    /\ UNCHANGED net

\* A new dictionary is stored, or the one there is popped.
Replace(f) == flow' = f /\ holders' = {}

\* The handler has not begun; it has an answer it can use.
Queued(m, c) == task[m].waits = "queued" /\ task[m].cmd = c
Got(m, c, w) == task[m].cmd = c /\ task[m].waits = w /\ answer[m] \notin {Nothing, "refused"}

-----------------------------------------------------------------------------
(***************************************************************************)
(* Messages arrive.                                                        *)
(***************************************************************************)
Arrive(m, c) ==
    /\ Idle(m)
    /\ \A r \in net : r.msg # m
    /\ c \in mix
    /\ task' = [task EXCEPT ![m] = Task(c, "queued", Nothing, FALSE)]
    /\ told' = [told EXCEPT ![m] = "silence"]
    /\ effects' = [effects EXCEPT ![m] = {}]
    /\ UNCHANGED <<memory, answer, net, prop, asked, running, restarts, mix, past>>

\* dispatch: questao, simulado, cancelar; how many questions may be unreadable.
BeginPractice(m) ==
    /\ \E c \in Practising : Queued(m, c)
    /\ \/ Call(m, "post", Nothing)
       \/ task[m].cmd = "simulado" /\ Finish(m, "nothing_done")
    /\ UNCHANGED <<memory, api, restarts, mix, past>>

\* dispatch: responder, for the question kept; without one, or without an
\* option, nothing is asked.
BeginAnswer(m) ==
    /\ Queued(m, "responder")
    /\ \/ Finish(m, "nothing_done")
       \/ question # Nothing /\ Call(m, "post", question)
    /\ UNCHANGED <<memory, api, restarts, mix, past>>

\* _plan_command.
BeginPlan(m) ==
    /\ \E c \in Planning : Queued(m, c)
    /\ Call(m, "current", Nothing)
    /\ UNCHANGED <<memory, api, restarts, mix, past>>

\* _plan_reply at the stages block and confirmation; elsewhere the text is
\* no such reply.
BeginReply(m) ==
    /\ \E c \in Replying : Queued(m, c)
    /\ LET stage == IF task[m].cmd = "bloco" THEN "block" ELSE "confirmation" IN
       IF flow.stage = stage
       THEN Call(m, "post", flow.pid) /\ holders' = holders \cup {m}
       ELSE Finish(m, "silence") /\ UNCHANGED holders
    /\ UNCHANGED <<question, flow, api, restarts, mix, past>>

\* _plan_reply while data is collected: an answer that is understood.
Collect ==
    /\ flow.stage \in DOMAIN NextStage
    /\ flow' = Flow(NextStage[flow.stage], flow.pid)
    /\ UNCHANGED <<question, holders, handlers, net, api, restarts, mix, past>>

\* Mutant: the word is answered and the flow kept.
LeaveFlowKept ==
    /\ flow # NoFlow
    /\ shown' = {}
    /\ UNCHANGED <<memory, handlers, net, api, restarts, mix, revealed>>

\* _plan_reply: "cancelar" forgets the conversation, whatever its handlers await.
LeaveFlow ==
    /\ flow # NoFlow
    /\ Replace(NoFlow)
    /\ shown' = {}
    /\ UNCHANGED <<question, handlers, net, api, restarts, mix, revealed>>

\* _plan_reply: nothing was said in the flow for 30 minutes, far longer than
\* a handler awaits.
FlowTooOld ==
    /\ flow # NoFlow
    /\ holders = {}
    /\ flow' = NoFlow
    /\ UNCHANGED <<question, holders, handlers, net, api, restarts, mix, past>>

-----------------------------------------------------------------------------
(***************************************************************************)
(* Answers arrive.                                                         *)
(***************************************************************************)

\* An error status: "Nenhuma operacao academica foi realizada."
Refused(m) ==
    /\ Waiting(m)
    /\ answer[m] = "refused"
    /\ Finish(m, "nothing_done")
    /\ holders' = holders \ {m}
    /\ UNCHANGED <<question, flow, api, restarts, mix, past>>

\* 30 seconds, a broken connection or an unreadable body: the same words, but
\* nothing is known.
GiveUp(m) ==
    /\ Waiting(m)
    /\ Finish(m, "silence")
    /\ holders' = holders \ {m}
    /\ UNCHANGED <<question, flow, api, restarts, mix, past>>

QuestionAsked(m) ==
    /\ Got(m, "questao", "post")
    /\ question' = answer[m]
    /\ Finish(m, "done")
    /\ UNCHANGED <<flow, holders, api, restarts, mix, past>>

\* Mutant: the question stays where it is.
AnswerGradedKeeping(m) ==
    /\ Got(m, "responder", "post")
    /\ \/ Finish(m, "done") /\ revealed' = revealed \cup {task[m].arg}
       \/ Finish(m, "done") /\ UNCHANGED revealed
    /\ UNCHANGED <<memory, api, restarts, mix, shown>>

\* Mutant: a presentation that fails is an error like any other.
AnswerGradedOrError(m) ==
    /\ Got(m, "responder", "post")
    /\ question' = Nothing
    /\ \/ Finish(m, "done") /\ revealed' = revealed \cup {task[m].arg}
       \/ Finish(m, "nothing_done") /\ UNCHANGED revealed
    /\ UNCHANGED <<flow, holders, api, restarts, mix, shown>>

\* The kept question is dropped, be it this one or a newer one; then the
\* result is presented, or the reply says that only the presentation failed.
AnswerGraded(m) ==
    /\ Got(m, "responder", "post")
    /\ question' = Nothing
    /\ \/ Finish(m, "done") /\ revealed' = revealed \cup {task[m].arg}
       \/ Finish(m, "done") /\ UNCHANGED revealed
    /\ UNCHANGED <<flow, holders, api, restarts, mix, shown>>

PracticeDone(m) ==
    /\ \E c \in Practising \ {"questao"} : Got(m, c, "post")
    /\ Finish(m, "done")
    /\ UNCHANGED <<memory, api, restarts, mix, past>>

\* /plano shows the pending proposal; without one it asks for the goals.
PlanPending(m) ==
    /\ \E c \in {"plano", "ajustar"} : Got(m, c, "current")
    /\ answer[m] \in Proposals
    /\ Replace(Flow("confirmation", answer[m]))
    /\ shown' = shown \cup {answer[m]}
    /\ Finish(m, "silence")
    /\ UNCHANGED <<question, api, restarts, mix, revealed>>

NoPlanPending(m) ==
    /\ \E c \in {"plano", "ajustar"} : Got(m, c, "current")
    /\ answer[m] = "none"
    /\ Call(m, "goals", Nothing)
    /\ UNCHANGED <<memory, api, restarts, mix, past>>

\* An active goal is planned again; without one the exams are offered.
GoalsKnown(m) ==
    /\ \E c \in {"plano", "ajustar"} : Got(m, c, "goals")
    /\ IF answer[m] = "some"
       THEN Replace(Flow("deadline", Nothing)) /\ Finish(m, "silence")
       ELSE /\ UNCHANGED <<flow, holders>>
            /\ IF task[m].cmd = "plano" THEN Call(m, "exams", Nothing)
               ELSE Finish(m, "silence")
    /\ UNCHANGED <<question, api, restarts, mix, past>>

ExamsKnown(m) ==
    /\ Got(m, "plano", "exams")
    /\ IF answer[m] = "some" THEN Replace(Flow("exam", Nothing)) ELSE UNCHANGED <<flow, holders>>
    /\ Finish(m, "silence")
    /\ UNCHANGED <<question, api, restarts, mix, past>>

\* /plano cancelar forgets the conversation, then cancels what is pending.
CancelPending(m) ==
    /\ Got(m, "desistir", "current")
    /\ Replace(NoFlow)
    /\ shown' = {}
    /\ IF answer[m] \in Proposals THEN Call(m, "post", answer[m]) ELSE Finish(m, "silence")
    /\ UNCHANGED <<question, api, restarts, mix, revealed>>

PendingCancelled(m) ==
    /\ Got(m, "desistir", "post")
    /\ Finish(m, "done")
    /\ UNCHANGED <<memory, api, restarts, mix, past>>

\* The proposal is written to the flow the handler holds, which may have been
\* replaced meanwhile, and shown.
ProposalMade(m) ==
    /\ Got(m, "bloco", "post")
    /\ flow' = IF m \in holders THEN Flow("confirmation", answer[m]) ELSE flow
    /\ holders' = holders \ {m}
    /\ shown' = shown \cup {answer[m]}
    /\ Finish(m, "done")
    /\ UNCHANGED <<question, api, restarts, mix, revealed>>

\* Whatever flow is there is popped.
PlanCreated(m) ==
    /\ Got(m, "confirmo", "post")
    /\ Replace(NoFlow)
    /\ Finish(m, "done")
    /\ UNCHANGED <<question, api, restarts, mix, past>>

-----------------------------------------------------------------------------
(***************************************************************************)
(* The gateway restarts: nothing is persisted.                             *)
(***************************************************************************)
Restart(lost) ==
    /\ restarts < MaxRestarts
    /\ restarts' = restarts + 1
    /\ question' = Nothing
    /\ Replace(NoFlow)
    /\ task' = [m \in Messages |->
                  IF Idle(m) THEN task[m]
                  ELSE Task(task[m].cmd, IF m \in lost THEN "no" ELSE "queued", Nothing, TRUE)]
    /\ answer' = [m \in Messages |-> Nothing]
    /\ UNCHANGED <<told, net, api, mix, past>>

-----------------------------------------------------------------------------
(***************************************************************************)
(* The API, external to the dispatcher.                                    *)
(***************************************************************************)

\* The answer reaches the handler if it is still there and awaits it.
Respond(r, v) ==
    LET m == r.msg IN
    /\ net' = net \ {r}
    /\ answer' = IF task[m].waits = r.what /\ r.life = restarts
                 THEN [answer EXCEPT ![m] = v] ELSE answer
    /\ UNCHANGED <<memory, task, told, restarts, mix, past>>

\* Mutant: the key also depends on when the call is made.
BodyAtTime(r) == <<r.cmd, r.arg, r.life>>

\* What the key of a POST is derived from besides the message: the path and
\* the payload, and nothing that another delivery changes.
Body(r) == <<r.cmd, r.arg, 0>>

Answers == Questions \cup Proposals \cup {"none", "some", "ok"}

ReadCurrent(r) ==
    /\ r \in net /\ r.what = "current"
    /\ \E v \in IF Drafts = {} THEN {"none"} ELSE Drafts : Respond(r, v)
    /\ UNCHANGED api

ReadList(r) ==
    /\ r \in net /\ r.what \in {"goals", "exams"}
    /\ \E v \in {"none", "some"} : Respond(r, v)
    /\ UNCHANGED api

\* The same message and body again: the recorded response.
Replay(r) ==
    /\ r \in net /\ r.what = "post"
    /\ \E e \in effects[r.msg] : e.body = Body(r) /\ Respond(r, e.made)
    /\ UNCHANGED api

\* A POST performed for the first time under its key, and what it made.
Perform(r, v) ==
    /\ r \in net /\ r.what = "post"
    /\ \A e \in effects[r.msg] : e.body # Body(r)
    /\ effects' = [effects EXCEPT ![r.msg] = @ \cup {[body |-> Body(r), made |-> v]}]
    /\ Respond(r, v)

CreateQuestion(r, q) ==
    /\ r.cmd = "questao" /\ q \notin asked
    /\ Perform(r, q)
    /\ asked' = asked \cup {q}
    /\ UNCHANGED <<prop, running>>

\* answer_question and cancel_practice need nothing that is told apart here.
AnswerOrCancel(r) ==
    /\ r.cmd \in {"responder", "cancelar"}
    /\ Perform(r, "ok")
    /\ running' = (running /\ r.cmd # "cancelar")
    /\ UNCHANGED <<prop, asked>>

CreateSimulation(r) ==
    /\ r.cmd = "simulado" /\ ~running
    /\ Perform(r, "ok")
    /\ running' = TRUE
    /\ UNCHANGED <<prop, asked>>

CreateProposal(r, p) ==
    /\ r.cmd = "bloco" /\ Drafts = {} /\ prop[p] = "absent"
    /\ Perform(r, p)
    /\ prop' = [prop EXCEPT ![p] = "draft"]
    /\ UNCHANGED <<asked, running>>

CloseProposal(r) ==
    /\ r.cmd \in {"confirmo", "desistir"} /\ r.arg \in Drafts
    /\ Perform(r, "ok")
    /\ prop' = [prop EXCEPT ![r.arg] = "closed"]
    /\ UNCHANGED <<asked, running>>

\* An error status, for any reason: rolled back, nothing is performed.
Refuse(r) == r \in net /\ Respond(r, "refused") /\ UNCHANGED api

\* The request never reached the API, or the API's process died.
Drop(r) ==
    /\ r \in net
    /\ net' = net \ {r}
    /\ UNCHANGED <<memory, handlers, api, restarts, mix, past>>

\* Another client, or the 30 minutes of a proposal.
Elsewhere(p) ==
    /\ \/ prop[p] = "absent" /\ Drafts = {} /\ prop' = [prop EXCEPT ![p] = "draft"]
       \/ prop[p] = "draft" /\ prop' = [prop EXCEPT ![p] = "closed"]
    /\ UNCHANGED <<memory, handlers, net, asked, running, effects, restarts, mix, past>>

Serve(r) ==
    \/ ReadCurrent(r) \/ ReadList(r) \/ Replay(r) \/ Refuse(r) \/ Drop(r)
    \/ \E q \in Questions : CreateQuestion(r, q)
    \/ AnswerOrCancel(r) \/ CreateSimulation(r) \/ CloseProposal(r)
    \/ \E p \in Proposals : CreateProposal(r, p)

-----------------------------------------------------------------------------
Begin(m) == BeginPractice(m) \/ BeginAnswer(m) \/ BeginPlan(m) \/ BeginReply(m)

Continue(m) ==
    \/ Refused(m)
    \/ QuestionAsked(m) \/ AnswerGraded(m) \/ PracticeDone(m)
    \/ PlanPending(m) \/ NoPlanPending(m) \/ GoalsKnown(m) \/ ExamsKnown(m)
    \/ CancelPending(m) \/ PendingCancelled(m) \/ ProposalMade(m) \/ PlanCreated(m)

Next ==
    \/ \E m \in Messages, c \in Commands : Arrive(m, c)
    \/ \E m \in Messages : Begin(m) \/ Continue(m) \/ GiveUp(m)
    \/ Collect \/ LeaveFlow \/ FlowTooOld
    \/ \E lost \in SUBSET {m \in Messages : ~Idle(m)} : Restart(lost)
    \/ \E r \in net : Serve(r)
    \/ \E p \in Proposals : Elsewhere(p)

Spec == Init /\ [][Next]_vars
-----------------------------------------------------------------------------
(***************************************************************************)
(* Properties.                                                             *)
(***************************************************************************)

Request == [msg : Messages, cmd : Commands, what : Awaits,
            arg : Questions \cup Proposals \cup {Nothing}, life : 0 .. MaxRestarts]
Effect == [body : Commands \X (Questions \cup Proposals \cup {Nothing}) \X (0 .. MaxRestarts),
           made : Answers]

\* Everything has its type; a flow has a proposal exactly when it waits for a
\* confirmation (line 368 reads it there without a check).
TypeOK ==
    /\ question \in Questions \cup {Nothing}
    /\ flow \in [stage : Stages, pid : Proposals \cup {Nothing}]
    /\ flow.stage = "confirmation" <=> flow.pid # Nothing
    /\ holders \subseteq Messages
    /\ task \in [Messages -> [cmd : Commands, waits : Awaits \cup {"no", "queued"},
                              arg : Questions \cup Proposals \cup {Nothing}, again : BOOLEAN]]
    /\ answer \in [Messages -> Answers \cup {Nothing, "refused"}]
    /\ told \in [Messages -> {"silence", "done", "nothing_done"}]
    /\ net \subseteq Request
    /\ prop \in [Proposals -> {"absent", "draft", "closed"}]
    /\ asked \subseteq Questions
    /\ running \in BOOLEAN
    /\ effects \in [Messages -> SUBSET Effect]
    /\ restarts \in 0 .. MaxRestarts
    /\ mix \in Mixes
    /\ shown \subseteq Proposals
    /\ revealed \subseteq Questions

\* Whatever handlers of earlier messages still await and write, the chat asks
\* the API to confirm a proposal only if its summary was shown since the
\* student last cancelled the creation, to which he was told that nothing
\* was changed (line 309).
ConfirmsOnlyWhatWasShown ==
    [][\A r \in net' \ net : r.cmd = "confirmo" => r.arg \in shown]_vars

\* "Nenhuma operacao academica foi realizada" (lines 456 and 520) is true
\* whenever the API answered the message, and a success was performed.  A
\* message given up or delivered a second time is told the same in vain.
TruthfulReply ==
    \A m \in Messages :
        /\ told[m] = "nothing_done" /\ ~task[m].again => effects[m] = {}
        /\ told[m] = "done" => effects[m] # {}

\* However often a message is delivered and its request repeated, the
\* commands whose body does not depend on the memory have one effect.
OneEffectPerMessage ==
    \A m \in Messages : task[m].cmd \in Practising => \A e, f \in effects[m] : e = f

\* The question kept for the next /responder is never one whose correct
\* answer the chat has shown already.
KeptQuestionIsOpen == question \notin revealed
=============================================================================
