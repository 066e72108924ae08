---------------------- MODULE TelegramDispatcher_proofs ----------------------
(***************************************************************************)
(* The safety of TelegramDispatcher for any messages, questions, proposals *)
(* and number of restarts.  Four parts are carried together: what is known *)
(* of each message and its requests, what is known of a message that is    *)
(* handled for the first time, where each question is, and the flow.       *)
(***************************************************************************)
EXTENDS TelegramDispatcher, TLAPS

Args == Questions \cup Proposals \cup {Nothing}

\* m has made the question q; n is answering it.
Made(m, q) == task[m].cmd = "questao" /\ \E e \in effects[m] : e.made = q
Answering(n, q) == task[n].cmd = "responder" /\ task[n].waits = "post" /\ task[n].arg = q

\* The requests and the effects of a message are those of its command.
MessageOK(m) ==
    /\ ~Idle(m) => told[m] = "silence"
    /\ told[m] = "done" => effects[m] # {}
    /\ task[m].waits = "post" /\ answer[m] \notin {Nothing, "refused"}
         => \E e \in effects[m] : e.made = answer[m]
    /\ \A e \in effects[m] :
          /\ task[m].cmd \in Practising => e.body = <<task[m].cmd, Nothing, 0>>
          /\ task[m].cmd = "bloco" => e.made \in Proposals
          /\ task[m].cmd = "questao" => e.made \in asked
    /\ task[m].cmd \in Practising => \A e, f \in effects[m] : e = f

RequestOK(r) ==
    /\ r.cmd = task[r.msg].cmd
    /\ r.cmd \in Practising => r.arg = Nothing

MessagesOK == (\A m \in Messages : MessageOK(m)) /\ (\A r \in net : RequestOK(r))

\* Of a message that was delivered once, at most one request is on its way and
\* nothing is performed before its answer.
NoRequest(m) == \A r \in net : r.msg # m
FirstOK(m) ==
    /\ task[m].waits = "queued" \/ told[m] = "nothing_done" => effects[m] = {} /\ NoRequest(m)
    /\ Waiting(m) =>
         /\ effects[m] # {} => task[m].waits = "post" /\ answer[m] \notin {Nothing, "refused"}
         /\ \A r \in net : r.msg = m =>
              /\ r.what = task[m].waits /\ r.life = restarts
              /\ answer[m] = Nothing
              /\ effects[m] = {}
              /\ \A s \in net : s.msg = m => s = r
FirstsOK == \A m \in Messages : ~task[m].again => FirstOK(m)

\* A question that was made and not yet delivered is kept, answered and
\* revealed by nobody.
QuestionsOK ==
    /\ question \in asked \cup {Nothing}
    /\ question \notin revealed
    /\ revealed \subseteq asked
    /\ \A n \in Messages, q \in Questions : Answering(n, q) => q \in asked
    /\ \A n \in Messages :
         task[n].cmd = "responder" /\ task[n].waits = "post" => task[n].arg \in Questions
    /\ \A m, n \in Messages, q \in Questions : Made(m, q) /\ Made(n, q) => m = n
    /\ \A m \in Messages, q \in Questions : Made(m, q) => q \in asked
    /\ \A m \in Messages, q \in Questions : Made(m, q) /\ ~Idle(m) =>
         /\ q \notin revealed /\ q # question
         /\ \A n \in Messages : ~Answering(n, q)

\* The proposal the conversation waits to confirm was shown.
FlowShown == flow.stage = "confirmation" => flow.pid \in shown

IInv == TypeOK /\ MessagesOK /\ FirstsOK /\ QuestionsOK /\ FlowShown

\* The part of TypeOK about handlers and requests.
HandlersType ==
    /\ task \in [Messages -> [cmd : Commands, waits : Awaits \cup {"no", "queued"},
                              arg : Args, again : BOOLEAN]]
    /\ answer \in [Messages -> Answers \cup {Nothing, "refused"}]
    /\ told \in [Messages -> {"silence", "done", "nothing_done"}]
    /\ net \subseteq Request

\* The dispatcher has just started.
LEMMA InitIInv == Init => IInv
  <1> SUFFICES ASSUME Init PROVE IInv
    OBVIOUS
  <1> USE DispatcherAssumption DEF Init, Task, Flow, NoFlow
  <1>1. TypeOK
    <2>1. task \in [Messages -> [cmd : Commands, waits : Awaits \cup {"no", "queued"},
                                 arg : Questions \cup Proposals \cup {Nothing}, again : BOOLEAN]]
      BY DEF Commands, Practising
    <2>2. flow \in [stage : Stages, pid : Proposals \cup {Nothing}]
          /\ (flow.stage = "confirmation" <=> flow.pid # Nothing)
      BY DEF Stages
    <2>3. /\ answer \in [Messages -> Answers \cup {Nothing, "refused"}]
          /\ told \in [Messages -> {"silence", "done", "nothing_done"}]
          /\ effects \in [Messages -> SUBSET Effect]
      OBVIOUS
    <2>4. /\ question \in Questions \cup {Nothing} /\ holders \subseteq Messages
          /\ net \subseteq Request /\ mix \in Mixes
          /\ prop \in [Proposals -> {"absent", "draft", "closed"}]
          /\ asked \subseteq Questions /\ shown \subseteq Proposals /\ revealed \subseteq Questions
          /\ running \in BOOLEAN
      OBVIOUS
    <2>5. restarts \in 0 .. MaxRestarts
      OBVIOUS
    <2> HIDE DEF Init
    <2> QED
      BY <2>1, <2>2, <2>3, <2>4, <2>5 DEF TypeOK
  <1>2. MessagesOK /\ FirstsOK
    BY DEF MessagesOK, MessageOK, FirstsOK, FirstOK, Idle, Waiting, Awaits
  <1>3. QuestionsOK /\ FlowShown
    BY DEF QuestionsOK, Made, Answering, FlowShown
  <1> QED
    BY <1>1, <1>2, <1>3 DEF IInv

-----------------------------------------------------------------------------
(***************************************************************************)
(* Handlers.                                                               *)
(***************************************************************************)

\* A handler calls the API when it begins or after the answer of a read.
LEMMA CallKeeps ==
  ASSUME IInv, NEW m \in Messages, NEW w \in Awaits, NEW a \in Args,
         \/ task[m].waits = "queued"
         \/ Waiting(m) /\ task[m].waits # "post" /\ answer[m] # Nothing,
         task[m].cmd \in Practising => a = Nothing,
         Call(m, w, a), UNCHANGED <<api, restarts>>
  PROVE  /\ HandlersType' /\ MessagesOK' /\ FirstsOK'
         /\ \A n \in Messages : task'[n].cmd = task[n].cmd /\ (Idle(n) => Idle(n)')
         /\ \A n \in Messages : n # m => task'[n] = task[n]
         /\ task'[m].waits = w /\ task'[m].arg = a
  <1> USE DEF Call, Task, api
  <1> DEFINE new == [msg |-> m, cmd |-> task[m].cmd, what |-> w, arg |-> a, life |-> restarts]
  <1>0. TypeOK
    BY DEF IInv
  <1>1. new \in Request
    BY <1>0 DEF Request, TypeOK, Args
  <1>2. HandlersType'
    BY <1>0, <1>1 DEF HandlersType, TypeOK, Args
  <1>3. task'[m] = [cmd |-> task[m].cmd, waits |-> w, arg |-> a, again |-> task[m].again]
        /\ answer'[m] = Nothing /\ \A n \in Messages : n # m => task'[n] = task[n] /\ answer'[n] = answer[n]
    BY <1>0 DEF TypeOK
  <1>4. \A n \in Messages : task'[n].cmd = task[n].cmd /\ task'[n].again = task[n].again
    BY <1>3
  <1>5. \A n \in Messages : Idle(n) => Idle(n)'
    BY <1>3 DEF Idle, Waiting, Awaits
  <1>6. ASSUME NEW n \in Messages PROVE MessageOK(n)'
    <2>1. MessageOK(n)
      BY DEF IInv, MessagesOK
    <2>2. ~Idle(m)
      BY DEF Idle, Waiting, Awaits
    <2>3. CASE n = m
      BY <1>3, <2>1, <2>2, <2>3 DEF MessageOK, Idle
    <2>4. CASE n # m
      BY <1>3, <2>1, <2>4 DEF MessageOK, Idle
    <2> QED
      BY <2>3, <2>4
  <1>7. ASSUME NEW r \in net' PROVE RequestOK(r)'
    <2>1. CASE r = new
      BY <1>3, <2>1 DEF RequestOK
    <2>2. CASE r \in net
      <3>1. r.msg \in Messages
        BY <1>0, <2>2 DEF TypeOK, Request
      <3> QED
        BY <1>4, <2>2, <3>1 DEF RequestOK, IInv, MessagesOK
    <2> QED
      BY <2>1, <2>2
  <1>8. ASSUME NEW n \in Messages, ~task'[n].again PROVE FirstOK(n)'
    <2>1. FirstOK(n)
      BY <1>4, <1>8 DEF IInv, FirstsOK
    <2>2. CASE n = m
      <3>1. NoRequest(m) /\ effects[m] = {}
        BY <2>1, <2>2 DEF FirstOK, NoRequest
      <3>2. told[m] = "silence"
        BY DEF IInv, MessagesOK, MessageOK, Idle, Waiting, Awaits
      <3> QED
        BY <1>3, <2>2, <3>1, <3>2 DEF FirstOK, NoRequest, Waiting, Awaits
    <2>3. CASE n # m
      <3>1. \A r \in net' : r.msg = n => r \in net
        BY <2>3
      <3>2. task'[n] = task[n] /\ answer'[n] = answer[n] /\ net \subseteq net'
        BY <1>3, <2>3
      <3>3. (NoRequest(n) => NoRequest(n)') /\ (Waiting(n) <=> Waiting(n)')
        BY <3>1, <3>2 DEF NoRequest, Waiting
      <3> HIDE DEF Call
      <3> QED
        BY <2>1, <3>1, <3>2, <3>3 DEF FirstOK, Call
    <2> QED
      BY <2>2, <2>3
  <1> QED
    BY <1>2, <1>3, <1>4, <1>5, <1>6, <1>7, <1>8 DEF MessagesOK, FirstsOK

\* A reply that claims something says what is known.
LEMMA FinishKeeps ==
  ASSUME IInv, NEW m \in Messages, NEW text \in {"silence", "done", "nothing_done"},
         text = "done" => effects[m] # {},
         text = "nothing_done" /\ ~task[m].again => effects[m] = {} /\ NoRequest(m),
         Finish(m, text), UNCHANGED <<api, restarts>>
  PROVE  /\ HandlersType' /\ MessagesOK' /\ FirstsOK'
         /\ \A n \in Messages : task'[n].cmd = task[n].cmd
         /\ \A n \in Messages : n # m => task'[n] = task[n]
         /\ Idle(m)'
  <1> USE DEF Finish, Task, api
  <1>0. TypeOK
    BY DEF IInv
  <1>1. HandlersType'
    BY <1>0 DEF HandlersType, TypeOK, Args
  <1>2. /\ task'[m] = [cmd |-> task[m].cmd, waits |-> "no", arg |-> Nothing, again |-> task[m].again]
        /\ told'[m] = text
        /\ \A n \in Messages : n # m =>
             task'[n] = task[n] /\ answer'[n] = answer[n] /\ told'[n] = told[n]
    BY <1>0 DEF TypeOK
  <1>3. \A n \in Messages : task'[n].cmd = task[n].cmd /\ task'[n].again = task[n].again
    BY <1>2
  <1>4. ASSUME NEW n \in Messages PROVE MessageOK(n)'
    <2>1. MessageOK(n)
      BY DEF IInv, MessagesOK
    <2>2. CASE n = m
      BY <1>2, <2>1, <2>2 DEF MessageOK, Idle
    <2>3. CASE n # m
      BY <1>2, <2>1, <2>3 DEF MessageOK, Idle
    <2> QED
      BY <2>2, <2>3
  <1>5. ASSUME NEW r \in net' PROVE RequestOK(r)'
    <2>1. r \in net /\ r.msg \in Messages
      BY <1>0 DEF TypeOK, Request
    <2> QED
      BY <1>3, <2>1 DEF RequestOK, IInv, MessagesOK
  <1>6. ASSUME NEW n \in Messages, ~task'[n].again PROVE FirstOK(n)'
    <2>1. FirstOK(n)
      BY <1>3, <1>6 DEF IInv, FirstsOK
    <2>2. CASE n = m
      BY <1>2, <1>6, <2>2 DEF FirstOK, NoRequest, Waiting, Awaits
    <2>3. CASE n # m
      BY <1>2, <2>1, <2>3 DEF FirstOK, NoRequest, Waiting
    <2> QED
      BY <2>2, <2>3
  <1>7. Idle(m)'
    BY <1>2 DEF Idle
  <1> QED
    BY <1>1, <1>2, <1>3, <1>4, <1>5, <1>6, <1>7 DEF MessagesOK, FirstsOK

\* An answer that is used was given for something performed.
LEMMA GotMade ==
  ASSUME IInv, NEW m \in Messages, NEW c \in Commands, Got(m, c, "post")
  PROVE  \E e \in effects[m] : e.made = answer[m]
  BY DEF IInv, MessagesOK, MessageOK, Got

\* Nothing is made, asked, answered or revealed.
LEMMA QuestionsQuiet ==
  ASSUME IInv, question' \in {question, Nothing}, revealed' = revealed,
         asked \subseteq asked', asked' \subseteq Questions,
         \A m \in Messages, q \in Questions : Made(m, q)' => Made(m, q),
         \A m \in Messages, q \in Questions : Made(m, q)' => (Idle(m) => Idle(m)'),
         \A n \in Messages : task'[n].cmd = "responder" /\ task'[n].waits = "post" =>
             task[n].cmd = "responder" /\ task[n].waits = "post" /\ task'[n].arg = task[n].arg
  PROVE  QuestionsOK'
  <1>1. \A n \in Messages, q \in Questions : Answering(n, q)' => Answering(n, q)
    BY DEF Answering
  <1>2. Nothing \notin Questions
    BY DispatcherAssumption
  <1>3. question' \in asked' \cup {Nothing} /\ question' \notin revealed' /\ revealed' \subseteq asked'
    BY <1>2 DEF IInv, TypeOK, QuestionsOK
  <1>4. \A n \in Messages, q \in Questions : Answering(n, q)' => q \in asked'
    BY <1>1 DEF IInv, QuestionsOK
  <1>5. \A n \in Messages :
          task'[n].cmd = "responder" /\ task'[n].waits = "post" => task'[n].arg \in Questions
    BY DEF IInv, QuestionsOK
  <1>6. \A m, n \in Messages, q \in Questions : Made(m, q)' /\ Made(n, q)' => m = n
    BY DEF IInv, QuestionsOK
  <1>7. \A m \in Messages, q \in Questions : Made(m, q)' => q \in asked'
    BY DEF IInv, QuestionsOK
  <1>8. \A m \in Messages, q \in Questions : Made(m, q)' /\ ~Idle(m)' =>
          /\ q \notin revealed' /\ q # question'
          /\ \A n \in Messages : ~Answering(n, q)'
    BY <1>1, <1>2 DEF IInv, QuestionsOK
  <1> QED
    BY <1>3, <1>4, <1>5, <1>6, <1>7, <1>8 DEF QuestionsOK

\* A handler that asks, answers and reveals nothing.
LEMMA HandlerQuiet ==
  ASSUME IInv, NEW m \in Messages, question' \in {question, Nothing}, UNCHANGED <<asked, revealed, effects>>,
         \A n \in Messages : task'[n].cmd = task[n].cmd,
         \A n \in Messages : n # m => task'[n] = task[n],
         Idle(m)' \/ (~Idle(m) /\ task[m].cmd # "responder")
  PROVE  QuestionsOK'
  <1>1. \A n \in Messages, q \in Questions : Made(n, q)' => Made(n, q)
    BY DEF Made
  <1>2. \A n \in Messages : Idle(n) => Idle(n)'
    BY DEF Idle
  <1>3. \A n \in Messages : task'[n].cmd = "responder" /\ task'[n].waits = "post" =>
          task[n].cmd = "responder" /\ task[n].waits = "post" /\ task'[n].arg = task[n].arg
    BY DEF Idle
  <1>4. asked' \subseteq Questions
    BY DEF IInv, TypeOK
  <1> QED
    BY <1>1, <1>2, <1>3, <1>4, QuestionsQuiet

-----------------------------------------------------------------------------
(***************************************************************************)
(* The API.                                                                *)
(***************************************************************************)

\* An answer reaches the handler that awaits it, or nobody.
LEMMA RespondKeeps ==
  ASSUME IInv, NEW r \in net, NEW v \in Answers \cup {"refused"}, Respond(r, v), UNCHANGED api,
         r.what = "post" /\ v # "refused" => \E e \in effects[r.msg] : e.made = v
  PROVE  HandlersType' /\ MessagesOK' /\ FirstsOK'
  <1> USE DEF Respond, api
  <1>0. TypeOK /\ r.msg \in Messages /\ r.what \in Awaits
    BY DEF IInv, TypeOK, Request
  <1>1. HandlersType'
    BY <1>0 DEF HandlersType, TypeOK, Args
  <1>2. v # Nothing
    BY DispatcherAssumption DEF Answers
  <1>3. ASSUME NEW n \in Messages
        PROVE  answer'[n] = IF n = r.msg /\ task[n].waits = r.what /\ r.life = restarts
                            THEN v ELSE answer[n]
    BY <1>0 DEF TypeOK
  <1>4. ASSUME NEW n \in Messages PROVE MessageOK(n)'
    <2>1. MessageOK(n)
      BY DEF IInv, MessagesOK
    <2> QED
      BY <1>3, <2>1 DEF MessageOK, Idle
  <1>5. \A s \in net' : RequestOK(s)'
    BY DEF RequestOK, IInv, MessagesOK
  <1>6. ASSUME NEW n \in Messages, ~task'[n].again PROVE FirstOK(n)'
    <2>1. FirstOK(n)
      BY <1>6 DEF IInv, FirstsOK
    <2>2. task' = task /\ told' = told /\ effects' = effects /\ restarts' = restarts /\ net' = net \ {r}
      OBVIOUS
    <2>3. CASE n = r.msg /\ Waiting(n)
      <3>1. /\ r.what = task[n].waits /\ r.life = restarts /\ effects[n] = {}
            /\ \A s \in net : s.msg = n => s = r
        BY <2>1, <2>3 DEF FirstOK
      <3>2. NoRequest(n)'
        BY <2>2, <3>1 DEF NoRequest
      <3> QED
        BY <2>1, <2>2, <3>1, <3>2 DEF FirstOK, NoRequest, Waiting
    <2>4. CASE n # r.msg
      BY <1>3, <2>1, <2>2, <2>4 DEF FirstOK, NoRequest, Waiting
    <2>5. CASE ~Waiting(n)
      BY <2>1, <2>2, <2>5 DEF FirstOK, NoRequest, Waiting
    <2> QED
      BY <2>3, <2>4, <2>5
  <1> QED
    BY <1>1, <1>4, <1>5, <1>6 DEF MessagesOK, FirstsOK

\* What is performed for a message is what its command asks for, and for the
\* commands of Practising it is performed once.
LEMMA PerformKeeps ==
  ASSUME IInv, NEW r, NEW v \in Answers, Perform(r, v),
         r.cmd = "bloco" => v \in Proposals, r.cmd = "questao" => v \in asked', asked \subseteq asked'
  PROVE  /\ HandlersType' /\ MessagesOK' /\ FirstsOK' /\ effects' \in [Messages -> SUBSET Effect]
         /\ r.msg \in Messages /\ r.cmd = task[r.msg].cmd
         /\ \A n \in Messages : n # r.msg => effects'[n] = effects[n]
         /\ effects'[r.msg] = effects[r.msg] \cup {[body |-> Body(r), made |-> v]}
  <1> USE DEF Perform, Respond
  <1> DEFINE new == [body |-> Body(r), made |-> v]
  <1>0. /\ TypeOK /\ r \in net /\ r.msg \in Messages /\ r.what \in Awaits
        /\ r \in Request /\ RequestOK(r)
    BY DEF IInv, TypeOK, Request, MessagesOK
  <1>1. HandlersType'
    BY <1>0 DEF HandlersType, TypeOK, Args
  <1>2. v # Nothing /\ v # "refused"
    BY DispatcherAssumption DEF Answers
  <1>3. ASSUME NEW n \in Messages
        PROVE  answer'[n] = IF n = r.msg /\ task[n].waits = r.what /\ r.life = restarts
                            THEN v ELSE answer[n]
    BY <1>0 DEF TypeOK
  <1>4. /\ \A n \in Messages : n # r.msg => effects'[n] = effects[n]
        /\ effects'[r.msg] = effects[r.msg] \cup {new}
    BY <1>0 DEF TypeOK
  <1>5. new \in Effect
    <2>1. 0 \in 0 .. MaxRestarts
      BY DispatcherAssumption
    <2>2. Body(r) \in Commands \X (Questions \cup Proposals \cup {Nothing}) \X (0 .. MaxRestarts)
      BY <1>0, <2>1 DEF Body, Request
    <2> QED
      BY <2>2 DEF Effect
  <1>6. effects' \in [Messages -> SUBSET Effect]
    BY <1>0, <1>4, <1>5 DEF TypeOK
  <1>7. ASSUME NEW n \in Messages PROVE MessageOK(n)'
    <2>1. MessageOK(n)
      BY DEF IInv, MessagesOK
    <2>2. CASE n # r.msg
      BY <1>3, <1>4, <2>1, <2>2 DEF MessageOK, Idle
    <2>3. CASE n = r.msg
      <3>1. task[n].cmd \in Practising => Body(r) = <<task[n].cmd, Nothing, 0>>
        BY <1>0, <2>3 DEF Body, RequestOK
      <3>2. task[n].cmd \in Practising => effects[n] = {}
        BY <2>1, <2>3, <3>1 DEF MessageOK
      <3>3. \A e \in effects'[n] : e \in effects[n] \/ e = new
        BY <1>4, <2>3
      <3>4. \A e \in effects'[n] :
              /\ task[n].cmd \in Practising => e.body = <<task[n].cmd, Nothing, 0>>
              /\ task[n].cmd = "bloco" => e.made \in Proposals
              /\ task[n].cmd = "questao" => e.made \in asked'
        BY <1>0, <2>1, <2>3, <3>1, <3>3 DEF MessageOK, RequestOK
      <3>5. task[n].cmd \in Practising => \A e, f \in effects'[n] : e = f
        BY <3>2, <3>3
      <3>6. \E e \in effects'[n] : e.made = v
        <4>1. new \in effects'[n] /\ new.made = v
          BY <1>4, <2>3
        <4> HIDE DEF new
        <4> QED
          BY <4>1
      <3>7. task[n].waits = "post" /\ answer'[n] \notin {Nothing, "refused"}
              => \E e \in effects'[n] : e.made = answer'[n]
        <4>1. answer'[n] = v \/ answer'[n] = answer[n]
          BY <1>3
        <4>2. effects[n] \subseteq effects'[n]
          BY <1>4, <2>3
        <4> QED
          BY <2>1, <3>6, <4>1, <4>2 DEF MessageOK
      <3>8. told[n] = "done" => effects'[n] # {}
        BY <3>6
      <3> QED
        BY <2>1, <3>4, <3>5, <3>7, <3>8 DEF MessageOK, Idle
    <2> QED
      BY <2>2, <2>3
  <1>8. \A s \in net' : RequestOK(s)'
    BY DEF RequestOK, IInv, MessagesOK
  <1>9. ASSUME NEW n \in Messages, ~task'[n].again PROVE FirstOK(n)'
    <2>1. FirstOK(n)
      BY <1>9 DEF IInv, FirstsOK
    <2>2. task' = task /\ told' = told /\ restarts' = restarts /\ net' = net \ {r}
      OBVIOUS
    <2>3. CASE n = r.msg /\ Waiting(n)
      <3>1. /\ r.what = task[n].waits /\ r.life = restarts
            /\ \A s \in net : s.msg = n => s = r
            /\ told[n] # "nothing_done"
        BY <1>0, <2>1, <2>3 DEF FirstOK, NoRequest
      <3>2. NoRequest(n)'
        BY <2>2, <3>1 DEF NoRequest
      <3>3. answer'[n] = v
        BY <1>3, <2>3, <3>1
      <3> QED
        BY <1>2, <2>2, <2>3, <3>1, <3>2, <3>3 DEF FirstOK, NoRequest, Waiting, Awaits
    <2>4. CASE n # r.msg
      BY <1>3, <1>4, <2>1, <2>2, <2>4 DEF FirstOK, NoRequest, Waiting
    <2>5. CASE n = r.msg /\ ~Waiting(n)
      <3>1. ~NoRequest(n)
        BY <1>0, <2>5 DEF NoRequest
      <3>2. task[n].waits # "queued" /\ told[n] # "nothing_done"
        BY <2>1, <3>1 DEF FirstOK
      <3> QED
        BY <2>2, <2>5, <3>2 DEF FirstOK, Waiting
    <2> QED
      BY <2>3, <2>4, <2>5
  <1> QED
    BY <1>0, <1>1, <1>4, <1>6, <1>7, <1>8, <1>9 DEF MessagesOK, FirstsOK, RequestOK

-----------------------------------------------------------------------------
(***************************************************************************)
(* One lemma per action, or per group of actions alike.                    *)
(***************************************************************************)

\* A message is delivered, once or again.
LEMMA ArriveIInv ==
  ASSUME IInv, NEW m \in Messages, NEW c \in Commands, Arrive(m, c)
  PROVE  IInv'
  <1> USE DEF Arrive, Task, memory, past
  <1>0. TypeOK /\ Idle(m) /\ NoRequest(m)
    BY DEF IInv, NoRequest
  <1>1. /\ task'[m] = [cmd |-> c, waits |-> "queued", arg |-> Nothing, again |-> FALSE]
        /\ told'[m] = "silence" /\ effects'[m] = {}
        /\ \A n \in Messages : n # m =>
             task'[n] = task[n] /\ told'[n] = told[n] /\ effects'[n] = effects[n]
    BY <1>0 DEF TypeOK
  <1>2. TypeOK'
    BY <1>0 DEF TypeOK
  <1>3. ASSUME NEW n \in Messages PROVE MessageOK(n)'
    <2>1. MessageOK(n)
      BY DEF IInv, MessagesOK
    <2>2. CASE n = m
      BY <1>1, <2>2 DEF MessageOK, Idle
    <2>3. CASE n # m
      BY <1>1, <2>1, <2>3 DEF MessageOK, Idle
    <2> QED
      BY <2>2, <2>3
  <1>4. ASSUME NEW r \in net' PROVE RequestOK(r)'
    <2>1. r \in net /\ r.msg \in Messages /\ r.msg # m
      BY <1>0 DEF TypeOK, Request, NoRequest
    <2> QED
      BY <1>1, <2>1 DEF RequestOK, IInv, MessagesOK
  <1>5. ASSUME NEW n \in Messages, ~task'[n].again PROVE FirstOK(n)'
    <2>1. CASE n = m
      BY <1>0, <1>1, <2>1 DEF FirstOK, NoRequest, Waiting, Awaits
    <2>2. CASE n # m
      BY <1>1, <1>5, <2>2 DEF IInv, FirstsOK, FirstOK, NoRequest, Waiting
    <2> QED
      BY <2>1, <2>2
  <1>6. QuestionsOK'
    <2>1. \A n \in Messages, q \in Questions : Made(n, q)' => n # m /\ Made(n, q)
      BY <1>1 DEF Made
    <2>2. \A n \in Messages, q \in Questions : Made(n, q)' => (Idle(n) => Idle(n)')
      BY <1>1, <2>1 DEF Idle
    <2>3. \A n \in Messages : task'[n].cmd = "responder" /\ task'[n].waits = "post" =>
            task[n].cmd = "responder" /\ task[n].waits = "post" /\ task'[n].arg = task[n].arg
      BY <1>1
    <2>4. asked' \subseteq Questions
      BY <1>0 DEF TypeOK
    <2> QED
      BY <2>1, <2>2, <2>3, <2>4, QuestionsQuiet
  <1> QED
    BY <1>2, <1>3, <1>4, <1>5, <1>6 DEF IInv, FlowShown, MessagesOK, FirstsOK

\* A handler begins.
LEMMA BeginIInv ==
  ASSUME IInv, NEW m \in Messages, Begin(m)
  PROVE  IInv'
  <1> USE DispatcherAssumption DEF memory, past, api
  <1>0. TypeOK /\ Nothing \in Args /\ "post" \in Awaits /\ "current" \in Awaits
    BY DEF IInv, Args, Awaits
  <1>1. CASE BeginPractice(m) /\ Call(m, "post", Nothing)
    <2>1. task[m].waits = "queued" /\ task[m].cmd \in Practising
      BY <1>1 DEF BeginPractice, Queued
    <2>2. /\ HandlersType' /\ MessagesOK' /\ FirstsOK'
          /\ \A n \in Messages : task'[n].cmd = task[n].cmd
          /\ \A n \in Messages : n # m => task'[n] = task[n]
      BY <1>0, <1>1, <2>1, CallKeeps DEF BeginPractice
    <2>3. QuestionsOK'
      BY <1>1, <2>1, <2>2, HandlerQuiet DEF BeginPractice, Practising, Idle
    <2> QED
      BY <1>1, <2>2, <2>3 DEF BeginPractice, IInv, TypeOK, HandlersType, Args, FlowShown
  <1>2. CASE (BeginPractice(m) \/ BeginAnswer(m)) /\ Finish(m, "nothing_done")
    <2>1. task[m].waits = "queued" /\ UNCHANGED <<memory, api, restarts, mix, past>>
      BY <1>2 DEF BeginPractice, BeginAnswer, Queued
    <2>2. ~task[m].again => effects[m] = {} /\ NoRequest(m)
      BY <2>1 DEF IInv, FirstsOK, FirstOK
    <2>3. /\ HandlersType' /\ MessagesOK' /\ FirstsOK' /\ Idle(m)'
          /\ \A n \in Messages : task'[n].cmd = task[n].cmd
          /\ \A n \in Messages : n # m => task'[n] = task[n]
      BY <1>2, <2>1, <2>2, FinishKeeps
    <2>4. QuestionsOK'
      BY <2>1, <2>3, HandlerQuiet
    <2> QED
      BY <2>1, <2>3, <2>4 DEF IInv, TypeOK, HandlersType, Args, FlowShown
  <1>3. CASE BeginAnswer(m) /\ question # Nothing /\ Call(m, "post", question)
    <2>1. task[m].waits = "queued" /\ task[m].cmd = "responder"
      BY <1>3 DEF BeginAnswer, Queued
    <2>2. question \in Args /\ question \in Questions
      BY <1>0, <1>3 DEF TypeOK, Args
    <2>3. /\ HandlersType' /\ MessagesOK' /\ FirstsOK'
          /\ \A n \in Messages : task'[n].cmd = task[n].cmd /\ (Idle(n) => Idle(n)')
          /\ \A n \in Messages : n # m => task'[n] = task[n]
          /\ task'[m].arg = question
      BY <1>0, <1>3, <2>1, <2>2, CallKeeps DEF BeginAnswer, Practising
    <2>4. /\ \A n \in Messages, q \in Questions : Made(n, q)' => Made(n, q)
          /\ \A n \in Messages, q \in Questions : Answering(n, q)' => Answering(n, q) \/ q = question
      BY <1>3, <2>3 DEF Made, Answering, BeginAnswer
    <2>5. QuestionsOK'
      <3>1. UNCHANGED <<question, asked, revealed>>
        BY <1>3 DEF BeginAnswer
      <3>2. question \in asked
        BY <1>3 DEF IInv, QuestionsOK
      <3>3. \A n \in Messages :
              task'[n].cmd = "responder" /\ task'[n].waits = "post" => task'[n].arg \in Questions
        BY <2>2, <2>3 DEF IInv, QuestionsOK
      <3>4. \A n \in Messages, q \in Questions : Made(n, q)' /\ ~Idle(n)' =>
              /\ q \notin revealed' /\ q # question'
              /\ \A k \in Messages : ~Answering(k, q)'
        BY <2>3, <2>4, <3>1 DEF IInv, QuestionsOK
      <3> QED
        BY <2>4, <3>1, <3>2, <3>3, <3>4 DEF IInv, QuestionsOK
    <2> QED
      BY <1>3, <2>3, <2>5 DEF BeginAnswer, IInv, TypeOK, HandlersType, Args, FlowShown
  <1>4. CASE BeginPlan(m)
    <2>1. Call(m, "current", Nothing) /\ task[m].waits = "queued" /\ task[m].cmd # "responder"
      BY <1>4 DEF BeginPlan, Queued, Planning
    <2>2. /\ HandlersType' /\ MessagesOK' /\ FirstsOK'
          /\ \A n \in Messages : task'[n].cmd = task[n].cmd
          /\ \A n \in Messages : n # m => task'[n] = task[n]
      BY <1>0, <1>4, <2>1, CallKeeps DEF BeginPlan
    <2>3. QuestionsOK'
      BY <1>4, <2>1, <2>2, HandlerQuiet DEF BeginPlan, Idle
    <2> QED
      BY <1>4, <2>2, <2>3 DEF BeginPlan, IInv, TypeOK, HandlersType, Args, FlowShown
  <1>5. CASE BeginReply(m)
    <2>1. task[m].waits = "queued" /\ task[m].cmd \in Replying
      BY <1>5 DEF BeginReply, Queued
    <2>2. /\ UNCHANGED <<question, flow, api, restarts, mix, past>>
          /\ \/ Call(m, "post", flow.pid) /\ holders' = holders \cup {m}
             \/ Finish(m, "silence") /\ UNCHANGED holders
      BY <1>5 DEF BeginReply
    <2>3. CASE Call(m, "post", flow.pid) /\ holders' = holders \cup {m}
      <3>1. flow.pid \in Args /\ task[m].cmd \notin Practising /\ task[m].cmd # "responder"
        BY <1>0, <2>1 DEF TypeOK, Args, Replying, Practising
      <3>2. /\ HandlersType' /\ MessagesOK' /\ FirstsOK'
            /\ \A n \in Messages : task'[n].cmd = task[n].cmd
            /\ \A n \in Messages : n # m => task'[n] = task[n]
        BY <1>0, <2>1, <2>2, <2>3, <3>1, CallKeeps
      <3>3. QuestionsOK'
        BY <2>1, <2>2, <3>1, <3>2, HandlerQuiet DEF Idle
      <3> QED
        BY <2>2, <2>3, <3>2, <3>3 DEF IInv, TypeOK, HandlersType, Args, FlowShown
    <2>4. CASE Finish(m, "silence") /\ UNCHANGED holders
      <3>1. /\ HandlersType' /\ MessagesOK' /\ FirstsOK' /\ Idle(m)'
            /\ \A n \in Messages : task'[n].cmd = task[n].cmd
            /\ \A n \in Messages : n # m => task'[n] = task[n]
        BY <2>2, <2>4, FinishKeeps
      <3>2. QuestionsOK'
        BY <2>2, <3>1, HandlerQuiet
      <3> QED
        BY <2>2, <2>4, <3>1, <3>2 DEF IInv, TypeOK, HandlersType, Args, FlowShown
    <2> QED
      BY <2>2, <2>3, <2>4
  <1> QED
    BY <1>1, <1>2, <1>3, <1>4, <1>5 DEF Begin, BeginPractice, BeginAnswer

\* Replies that touch no question: refusals, and answers given up.
LEMMA RefusedIInv ==
  ASSUME IInv, NEW m \in Messages, Refused(m) \/ GiveUp(m)
  PROVE  IInv'
  <1> USE DEF memory, past, api
  <1>1. CASE Refused(m)
    <2>1. Waiting(m) /\ answer[m] = "refused" /\ answer[m] # Nothing /\ Finish(m, "nothing_done")
      BY <1>1, DispatcherAssumption DEF Refused
    <2>2. ~task[m].again => effects[m] = {} /\ NoRequest(m)
      BY <2>1 DEF IInv, FirstsOK, FirstOK, NoRequest
    <2>3. /\ HandlersType' /\ MessagesOK' /\ FirstsOK' /\ Idle(m)'
          /\ \A n \in Messages : task'[n].cmd = task[n].cmd
          /\ \A n \in Messages : n # m => task'[n] = task[n]
      BY <1>1, <2>1, <2>2, FinishKeeps DEF Refused
    <2>4. QuestionsOK'
      BY <1>1, <2>3, HandlerQuiet DEF Refused
    <2> QED
      BY <1>1, <2>3, <2>4 DEF Refused, IInv, TypeOK, HandlersType, Args, FlowShown
  <1>2. CASE GiveUp(m)
    <2>1. Finish(m, "silence")
      BY <1>2 DEF GiveUp
    <2>2. /\ HandlersType' /\ MessagesOK' /\ FirstsOK' /\ Idle(m)'
          /\ \A n \in Messages : task'[n].cmd = task[n].cmd
          /\ \A n \in Messages : n # m => task'[n] = task[n]
      BY <1>2, <2>1, FinishKeeps DEF GiveUp
    <2>3. QuestionsOK'
      BY <1>2, <2>2, HandlerQuiet DEF GiveUp
    <2> QED
      BY <1>2, <2>2, <2>3 DEF GiveUp, IInv, TypeOK, HandlersType, Args, FlowShown
  <1> QED
    BY <1>1, <1>2

\* The question delivered is one nobody keeps, answers or has revealed.
LEMMA QuestionAskedIInv ==
  ASSUME IInv, NEW m \in Messages, QuestionAsked(m)
  PROVE  IInv'
  <1> USE DEF past, api
  <1>0. TypeOK
    BY DEF IInv
  <1> DEFINE a == answer[m]
  <1>1. Got(m, "questao", "post") /\ Finish(m, "done") /\ ~Idle(m)
    BY DEF QuestionAsked, Got, Idle
  <1>2. PICK e \in effects[m] : e.made = a
    BY <1>1, GotMade DEF Commands, Practising
  <1>3. a \in asked /\ a \in Questions
    BY <1>0, <1>1, <1>2 DEF IInv, MessagesOK, MessageOK, Got, TypeOK
  <1>4. Made(m, a)
    BY <1>1, <1>2 DEF Made, Got
  <1>5. /\ HandlersType' /\ MessagesOK' /\ FirstsOK' /\ Idle(m)'
        /\ \A n \in Messages : task'[n].cmd = task[n].cmd
        /\ \A n \in Messages : n # m => task'[n] = task[n]
    BY <1>1, <1>2, FinishKeeps DEF QuestionAsked
  <1>6. question' = a /\ UNCHANGED <<flow, holders, api, restarts, mix, past>>
    BY DEF QuestionAsked
  <1>7. /\ \A n \in Messages, q \in Questions : Made(n, q)' => Made(n, q)
        /\ \A n \in Messages, q \in Questions : Answering(n, q)' => Answering(n, q)
    BY <1>5, <1>6 DEF Made, Answering, Idle
  <1>8. \A n \in Messages, q \in Questions : Made(n, q)' /\ ~Idle(n)' => n # m /\ Made(n, q) /\ ~Idle(n)
    BY <1>5, <1>7 DEF Idle
  <1>9. QuestionsOK'
    <2>1. a \notin revealed
      BY <1>1, <1>3, <1>4 DEF IInv, QuestionsOK
    <2>2. \A n \in Messages, q \in Questions : Made(n, q)' /\ ~Idle(n)' =>
            /\ q \notin revealed' /\ q # question'
            /\ \A k \in Messages : ~Answering(k, q)'
      BY <1>3, <1>4, <1>6, <1>7, <1>8 DEF IInv, QuestionsOK
    <2>3. \A n \in Messages :
            task'[n].cmd = "responder" /\ task'[n].waits = "post" => task'[n].arg \in Questions
      BY <1>5 DEF IInv, QuestionsOK, Idle
    <2>4. /\ \A n \in Messages, q \in Questions : Answering(n, q)' => q \in asked'
          /\ \A n, k \in Messages, q \in Questions : Made(n, q)' /\ Made(k, q)' => n = k
          /\ \A n \in Messages, q \in Questions : Made(n, q)' => q \in asked'
      BY <1>6, <1>7 DEF IInv, QuestionsOK
    <2> QED
      BY <1>3, <1>6, <2>1, <2>2, <2>3, <2>4 DEF IInv, QuestionsOK
  <1> QED
    BY <1>3, <1>5, <1>6, <1>9 DEF IInv, TypeOK, HandlersType, Args, FlowShown

\* What is revealed is what was answered, which nobody is still to receive.
LEMMA AnswerGradedIInv ==
  ASSUME IInv, NEW m \in Messages, AnswerGraded(m)
  PROVE  IInv'
  <1> USE DEF api
  <1>0. TypeOK
    BY DEF IInv
  <1> DEFINE a == task[m].arg
  <1>1. Got(m, "responder", "post") /\ Finish(m, "done")
    BY DEF AnswerGraded
  <1>2. a \in Questions /\ Answering(m, a)
    BY <1>1 DEF IInv, QuestionsOK, Got, Answering
  <1>3. \E e \in effects[m] : e.made = answer[m]
    BY <1>1, GotMade DEF Commands
  <1>4. /\ HandlersType' /\ MessagesOK' /\ FirstsOK' /\ Idle(m)'
        /\ \A n \in Messages : task'[n].cmd = task[n].cmd
        /\ \A n \in Messages : n # m => task'[n] = task[n]
    BY <1>1, <1>3, FinishKeeps DEF AnswerGraded
  <1>5. /\ question' = Nothing /\ UNCHANGED <<flow, holders, api, restarts, mix, shown>>
        /\ revealed' \in {revealed, revealed \cup {a}}
    BY DEF AnswerGraded
  <1>6. /\ \A n \in Messages, q \in Questions : Made(n, q)' => Made(n, q)
        /\ \A n \in Messages, q \in Questions : Answering(n, q)' => Answering(n, q)
        /\ \A n \in Messages : Idle(n) => Idle(n)'
    BY <1>4, <1>5 DEF Made, Answering, Idle
  <1>7. Nothing \notin Questions /\ a \in asked
    BY <1>2, DispatcherAssumption DEF IInv, QuestionsOK
  <1>8. QuestionsOK'
    <2>1. question' \in asked' \cup {Nothing} /\ question' \notin revealed' /\ revealed' \subseteq asked'
      BY <1>2, <1>5, <1>7 DEF IInv, QuestionsOK, TypeOK
    <2>2. \A n \in Messages, q \in Questions : Made(n, q)' /\ ~Idle(n)' =>
            /\ q \notin revealed' /\ q # question'
            /\ \A k \in Messages : ~Answering(k, q)'
      BY <1>2, <1>5, <1>6, <1>7 DEF IInv, QuestionsOK
    <2>3. \A n \in Messages :
            task'[n].cmd = "responder" /\ task'[n].waits = "post" => task'[n].arg \in Questions
      BY <1>4 DEF IInv, QuestionsOK, Idle
    <2>4. /\ \A n \in Messages, q \in Questions : Answering(n, q)' => q \in asked'
          /\ \A n, k \in Messages, q \in Questions : Made(n, q)' /\ Made(k, q)' => n = k
          /\ \A n \in Messages, q \in Questions : Made(n, q)' => q \in asked'
      BY <1>5, <1>6 DEF IInv, QuestionsOK
    <2> QED
      BY <2>1, <2>2, <2>3, <2>4 DEF QuestionsOK
  <1> QED
    BY <1>2, <1>4, <1>5, <1>8 DEF IInv, TypeOK, HandlersType, Args, FlowShown

\* A handler goes on with the answer to a question or a simulation.
LEMMA PracticeDoneIInv ==
  ASSUME IInv, NEW m \in Messages, PracticeDone(m) \/ PendingCancelled(m)
  PROVE  IInv'
  <1> USE DEF memory, past, api
  <1>1. PICK c \in Commands : Got(m, c, "post")
    BY DEF PracticeDone, PendingCancelled, Commands, Practising, Planning
  <1>2. effects[m] # {}
    BY <1>1, GotMade
  <1>3. Finish(m, "done") /\ UNCHANGED <<memory, api, restarts, mix, past>>
    BY DEF PracticeDone, PendingCancelled
  <1>4. /\ HandlersType' /\ MessagesOK' /\ FirstsOK' /\ Idle(m)'
        /\ \A n \in Messages : task'[n].cmd = task[n].cmd
        /\ \A n \in Messages : n # m => task'[n] = task[n]
    BY <1>2, <1>3, FinishKeeps
  <1>5. QuestionsOK'
    BY <1>3, <1>4, HandlerQuiet
  <1> QED
    BY <1>3, <1>4, <1>5 DEF IInv, TypeOK, HandlersType, Args, FlowShown

\* A handler of a plan's conversation replies, and leaves a flow that waits
\* for a confirmation only of what was shown.
LEMMA PlanReplyIInv ==
  ASSUME IInv, NEW m \in Messages, NEW text \in {"silence", "done"}, Finish(m, text),
         text = "done" => effects[m] # {},
         UNCHANGED <<question, api, restarts, mix, revealed>>,
         flow' \in [stage : Stages, pid : Proposals \cup {Nothing}],
         flow'.stage = "confirmation" <=> flow'.pid # Nothing,
         holders' \subseteq Messages, shown' \subseteq Proposals, FlowShown'
  PROVE  IInv'
  <1> USE DEF api
  <1>1. /\ HandlersType' /\ MessagesOK' /\ FirstsOK' /\ Idle(m)'
        /\ \A n \in Messages : task'[n].cmd = task[n].cmd
        /\ \A n \in Messages : n # m => task'[n] = task[n]
    BY FinishKeeps
  <1>2. QuestionsOK'
    BY <1>1, HandlerQuiet
  <1> QED
    BY <1>1, <1>2 DEF IInv, TypeOK, HandlersType, Args

\* Or it calls the API again.
LEMMA PlanCallIInv ==
  ASSUME IInv, NEW m \in Messages, NEW w \in Awaits, NEW a \in Args, Call(m, w, a),
         Waiting(m) /\ task[m].waits # "post" /\ answer[m] # Nothing,
         task[m].cmd \in Planning,
         UNCHANGED <<question, api, restarts, mix, revealed>>,
         flow' \in [stage : Stages, pid : Proposals \cup {Nothing}],
         flow'.stage = "confirmation" <=> flow'.pid # Nothing,
         holders' \subseteq Messages, shown' \subseteq Proposals, FlowShown'
  PROVE  IInv'
  <1> USE DEF api
  <1>1. task[m].cmd \notin Practising /\ task[m].cmd # "responder" /\ ~Idle(m)
    BY DEF Planning, Practising, Idle, Waiting, Awaits
  <1>2. /\ HandlersType' /\ MessagesOK' /\ FirstsOK'
        /\ \A n \in Messages : task'[n].cmd = task[n].cmd
        /\ \A n \in Messages : n # m => task'[n] = task[n]
    BY <1>1, CallKeeps
  <1>3. QuestionsOK'
    BY <1>1, <1>2, HandlerQuiet
  <1> QED
    BY <1>2, <1>3 DEF IInv, TypeOK, HandlersType, Args

\* A handler of a command about plans goes on.
LEMMA PlanIInv ==
  ASSUME IInv, NEW m \in Messages,
         \/ PlanPending(m) \/ NoPlanPending(m) \/ GoalsKnown(m) \/ ExamsKnown(m)
         \/ CancelPending(m) \/ ProposalMade(m) \/ PlanCreated(m)
  PROVE  IInv'
  <1> USE DispatcherAssumption DEF memory, past, Replace, Flow, NoFlow
  <1>0. /\ TypeOK /\ FlowShown /\ Nothing \in Args /\ Nothing \notin Proposals
        /\ {"goals", "exams", "post"} \subseteq Awaits
        /\ {"none", "exam", "deadline", "confirmation"} \subseteq Stages
    BY DEF IInv, Args, Awaits, Stages
  <1> DEFINE a == answer[m]
  <1>1. CASE PlanPending(m)
    <2>1. a \in Proposals /\ flow' = [stage |-> "confirmation", pid |-> a] /\ shown' = shown \cup {a}
      BY <1>1 DEF PlanPending
    <2>2. FlowShown' /\ shown' \subseteq Proposals
      BY <1>0, <2>1 DEF FlowShown, TypeOK
    <2> QED
      BY <1>0, <1>1, <2>1, <2>2, PlanReplyIInv DEF PlanPending
  <1>2. CASE NoPlanPending(m)
    <2>1. /\ task[m].cmd \in Planning /\ Waiting(m) /\ task[m].waits # "post" /\ a # Nothing
      BY <1>2 DEF NoPlanPending, Got, Waiting, Awaits, Planning
    <2>2. FlowShown'
      BY <1>0, <1>2 DEF NoPlanPending, FlowShown
    <2> QED
      BY <1>0, <1>2, <2>1, <2>2, PlanCallIInv DEF NoPlanPending, TypeOK
  <1>3. CASE GoalsKnown(m)
    <2>1. /\ task[m].cmd \in Planning /\ Waiting(m) /\ task[m].waits # "post" /\ a # Nothing
      BY <1>3 DEF GoalsKnown, Got, Waiting, Awaits, Planning
    <2>2. /\ flow' = [stage |-> "deadline", pid |-> Nothing] \/ flow' = flow
          /\ holders' \subseteq Messages /\ shown' = shown
      BY <1>0, <1>3 DEF GoalsKnown, TypeOK
    <2>3. FlowShown'
      BY <1>0, <2>2 DEF FlowShown
    <2>4. /\ flow' \in [stage : Stages, pid : Proposals \cup {Nothing}]
          /\ flow'.stage = "confirmation" <=> flow'.pid # Nothing
      BY <1>0, <2>2 DEF TypeOK
    <2>5. Finish(m, "silence") \/ Call(m, "exams", Nothing)
      BY <1>3 DEF GoalsKnown
    <2> QED
      BY <1>0, <1>3, <2>1, <2>2, <2>3, <2>4, <2>5, PlanCallIInv, PlanReplyIInv DEF GoalsKnown, TypeOK
  <1>4. CASE ExamsKnown(m)
    <2>1. /\ flow' = [stage |-> "exam", pid |-> Nothing] \/ flow' = flow
          /\ holders' \subseteq Messages /\ shown' = shown
      BY <1>0, <1>4 DEF ExamsKnown, TypeOK
    <2>2. FlowShown'
      BY <1>0, <2>1 DEF FlowShown
    <2>3. /\ flow' \in [stage : Stages, pid : Proposals \cup {Nothing}]
          /\ flow'.stage = "confirmation" <=> flow'.pid # Nothing
      BY <1>0, <2>1 DEF TypeOK
    <2> QED
      BY <1>0, <1>4, <2>1, <2>2, <2>3, PlanReplyIInv DEF ExamsKnown, TypeOK
  <1>5. CASE CancelPending(m)
    <2>1. /\ task[m].cmd \in Planning /\ Waiting(m) /\ task[m].waits # "post" /\ a # Nothing
      BY <1>5 DEF CancelPending, Got, Waiting, Awaits, Planning
    <2>2. flow' = [stage |-> "none", pid |-> Nothing] /\ holders' = {} /\ shown' = {}
      BY <1>5 DEF CancelPending
    <2>3. FlowShown'
      BY <2>2 DEF FlowShown
    <2>4. Finish(m, "silence") \/ (a \in Args /\ Call(m, "post", a))
      BY <1>5 DEF CancelPending, Args
    <2> QED
      BY <1>0, <1>5, <2>1, <2>2, <2>3, <2>4, PlanCallIInv, PlanReplyIInv DEF CancelPending
  <1>6. CASE ProposalMade(m)
    <2>1. Got(m, "bloco", "post")
      BY <1>6 DEF ProposalMade
    <2>2. PICK e \in effects[m] : e.made = a
      BY <2>1, GotMade DEF Commands, Replying
    <2>3. a \in Proposals
      BY <2>1, <2>2 DEF IInv, MessagesOK, MessageOK, Got
    <2>4. /\ flow' = [stage |-> "confirmation", pid |-> a] \/ flow' = flow
          /\ holders' \subseteq Messages /\ shown' = shown \cup {a}
      BY <1>0, <1>6 DEF ProposalMade, TypeOK
    <2>5. FlowShown' /\ shown' \subseteq Proposals
      BY <1>0, <2>3, <2>4 DEF FlowShown, TypeOK
    <2>6. /\ flow' \in [stage : Stages, pid : Proposals \cup {Nothing}]
          /\ flow'.stage = "confirmation" <=> flow'.pid # Nothing
      BY <1>0, <2>3, <2>4 DEF TypeOK
    <2> QED
      BY <1>6, <2>2, <2>4, <2>5, <2>6, PlanReplyIInv DEF ProposalMade
  <1>7. CASE PlanCreated(m)
    <2>1. effects[m] # {}
      BY <1>7, GotMade DEF PlanCreated, Commands, Replying
    <2>2. flow' = [stage |-> "none", pid |-> Nothing] /\ holders' = {} /\ shown' = shown
      BY <1>7 DEF PlanCreated
    <2>3. FlowShown'
      BY <2>2 DEF FlowShown
    <2> QED
      BY <1>0, <1>7, <2>1, <2>2, <2>3, PlanReplyIInv DEF PlanCreated, TypeOK
  <1> QED
    BY <1>1, <1>2, <1>3, <1>4, <1>5, <1>6, <1>7

\* Steps that change neither handlers nor what the API did for a message.
LEMMA UntouchedKeeps ==
  ASSUME IInv, UNCHANGED <<question, task, answer, told, effects, asked, restarts, revealed>>,
         net' \subseteq net
  PROVE  HandlersType' /\ MessagesOK' /\ FirstsOK' /\ QuestionsOK'
  <1>1. HandlersType'
    BY DEF IInv, TypeOK, HandlersType, Args
  <1>2. MessagesOK'
    BY DEF IInv, MessagesOK, MessageOK, RequestOK, Idle
  <1>3. ASSUME NEW n \in Messages, ~task'[n].again PROVE FirstOK(n)'
    BY <1>3 DEF IInv, FirstsOK, FirstOK, NoRequest, Waiting
  <1>4. QuestionsOK'
    BY DEF IInv, QuestionsOK, Made, Answering, Idle
  <1> QED
    BY <1>1, <1>2, <1>3, <1>4 DEF FirstsOK

\* A handler goes on inside the conversation about a plan.
LEMMA FlowIInv ==
  ASSUME IInv, Collect \/ LeaveFlow \/ FlowTooOld
  PROVE  IInv'
  <1> USE DEF handlers, api, past, memory, Replace, Flow, NoFlow
  <1>1. /\ UNCHANGED <<question, task, answer, told, net, effects, asked, restarts, revealed>>
        /\ UNCHANGED <<prop, running, mix>>
    BY DEF Collect, LeaveFlow, FlowTooOld
  <1>2. HandlersType' /\ MessagesOK' /\ FirstsOK' /\ QuestionsOK'
    BY <1>1, UntouchedKeeps
  <1>3. TypeOK /\ FlowShown
    BY DEF IInv
  <1>4. /\ flow' \in [stage : Stages, pid : Proposals \cup {Nothing}]
        /\ flow'.stage = "confirmation" <=> flow'.pid # Nothing
        /\ FlowShown' /\ holders' \subseteq Messages /\ shown' \subseteq Proposals
    <2>1. CASE Collect
      <3>1. NextStage[flow.stage] \in Stages \ {"confirmation"} /\ flow.stage # "confirmation"
        BY <2>1 DEF Collect, NextStage, Stages
      <3>2. flow' = [stage |-> NextStage[flow.stage], pid |-> flow.pid]
        BY <2>1 DEF Collect
      <3> HIDE DEF NextStage
      <3> QED
        BY <1>3, <2>1, <3>1, <3>2 DEF Collect, TypeOK, FlowShown
    <2>2. CASE LeaveFlow \/ FlowTooOld
      BY <1>3, <2>2 DEF LeaveFlow, FlowTooOld, TypeOK, FlowShown, Stages
    <2> QED
      BY <2>1, <2>2
  <1> QED
    BY <1>1, <1>2, <1>3, <1>4 DEF IInv, TypeOK, HandlersType, Args

\* A restart leaves every message it interrupts idle or queued once more.
LEMMA RestartIInv ==
  ASSUME IInv, NEW lost \in SUBSET {m \in Messages : ~Idle(m)}, Restart(lost)
  PROVE  IInv'
  <1> USE DispatcherAssumption DEF Restart, Replace, Flow, NoFlow, Task, api, past
  <1>0. TypeOK
    BY DEF IInv
  <1>1. ASSUME NEW n \in Messages
        PROVE  /\ task'[n].cmd = task[n].cmd
               /\ task'[n].waits \in {"no", "queued"}
               /\ Idle(n) => task'[n] = task[n]
               /\ ~Idle(n) => task'[n].again
    <2>1. CASE Idle(n)
      <3>1. task'[n] = task[n]
        BY <2>1
      <3> QED
        BY <2>1, <3>1 DEF Idle
    <2>2. CASE ~Idle(n)
      <3>1. task'[n] = [cmd |-> task[n].cmd, waits |-> IF n \in lost THEN "no" ELSE "queued",
                        arg |-> Nothing, again |-> TRUE]
        BY <2>2
      <3> HIDE DEF Restart
      <3> QED
        BY <2>2, <3>1
    <2> QED
      BY <2>1, <2>2
  <1>2. TypeOK'
    <2>1. restarts' \in 0 .. MaxRestarts
      BY <1>0 DEF TypeOK
    <2>2. task' \in [Messages -> [cmd : Commands, waits : Awaits \cup {"no", "queued"},
                                  arg : Questions \cup Proposals \cup {Nothing}, again : BOOLEAN]]
      BY <1>0 DEF TypeOK
    <2>3. answer' \in [Messages -> Answers \cup {Nothing, "refused"}]
      OBVIOUS
    <2>4. flow' \in [stage : Stages, pid : Proposals \cup {Nothing}]
          /\ (flow'.stage = "confirmation" <=> flow'.pid # Nothing)
      BY DEF Stages
    <2> QED
      BY <1>0, <2>1, <2>2, <2>3, <2>4 DEF TypeOK
  <1>3. ASSUME NEW n \in Messages PROVE MessageOK(n)'
    <2>1. MessageOK(n)
      BY DEF IInv, MessagesOK
    <2> QED
      BY <1>1, <2>1 DEF MessageOK, Idle
  <1>4. ASSUME NEW r \in net' PROVE RequestOK(r)'
    <2>1. r \in net /\ r.msg \in Messages
      BY <1>0 DEF TypeOK, Request
    <2> QED
      BY <1>1, <2>1 DEF RequestOK, IInv, MessagesOK
  <1>5. ASSUME NEW n \in Messages, ~task'[n].again PROVE FirstOK(n)'
    <2>1. Idle(n) /\ task'[n] = task[n]
      BY <1>1, <1>5
    <2> QED
      BY <1>5, <2>1 DEF IInv, FirstsOK, FirstOK, NoRequest, Waiting, Idle, Awaits
  <1>6. QuestionsOK'
    <2>1. /\ \A n \in Messages, q \in Questions : Made(n, q)' => Made(n, q)
          /\ \A n \in Messages : Idle(n) => Idle(n)'
      BY <1>1 DEF Made, Idle
    <2>2. \A n \in Messages : task'[n].waits # "post"
      BY <1>1
    <2>3. asked' \subseteq Questions
      BY <1>0 DEF TypeOK
    <2> QED
      BY <2>1, <2>2, <2>3, QuestionsQuiet
  <1>7. FlowShown'
    BY DEF FlowShown
  <1> QED
    BY <1>2, <1>3, <1>4, <1>5, <1>6, <1>7 DEF IInv, MessagesOK, FirstsOK

\* Requests that change nothing.
LEMMA ReadIInv ==
  ASSUME IInv, NEW r \in net, ReadCurrent(r) \/ ReadList(r) \/ Replay(r) \/ Refuse(r) \/ Drop(r)
  PROVE  IInv'
  <1> USE DEF memory, past, api, handlers
  <1>0. TypeOK
    BY DEF IInv
  <1>1. CASE Drop(r)
    <2>1. HandlersType' /\ MessagesOK' /\ FirstsOK' /\ QuestionsOK'
      BY <1>1, UntouchedKeeps DEF Drop
    <2> QED
      BY <1>1, <2>1 DEF Drop, IInv, TypeOK, HandlersType, Args, FlowShown
  <1>2. CASE ReadCurrent(r) \/ ReadList(r) \/ Replay(r) \/ Refuse(r)
    <2>1. PICK v \in Answers \cup {"refused"} :
            /\ Respond(r, v) /\ UNCHANGED api
            /\ r.what = "post" /\ v # "refused" => \E e \in effects[r.msg] : e.made = v
      <3>1. CASE ReadCurrent(r) \/ ReadList(r)
        BY <3>1 DEF ReadCurrent, ReadList, Answers, Drafts
      <3>2. CASE Replay(r)
        <4>1. PICK e \in effects[r.msg] : e.body = Body(r) /\ Respond(r, e.made)
          BY <3>2 DEF Replay
        <4>2. e \in Effect
          BY <1>0, <4>1 DEF TypeOK, Request
        <4>3. e.made \in Answers
          BY <4>2 DEF Effect
        <4> QED
          BY <3>2, <4>1, <4>3 DEF Replay
      <3>3. CASE Refuse(r)
        BY <3>3 DEF Refuse
      <3> QED
        BY <1>2, <3>1, <3>2, <3>3
    <2>2. HandlersType' /\ MessagesOK' /\ FirstsOK'
      BY <2>1, RespondKeeps
    <2>3. UNCHANGED <<question, flow, holders, task, told, restarts, mix, past, api>>
      BY <2>1 DEF Respond
    <2>4. QuestionsOK'
      BY <2>3 DEF IInv, QuestionsOK, Made, Answering, Idle
    <2> QED
      BY <2>2, <2>3, <2>4 DEF IInv, TypeOK, HandlersType, Args, FlowShown
  <1> QED
    BY <1>1, <1>2

\* Requests that perform something and make no question.
LEMMA PerformIInv ==
  ASSUME IInv, NEW r \in net,
         \/ AnswerOrCancel(r) \/ CreateSimulation(r) \/ CloseProposal(r)
         \/ \E p \in Proposals : CreateProposal(r, p)
  PROVE  IInv'
  <1> USE DEF memory, past
  <1>0. TypeOK /\ r.cmd # "questao"
    BY DEF IInv, AnswerOrCancel, CreateSimulation, CloseProposal, CreateProposal
  <1>1. PICK v \in Answers : Perform(r, v) /\ (r.cmd = "bloco" => v \in Proposals)
    BY DEF AnswerOrCancel, CreateSimulation, CloseProposal, CreateProposal, Answers
  <1>2. /\ asked' = asked /\ running' \in BOOLEAN
        /\ prop' \in [Proposals -> {"absent", "draft", "closed"}]
    BY <1>0 DEF AnswerOrCancel, CreateSimulation, CloseProposal, CreateProposal, TypeOK, Drafts
  <1>3. /\ HandlersType' /\ MessagesOK' /\ FirstsOK' /\ effects' \in [Messages -> SUBSET Effect]
        /\ r.msg \in Messages /\ r.cmd = task[r.msg].cmd
        /\ \A n \in Messages : n # r.msg => effects'[n] = effects[n]
    BY <1>0, <1>1, <1>2, PerformKeeps
  <1>4. UNCHANGED <<question, flow, holders, task, told, restarts, mix, past>>
    BY <1>1 DEF Perform, Respond
  <1>5. \A n \in Messages, q \in Questions : Made(n, q)' <=> Made(n, q)
    BY <1>0, <1>3, <1>4 DEF Made
  <1>6. QuestionsOK'
    BY <1>2, <1>4, <1>5 DEF IInv, QuestionsOK, Answering, Idle
  <1> QED
    BY <1>2, <1>3, <1>4, <1>6 DEF IInv, TypeOK, HandlersType, Args, FlowShown

\* A question is made once, by one message.
LEMMA CreateQuestionIInv ==
  ASSUME IInv, NEW r \in net, NEW q \in Questions, CreateQuestion(r, q)
  PROVE  IInv'
  <1> USE DEF memory, past
  <1>0. TypeOK /\ r.cmd = "questao" /\ q \notin asked /\ Perform(r, q) /\ asked' = asked \cup {q}
        /\ UNCHANGED <<prop, running>> /\ q \in Answers
    BY DEF IInv, CreateQuestion, Answers
  <1>1. /\ HandlersType' /\ MessagesOK' /\ FirstsOK' /\ effects' \in [Messages -> SUBSET Effect]
        /\ r.msg \in Messages /\ r.cmd = task[r.msg].cmd
        /\ \A n \in Messages : n # r.msg => effects'[n] = effects[n]
        /\ effects'[r.msg] = effects[r.msg] \cup {[body |-> Body(r), made |-> q]}
    BY <1>0, PerformKeeps
  <1>2. UNCHANGED <<question, flow, holders, task, told, restarts, mix, past>>
    BY <1>0 DEF Perform, Respond
  <1>3. \A n \in Messages, k \in Questions : Made(n, k)' => Made(n, k) \/ (n = r.msg /\ k = q)
    BY <1>1, <1>2 DEF Made
  <1>4. \A n \in Messages, k \in Questions : Answering(n, k)' <=> Answering(n, k)
    BY <1>2 DEF Answering
  <1>5. /\ q # question /\ q \notin revealed
        /\ \A n \in Messages : ~Answering(n, q) /\ ~Made(n, q)
    BY <1>0, DispatcherAssumption DEF IInv, QuestionsOK
  <1>6. QuestionsOK'
    <2>1. \A n, k \in Messages, p \in Questions : Made(n, p)' /\ Made(k, p)' => n = k
      BY <1>3, <1>5 DEF IInv, QuestionsOK
    <2>2. \A n \in Messages, p \in Questions : Made(n, p)' => p \in asked'
      BY <1>0, <1>3 DEF IInv, QuestionsOK
    <2>3. \A n \in Messages, p \in Questions : Made(n, p)' /\ ~Idle(n)' =>
            /\ p \notin revealed' /\ p # question'
            /\ \A k \in Messages : ~Answering(k, p)'
      BY <1>2, <1>3, <1>4, <1>5 DEF IInv, QuestionsOK, Idle
    <2>4. /\ question' \in asked' \cup {Nothing} /\ question' \notin revealed'
          /\ revealed' \subseteq asked'
          /\ \A n \in Messages, p \in Questions : Answering(n, p)' => p \in asked'
          /\ \A n \in Messages :
               task'[n].cmd = "responder" /\ task'[n].waits = "post" => task'[n].arg \in Questions
      BY <1>0, <1>2, <1>4 DEF IInv, QuestionsOK
    <2> QED
      BY <2>1, <2>2, <2>3, <2>4 DEF QuestionsOK
  <1> QED
    BY <1>0, <1>1, <1>2, <1>6 DEF IInv, TypeOK, HandlersType, Args, FlowShown

\* What happens outside the chat.
LEMMA ElsewhereIInv ==
  ASSUME IInv, NEW p \in Proposals, Elsewhere(p)
  PROVE  IInv'
  <1> USE DEF memory, past, handlers
  <1>1. HandlersType' /\ MessagesOK' /\ FirstsOK' /\ QuestionsOK'
    BY UntouchedKeeps DEF Elsewhere
  <1>2. prop' \in [Proposals -> {"absent", "draft", "closed"}]
    BY DEF Elsewhere, IInv, TypeOK
  <1> QED
    BY <1>1, <1>2 DEF Elsewhere, IInv, TypeOK, HandlersType, Args, FlowShown

\* Nothing happens.
LEMMA StutterIInv == ASSUME IInv, UNCHANGED vars PROVE IInv'
  <1> USE DEF vars, memory, handlers, api, past
  <1>1. HandlersType' /\ MessagesOK' /\ FirstsOK' /\ QuestionsOK'
    BY UntouchedKeeps
  <1> QED
    BY <1>1 DEF IInv, TypeOK, HandlersType, Args, FlowShown

\* Every step of the chat keeps the inductive invariant.
LEMMA StepIInv == IInv /\ [Next]_vars => IInv'
  <1> SUFFICES ASSUME IInv, [Next]_vars PROVE IInv'
    OBVIOUS
  <1>1. CASE \E m \in Messages, c \in Commands : Arrive(m, c)
    BY <1>1, ArriveIInv
  <1>2. CASE \E m \in Messages : Begin(m)
    BY <1>2, BeginIInv
  <1>3. CASE \E m \in Messages : Continue(m) \/ GiveUp(m)
    BY <1>3, RefusedIInv, QuestionAskedIInv, AnswerGradedIInv, PracticeDoneIInv, PlanIInv DEF Continue
  <1>4. CASE Collect \/ LeaveFlow \/ FlowTooOld
    BY <1>4, FlowIInv
  <1>5. CASE \E lost \in SUBSET {m \in Messages : ~Idle(m)} : Restart(lost)
    BY <1>5, RestartIInv
  <1>6. CASE \E r \in net : Serve(r)
    BY <1>6, ReadIInv, PerformIInv, CreateQuestionIInv DEF Serve
  <1>7. CASE \E p \in Proposals : Elsewhere(p)
    BY <1>7, ElsewhereIInv
  <1>8. CASE UNCHANGED vars
    BY <1>8, StutterIInv
  <1> QED
    BY <1>1, <1>2, <1>3, <1>4, <1>5, <1>6, <1>7, <1>8 DEF Next

-----------------------------------------------------------------------------
\* The inductive invariant.
THEOREM DispatcherInvariance == Spec => []IInv
  BY InitIInv, StepIInv, PTL DEF Spec

\* Everything keeps its type, and a conversation that waits for a confirmation
\* has a proposal to confirm (mentor_telegram_dispatcher.py:371).
THEOREM DispatcherTypeOK == Spec => []TypeOK
  <1>1. IInv => TypeOK
    BY DEF IInv
  <1> QED
    BY <1>1, DispatcherInvariance, PTL

\* What the chat says of an answered command is so: "Nenhuma operacao
\* academica foi realizada" (lines 456 and 520) and every success.
THEOREM RepliesAreTruthful == Spec => []TruthfulReply
  <1>1. IInv => TruthfulReply
    BY DEF IInv, MessagesOK, MessageOK, FirstsOK, FirstOK, TruthfulReply
  <1> QED
    BY <1>1, DispatcherInvariance, PTL

\* The key of lines 103-112 makes repeated deliveries of questao, simulado
\* and cancelar one effect.
THEOREM RepeatedMessageHasOneEffect == Spec => []OneEffectPerMessage
  <1>1. IInv => OneEffectPerMessage
    BY DEF IInv, MessagesOK, MessageOK, OneEffectPerMessage
  <1> QED
    BY <1>1, DispatcherInvariance, PTL

\* The next /responder is never for a question whose answer was shown
\* (lines 391-392 and 413-423), however messages and restarts interleave.
THEOREM NoRevealedQuestionIsKept == Spec => []KeptQuestionIsOpen
  <1>1. IInv => KeptQuestionIsOpen
    BY DEF IInv, QuestionsOK, KeptQuestionIsOpen
  <1> QED
    BY <1>1, DispatcherInvariance, PTL

\* One step of ConfirmsOnlyWhatWasShown.
NewConfirmationsShown == \A r \in net' \ net : r.cmd = "confirmo" => r.arg \in shown

\* A new confirmation is of a proposal the chat has shown.
LEMMA StepConfirms == IInv /\ [Next]_vars => [NewConfirmationsShown]_vars
  <1> SUFFICES ASSUME IInv, Next, NEW r \in net', r \notin net, r.cmd = "confirmo"
               PROVE  r.arg \in shown
    BY DEF NewConfirmationsShown
  <1>1. PICK m \in Messages : Begin(m) \/ Continue(m)
    BY DEF Next, Arrive, GiveUp, Finish, Collect, LeaveFlow, FlowTooOld, Restart, Serve, ReadCurrent,
       ReadList, Replay, Refuse, Drop, CreateQuestion, AnswerOrCancel, CreateSimulation, CloseProposal,
       CreateProposal, Perform, Respond, Elsewhere, handlers
  <1>2. PICK w \in Awaits, a \in {Nothing, question, flow.pid, answer[m]} :
          r = [msg |-> m, cmd |-> task[m].cmd, what |-> w, arg |-> a, life |-> restarts]
    BY <1>1 DEF Begin, Continue, BeginPractice, BeginAnswer, BeginPlan, BeginReply, Refused, QuestionAsked,
       AnswerGraded, PracticeDone, PlanPending, NoPlanPending, GoalsKnown, ExamsKnown, CancelPending,
       PendingCancelled, ProposalMade, PlanCreated, Call, Finish, Awaits
  <1>3. task[m].cmd = "confirmo"
    BY <1>2
  <1>4. BeginReply(m) /\ flow.stage = "confirmation" /\ Call(m, "post", flow.pid)
    BY <1>1, <1>3 DEF Begin, Continue, BeginPractice, BeginAnswer, BeginPlan, BeginReply, Refused,
       QuestionAsked, AnswerGraded, PracticeDone, PlanPending, NoPlanPending, GoalsKnown, ExamsKnown,
       CancelPending, PendingCancelled, ProposalMade, PlanCreated, Queued, Got, Practising, Planning,
       Finish
  <1>5. r.arg = flow.pid
    BY <1>4 DEF Call
  <1> QED
    BY <1>4, <1>5 DEF IInv, FlowShown

\* The chat asks to confirm only what it has shown (lines 356-377).
THEOREM ConfirmationsAreOfWhatWasShown == Spec => ConfirmsOnlyWhatWasShown
  <1>1. IInv /\ [Next]_vars => [\A r \in net' \ net : r.cmd = "confirmo" => r.arg \in shown]_vars
    BY StepConfirms DEF NewConfirmationsShown
  <1> QED
    BY <1>1, DispatcherInvariance, PTL DEF Spec, ConfirmsOnlyWhatWasShown
=============================================================================
