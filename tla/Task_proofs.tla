----------------------------- MODULE Task_proofs -----------------------------
(***************************************************************************)
(* Invariance proofs for the task objects of module Task: the types, the   *)
(* signal of main's port, and TaskInv, by which an object is freed only    *)
(* when nothing refers to it any more.                                     *)
(***************************************************************************)
EXTENDS Task, SeqLemmas, FiniteSetTheorems

-----------------------------------------------------------------------------
(* Main's call stack. *)

LEMMA FrameIn ==
  ASSUME NEW pc \in FramePCs, NEW t \in Tasks, NEW m \in Message \cup {NoMsg}
  PROVE  /\ F(pc, t, m) \in Frame
         /\ F(pc, t, m).pc = pc /\ F(pc, t, m).task = t /\ F(pc, t, m).msg = m
BY DEF F, Frame

LEMMA MsgIn ==
  ASSUME NEW type \in MsgTypes, NEW t \in Tasks, NEW async \in BOOLEAN, NEW id \in Nat
  PROVE  /\ Msg(type, t, async, id) \in Message
         /\ Msg(type, t, async, id).type = type
         /\ Msg(type, t, async, id).task = t
         /\ Msg(type, t, async, id).async = async
BY DEF Msg, Message

\* The frames a step may leave: main returns, goes on, or calls.
LEMMA StackFacts ==
  ASSUME stack \in Seq(Frame)
  PROVE  /\ Len(stack) \in Nat
         /\ \A i \in 1..Len(stack) : stack[i] \in Frame
         /\ stack # <<>> =>
              /\ Len(stack) > 0
              /\ Top \in Frame /\ Top = stack[Len(stack)]
              /\ Pop \in Seq(Frame) /\ Len(Pop) = Len(stack) - 1
              /\ \A i \in 1..(Len(stack) - 1) : Pop[i] = stack[i]
<1>1. Len(stack) \in Nat /\ \A i \in 1..Len(stack) : stack[i] \in Frame
  BY LenProperties, ElementOfSeq
<1>2. ASSUME stack # <<>>
      PROVE  /\ Len(stack) > 0
             /\ Top \in Frame /\ Top = stack[Len(stack)]
             /\ Pop \in Seq(Frame) /\ Len(Pop) = Len(stack) - 1
             /\ \A i \in 1..(Len(stack) - 1) : Pop[i] = stack[i]
  <2>. HIDE DEF Frame
  <2>. DEFINE S == Frame
  <2>. HIDE DEF S
  <2>1. stack \in Seq(S)
    BY DEF S
  <2>2. /\ Len(stack) \in Nat \ {0}
        /\ Last(stack) \in S /\ Last(stack) = stack[Len(stack)]
        /\ Front(stack) \in Seq(S)
        /\ Len(Front(stack)) = Len(stack) - 1
        /\ \A i \in 1..(Len(stack) - 1) : Front(stack)[i] = stack[i]
    BY <1>2, <2>1, FrontLastFacts
  <2>. QED  BY <2>2 DEF S, Top, Pop
<1>. QED  BY <1>1, <1>2

LEMMA GotoFacts ==
  ASSUME stack \in Seq(Frame), stack # <<>>, NEW f \in Frame
  PROVE  /\ Goto(f) \in Seq(Frame)
         /\ Len(Goto(f)) = Len(stack)
         /\ \A i \in 1..Len(stack) : Goto(f)[i] = IF i = Len(stack) THEN f ELSE stack[i]
<1>1. Len(stack) \in 1..Len(stack)
  BY StackFacts
<1>. QED  BY <1>1, ExceptSeq DEF Goto

LEMMA PushTwoFacts ==
  ASSUME NEW s \in Seq(Frame), NEW f \in Frame, NEW g \in Frame
  PROVE  /\ s \o <<f, g>> \in Seq(Frame)
         /\ Len(s \o <<f, g>>) = Len(s) + 2
         /\ \A i \in 1..Len(s) : (s \o <<f, g>>)[i] = s[i]
         /\ (s \o <<f, g>>)[Len(s) + 1] = f
         /\ (s \o <<f, g>>)[Len(s) + 2] = g
<1>. DEFINE t == <<f, g>>
<1>1. t \in Seq(Frame) /\ Len(t) = 2 /\ t[1] = f /\ t[2] = g
  OBVIOUS
<1>. HIDE DEF t
<1>2. /\ s \o t \in Seq(Frame)
      /\ Len(s \o t) = Len(s) + Len(t)
      /\ \A i \in 1..Len(s) : (s \o t)[i] = s[i]
      /\ \A i \in 1..Len(t) : (s \o t)[Len(s) + i] = t[i]
  BY <1>1, ConcatFacts
<1>. QED  BY <1>1, <1>2 DEF t

LEMMA PushOneFacts ==
  ASSUME NEW s \in Seq(Frame), NEW f \in Frame
  PROVE  /\ s \o <<f>> \in Seq(Frame)
         /\ Len(s \o <<f>>) = Len(s) + 1
         /\ \A i \in 1..Len(s) : (s \o <<f>>)[i] = s[i]
         /\ (s \o <<f>>)[Len(s) + 1] = f
<1>. DEFINE t == <<f>>
<1>1. t \in Seq(Frame) /\ Len(t) = 1 /\ t[1] = f
  OBVIOUS
<1>. HIDE DEF t
<1>2. /\ s \o t \in Seq(Frame)
      /\ Len(s \o t) = Len(s) + Len(t)
      /\ \A i \in 1..Len(s) : (s \o t)[i] = s[i]
      /\ \A i \in 1..Len(t) : (s \o t)[Len(s) + i] = t[i]
  BY <1>1, ConcatFacts
<1>. QED  BY <1>1, <1>2 DEF t

-----------------------------------------------------------------------------
(* Types. *)

\* What a step does to the stack alone.
LEMMA DisposeIfMustType ==
  ASSUME NEW s \in Seq(Frame), NEW t \in Tasks
  PROVE  DisposeIfMust(s, t) \in Seq(Frame)
<1>1. NoMsg \in Message \cup {NoMsg} /\ "dd" \in FramePCs
  BY DEF FramePCs
<1>2. F("dd", t, NoMsg) \in Frame
  BY <1>1, FrameIn
<1>. QED  BY <1>2 DEF DisposeIfMust

LEMMA AnswerType ==
  ASSUME TypeOK, NEW m \in Message, Answer(m)
  PROVE  waiting' \in [Tasks -> BOOLEAN]
BY DEF TypeOK, Answer, Message

LEMMA ProcessreplyType ==
  ASSUME TypeOK, NEW s \in Seq(Frame), NEW m \in Message, Processreply(s, m)
  PROVE  /\ stack' \in Seq(Frame)
         /\ processing' \in [Tasks -> BOOLEAN]
         /\ waiting' \in [Tasks -> BOOLEAN]
<1>1. m.task \in Tasks
  BY DEF Message
<1>2. F("upd", m.task, m) \in Frame
  BY <1>1, FrameIn DEF FramePCs
<1>3. DisposeIfMust(s, m.task) \in Seq(Frame)
  BY <1>1, DisposeIfMustType
<1>4. Append(s, F("upd", m.task, m)) \in Seq(Frame)
  BY <1>2
<1>5. processing \in [Tasks -> BOOLEAN] /\ waiting \in [Tasks -> BOOLEAN]
  BY DEF TypeOK
<1>6. /\ \/ stack' = Append(s, F("upd", m.task, m)) \/ stack' = DisposeIfMust(s, m.task)
      /\ \/ processing' = processing \/ processing' = [processing EXCEPT ![m.task] = TRUE]
      /\ waiting' = waiting \/ Answer(m)
  BY DEF Processreply
<1>7. stack' \in Seq(Frame)
  BY <1>3, <1>4, <1>6
<1>8. processing' \in [Tasks -> BOOLEAN]
  BY <1>5, <1>6
<1>9. waiting' \in [Tasks -> BOOLEAN]
  BY <1>5, <1>6, AnswerType
<1>. QED  BY <1>7, <1>8, <1>9

LEMMA ToMainType ==
  ASSUME TypeOK, NEW ms \in Seq(Message), ToMain(ms)
  PROVE  taskport' \in Seq(Message) /\ tsig' \in BOOLEAN
BY DEF TypeOK, ToMain

LEMMA TopTypes ==
  ASSUME TypeOK, stack # <<>>
  PROVE  /\ Top.task \in Tasks /\ Top.pc \in FramePCs
         /\ Top.msg \in Message \cup {NoMsg}
         /\ Pop \in Seq(Frame)
         /\ DisposeIfMust(Pop, Top.task) \in Seq(Frame)
         /\ \A pc \in FramePCs : Goto(F(pc, Top.task, NoMsg)) \in Seq(Frame)
<1>1. stack \in Seq(Frame)
  BY DEF TypeOK
<1>2. Top \in Frame /\ Pop \in Seq(Frame)
  BY <1>1, StackFacts
<1>3. /\ Top.task \in Tasks /\ Top.pc \in FramePCs
      /\ Top.msg \in Message \cup {NoMsg}
  BY <1>2 DEF Frame
<1>4. \A pc \in FramePCs : F(pc, Top.task, NoMsg) \in Frame
  BY <1>3, FrameIn
<1>. QED  BY <1>1, <1>2, <1>3, <1>4, GotoFacts, DisposeIfMustType

LEMMA OfTaskFacts ==
  ASSUME TypeOK, NEW t \in Tasks, NEW i \in First(OfTask(t))
  PROVE  /\ i \in 1..Len(taskport)
         /\ taskport[i] \in Message /\ taskport[i].task = t
         /\ RemoveAt(taskport, i) \in Seq(Message)
<1>1. taskport \in Seq(Message) /\ i \in 1..Len(taskport) /\ taskport[i].task = t
  BY DEF TypeOK, First, OfTask
<1>2. taskport[i] \in Message
  BY <1>1
<1>3. RemoveAt(taskport, i) \in Seq(Message)
  BY <1>1, RemoveAtFacts
<1>. QED  BY <1>1, <1>2, <1>3

\* A step of main that only changes the stack, and signals.
LEMMA MainSteps ==
  ASSUME TypeOK, MainStep
  PROVE  TypeOK'
<1>. USE DEF TypeOK
<1>. USE DEF mainVars, flagVars, semaVars, subVars
<1>1. CASE EventWait
  BY <1>1 DEF EventWait
<1>2. CASE Processtask
  <2>1. CASE taskport = <<>>
    <3>1. /\ got' = FALSE
          /\ UNCHANGED <<stack, processing, waiting, taskport, tsig, ssig, semaport, subport,
                         tstate, target, mustdispose, disposing, started, resume>>
          /\ UNCHANGED <<runsema, procured, spc, held, brk, updport, sent, ops>>
      BY <1>2, <2>1 DEF Processtask
    <3>. QED  BY <3>1
  <2>2. CASE taskport # <<>>
    <3>1. Head(taskport) \in Message /\ Tail(taskport) \in Seq(Message)
      BY <2>2
    <3>2. Head(taskport).task \in Tasks
      BY <3>1 DEF Message
    <3>3. F("ptTail", Head(taskport).task, NoMsg) \in Frame
      BY <3>2, FrameIn DEF FramePCs
    <3>4. <<F("ptTail", Head(taskport).task, NoMsg)>> \in Seq(Frame)
      BY <3>3
    <3>5. Processreply(<<F("ptTail", Head(taskport).task, NoMsg)>>, Head(taskport))
      BY <1>2, <2>2 DEF Processtask
    <3>6. /\ stack' \in Seq(Frame)
          /\ processing' \in [Tasks -> BOOLEAN]
          /\ waiting' \in [Tasks -> BOOLEAN]
      BY <3>1, <3>4, <3>5, ProcessreplyType
    <3>. QED  BY <1>2, <2>2, <3>1, <3>6 DEF Processtask
  <2>. QED  BY <2>1, <2>2
<1>3. CASE ProcesstaskReturns
  BY <1>3, TopTypes DEF ProcesstaskReturns, AtTop
<1>4. CASE UpdateReturns
  <2>1. Top.task \in Tasks /\ DisposeIfMust(Pop, Top.task) \in Seq(Frame)
    BY <1>4, TopTypes DEF UpdateReturns, AtTop
  <2>2. waiting' \in [Tasks -> BOOLEAN]
    BY <1>4 DEF UpdateReturns, Answer
  <2>. QED  BY <1>4, <2>1, <2>2 DEF UpdateReturns
<1>5. CASE Processtaskreply
  <2>1. stack # <<>> /\ Top.task \in Tasks /\ Pop \in Seq(Frame)
    BY <1>5, TopTypes DEF Processtaskreply, AtTop
  <2>2. CASE OfTask(Top.task) = {} /\ stack' = Pop /\ UNCHANGED <<processing, waiting, taskport>>
    BY <1>5, <2>1, <2>2 DEF Processtaskreply
  <2>3. ASSUME NEW i \in First(OfTask(Top.task)),
               Processreply(stack, taskport[i]), taskport' = RemoveAt(taskport, i)
        PROVE  TypeOK'
    <3>1. taskport[i] \in Message /\ RemoveAt(taskport, i) \in Seq(Message)
      BY <2>1, OfTaskFacts
    <3>2. /\ stack' \in Seq(Frame)
          /\ processing' \in [Tasks -> BOOLEAN]
          /\ waiting' \in [Tasks -> BOOLEAN]
      BY <2>3, <3>1, ProcessreplyType
    <3>. QED  BY <1>5, <2>3, <3>1, <3>2 DEF Processtaskreply
  <2>. QED  BY <1>5, <2>2, <2>3 DEF Processtaskreply
<1>6. CASE WaitformsgScan
  <2>1. /\ stack # <<>> /\ Top.task \in Tasks /\ Pop \in Seq(Frame)
        /\ Top.msg \in Message \cup {NoMsg}
    BY <1>6, TopTypes DEF WaitformsgScan, AtTop
  <2>2. F("wfmWait", Top.task, Top.msg) \in Frame
    BY <2>1, FrameIn DEF FramePCs
  <2>3. Goto(F("wfmWait", Top.task, Top.msg)) \in Seq(Frame)
    BY <2>1, <2>2, GotoFacts
  <2>4. CASE OfTask(Top.task) = {} /\ stack' = Goto(F("wfmWait", Top.task, Top.msg))
             /\ UNCHANGED <<tsig, taskport, processing, waiting>>
    BY <1>6, <2>3, <2>4 DEF WaitformsgScan
  <2>5. ASSUME NEW i \in First(OfTask(Top.task)), taskport' = RemoveAt(taskport, i),
               IF taskport[i] = Top.msg
               THEN /\ tsig' = TRUE
                    /\ stack' = Pop
                    /\ UNCHANGED <<processing, waiting>>
               ELSE Processreply(stack, taskport[i]) /\ UNCHANGED tsig
        PROVE  TypeOK'
    <3>1. taskport[i] \in Message /\ RemoveAt(taskport, i) \in Seq(Message)
      BY <2>1, OfTaskFacts
    <3>2. /\ stack' \in Seq(Frame) /\ tsig' \in BOOLEAN
          /\ processing' \in [Tasks -> BOOLEAN]
          /\ waiting' \in [Tasks -> BOOLEAN]
      BY <2>1, <2>5, <3>1, ProcessreplyType
    <3>. QED  BY <1>6, <2>5, <3>1, <3>2 DEF WaitformsgScan
  <2>. QED  BY <1>6, <2>4, <2>5 DEF WaitformsgScan
<1>7. CASE WaitformsgWakes
  <2>1. /\ stack # <<>> /\ Top.task \in Tasks /\ Top.msg \in Message \cup {NoMsg}
    BY <1>7, TopTypes DEF WaitformsgWakes, AtTop
  <2>2. F("wfm", Top.task, Top.msg) \in Frame
    BY <2>1, FrameIn DEF FramePCs
  <2>3. Goto(F("wfm", Top.task, Top.msg)) \in Seq(Frame)
    BY <2>1, <2>2, GotoFacts
  <2>. QED  BY <1>7, <2>3 DEF WaitformsgWakes
<1>8. CASE StarttaskReturns
  BY <1>8, TopTypes DEF StarttaskReturns, AtTop
<1>9. CASE MessageReturns
  BY <1>9, TopTypes DEF MessageReturns, AtTop
<1>10. CASE Dodisposetask
  <2>1. stack # <<>> /\ Top.task \in Tasks
    BY <1>10, TopTypes DEF Dodisposetask, AtTop
  <2>2. /\ Goto(F("ddPtr", Top.task, NoMsg)) \in Seq(Frame)
        /\ F("procure", Top.task, NoMsg) \in Frame /\ F("ptr", Top.task, NoMsg) \in Frame
    BY <2>1, TopTypes, FrameIn DEF FramePCs
  <2>3. stack' \in Seq(Frame)
    BY <1>10, <2>2, PushTwoFacts DEF Dodisposetask
  <2>4. brk' \in [Tasks -> BOOLEAN]
    BY <1>10 DEF Dodisposetask, Break
  <2>. QED  BY <1>10, <2>3, <2>4 DEF Dodisposetask
<1>11. CASE Procure
  <2>1. stack # <<>> /\ Top.task \in Tasks
    BY <1>11, TopTypes DEF Procure, AtTop
  <2>2. Goto(F("stWait", Top.task, NoMsg)) \in Seq(Frame)
    BY <2>1, TopTypes DEF FramePCs
  <2>3. Append(semaport, Top.task) \in Seq(Tasks)
    BY <2>1
  <2>4. stack' \in Seq(Frame) /\ semaport' \in Seq(Tasks) /\ ssig' \in BOOLEAN
    <3>1. /\ stack' = Goto(F("stWait", Top.task, NoMsg))
          /\ \/ semaport' = Append(semaport, Top.task) /\ ssig' = TRUE
             \/ semaport' = semaport /\ ssig' = ssig
      BY <1>11 DEF Procure
    <3>2. semaport \in Seq(Tasks) /\ ssig \in BOOLEAN
      OBVIOUS
    <3>. HIDE DEF TypeOK
    <3>. QED  BY <2>2, <2>3, <3>1, <3>2
  <2>5. \/ runsema' = [runsema EXCEPT ![Top.task] = "main"] /\ procured' = procured
        \/ runsema' = runsema /\ procured' = [procured EXCEPT ![Top.task] = TRUE]
    BY <1>11 DEF Procure
  <2>6. runsema' \in [Tasks -> {"free", "sub", "main"}] /\ procured' \in [Tasks -> BOOLEAN]
    <3>1. runsema \in [Tasks -> {"free", "sub", "main"}] /\ procured \in [Tasks -> BOOLEAN]
      OBVIOUS
    <3>. HIDE DEF TypeOK
    <3>2. runsema' \in [Tasks -> {"free", "sub", "main"}]
      BY <2>5, <3>1
    <3>3. procured' \in [Tasks -> BOOLEAN]
      BY <2>5, <3>1
    <3>. QED  BY <3>2, <3>3
  <2>. QED  BY <1>11, <2>4, <2>6 DEF Procure
<1>12. CASE StoptaskWakes
  <2>1. stack # <<>> /\ Top.task \in Tasks /\ Pop \in Seq(Frame)
    BY <1>12, TopTypes DEF StoptaskWakes, AtTop
  <2>2. F("ptr", Top.task, NoMsg) \in Frame
    BY <2>1, FrameIn DEF FramePCs
  <2>3. Append(stack, F("ptr", Top.task, NoMsg)) \in Seq(Frame)
    BY <2>2
  <2>4. stack' \in Seq(Frame) /\ tsig' \in BOOLEAN /\ ssig' \in BOOLEAN
    BY <1>12, <2>1, <2>3 DEF StoptaskWakes
  <2>5. semaport # <<>> => Tail(semaport) \in Seq(Tasks)
    OBVIOUS
  <2>6. semaport' \in Seq(Tasks)
    BY <1>12, <2>5 DEF StoptaskWakes
  <2>7. runsema' \in [Tasks -> {"free", "sub", "main"}]
    BY <1>12 DEF StoptaskWakes
  <2>. QED  BY <1>12, <2>4, <2>6, <2>7 DEF StoptaskWakes
<1>13. CASE DodisposetaskDrains
  <2>1. stack # <<>> /\ Top.task \in Tasks
    BY <1>13, TopTypes DEF DodisposetaskDrains, AtTop
  <2>2. /\ Goto(F("ddFree", Top.task, NoMsg)) \in Seq(Frame)
        /\ F("ptr", Top.task, NoMsg) \in Frame
    BY <2>1, TopTypes, FrameIn DEF FramePCs
  <2>3. stack' \in Seq(Frame)
    BY <1>13, <2>2, PushOneFacts DEF DodisposetaskDrains
  <2>. QED  BY <1>13, <2>3 DEF DodisposetaskDrains
<1>14. CASE DodisposetaskFrees
  BY <1>14, TopTypes DEF DodisposetaskFrees, AtTop
<1>. QED
  BY <1>1, <1>2, <1>3, <1>4, <1>5, <1>6, <1>7, <1>8, <1>9, <1>10, <1>11, <1>12,
     <1>13, <1>14 DEF MainStep

LEMMA PutType ==
  ASSUME TypeOK, NEW t \in Tasks, NEW m \in Message, NEW there, Put(t, m, there)
  PROVE  subport' \in [Tasks -> Seq(Message)] /\ stack' \in Seq(Frame)
<1>1. /\ stack \in Seq(Frame) /\ subport \in [Tasks -> Seq(Message)]
      /\ DisposeIfMust(stack, t) \in Seq(Frame)
  BY DisposeIfMustType DEF TypeOK
<1>2. F("msgK", t, m) \in Frame /\ F("wfm", t, m) \in Frame
  BY FrameIn DEF FramePCs
<1>3. stack \o <<F("msgK", t, m), F("wfm", t, m)>> \in Seq(Frame)
  BY <1>1, <1>2, PushTwoFacts
<1>4. Append(subport[t], m) \in Seq(Message)
  BY <1>1
<1>. QED  BY <1>1, <1>3, <1>4 DEF Put

LEMMA ClientSteps ==
  ASSUME TypeOK, Client
  PROVE  TypeOK'
<1>. USE DEF TypeOK, mainVars, flagVars, semaVars, subVars
<1>. SUFFICES ASSUME NEW t \in Tasks,
                     \/ Starttask(t) \/ Stopasync(t) \/ Disposetask(t) \/ Asetattrsasync(t)
                     \/ \E async \in BOOLEAN :
                           Messagetask(t, async) \/ \E data \in BOOLEAN : Setsuspend(t, data, async)
              PROVE  TypeOK'
  BY DEF Client
<1>1. ASSUME Counted PROVE ops' \in 0..MaxOps
  BY <1>1, TaskAssumption DEF Counted
<1>2. \A async \in BOOLEAN : (IF async THEN 0 ELSE Len(stack) + 1) \in Nat
  OBVIOUS
<1>3. CASE Starttask(t)
  <2>1. Msg("startup", t, FALSE, 0) \in Message
    BY MsgIn DEF MsgTypes
  <2>2. /\ F("startK", t, NoMsg) \in Frame
        /\ F("wfm", t, Msg("startup", t, FALSE, 0)) \in Frame
    BY <2>1, FrameIn DEF FramePCs
  <2>3. stack \o <<F("startK", t, NoMsg),
                  F("wfm", t, Msg("startup", t, FALSE, 0))>> \in Seq(Frame)
    BY <2>2, PushTwoFacts
  <2>4. /\ stack' \in Seq(Frame)
        /\ tstate' = tstate \/ tstate' = [tstate EXCEPT ![t] = "dead"]
        /\ spc' = spc \/ spc' = [spc EXCEPT ![t] = "start"]
    BY <1>3, <2>3 DEF Starttask
  <2>5. tstate' \in [Tasks -> {"new", "run", "suspend", "dead", "freed"}]
    BY <2>4
  <2>6. spc' \in [Tasks -> {"none", "start", "run", "suspended", "exit", "ended", "failed"}]
    BY <2>4
  <2>7. /\ UNCHANGED <<got, tsig, ssig, semaport, taskport, subport, target, processing>>
        /\ UNCHANGED <<mustdispose, disposing, started, resume, runsema, procured>>
        /\ UNCHANGED <<waiting, held, brk, updport, sent, ops>>
    BY <1>3 DEF Starttask
  <2>. QED  BY <2>4, <2>5, <2>6, <2>7
<1>4. CASE Stopasync(t)
  <2>1. brk' \in [Tasks -> BOOLEAN] /\ ops' \in 0..MaxOps
    BY <1>1, <1>4 DEF Stopasync, Break
  <2>. QED  BY <1>4, <2>1 DEF Stopasync
<1>5. CASE Disposetask(t)
  <2>1. F("dd", t, NoMsg) \in Frame
    BY FrameIn DEF FramePCs
  <2>2. Append(stack, F("dd", t, NoMsg)) \in Seq(Frame) /\ ops' \in 0..MaxOps
    BY <1>1, <1>5, <2>1 DEF Disposetask
  <2>3. \/ /\ mustdispose' = [mustdispose EXCEPT ![t] = TRUE]
           /\ target' = [target EXCEPT ![t] = FALSE]
           /\ stack' = stack
        \/ /\ stack' = Append(stack, F("dd", t, NoMsg))
           /\ UNCHANGED <<mustdispose, target>>
    BY <1>5 DEF Disposetask
  <2>4. disposing' = [disposing EXCEPT ![t] = TRUE]
    BY <1>5 DEF Disposetask
  <2>. QED  BY <1>5, <2>2, <2>3, <2>4 DEF Disposetask
<1>6. CASE Asetattrsasync(t)
  <2>1. Msg("set", t, FALSE, 0) \in Message
    BY MsgIn DEF MsgTypes
  <2>2. Append(subport[t], Msg("set", t, FALSE, 0)) \in Seq(Message)
    <3>1. subport[t] \in Seq(Message)
      OBVIOUS
    <3>. HIDE DEF TypeOK
    <3>. QED  BY <2>1, <3>1, AppendProperties
  <2>3. subport' \in [Tasks -> Seq(Message)] /\ ops' \in 0..MaxOps
    BY <1>1, <1>6, <2>2 DEF Asetattrsasync
  <2>. QED  BY <1>6, <2>3 DEF Asetattrsasync
<1>7. ASSUME NEW async \in BOOLEAN, Messagetask(t, async)
      PROVE  TypeOK'
  <2>1. Msg("msg", t, async, IF async THEN 0 ELSE Len(stack) + 1) \in Message
    <3>. DEFINE id == IF async THEN 0 ELSE Len(stack) + 1
    <3>1. id \in Nat /\ "msg" \in MsgTypes
      BY <1>2 DEF MsgTypes
    <3>. HIDE DEF id, TypeOK
    <3>2. Msg("msg", t, async, id) \in Message
      BY <3>1, MsgIn
    <3>. QED  BY <3>2 DEF id
  <2>2. subport' \in [Tasks -> Seq(Message)] /\ stack' \in Seq(Frame) /\ ops' \in 0..MaxOps
    BY <1>1, <1>7, <2>1, PutType DEF Messagetask
  <2>. QED  BY <1>7, <2>2 DEF Messagetask
<1>8. ASSUME NEW async \in BOOLEAN, NEW data \in BOOLEAN, Setsuspend(t, data, async)
      PROVE  TypeOK'
  <2>1. Msg("suspend", t, async, IF async THEN 0 ELSE Len(stack) + 1) \in Message
    <3>. DEFINE id == IF async THEN 0 ELSE Len(stack) + 1
    <3>1. id \in Nat /\ "suspend" \in MsgTypes
      BY <1>2 DEF MsgTypes
    <3>. HIDE DEF id, TypeOK
    <3>2. Msg("suspend", t, async, id) \in Message
      BY <3>1, MsgIn
    <3>. QED  BY <3>2 DEF id
  <2>2. CASE data
    BY <1>1, <1>8, <2>1, <2>2, PutType DEF Setsuspend
  <2>3. CASE ~data
    BY <1>1, <1>8, <2>3 DEF Setsuspend
  <2>. QED  BY <2>2, <2>3
<1>9. ASSUME \E async \in BOOLEAN :
              Messagetask(t, async) \/ \E data \in BOOLEAN : Setsuspend(t, data, async)
      PROVE  TypeOK'
  <2>. PICK async \in BOOLEAN :
         Messagetask(t, async) \/ \E data \in BOOLEAN : Setsuspend(t, data, async)
    BY <1>9
  <2>. HIDE DEF TypeOK
  <2>. QED  BY <1>7, <1>8
<1>. HIDE DEF TypeOK
<1>. QED  BY <1>3, <1>4, <1>5, <1>6, <1>9

LEMMA SubtaskSteps ==
  ASSUME TypeOK, NEW t \in Tasks, SubtaskStep(t) \/ SubtaskWork(t)
  PROVE  TypeOK'
<1>. USE DEF TypeOK, mainVars, flagVars, semaVars, subVars
<1>1. \A m \in Message : <<m>> \in Seq(Message)
  OBVIOUS
<1>2. ASSUME NEW i \in 1..Len(subport[t])
      PROVE  subport[t][i] \in Message /\ RemoveAt(subport[t], i) \in Seq(Message)
  BY RemoveAtFacts
<1>3. CASE SubtaskStarts(t)
  <2>1. Msg("startup", t, FALSE, 0) \in Message
    BY MsgIn DEF MsgTypes
  <2>2. taskport' \in Seq(Message) /\ tsig' \in BOOLEAN
    BY <1>1, <1>3, <2>1, ToMainType DEF SubtaskStarts
  <2>3. runsema' \in [Tasks -> {"free", "sub", "main"}]
    BY <1>3 DEF SubtaskStarts
  <2>4. \/ /\ tstate' = [tstate EXCEPT ![t] = "dead"]
           /\ spc' = [spc EXCEPT ![t] = "failed"]
           /\ UNCHANGED updport
        \/ /\ tstate' = [tstate EXCEPT ![t] = "run"]
           /\ spc' = [spc EXCEPT ![t] = "run"]
           /\ \E ok \in BOOLEAN : updport' = [updport EXCEPT ![t] = ok]
    BY <1>3 DEF SubtaskStarts
  <2>5. tstate' \in [Tasks -> {"new", "run", "suspend", "dead", "freed"}]
    BY <2>4
  <2>6. updport' \in [Tasks -> BOOLEAN]
    <3>1. updport \in [Tasks -> BOOLEAN]
      OBVIOUS
    <3>2. updport' = updport \/ \E ok \in BOOLEAN : updport' = [updport EXCEPT ![t] = ok]
      BY <2>4
    <3>. HIDE DEF TypeOK
    <3>. QED  BY <3>1, <3>2
  <2>7. spc' \in [Tasks -> {"none", "start", "run", "suspended", "exit", "ended", "failed"}]
    BY <2>4
  <2>. QED  BY <1>3, <2>2, <2>3, <2>5, <2>6, <2>7 DEF SubtaskStarts
<1>4. CASE Gettaskmsg(t)
  <2>1. CASE /\ held' = [held EXCEPT ![t] = Head(subport[t])]
             /\ subport' = [subport EXCEPT ![t] = Tail(@)]
             /\ UNCHANGED <<taskport, tsig, tstate, spc>>
    <3>1. subport[t] # <<>>
      BY <1>4 DEF Gettaskmsg
    <3>2. Head(subport[t]) \in Message /\ Tail(subport[t]) \in Seq(Message)
      BY <3>1
    <3>. QED  BY <1>4, <2>1, <3>2 DEF Gettaskmsg
  <2>2. ASSUME NEW i \in First(Special(t)),
               ToMain(<<subport[t][i]>>),
               subport' = [subport EXCEPT ![t] = RemoveAt(@, i)],
               tstate' = [tstate EXCEPT ![t] =
                            IF subport[t][i].type = "suspend" THEN "suspend" ELSE "run"],
               spc' = [spc EXCEPT ![t] =
                            IF subport[t][i].type = "suspend" THEN "suspended" ELSE "run"],
               UNCHANGED held
        PROVE  TypeOK'
    <3>1. i \in 1..Len(subport[t])
      BY DEF First, Special
    <3>2. taskport' \in Seq(Message) /\ tsig' \in BOOLEAN
      BY <1>1, <1>2, <2>2, <3>1, ToMainType
    <3>. QED  BY <1>2, <1>4, <2>2, <3>1, <3>2 DEF Gettaskmsg
  <2>. QED  BY <1>4, <2>1, <2>2 DEF Gettaskmsg
<1>5. CASE GettaskmsgSuspended(t)
  <2>1. PICK i \in First(Urgent(t)) :
           /\ ToMain(<<subport[t][i]>>)
           /\ subport' = [subport EXCEPT ![t] = RemoveAt(@, i)]
           /\ tstate' = [tstate EXCEPT ![t] =
                           IF subport[t][i].type = "release" THEN "run" ELSE "suspend"]
           /\ spc' = [spc EXCEPT ![t] =
                        IF subport[t][i].type = "release" THEN "run" ELSE "suspended"]
    BY <1>5 DEF GettaskmsgSuspended
  <2>2. i \in 1..Len(subport[t])
    BY DEF First, Urgent, Special
  <2>3. taskport' \in Seq(Message) /\ tsig' \in BOOLEAN
    BY <1>1, <1>2, <2>1, <2>2, ToMainType
  <2>. QED  BY <1>2, <1>5, <2>1, <2>2, <2>3 DEF GettaskmsgSuspended
<1>6. CASE Replytaskmsg(t)
  <2>1. held[t] \in Message
    BY <1>6 DEF Replytaskmsg
  <2>2. taskport' \in Seq(Message) /\ tsig' \in BOOLEAN
    BY <1>1, <1>6, <2>1, ToMainType DEF Replytaskmsg
  <2>. QED  BY <1>6, <2>2 DEF Replytaskmsg
<1>7. CASE SubtaskStops(t)
  BY <1>7 DEF SubtaskStops
<1>8. CASE SubtaskEnds(t)
  <2>1. taskport' \in Seq(Message) /\ tsig' \in BOOLEAN
    BY <1>8, ToMainType DEF SubtaskEnds
  <2>2. <<>> \in Seq(Message)
    OBVIOUS
  <2>. QED  BY <1>8, <2>1, <2>2 DEF SubtaskEnds
<1>9. CASE SubtaskReleases(t)
  <2>1. Append(semaport, t) \in Seq(Tasks)
    OBVIOUS
  <2>2. \/ /\ runsema' = [runsema EXCEPT ![t] = "main"]
           /\ procured' = [procured EXCEPT ![t] = FALSE]
           /\ semaport' = Append(semaport, t) /\ ssig' = TRUE
        \/ /\ runsema' = [runsema EXCEPT ![t] = "free"]
           /\ UNCHANGED <<procured, semaport, ssig>>
    BY <1>9 DEF SubtaskReleases
  <2>. QED  BY <1>9, <2>1, <2>2 DEF SubtaskReleases
<1>10. CASE SubtaskDone(t)
  BY <1>10 DEF SubtaskDone
<1>11. ASSUME NEW async \in BOOLEAN, Updatetaskattrs(t, async)
       PROVE  TypeOK'
  <2>1. Msg("update", t, async, 0) \in Message
    BY MsgIn DEF MsgTypes
  <2>2. taskport' \in Seq(Message) /\ tsig' \in BOOLEAN
    BY <1>1, <1>11, <2>1, ToMainType DEF Updatetaskattrs
  <2>3. sent' \in [Tasks -> 0..MaxUpdates] /\ waiting' \in [Tasks -> BOOLEAN]
    BY <1>11, TaskAssumption DEF Updatetaskattrs
  <2>. QED  BY <1>11, <2>2, <2>3 DEF Updatetaskattrs
<1>. QED
  BY <1>3, <1>4, <1>5, <1>6, <1>7, <1>8, <1>9, <1>10, <1>11 DEF SubtaskStep, SubtaskWork

LEMMA TypeInit == Init => TypeOK
<1>. SUFFICES ASSUME Init PROVE TypeOK
  OBVIOUS
<1>1. /\ stack \in Seq(Frame) /\ taskport \in Seq(Message) /\ semaport \in Seq(Tasks)
      /\ subport \in [Tasks -> Seq(Message)]
  BY DEF Init
<1>2. /\ got \in BOOLEAN /\ tsig \in BOOLEAN /\ ssig \in BOOLEAN
      /\ target \in [Tasks -> BOOLEAN] /\ processing \in [Tasks -> BOOLEAN]
      /\ mustdispose \in [Tasks -> BOOLEAN] /\ disposing \in [Tasks -> BOOLEAN]
      /\ started \in [Tasks -> BOOLEAN] /\ resume \in [Tasks -> BOOLEAN]
      /\ procured \in [Tasks -> BOOLEAN] /\ waiting \in [Tasks -> BOOLEAN]
      /\ brk \in [Tasks -> BOOLEAN] /\ updport \in [Tasks -> BOOLEAN]
  BY DEF Init
<1>3. /\ tstate \in [Tasks -> {"new", "run", "suspend", "dead", "freed"}]
      /\ runsema \in [Tasks -> {"free", "sub", "main"}]
      /\ spc \in [Tasks -> {"none", "start", "run", "suspended", "exit", "ended", "failed"}]
      /\ held \in [Tasks -> Message \cup {NoMsg}]
      /\ sent \in [Tasks -> 0..MaxUpdates] /\ ops \in 0..MaxOps
  BY TaskAssumption DEF Init
<1>. QED  BY <1>1, <1>2, <1>3 DEF TypeOK

LEMMA TypeNext == TypeOK /\ [Next]_vars => TypeOK'
<1>. SUFFICES ASSUME TypeOK, [Next]_vars PROVE TypeOK'
  OBVIOUS
<1>1. CASE UNCHANGED vars
  BY <1>1 DEF TypeOK, vars, mainVars, flagVars, semaVars, subVars
<1>2. CASE Next
  BY <1>2, MainSteps, ClientSteps, SubtaskSteps DEF Next
<1>. QED  BY <1>1, <1>2

\* For every set of task objects and every bound, each variable keeps a value
\* of its type: every frame of main's stack and every message in a port
\* belongs to a task object, whatever the order of replies and nested calls.
THEOREM TypeCorrect == Spec => []TypeOK
BY TypeInit, TypeNext, PTL DEF Spec

-----------------------------------------------------------------------------
(* The signal of main's port. *)

\* Calls that set the signal again before they return, or wait for it.
Announcers == {"ptTail", "wfm", "wfmWait", "procure", "stWait"}

WillAnnounce(s) == \E i \in 1..Len(s) : s[i].pc \in Announcers

\* What is in the port is announced now, or by a call that is under way.
SignalInv == taskport = <<>> \/ tsig \/ got \/ WillAnnounce(stack)

\* How the stack grows when a message is processed.
LEMMA DisposeIfMustStack ==
  ASSUME NEW s \in Seq(Frame), NEW t \in Tasks
  PROVE  \/ DisposeIfMust(s, t) = s
         \/ \E f \in Frame : /\ DisposeIfMust(s, t) = Append(s, f)
                             /\ f.pc = "dd" /\ f.task = t /\ mustdispose[t]
<1>1. F("dd", t, NoMsg) \in Frame /\ F("dd", t, NoMsg).pc = "dd" /\ F("dd", t, NoMsg).task = t
  BY FrameIn DEF FramePCs
<1>. QED  BY <1>1 DEF DisposeIfMust

LEMMA ProcessreplyStack ==
  ASSUME NEW s \in Seq(Frame), NEW m \in Message, Processreply(s, m)
  PROVE  \/ stack' = s
         \/ \E f \in Frame : /\ stack' = Append(s, f)
                             /\ f.pc = "upd" \/ (f.pc = "dd" /\ mustdispose[f.task])
<1>1. m.task \in Tasks
  BY DEF Message
<1>2. F("upd", m.task, m) \in Frame /\ F("upd", m.task, m).pc = "upd"
  BY <1>1, FrameIn DEF FramePCs
<1>3. CASE m.type = "update" /\ target[m.task]
  <2>1. stack' = Append(s, F("upd", m.task, m))
    BY <1>3 DEF Processreply
  <2>. DEFINE f == F("upd", m.task, m)
  <2>2. f \in Frame /\ f.pc = "upd" /\ stack' = Append(s, f)
    BY <1>2, <2>1
  <2>. HIDE DEF f
  <2>. QED  BY <2>2
<1>4. CASE ~(m.type = "update" /\ target[m.task])
  <2>1. stack' = DisposeIfMust(s, m.task)
    BY <1>4 DEF Processreply
  <2>. QED  BY <1>1, <2>1, DisposeIfMustStack
<1>. QED  BY <1>3, <1>4

LEMMA AnnounceAppend ==
  ASSUME NEW s \in Seq(Frame), NEW f \in Frame, WillAnnounce(s)
  PROVE  WillAnnounce(Append(s, f))
<1>1. PICK i \in 1..Len(s) : s[i].pc \in Announcers
  BY DEF WillAnnounce
<1>2. i \in 1..Len(Append(s, f)) /\ Append(s, f)[i] = s[i]
  BY PushFacts
<1>. QED  BY <1>1, <1>2 DEF WillAnnounce

LEMMA AnnounceReply ==
  ASSUME NEW s \in Seq(Frame), NEW m \in Message, Processreply(s, m), WillAnnounce(s)
  PROVE  WillAnnounce(stack')
BY ProcessreplyStack, AnnounceAppend

LEMMA AnnouncePop ==
  ASSUME stack \in Seq(Frame), stack # <<>>, Top.pc \notin Announcers, WillAnnounce(stack)
  PROVE  WillAnnounce(Pop)
<1>1. PICK i \in 1..Len(stack) : stack[i].pc \in Announcers
  BY DEF WillAnnounce
<1>2. i # Len(stack)
  BY <1>1, StackFacts
<1>3. i \in 1..Len(Pop) /\ Pop[i] = stack[i]
  BY <1>2, StackFacts
<1>. QED  BY <1>1, <1>3 DEF WillAnnounce

LEMMA AnnounceGoto ==
  ASSUME stack \in Seq(Frame), stack # <<>>, NEW f \in Frame, WillAnnounce(stack),
         Top.pc \in Announcers => f.pc \in Announcers
  PROVE  WillAnnounce(Goto(f))
<1>1. PICK i \in 1..Len(stack) : stack[i].pc \in Announcers
  BY DEF WillAnnounce
<1>2. i \in 1..Len(Goto(f)) /\ Goto(f)[i].pc \in Announcers
  BY <1>1, StackFacts, GotoFacts
<1>. QED  BY <1>2 DEF WillAnnounce

LEMMA AnnounceTop ==
  ASSUME stack \in Seq(Frame), stack # <<>>, Top.pc \in Announcers
  PROVE  WillAnnounce(stack)
BY StackFacts DEF WillAnnounce

LEMMA AnnounceBelow ==
  ASSUME NEW s \in Seq(Frame), NEW f \in Frame, NEW g \in Frame, WillAnnounce(s)
  PROVE  WillAnnounce(s \o <<f, g>>) /\ WillAnnounce(s \o <<f>>)
<1>1. PICK i \in 1..Len(s) : s[i].pc \in Announcers
  BY DEF WillAnnounce
<1>2. /\ i \in 1..Len(s \o <<f, g>>) /\ (s \o <<f, g>>)[i] = s[i]
      /\ i \in 1..Len(s \o <<f>>) /\ (s \o <<f>>)[i] = s[i]
  BY PushTwoFacts, PushOneFacts
<1>. QED  BY <1>1, <1>2 DEF WillAnnounce

LEMMA SignalMainSteps ==
  ASSUME TypeOK, SignalInv, MainStep
  PROVE  SignalInv'
<1>. USE DEF mainVars, flagVars, semaVars, subVars
<1>0. stack \in Seq(Frame) /\ taskport \in Seq(Message)
  BY DEF TypeOK
<1>1. CASE EventWait
  BY <1>1 DEF EventWait, SignalInv
<1>2. CASE Processtask
  <2>1. CASE taskport = <<>>
    BY <1>2, <2>1 DEF Processtask, SignalInv
  <2>2. CASE taskport # <<>>
    <3>. DEFINE f == F("ptTail", Head(taskport).task, NoMsg)
    <3>1. Head(taskport) \in Message
      BY <1>0, <2>2
    <3>2. f \in Frame /\ f.pc = "ptTail"
      BY <3>1, FrameIn DEF FramePCs, Message
    <3>3. <<f>> \in Seq(Frame) /\ WillAnnounce(<<f>>)
      BY <3>2 DEF WillAnnounce, Announcers
    <3>4. Processreply(<<f>>, Head(taskport))
      BY <1>2, <2>2 DEF Processtask
    <3>. QED  BY <3>1, <3>3, <3>4, AnnounceReply DEF SignalInv
  <2>. QED  BY <2>1, <2>2
<1>3. CASE ProcesstaskReturns
  BY <1>3 DEF ProcesstaskReturns, SignalInv
<1>4. CASE UpdateReturns
  <2>1. stack # <<>> /\ Top.pc \notin Announcers /\ Top.task \in Tasks /\ Pop \in Seq(Frame)
    BY <1>4, TopTypes DEF UpdateReturns, AtTop, Announcers
  <2>2. WillAnnounce(stack) => WillAnnounce(stack')
    BY <1>0, <1>4, <2>1, AnnouncePop, AnnounceAppend, DisposeIfMustStack DEF UpdateReturns
  <2>. QED  BY <1>4, <2>2 DEF UpdateReturns, SignalInv
<1>5. CASE Processtaskreply
  <2>1. stack # <<>> /\ Top.pc \notin Announcers /\ Top.task \in Tasks
    BY <1>5, TopTypes DEF Processtaskreply, AtTop, Announcers
  <2>2. CASE OfTask(Top.task) = {} /\ stack' = Pop /\ UNCHANGED <<processing, waiting, taskport>>
    BY <1>0, <1>5, <2>1, <2>2, AnnouncePop DEF Processtaskreply, SignalInv
  <2>3. ASSUME NEW i \in First(OfTask(Top.task)),
               Processreply(stack, taskport[i]), taskport' = RemoveAt(taskport, i)
        PROVE  SignalInv'
    <3>1. taskport # <<>> /\ taskport[i] \in Message
      BY <1>0, <2>1, OfTaskFacts
    <3>2. WillAnnounce(stack) => WillAnnounce(stack')
      BY <1>0, <2>3, <3>1, AnnounceReply
    <3>. QED  BY <1>5, <3>1, <3>2 DEF Processtaskreply, SignalInv
  <2>. QED  BY <1>5, <2>2, <2>3 DEF Processtaskreply
<1>6. CASE WaitformsgScan
  <2>1. /\ stack # <<>> /\ Top.pc \in Announcers /\ Top.task \in Tasks
        /\ Top.msg \in Message \cup {NoMsg}
    BY <1>6, TopTypes DEF WaitformsgScan, AtTop, Announcers
  <2>2. WillAnnounce(stack)
    BY <1>0, <2>1, AnnounceTop
  <2>3. WillAnnounce(Goto(F("wfmWait", Top.task, Top.msg)))
    BY <1>0, <2>1, <2>2, AnnounceGoto, FrameIn DEF FramePCs, Announcers
  <2>4. ASSUME NEW i \in First(OfTask(Top.task)), Processreply(stack, taskport[i])
        PROVE  WillAnnounce(stack')
    BY <1>0, <2>1, <2>2, <2>4, OfTaskFacts, AnnounceReply
  <2>. QED  BY <1>6, <2>3, <2>4 DEF WaitformsgScan, SignalInv
<1>7. CASE WaitformsgWakes
  <2>1. /\ stack # <<>> /\ Top.pc \in Announcers /\ Top.task \in Tasks
        /\ Top.msg \in Message \cup {NoMsg}
    BY <1>7, TopTypes DEF WaitformsgWakes, AtTop, Announcers
  <2>2. WillAnnounce(Goto(F("wfm", Top.task, Top.msg)))
    BY <1>0, <2>1, AnnounceTop, AnnounceGoto, FrameIn DEF FramePCs, Announcers
  <2>. QED  BY <1>7, <2>2 DEF WaitformsgWakes, SignalInv
<1>8. CASE StarttaskReturns
  <2>1. WillAnnounce(stack) => WillAnnounce(Pop)
    BY <1>0, <1>8, AnnouncePop DEF StarttaskReturns, AtTop, Announcers
  <2>. QED  BY <1>8, <2>1 DEF StarttaskReturns, SignalInv
<1>9. CASE MessageReturns
  <2>1. stack # <<>> /\ Top.pc \notin Announcers /\ Top.task \in Tasks /\ Pop \in Seq(Frame)
    BY <1>9, TopTypes DEF MessageReturns, AtTop, Announcers
  <2>2. WillAnnounce(stack) => WillAnnounce(stack')
    BY <1>0, <1>9, <2>1, AnnouncePop, AnnounceAppend, DisposeIfMustStack DEF MessageReturns
  <2>. QED  BY <1>9, <2>2 DEF MessageReturns, SignalInv
<1>10. CASE Dodisposetask
  <2>1. stack # <<>> /\ Top.pc \notin Announcers /\ Top.task \in Tasks
    BY <1>10, TopTypes DEF Dodisposetask, AtTop, Announcers
  <2>2. /\ F("ddPtr", Top.task, NoMsg) \in Frame
        /\ F("procure", Top.task, NoMsg) \in Frame /\ F("ptr", Top.task, NoMsg) \in Frame
    BY <2>1, FrameIn DEF FramePCs
  <2>3. Goto(F("ddPtr", Top.task, NoMsg)) \in Seq(Frame)
    BY <1>0, <2>1, <2>2, GotoFacts
  <2>4. WillAnnounce(stack) => WillAnnounce(stack')
    BY <1>0, <1>10, <2>1, <2>2, <2>3, AnnounceGoto, AnnounceBelow DEF Dodisposetask
  <2>. QED  BY <1>10, <2>4 DEF Dodisposetask, SignalInv
<1>11. CASE Procure
  <2>1. stack # <<>> /\ Top.pc \in Announcers /\ Top.task \in Tasks
    BY <1>11, TopTypes DEF Procure, AtTop, Announcers
  <2>2. WillAnnounce(Goto(F("stWait", Top.task, NoMsg)))
    BY <1>0, <2>1, AnnounceTop, AnnounceGoto, FrameIn DEF FramePCs, Announcers
  <2>. QED  BY <1>11, <2>2 DEF Procure, SignalInv
<1>12. CASE StoptaskWakes
  <2>1. stack # <<>> /\ Top.pc \in Announcers /\ Top.task \in Tasks
    BY <1>12, TopTypes DEF StoptaskWakes, AtTop, Announcers
  <2>2. WillAnnounce(stack) /\ F("ptr", Top.task, NoMsg) \in Frame
    BY <1>0, <2>1, AnnounceTop, FrameIn DEF FramePCs
  <2>3. WillAnnounce(Append(stack, F("ptr", Top.task, NoMsg)))
    BY <1>0, <2>2, AnnounceAppend
  <2>. QED  BY <1>12, <2>2, <2>3 DEF StoptaskWakes, SignalInv
<1>13. CASE DodisposetaskDrains
  <2>1. stack # <<>> /\ Top.pc \notin Announcers /\ Top.task \in Tasks
    BY <1>13, TopTypes DEF DodisposetaskDrains, AtTop, Announcers
  <2>2. F("ddFree", Top.task, NoMsg) \in Frame /\ F("ptr", Top.task, NoMsg) \in Frame
    BY <2>1, FrameIn DEF FramePCs
  <2>3. Goto(F("ddFree", Top.task, NoMsg)) \in Seq(Frame)
    BY <1>0, <2>1, <2>2, GotoFacts
  <2>4. WillAnnounce(stack) => WillAnnounce(stack')
    BY <1>0, <1>13, <2>1, <2>2, <2>3, AnnounceGoto, AnnounceBelow DEF DodisposetaskDrains
  <2>. QED  BY <1>13, <2>4 DEF DodisposetaskDrains, SignalInv
<1>14. CASE DodisposetaskFrees
  <2>1. WillAnnounce(stack) => WillAnnounce(Pop)
    BY <1>0, <1>14, AnnouncePop DEF DodisposetaskFrees, AtTop, Announcers
  <2>. QED  BY <1>14, <2>1 DEF DodisposetaskFrees, SignalInv
<1>. QED
  BY <1>1, <1>2, <1>3, <1>4, <1>5, <1>6, <1>7, <1>8, <1>9, <1>10, <1>11, <1>12,
     <1>13, <1>14 DEF MainStep

LEMMA SignalClientSteps ==
  ASSUME TypeOK, SignalInv, Client
  PROVE  SignalInv'
<1>. USE DEF mainVars, flagVars, semaVars, subVars
<1>. SUFFICES ASSUME NEW t \in Tasks,
                     \/ Starttask(t) \/ Stopasync(t) \/ Disposetask(t) \/ Asetattrsasync(t)
                     \/ \E async \in BOOLEAN :
                           Messagetask(t, async) \/ \E data \in BOOLEAN : Setsuspend(t, data, async)
              PROVE  SignalInv'
  BY DEF Client
<1>0. stack \in Seq(Frame)
  BY DEF TypeOK
<1>1. SUFFICES /\ UNCHANGED <<taskport, tsig, got>>
               /\ WillAnnounce(stack) => WillAnnounce(stack')
  BY DEF SignalInv
<1>2. ASSUME NEW m \in Message, NEW there, Put(t, m, there), WillAnnounce(stack)
      PROVE  WillAnnounce(stack')
  <2>1. F("msgK", t, m) \in Frame /\ F("wfm", t, m) \in Frame
    BY FrameIn DEF FramePCs
  <2>2. WillAnnounce(stack \o <<F("msgK", t, m), F("wfm", t, m)>>)
    BY <1>0, <1>2, <2>1, AnnounceBelow
  <2>3. WillAnnounce(DisposeIfMust(stack, t))
    BY <1>0, <1>2, DisposeIfMustStack, AnnounceAppend
  <2>. QED  BY <1>2, <2>2, <2>3 DEF Put
<1>3. \A async \in BOOLEAN : (IF async THEN 0 ELSE Len(stack) + 1) \in Nat
  BY <1>0
<1>4. CASE Starttask(t)
  <2>1. Msg("startup", t, FALSE, 0) \in Message
    BY MsgIn DEF MsgTypes
  <2>2. /\ F("startK", t, NoMsg) \in Frame
        /\ F("wfm", t, Msg("startup", t, FALSE, 0)) \in Frame
    BY <2>1, FrameIn DEF FramePCs
  <2>3. WillAnnounce(stack) => WillAnnounce(stack \o <<F("startK", t, NoMsg),
                                       F("wfm", t, Msg("startup", t, FALSE, 0))>>)
    BY <1>0, <2>2, AnnounceBelow
  <2>. QED  BY <1>4, <2>3 DEF Starttask
<1>5. CASE Stopasync(t)
  BY <1>5 DEF Stopasync
<1>6. CASE Disposetask(t)
  <2>1. F("dd", t, NoMsg) \in Frame
    BY FrameIn DEF FramePCs
  <2>2. WillAnnounce(stack) => WillAnnounce(Append(stack, F("dd", t, NoMsg)))
    BY <1>0, <2>1, AnnounceAppend
  <2>. QED  BY <1>6, <2>2 DEF Disposetask
<1>7. CASE Asetattrsasync(t)
  BY <1>7 DEF Asetattrsasync
<1>8. ASSUME NEW async \in BOOLEAN, Messagetask(t, async)
      PROVE  /\ UNCHANGED <<taskport, tsig, got>>
             /\ WillAnnounce(stack) => WillAnnounce(stack')
  <2>1. Msg("msg", t, async, IF async THEN 0 ELSE Len(stack) + 1) \in Message
    BY <1>3, MsgIn DEF MsgTypes
  <2>. QED  BY <1>2, <1>8, <2>1 DEF Messagetask
<1>9. ASSUME NEW async \in BOOLEAN, NEW data \in BOOLEAN, Setsuspend(t, data, async)
      PROVE  /\ UNCHANGED <<taskport, tsig, got>>
             /\ WillAnnounce(stack) => WillAnnounce(stack')
  <2>1. Msg("suspend", t, async, IF async THEN 0 ELSE Len(stack) + 1) \in Message
    BY <1>3, MsgIn DEF MsgTypes
  <2>2. CASE data
    BY <1>2, <1>9, <2>1, <2>2 DEF Setsuspend
  <2>3. CASE ~data
    BY <1>9, <2>3 DEF Setsuspend
  <2>. QED  BY <2>2, <2>3
<1>. QED  BY <1>4, <1>5, <1>6, <1>7, <1>8, <1>9

\* A subtask adds to the port with PutMsg() or ReplyMsg(), which signal.
LEMMA SignalSubtaskSteps ==
  ASSUME TypeOK, SignalInv, NEW t \in Tasks, SubtaskStep(t) \/ SubtaskWork(t)
  PROVE  SignalInv'
<1>. USE DEF mainVars, flagVars, semaVars, subVars
<1>1. ASSUME NEW ms \in Seq(Message), ToMain(ms), UNCHANGED <<got, stack>>
      PROVE  SignalInv'
  <2>1. CASE ms = <<>>
    <3>1. taskport' = taskport /\ tsig' = tsig
      BY <1>1, <2>1 DEF ToMain, TypeOK
    <3>. QED  BY <1>1, <3>1 DEF SignalInv
  <2>2. CASE ms # <<>>
    BY <1>1, <2>2 DEF ToMain, SignalInv
  <2>. QED  BY <2>1, <2>2
<1>2. \A m : m \in Message => <<m>> \in Seq(Message)
  OBVIOUS
<1>3. ASSUME NEW i \in 1..Len(subport[t]) PROVE subport[t][i] \in Message
  BY DEF TypeOK
<1>4. ASSUME UNCHANGED <<got, tsig, stack, taskport>> PROVE SignalInv'
  BY <1>4 DEF SignalInv
<1>5. CASE SubtaskStarts(t)
  <2>1. Msg("startup", t, FALSE, 0) \in Message
    <3>1. "startup" \in MsgTypes /\ FALSE \in BOOLEAN /\ 0 \in Nat
      BY DEF MsgTypes
    <3>. QED  BY <3>1, MsgIn
  <2>2. ToMain(<<Msg("startup", t, FALSE, 0)>>) /\ UNCHANGED <<got, stack>>
    BY <1>5 DEF SubtaskStarts
  <2>. QED  BY <1>1, <1>2, <2>1, <2>2
<1>6. CASE Gettaskmsg(t)
  <2>1. ASSUME NEW i \in First(Special(t)), ToMain(<<subport[t][i]>>)
        PROVE  SignalInv'
    <3>1. subport[t][i] \in Message
      BY <1>3 DEF First, Special
    <3>. QED  BY <1>1, <1>2, <1>6, <2>1, <3>1 DEF Gettaskmsg
  <2>. QED  BY <1>4, <1>6, <2>1 DEF Gettaskmsg
<1>7. CASE GettaskmsgSuspended(t)
  <2>1. PICK i \in First(Urgent(t)) : ToMain(<<subport[t][i]>>)
    BY <1>7 DEF GettaskmsgSuspended
  <2>2. subport[t][i] \in Message
    BY <1>3 DEF First, Urgent, Special
  <2>. QED  BY <1>1, <1>2, <1>7, <2>1, <2>2 DEF GettaskmsgSuspended
<1>8. CASE Replytaskmsg(t)
  <2>1. held[t] \in Message
    BY <1>8 DEF Replytaskmsg, TypeOK
  <2>. QED  BY <1>1, <1>2, <1>8, <2>1 DEF Replytaskmsg
<1>9. CASE SubtaskStops(t)
  BY <1>4, <1>9 DEF SubtaskStops
<1>10. CASE SubtaskEnds(t)
  BY <1>1, <1>10 DEF SubtaskEnds, TypeOK
<1>11. CASE SubtaskReleases(t)
  BY <1>4, <1>11 DEF SubtaskReleases
<1>12. CASE SubtaskDone(t)
  BY <1>4, <1>12 DEF SubtaskDone
<1>13. ASSUME NEW async \in BOOLEAN, Updatetaskattrs(t, async)
       PROVE  SignalInv'
  <2>1. Msg("update", t, async, 0) \in Message
    BY MsgIn DEF MsgTypes
  <2>2. ToMain(<<Msg("update", t, async, 0)>>) /\ UNCHANGED <<got, stack>>
    BY <1>13 DEF Updatetaskattrs
  <2>. QED  BY <1>1, <1>2, <2>1, <2>2
<1>. QED
  BY <1>5, <1>6, <1>7, <1>8, <1>9, <1>10, <1>11, <1>12, <1>13 DEF SubtaskStep, SubtaskWork

\* For every set of task objects: main's event loop never sleeps while a
\* message is in its port, although Processtask() takes one message per signal
\* and the nested waits of Waitformsg() and Stoptask() clear the signal.
THEOREM SignalNeverLost == Spec => []NoLostSignal
<1>1. Init => SignalInv
  BY DEF Init, SignalInv
<1>2. TypeOK /\ SignalInv /\ [Next]_vars => SignalInv'
  <2>. SUFFICES ASSUME TypeOK, SignalInv, [Next]_vars PROVE SignalInv'
    OBVIOUS
  <2>1. CASE UNCHANGED vars
    BY <2>1 DEF SignalInv, WillAnnounce, vars, mainVars
  <2>2. CASE Next
    BY <2>2, SignalMainSteps, SignalClientSteps, SignalSubtaskSteps DEF Next
  <2>. QED  BY <2>1, <2>2
<1>3. SignalInv => NoLostSignal
  BY DEF SignalInv, NoLostSignal, WillAnnounce
<1>. QED  BY <1>1, <1>2, <1>3, TypeCorrect, PTL DEF Spec

-----------------------------------------------------------------------------
(* Disposal: the inductive invariant. *)

\* The tasks whose subtask will not run any more, and those no message in
\* main's port points to.
GoneTasks == {t \in Tasks : Gone(t)}
Quiet == {t \in Tasks : OfTask(t) = {}}

InSemaport(t) == \E i \in 1..Len(semaport) : semaport[i] = t

\* Main is in Starttask(), and asleep on the startup message.
AwaitsStartup(t) ==
  stack # <<>> /\ Top.pc \in {"wfm", "wfmWait"} /\ Top.task = t

\* The subtask owns runsema and its port exactly while it runs; its messages
\* are its own, and there are none before it starts.
SubtaskInv(t) ==
  /\ spc[t] \in {"run", "suspended", "exit"} => runsema[t] = "sub"
  /\ spc[t] \notin {"run", "suspended", "exit"} => ~HasSubport(t) /\ subport[t] = <<>>
  /\ held[t] # NoMsg => spc[t] = "run" /\ held[t].task = t
  /\ \A i \in 1..Len(subport[t]) : subport[t][i].task = t
  /\ spc[t] \in {"none", "start"} => t \in Quiet
  /\ spc[t] = "start" => AwaitsStartup(t)
  /\ tstate[t] = "new" => spc[t] \in {"none", "start"}

\* Once the object is being disposed of its subtask cannot be started, and
\* runsema is granted to main only when the subtask is gone.
DisposeInv(t) ==
  /\ mustdispose[t] \/ procured[t] => disposing[t]
  /\ InSemaport(t) => disposing[t] /\ t \in GoneTasks
  /\ tstate[t] = "freed" => disposing[t] /\ t \in GoneTasks /\ t \in Quiet

Below(i, pcs) ==
  i \in 1..(Len(stack) - 1) /\ stack[i + 1].pc \in pcs /\ stack[i + 1].task = stack[i].task

\* Dodisposetask() goes on after Stoptask() only when the subtask is gone, and
\* after Processtaskreply() only when no message is left.
FrameInv(i) ==
  LET f == stack[i]
  IN /\ f.pc \in {"dd", "ddPtr", "ddFree", "procure", "stWait"} => disposing[f.task]
     /\ f.pc = "ddPtr" => f.task \in GoneTasks \/ Below(i, {"procure", "stWait"})
     /\ f.pc = "ddFree" => f.task \in GoneTasks /\ (f.task \in Quiet \/ Below(i, {"ptr"}))

TaskInv ==
  /\ TypeOK
  /\ \A t \in Tasks : SubtaskInv(t) /\ DisposeInv(t)
  /\ \A i \in 1..Len(stack) : FrameInv(i)

-----------------------------------------------------------------------------
(* What every step keeps. *)

\* A task that is being disposed of stays so; when its subtask is gone it
\* stays gone, and no message of it comes back.
KeptOf(t) ==
  disposing[t] =>
     /\ disposing'[t]
     /\ t \in GoneTasks => t \in GoneTasks'
     /\ t \in GoneTasks \cap Quiet => t \in Quiet'

Kept == \A t \in Tasks : KeptOf(t)

\* Frames that did not change, with the frame above them, keep their facts.
LEMMA FramesLower ==
  ASSUME TaskInv, Kept, NEW k \in Nat, k <= Len(stack), k <= Len(stack'),
         \A i \in 1..k : stack'[i] = stack[i]
  PROVE  \A i \in 1..(k - 1) : FrameInv(i)'
<1>. SUFFICES ASSUME NEW i \in 1..(k - 1) PROVE FrameInv(i)'
  OBVIOUS
<1>1. stack \in Seq(Frame) /\ i \in 1..Len(stack)
  BY DEF TaskInv, TypeOK
<1>2. stack[i].task \in Tasks
  <2>1. stack[i] \in Frame
    BY <1>1, StackFacts
  <2>. QED  BY <2>1 DEF Frame
<1>3. stack'[i] = stack[i] /\ stack'[i + 1] = stack[i + 1]
  OBVIOUS
<1>4. i < Len(stack) /\ i < Len(stack')
  BY <1>1
<1>5. FrameInv(i)
  BY <1>1 DEF TaskInv
<1>6. \A pcs : Below(i, pcs)' <=> Below(i, pcs)
  BY <1>3, <1>4 DEF Below
<1>. QED  BY <1>2, <1>3, <1>5, <1>6 DEF FrameInv, Kept, KeptOf

\* The facts of the innermost call, which has no call above it.
LEMMA TopFrame ==
  ASSUME TaskInv, stack # <<>>
  PROVE  /\ Len(stack) \in 1..Len(stack) /\ Top = stack[Len(stack)]
         /\ Top.task \in Tasks
         /\ Top.pc \in {"dd", "ddPtr", "ddFree", "procure", "stWait"} => disposing[Top.task]
         /\ Top.pc \in {"ddPtr", "ddFree"} => Top.task \in GoneTasks
         /\ Top.pc = "ddFree" => Top.task \in Quiet
<1>1. /\ stack \in Seq(Frame) /\ Len(stack) \in 1..Len(stack)
      /\ Top = stack[Len(stack)] /\ Top \in Frame
  BY StackFacts DEF TaskInv, TypeOK
<1>2. FrameInv(Len(stack))
  BY <1>1 DEF TaskInv
<1>3. \A pcs : ~Below(Len(stack), pcs)
  BY <1>1 DEF Below
<1>. QED  BY <1>1, <1>2, <1>3 DEF FrameInv, Frame

\* A frame that promises nothing about the subtask or its messages.
Harmless(i) ==
  /\ stack[i].pc \notin {"ddPtr", "ddFree"}
  /\ stack[i].pc \in {"dd", "procure", "stWait"} => disposing[stack[i].task]

LEMMA HarmlessFrame ==
  ASSUME NEW i \in Nat, Harmless(i)
  PROVE  FrameInv(i)
BY DEF Harmless, FrameInv

\* Main calls: the frames there were stay.
LEMMA FramesCall ==
  ASSUME TaskInv, Kept, Len(stack') \in Nat, NEW n \in Nat, n = Len(stack), n <= Len(stack'),
         \A i \in 1..n : stack'[i] = stack[i],
         \A i \in (n + 1)..Len(stack') : Harmless(i)'
  PROVE  \A i \in 1..Len(stack') : FrameInv(i)'
<1>1. \A i \in 1..(n - 1) : FrameInv(i)'
  BY FramesLower
<1>2. ASSUME n # 0 PROVE FrameInv(n)'
  <2>1. stack # <<>>
    BY <1>2
  <2>2. PICK f : f = Top
    OBVIOUS
  <2>3. /\ f = stack[n] /\ f.task \in Tasks
        /\ f.pc \in {"dd", "ddPtr", "ddFree", "procure", "stWait"} => disposing[f.task]
        /\ f.pc \in {"ddPtr", "ddFree"} => f.task \in GoneTasks
        /\ f.pc = "ddFree" => f.task \in Quiet
    BY <2>1, <2>2, TopFrame
  <2>4. stack'[n] = f
    BY <1>2, <2>3
  <2>5. /\ f.pc \in {"dd", "ddPtr", "ddFree", "procure", "stWait"} => disposing'[f.task]
        /\ f.pc \in {"ddPtr", "ddFree"} => f.task \in GoneTasks'
        /\ f.pc = "ddFree" => f.task \in Quiet'
    BY <2>3 DEF Kept, KeptOf
  <2>. QED  BY <2>4, <2>5 DEF FrameInv
<1>3. \A i \in (n + 1)..Len(stack') : FrameInv(i)'
  <2>. SUFFICES ASSUME NEW i \in (n + 1)..Len(stack') PROVE FrameInv(i)'
    OBVIOUS
  <2>. QED  BY DEF Harmless, FrameInv
<1>. QED  BY <1>1, <1>2, <1>3

\* Main leaves its innermost call: the frames below it stay.
LEMMA FramesBelow ==
  ASSUME TaskInv, Kept, stack # <<>>, Len(stack') \in Nat,
         NEW n \in Nat, n = Len(stack), n - 1 <= Len(stack'),
         \A i \in 1..(n - 1) : stack'[i] = stack[i],
         Top.pc \in {"procure", "stWait"} /\ Below(n - 1, {"procure", "stWait"}) =>
            Top.task \in GoneTasks' \/ Below(n - 1, {"procure", "stWait"})',
         Top.pc = "ptr" => Top.task \in Quiet'
  PROVE  \A i \in 1..(n - 1) : FrameInv(i)'
<1>1. n # 0 /\ Top = stack[n] /\ stack \in Seq(Frame)
  BY StackFacts DEF TaskInv, TypeOK
<1>2. \A i \in 1..((n - 1) - 1) : FrameInv(i)'
  BY <1>1, FramesLower
<1>3. ASSUME n - 1 # 0 PROVE FrameInv(n - 1)'
  <2>1. n - 1 \in 1..n /\ FrameInv(n - 1)
    BY <1>1, <1>3 DEF TaskInv
  <2>2. PICK f : f = stack[n - 1]
    OBVIOUS
  <2>3. stack'[n - 1] = f /\ f.task \in Tasks
    <3>1. f \in Frame
      BY <1>1, <2>1, <2>2, StackFacts
    <3>. QED  BY <1>1, <1>3, <2>2, <3>1 DEF Frame
  <2>4. \A pcs : Below(n - 1, pcs) => Top.pc \in pcs /\ Top.task = f.task
    BY <1>1, <2>2 DEF Below
  <2>5. /\ f.pc \in {"dd", "ddPtr", "ddFree", "procure", "stWait"} => disposing[f.task]
        /\ f.pc = "ddPtr" => f.task \in GoneTasks \/ Below(n - 1, {"procure", "stWait"})
        /\ f.pc = "ddFree" => f.task \in GoneTasks /\ (f.task \in Quiet \/ Below(n - 1, {"ptr"}))
    BY <2>1, <2>2 DEF FrameInv
  <2>6. /\ f.pc \in {"dd", "ddPtr", "ddFree", "procure", "stWait"} => disposing'[f.task]
        /\ f.task \in GoneTasks /\ disposing[f.task] => f.task \in GoneTasks'
        /\ f.task \in GoneTasks \cap Quiet /\ disposing[f.task] => f.task \in Quiet'
    BY <2>3, <2>5 DEF Kept, KeptOf
  <2>7. Below(n - 1, {"procure", "stWait"}) =>
           f.task \in GoneTasks' \/ Below(n - 1, {"procure", "stWait"})'
    BY <2>4
  <2>8. Below(n - 1, {"ptr"}) => f.task \in Quiet'
    BY <2>4
  <2>9. /\ f.pc = "ddPtr" => f.task \in GoneTasks' \/ Below(n - 1, {"procure", "stWait"})'
        /\ f.pc = "ddFree" => f.task \in GoneTasks' /\ f.task \in Quiet'
    BY <2>5, <2>6, <2>7, <2>8
  <2>. QED  BY <2>3, <2>6, <2>9 DEF FrameInv
<1>. QED  BY <1>1, <1>2, <1>3

\* Main returns from its innermost call, or goes on to harmless frames.
LEMMA FramesReturn ==
  ASSUME TaskInv, Kept, stack # <<>>, Len(stack') \in Nat,
         NEW n \in Nat, n = Len(stack), n - 1 <= Len(stack'),
         \A i \in 1..(n - 1) : stack'[i] = stack[i],
         Top.pc \in {"procure", "stWait"} /\ Below(n - 1, {"procure", "stWait"}) =>
            Top.task \in GoneTasks' \/ Below(n - 1, {"procure", "stWait"})',
         Top.pc = "ptr" => Top.task \in Quiet',
         \A i \in n..Len(stack') : Harmless(i)'
  PROVE  \A i \in 1..Len(stack') : FrameInv(i)'
<1>1. \A i \in 1..(n - 1) : FrameInv(i)'
  BY FramesBelow
<1>2. n # 0
  BY StackFacts DEF TaskInv, TypeOK
<1>3. \A i \in n..Len(stack') : FrameInv(i)'
  <2>. SUFFICES ASSUME NEW i \in n..Len(stack') PROVE FrameInv(i)'
    OBVIOUS
  <2>. QED  BY DEF Harmless, FrameInv
<1>. QED  BY <1>1, <1>2, <1>3

\* What is put on a stack s when an object that must be disposed of is left,
\* and when a message is replied.
LEMMA DisposeShape ==
  ASSUME TaskInv, NEW s \in Seq(Frame), NEW t \in Tasks, NEW r, r = DisposeIfMust(s, t)
  PROVE  /\ r \in Seq(Frame) /\ Len(r) \in Nat /\ Len(s) <= Len(r)
         /\ \A i \in 1..Len(s) : r[i] = s[i]
         /\ \A i \in (Len(s) + 1)..Len(r) :
               r[i].pc = "dd" /\ disposing[r[i].task]
<1>1. CASE mustdispose[t]
  <2>1. r = Append(s, F("dd", t, NoMsg)) /\ disposing[t]
    BY <1>1 DEF DisposeIfMust, TaskInv, DisposeInv
  <2>2. F("dd", t, NoMsg) \in Frame /\ F("dd", t, NoMsg).pc = "dd" /\ F("dd", t, NoMsg).task = t
    BY FrameIn DEF FramePCs
  <2>. DEFINE f == F("dd", t, NoMsg)
  <2>. HIDE DEF f
  <2>3. r \in Seq(Frame) /\ Len(r) = Len(s) + 1 /\ r[Len(s) + 1] = f
        /\ \A i \in 1..Len(s) : r[i] = s[i]
    BY <2>1, <2>2, PushFacts DEF f
  <2>4. f.pc = "dd" /\ disposing[f.task]
    BY <2>1, <2>2 DEF f
  <2>. QED  BY <2>3, <2>4
<1>2. CASE ~mustdispose[t]
  BY <1>2 DEF DisposeIfMust
<1>. QED  BY <1>1, <1>2

LEMMA ReplyShape ==
  ASSUME TaskInv, NEW s \in Seq(Frame), NEW m \in Message, Processreply(s, m)
  PROVE  /\ Len(stack') \in Nat /\ Len(s) <= Len(stack')
         /\ \A i \in 1..Len(s) : stack'[i] = s[i]
         /\ \A i \in (Len(s) + 1)..Len(stack') :
               \/ stack'[i].pc = "upd"
               \/ stack'[i].pc = "dd" /\ disposing[stack'[i].task]
<1>1. m.task \in Tasks
  BY DEF Message
<1>2. CASE stack' = Append(s, F("upd", m.task, m))
  <2>1. F("upd", m.task, m) \in Frame /\ F("upd", m.task, m).pc = "upd"
    BY <1>1, FrameIn DEF FramePCs
  <2>. DEFINE f == F("upd", m.task, m)
  <2>. HIDE DEF f
  <2>2. Len(stack') = Len(s) + 1 /\ stack'[Len(s) + 1] = f
        /\ \A i \in 1..Len(s) : stack'[i] = s[i]
    BY <1>2, <2>1, PushFacts DEF f
  <2>3. f.pc = "upd"
    BY <2>1 DEF f
  <2>. QED  BY <2>2, <2>3
<1>3. CASE stack' = DisposeIfMust(s, m.task)
  BY <1>1, <1>3, DisposeShape
<1>. QED  BY <1>2, <1>3 DEF Processreply

-----------------------------------------------------------------------------
(* What happens to main's port. *)

LEMMA QuietTake ==
  ASSUME TypeOK, NEW i \in 1..Len(taskport), taskport' = RemoveAt(taskport, i)
  PROVE  \A t \in Quiet : t \in Quiet'
<1>. SUFFICES ASSUME NEW t \in Quiet PROVE t \in Quiet'
  OBVIOUS
<1>1. t \in Tasks /\ \A j \in 1..Len(taskport) : taskport[j].task # t
  BY DEF Quiet, OfTask
<1>2. taskport \in Seq(Message)
  BY DEF TypeOK
<1>3. \A j \in 1..Len(taskport') : \E k \in 1..Len(taskport) : taskport'[j] = taskport[k]
  BY <1>2, RemoveAtElements
<1>4. \A j \in 1..Len(taskport') : taskport'[j].task # t
  BY <1>1, <1>3
<1>. QED  BY <1>1, <1>4 DEF Quiet, OfTask

LEMMA QuietTail ==
  ASSUME TypeOK, taskport # <<>>, taskport' = Tail(taskport)
  PROVE  \A t \in Quiet : t \in Quiet'
<1>. SUFFICES ASSUME NEW t \in Quiet PROVE t \in Quiet'
  OBVIOUS
<1>1. t \in Tasks /\ \A j \in 1..Len(taskport) : taskport[j].task # t
  BY DEF Quiet, OfTask
<1>2. taskport \in Seq(Message)
  BY DEF TypeOK
<1>3. \A j \in 1..Len(taskport') : j + 1 \in 1..Len(taskport) /\ taskport'[j] = taskport[j + 1]
  BY <1>2
<1>4. \A j \in 1..Len(taskport') : taskport'[j].task # t
  BY <1>1, <1>3
<1>. QED  BY <1>1, <1>4 DEF Quiet, OfTask

LEMMA QuietPut ==
  ASSUME TypeOK, NEW ms \in Seq(Message), NEW u \in Tasks, ToMain(ms),
         \A i \in 1..Len(ms) : ms[i].task = u
  PROVE  \A t \in Quiet : t # u => t \in Quiet'
<1>. SUFFICES ASSUME NEW t \in Quiet, t # u PROVE t \in Quiet'
  OBVIOUS
<1>1. t \in Tasks /\ \A j \in 1..Len(taskport) : taskport[j].task # t
  BY DEF Quiet, OfTask
<1>2. taskport \in Seq(Message) /\ taskport' = taskport \o ms
  BY DEF TypeOK, ToMain
<1>3. /\ Len(taskport) \in Nat /\ Len(ms) \in Nat
      /\ Len(taskport') = Len(taskport) + Len(ms)
      /\ \A j \in 1..Len(taskport) : taskport'[j] = taskport[j]
      /\ \A j \in 1..Len(ms) : taskport'[Len(taskport) + j] = ms[j]
  BY <1>2, ConcatFacts
<1>4. ASSUME NEW j \in 1..Len(taskport') PROVE taskport'[j].task # t
  <2>1. CASE j <= Len(taskport)
    BY <1>1, <1>3, <2>1
  <2>2. CASE ~(j <= Len(taskport))
    <3>1. PICK k \in 1..Len(ms) : j = Len(taskport) + k
      <4>1. j - Len(taskport) \in 1..Len(ms) /\ j = Len(taskport) + (j - Len(taskport))
        BY <1>3, <2>2
      <4>. QED  BY <4>1
    <3>. QED  BY <1>3, <3>1
  <2>. QED  BY <2>1, <2>2
<1>. QED  BY <1>1, <1>4 DEF Quiet, OfTask

-----------------------------------------------------------------------------
(* The facts of one task object. *)

\* Only the call that waits for it knows a subtask that has not begun.
LEMMA NoneStarting ==
  ASSUME TaskInv, stack = <<>> \/ Top.pc \notin {"wfm", "wfmWait"}
  PROVE  \A t \in Tasks : spc[t] # "start"
BY DEF TaskInv, SubtaskInv, AwaitsStartup

\* A task object that a step leaves alone.
LEMMA TaskSame ==
  ASSUME TaskInv, TypeOK', NEW t \in Tasks,
         spc'[t] = spc[t], runsema'[t] = runsema[t], tstate'[t] = tstate[t],
         subport'[t] = subport[t], held'[t] = held[t],
         disposing[t] => disposing'[t], mustdispose'[t] => mustdispose[t],
         procured'[t] => procured[t], InSemaport(t)' => InSemaport(t),
         t \in Quiet => t \in Quiet',
         spc[t] = "start" => AwaitsStartup(t)'
  PROVE  SubtaskInv(t)' /\ DisposeInv(t)' /\ KeptOf(t)
<1>1. SubtaskInv(t) /\ DisposeInv(t)
  BY DEF TaskInv
<1>2. t \in GoneTasks' <=> t \in GoneTasks
  BY DEF GoneTasks, Gone
<1>3. HasSubport(t)' <=> HasSubport(t)
  BY DEF HasSubport
<1>4. SubtaskInv(t)'
  BY <1>1, <1>3 DEF SubtaskInv
<1>5. DisposeInv(t)'
  BY <1>1, <1>2 DEF DisposeInv
<1>6. KeptOf(t)
  BY <1>2 DEF KeptOf
<1>. QED  BY <1>4, <1>5, <1>6

\* A step of main that leaves the task objects alone.
LEMMA TasksSame ==
  ASSUME TaskInv, TypeOK',
         UNCHANGED <<spc, runsema, tstate, subport, held, disposing, procured, semaport>>,
         \A t \in Tasks : mustdispose'[t] => mustdispose[t],
         \A t \in Quiet : t \in Quiet',
         \A t \in Tasks : spc[t] = "start" => AwaitsStartup(t)'
  PROVE  Kept /\ \A t \in Tasks : SubtaskInv(t)' /\ DisposeInv(t)'
<1>1. ASSUME NEW t \in Tasks PROVE SubtaskInv(t)' /\ DisposeInv(t)' /\ KeptOf(t)
  <2>1. InSemaport(t)' => InSemaport(t)
    BY DEF InSemaport
  <2>2. t \in Quiet => t \in Quiet'
    OBVIOUS
  <2>. QED  BY <2>1, <2>2, TaskSame
<1>. QED  BY <1>1 DEF Kept

-----------------------------------------------------------------------------
(* The steps of main. *)

\* Main returns from a call, or goes on to a frame f of the same call, and no
\* task object is touched.
LEMMA StackTypes ==
  ASSUME TaskInv, TypeOK'
  PROVE  /\ TypeOK /\ stack \in Seq(Frame) /\ Len(stack) \in Nat
         /\ stack' \in Seq(Frame) /\ Len(stack') \in Nat
<1>1. TypeOK /\ stack \in Seq(Frame) /\ stack' \in Seq(Frame)
  BY DEF TaskInv, TypeOK
<1>. QED  BY <1>1

LEMMA GotoShape ==
  ASSUME TaskInv, stack # <<>>, NEW f \in Frame, stack' = Goto(f)
  PROVE  /\ Len(stack') = Len(stack)
         /\ \A i \in 1..(Len(stack) - 1) : stack'[i] = stack[i]
         /\ stack'[Len(stack)] = f
<1>1. stack \in Seq(Frame) /\ Len(stack) \in Nat /\ Len(stack) > 0
  BY StackFacts DEF TaskInv, TypeOK
<1>2. /\ Len(stack') = Len(stack)
      /\ \A i \in 1..Len(stack) : stack'[i] = IF i = Len(stack) THEN f ELSE stack[i]
  BY <1>1, GotoFacts
<1>. QED  BY <1>1, <1>2

\* What the steps of main that process a message leave alone.
Untouched ==
  /\ UNCHANGED <<spc, runsema, tstate, subport, held, disposing, procured, semaport>>
  /\ mustdispose' = mustdispose
  /\ \A t \in Tasks : spc[t] # "start"
  /\ \A t \in Quiet : t \in Quiet'

\* A call of main returns, and its object is disposed of if it must be.
LEMMA ReturnKeeps ==
  ASSUME TaskInv, TypeOK', Untouched, stack # <<>>,
         Top.pc \notin {"procure", "stWait"}, Top.pc = "ptr" => Top.task \in Quiet',
         stack' = Pop \/ stack' = DisposeIfMust(Pop, Top.task)
  PROVE  TaskInv'
<1>1. TypeOK /\ stack \in Seq(Frame) /\ Len(stack') \in Nat
  BY StackTypes
<1>2. PICK n \in Nat : n = Len(stack)
  BY <1>1
<1>3. PICK r \in Seq(Frame) : r = Pop
  BY <1>1, TopTypes
<1>4. n > 0 /\ Len(r) = n - 1 /\ (\A i \in 1..(n - 1) : r[i] = stack[i]) /\ Top.task \in Tasks
  BY <1>1, <1>2, <1>3, StackFacts, TopTypes
<1>5. Kept /\ \A t \in Tasks : SubtaskInv(t)' /\ DisposeInv(t)'
  BY TasksSame DEF Untouched
<1>6. /\ Len(r) <= Len(stack')
      /\ \A i \in 1..Len(r) : stack'[i] = r[i]
      /\ \A i \in (Len(r) + 1)..Len(stack') : stack'[i].pc = "dd" /\ disposing[stack'[i].task]
  <2>1. CASE stack' = r
    BY <1>4, <2>1
  <2>2. CASE stack' = DisposeIfMust(r, Top.task)
    BY <1>4, <2>2, DisposeShape
  <2>. QED  BY <1>3, <2>1, <2>2
<1>7. \A i \in n..Len(stack') : Harmless(i)'
  BY <1>4, <1>6 DEF Harmless, Untouched
<1>8. \A i \in 1..(n - 1) : stack'[i] = stack[i]
  BY <1>4, <1>6
<1>9. \A i \in 1..Len(stack') : FrameInv(i)'
  BY <1>1, <1>2, <1>4, <1>5, <1>6, <1>7, <1>8, FramesReturn
<1>. QED  BY <1>5, <1>9 DEF TaskInv

\* Main processes a message in a call.
LEMMA ReplyKeeps ==
  ASSUME TaskInv, TypeOK', Untouched, NEW m \in Message, Processreply(stack, m)
  PROVE  TaskInv'
<1>1. TypeOK /\ stack \in Seq(Frame) /\ Len(stack') \in Nat
  BY StackTypes
<1>2. PICK n \in Nat : n = Len(stack)
  BY <1>1
<1>3. Kept /\ \A t \in Tasks : SubtaskInv(t)' /\ DisposeInv(t)'
  BY TasksSame DEF Untouched
<1>4. /\ n <= Len(stack')
      /\ \A i \in 1..n : stack'[i] = stack[i]
      /\ \A i \in (n + 1)..Len(stack') :
             \/ stack'[i].pc = "upd"
             \/ stack'[i].pc = "dd" /\ disposing[stack'[i].task]
  BY <1>1, <1>2, ReplyShape
<1>5. \A i \in (n + 1)..Len(stack') : Harmless(i)'
  BY <1>4 DEF Harmless, Untouched
<1>6. \A i \in 1..Len(stack') : FrameInv(i)'
  BY <1>1, <1>2, <1>3, <1>4, <1>5, FramesCall
<1>. QED  BY <1>3, <1>6 DEF TaskInv

LEMMA MessageSteps ==
  ASSUME TaskInv, TypeOK',
         EventWait \/ Processtask \/ ProcesstaskReturns \/ UpdateReturns
         \/ Processtaskreply \/ StarttaskReturns \/ MessageReturns
  PROVE  TaskInv'
<1>. USE DEF mainVars, flagVars, semaVars, subVars
<1>0. TypeOK /\ stack \in Seq(Frame) /\ taskport \in Seq(Message)
  BY DEF TaskInv, TypeOK
<1>1. stack' \in Seq(Frame) /\ Len(stack') \in Nat
  BY DEF TypeOK
<1>2. \A t \in Tasks : spc[t] # "start"
  BY NoneStarting DEF EventWait, Processtask, ProcesstaskReturns, UpdateReturns,
     Processtaskreply, StarttaskReturns, MessageReturns, AtTop
<1>3. /\ UNCHANGED <<spc, runsema, tstate, subport, held, disposing, procured, semaport>>
      /\ mustdispose' = mustdispose
  BY DEF EventWait, Processtask, ProcesstaskReturns, UpdateReturns,
     Processtaskreply, StarttaskReturns, MessageReturns
<1>4. ASSUME UNCHANGED taskport PROVE \A t \in Quiet : t \in Quiet'
  BY <1>4 DEF Quiet, OfTask
<1>5. ASSUME \A t \in Quiet : t \in Quiet' PROVE Untouched
  BY <1>2, <1>3, <1>5 DEF Untouched
<1>7. ASSUME \A t \in Quiet : t \in Quiet'
      PROVE  Kept /\ \A t \in Tasks : SubtaskInv(t)' /\ DisposeInv(t)'
  BY <1>5, <1>7, TasksSame DEF Untouched
<1>6. PICK n \in Nat : n = Len(stack)
  BY <1>0
<1>9. ASSUME UNCHANGED <<taskport, stack>> PROVE TaskInv'
  <2>1. Kept /\ \A t \in Tasks : SubtaskInv(t)' /\ DisposeInv(t)'
    BY <1>4, <1>7, <1>9
  <2>2. \A i \in 1..Len(stack') : FrameInv(i)'
    BY <1>1, <1>6, <1>9, <2>1, FramesCall
  <2>. QED  BY <2>1, <2>2 DEF TaskInv
<1>10. CASE EventWait
  BY <1>9, <1>10 DEF EventWait
<1>11. CASE Processtask
  <2>1. CASE taskport = <<>>
    BY <1>9, <1>11, <2>1 DEF Processtask
  <2>2. CASE taskport # <<>>
    <3>. DEFINE f == F("ptTail", Head(taskport).task, NoMsg)
    <3>1. Head(taskport) \in Message /\ stack = <<>> /\ taskport' = Tail(taskport)
          /\ Processreply(<<f>>, Head(taskport))
      BY <1>0, <1>11, <2>2 DEF Processtask
    <3>2. f \in Frame /\ f.pc = "ptTail"
      BY <3>1, FrameIn DEF FramePCs, Message
    <3>3. Kept /\ \A t \in Tasks : SubtaskInv(t)' /\ DisposeInv(t)'
      BY <1>0, <1>7, <2>2, <3>1, QuietTail
    <3>. HIDE DEF f
    <3>4. PICK s : s = <<f>>
      OBVIOUS
    <3>5. s \in Seq(Frame) /\ Len(s) = 1 /\ s[1] = f
      BY <3>2, <3>4
    <3>6. /\ Len(s) <= Len(stack')
          /\ \A i \in 1..Len(s) : stack'[i] = s[i]
          /\ \A i \in (Len(s) + 1)..Len(stack') :
               \/ stack'[i].pc = "upd"
               \/ stack'[i].pc = "dd" /\ disposing[stack'[i].task]
      <4>1. Processreply(s, Head(taskport))
        BY <3>1, <3>4
      <4>. QED  BY <3>1, <3>5, <4>1, ReplyShape
    <3>7. \A i \in 1..Len(stack') : i = 1 \/ i \in (Len(s) + 1)..Len(stack')
      BY <1>1, <3>5
    <3>8. \A i \in 1..Len(stack') : Harmless(i)'
      BY <1>3, <3>2, <3>5, <3>6, <3>7 DEF Harmless
    <3>9. 0 = Len(stack) /\ 0 <= Len(stack') /\ (\A i \in 1..0 : stack'[i] = stack[i])
      BY <1>1, <3>1
    <3>10. \A i \in 1..Len(stack') : FrameInv(i)'
      BY <1>1, <3>3, <3>8, <3>9, FramesCall
    <3>. QED  BY <3>3, <3>10 DEF TaskInv
  <2>. QED  BY <2>1, <2>2
<1>12. CASE ProcesstaskReturns
  <2>1. stack # <<>> /\ Top.pc = "ptTail" /\ stack' = Pop /\ Pop \in Seq(Frame) /\ UNCHANGED taskport
    BY <1>0, <1>12, TopTypes DEF ProcesstaskReturns, AtTop
  <2>. QED  BY <1>4, <1>5, <2>1, ReturnKeeps
<1>13. CASE UpdateReturns
  <2>1. stack # <<>> /\ Top.pc = "upd" /\ Pop \in Seq(Frame) /\ UNCHANGED taskport
        /\ stack' = DisposeIfMust(Pop, Top.task)
    BY <1>0, <1>13, TopTypes DEF UpdateReturns, AtTop
  <2>. QED  BY <1>4, <1>5, <2>1, ReturnKeeps
<1>14. CASE Processtaskreply
  <2>1. stack # <<>> /\ Top.pc = "ptr" /\ Pop \in Seq(Frame) /\ Top.task \in Tasks
    BY <1>0, <1>14, TopTypes DEF Processtaskreply, AtTop
  <2>2. CASE OfTask(Top.task) = {} /\ stack' = Pop /\ UNCHANGED taskport
    <3>1. \A t \in Quiet : t \in Quiet'
      BY <1>4, <2>2
    <3>2. Top.task \in Quiet
      BY <2>1, <2>2 DEF Quiet
    <3>3. Top.task \in Quiet'
      BY <3>1, <3>2
    <3>. QED  BY <1>5, <2>1, <2>2, <3>1, <3>3, ReturnKeeps
  <2>3. ASSUME NEW i \in First(OfTask(Top.task)),
               Processreply(stack, taskport[i]), taskport' = RemoveAt(taskport, i)
        PROVE  TaskInv'
    <3>1. i \in 1..Len(taskport) /\ taskport[i] \in Message
      BY <1>0, <2>1, OfTaskFacts
    <3>2. \A t \in Quiet : t \in Quiet'
      BY <1>0, <2>3, <3>1, QuietTake
    <3>. QED  BY <1>5, <2>3, <3>1, <3>2, ReplyKeeps
  <2>. QED  BY <1>14, <2>2, <2>3 DEF Processtaskreply
<1>15. CASE StarttaskReturns
  <2>1. stack # <<>> /\ Top.pc = "startK" /\ stack' = Pop /\ Pop \in Seq(Frame) /\ UNCHANGED taskport
    BY <1>0, <1>15, TopTypes DEF StarttaskReturns, AtTop
  <2>. QED  BY <1>4, <1>5, <2>1, ReturnKeeps
<1>16. CASE MessageReturns
  <2>1. stack # <<>> /\ Top.pc = "msgK" /\ Pop \in Seq(Frame) /\ UNCHANGED taskport
        /\ stack' = DisposeIfMust(Pop, Top.task)
    BY <1>0, <1>16, TopTypes DEF MessageReturns, AtTop
  <2>. QED  BY <1>4, <1>5, <2>1, ReturnKeeps
<1>. QED  BY <1>10, <1>11, <1>12, <1>13, <1>14, <1>15, <1>16

LEMMA TopNext ==
  ASSUME stack' \in Seq(Frame), stack' # <<>>
  PROVE  Top' = stack'[Len(stack')]
BY FrontLastFacts DEF Top

LEMMA WaitSteps ==
  ASSUME TaskInv, TypeOK', WaitformsgScan \/ WaitformsgWakes
  PROVE  TaskInv'
<1>. USE DEF mainVars, flagVars, semaVars, subVars
<1>0. TypeOK /\ stack \in Seq(Frame) /\ stack' \in Seq(Frame) /\ Len(stack') \in Nat
      /\ taskport \in Seq(Message)
  BY StackTypes DEF TypeOK
<1>1. /\ stack # <<>> /\ Top.pc \in {"wfm", "wfmWait"}
      /\ Top.task \in Tasks /\ Top.msg \in Message \cup {NoMsg}
  BY <1>0, TopTypes DEF WaitformsgScan, WaitformsgWakes, AtTop
<1>2. /\ UNCHANGED <<spc, runsema, tstate, subport, held, disposing, procured, semaport>>
      /\ mustdispose' = mustdispose
  BY DEF WaitformsgScan, WaitformsgWakes
<1>3. PICK n \in Nat : n = Len(stack) /\ n > 0
  BY <1>0, <1>1, StackFacts
<1>4. \A t \in Tasks : spc[t] = "start" => Top.task = t /\ t \in Quiet
  BY DEF TaskInv, SubtaskInv, AwaitsStartup
<1>5. ASSUME UNCHANGED taskport, NEW pc \in {"wfm", "wfmWait"},
             stack' = Goto(F(pc, Top.task, Top.msg))
      PROVE  TaskInv'
  <2>1. PICK f \in Frame : f = F(pc, Top.task, Top.msg) /\ f.pc = pc /\ f.task = Top.task
    BY <1>1, <1>5, FrameIn DEF FramePCs
  <2>2. Len(stack') = n /\ stack'[n] = f /\ \A i \in 1..(n - 1) : stack'[i] = stack[i]
    BY <1>1, <1>3, <1>5, <2>1, GotoShape
  <2>3. stack' # <<>>
    BY <1>3, <2>2
  <2>4. Top' = f
    BY <1>0, <2>2, <2>3, TopNext
  <2>5. ASSUME NEW t \in Tasks, spc[t] = "start" PROVE AwaitsStartup(t)'
    BY <1>4, <2>1, <2>3, <2>4, <2>5 DEF AwaitsStartup
  <2>6. \A t \in Quiet : t \in Quiet'
    BY <1>5 DEF Quiet, OfTask
  <2>7. Kept /\ \A t \in Tasks : SubtaskInv(t)' /\ DisposeInv(t)'
    BY <1>2, <2>5, <2>6, TasksSame
  <2>8. \A i \in n..Len(stack') : Harmless(i)'
    BY <2>1, <2>2 DEF Harmless
  <2>9. \A i \in 1..Len(stack') : FrameInv(i)'
    BY <1>0, <1>1, <1>3, <2>2, <2>7, <2>8, FramesReturn
  <2>. QED  BY <2>7, <2>9 DEF TaskInv
<1>6. CASE WaitformsgWakes
  BY <1>5, <1>6 DEF WaitformsgWakes
<1>7. CASE WaitformsgScan
  <2>1. Top.pc = "wfm"
    BY <1>7 DEF WaitformsgScan, AtTop
  <2>2. CASE stack' = Goto(F("wfmWait", Top.task, Top.msg)) /\ UNCHANGED taskport
    BY <1>5, <2>2
  <2>3. ASSUME NEW i \in First(OfTask(Top.task)), taskport' = RemoveAt(taskport, i),
               stack' = Pop \/ Processreply(stack, taskport[i])
        PROVE  TaskInv'
    <3>1. i \in 1..Len(taskport) /\ taskport[i] \in Message
      BY <1>0, <1>1, OfTaskFacts
    <3>2. \A t \in Quiet : t \in Quiet'
      BY <1>0, <2>3, <3>1, QuietTake
    <3>3. Top.task \notin Quiet
      BY DEF First, Quiet
    <3>4. Untouched
      BY <1>2, <1>4, <3>2, <3>3 DEF Untouched
    <3>. QED  BY <1>1, <2>1, <2>3, <3>1, <3>4, ReturnKeeps, ReplyKeeps
  <2>. QED  BY <1>7, <2>2, <2>3 DEF WaitformsgScan
<1>. QED  BY <1>6, <1>7

-----------------------------------------------------------------------------
(* The disposal of a task object. *)

LEMMA ProcureKeeps ==
  ASSUME TaskInv, TypeOK', Procure
  PROVE  TaskInv'
<1>. USE DEF mainVars, flagVars, semaVars, subVars
<1>0. TypeOK /\ stack \in Seq(Frame) /\ stack' \in Seq(Frame) /\ Len(stack') \in Nat
      /\ semaport \in Seq(Tasks)
  BY StackTypes DEF TypeOK
<1>1. PICK t : t = Top.task
  OBVIOUS
<1>2. /\ stack # <<>> /\ Top.pc = "procure" /\ t \in Tasks /\ disposing[t]
      /\ stack' = Goto(F("stWait", t, NoMsg))
  BY <1>1, TopFrame DEF Procure, AtTop
<1>3. PICK n \in Nat : n = Len(stack) /\ n > 0
  BY <1>0, <1>2, StackFacts
<1>4. PICK f \in Frame : f = F("stWait", t, NoMsg) /\ f.pc = "stWait" /\ f.task = t
  BY <1>2, FrameIn DEF FramePCs
<1>5. Len(stack') = n /\ stack'[n] = f /\ \A i \in 1..(n - 1) : stack'[i] = stack[i]
  BY <1>2, <1>3, <1>4, GotoShape
<1>6. \A u \in Tasks : spc[u] # "start"
  BY <1>2, NoneStarting
<1>7. /\ UNCHANGED <<spc, tstate, subport, held, disposing, mustdispose, taskport>>
      /\ \/ /\ runsema[t] = "free" /\ runsema' = [runsema EXCEPT ![t] = "main"]
            /\ semaport' = Append(semaport, t) /\ procured' = procured
         \/ /\ procured' = [procured EXCEPT ![t] = TRUE]
            /\ runsema' = runsema /\ semaport' = semaport
  BY <1>1 DEF Procure
<1>8. \A u \in Quiet : u \in Quiet'
  BY <1>7 DEF Quiet, OfTask
<1>9. ASSUME NEW u \in Tasks, u # t
      PROVE  SubtaskInv(u)' /\ DisposeInv(u)' /\ KeptOf(u)
  <2>1. InSemaport(u)' => InSemaport(u)
    <3>1. CASE semaport' = semaport
      BY <3>1 DEF InSemaport
    <3>2. CASE semaport' = Append(semaport, t)
      BY <1>0, <1>2, <1>9, <3>2, PushFacts DEF InSemaport
    <3>. QED  BY <1>7, <3>1, <3>2
  <2>2. runsema'[u] = runsema[u] /\ procured'[u] = procured[u]
    BY <1>7, <1>9 DEF TypeOK
  <2>3. u \in Quiet => u \in Quiet'
    BY <1>8
  <2>. QED  BY <1>6, <1>7, <2>1, <2>2, <2>3, TaskSame
<1>10. SubtaskInv(t)' /\ DisposeInv(t)' /\ KeptOf(t)
  <2>1. SubtaskInv(t) /\ DisposeInv(t) /\ spc[t] # "start"
    BY <1>2, <1>6 DEF TaskInv
  <2>2. spc[t] \in {"none", "start", "run", "suspended", "exit", "ended", "failed"}
    BY <1>0, <1>2 DEF TypeOK
  <2>3. t \in Quiet => t \in Quiet'
    BY <1>8
  <2>4. (HasSubport(t)' <=> HasSubport(t)) /\ subport' = subport /\ held' = held /\ spc' = spc
        /\ tstate' = tstate /\ disposing' = disposing
    BY <1>7 DEF HasSubport
  <2>5. CASE runsema[t] = "free" /\ runsema' = [runsema EXCEPT ![t] = "main"]
    <3>1. runsema'[t] = "main"
      BY <1>0, <1>2, <2>5 DEF TypeOK
    <3>2. spc[t] \in {"none", "ended", "failed"}
      BY <2>1, <2>2, <2>5 DEF SubtaskInv
    <3>3. t \in GoneTasks'
      BY <1>2, <2>4, <3>1, <3>2 DEF GoneTasks, Gone
    <3>4. SubtaskInv(t)'
      BY <2>1, <2>3, <2>4, <3>2 DEF SubtaskInv
    <3>5. DisposeInv(t)'
      BY <1>2, <2>1, <2>3, <2>4, <3>3 DEF DisposeInv
    <3>. QED  BY <1>2, <2>3, <2>4, <3>3, <3>4, <3>5 DEF KeptOf
  <2>6. CASE runsema' = runsema /\ semaport' = semaport
    <3>1. t \in GoneTasks' <=> t \in GoneTasks
      BY <2>4, <2>6 DEF GoneTasks, Gone
    <3>2. InSemaport(t)' <=> InSemaport(t)
      BY <2>6 DEF InSemaport
    <3>3. SubtaskInv(t)'
      BY <2>1, <2>3, <2>4, <2>6 DEF SubtaskInv
    <3>4. DisposeInv(t)'
      BY <1>2, <2>1, <2>3, <2>4, <3>1, <3>2 DEF DisposeInv
    <3>. QED  BY <1>2, <2>3, <2>4, <3>1, <3>3, <3>4 DEF KeptOf
  <2>. QED  BY <1>7, <2>5, <2>6
<1>11. Kept /\ \A u \in Tasks : SubtaskInv(u)' /\ DisposeInv(u)'
  BY <1>9, <1>10 DEF Kept
<1>12. Harmless(n)'
  BY <1>2, <1>4, <1>5, <1>7 DEF Harmless
<1>13. Below(n - 1, {"procure", "stWait"}) => Below(n - 1, {"procure", "stWait"})'
  <2>. SUFFICES ASSUME Below(n - 1, {"procure", "stWait"})
                PROVE  Below(n - 1, {"procure", "stWait"})'
    OBVIOUS
  <2>1. stack[n].task = stack[n - 1].task /\ stack[n] = Top
    BY <1>0, <1>2, <1>3, StackFacts DEF Below
  <2>2. n - 1 \in 1..(n - 1) /\ stack'[n - 1] = stack[n - 1]
    BY <1>3, <1>5 DEF Below
  <2>. QED  BY <1>1, <1>3, <1>4, <1>5, <2>1, <2>2 DEF Below
<1>14. \A i \in 1..Len(stack') : FrameInv(i)'
  BY <1>0, <1>2, <1>3, <1>5, <1>11, <1>12, <1>13, FramesReturn
<1>. QED  BY <1>11, <1>14 DEF TaskInv

LEMMA StopKeeps ==
  ASSUME TaskInv, TypeOK', StoptaskWakes
  PROVE  TaskInv'
<1>. USE DEF mainVars, flagVars, semaVars, subVars
<1>0. TypeOK /\ stack \in Seq(Frame) /\ stack' \in Seq(Frame) /\ Len(stack') \in Nat
      /\ semaport \in Seq(Tasks)
  BY StackTypes DEF TypeOK
<1>1. PICK t : t = Top.task
  OBVIOUS
<1>2. /\ stack # <<>> /\ Top.pc = "stWait" /\ t \in Tasks /\ disposing[t]
  BY <1>1, TopFrame DEF StoptaskWakes, AtTop
<1>3. PICK n \in Nat : n = Len(stack) /\ n > 0
  BY <1>0, <1>2, StackFacts
<1>4. \A u \in Tasks : spc[u] # "start"
  BY <1>2, NoneStarting
<1>5. UNCHANGED <<spc, tstate, subport, held, disposing, mustdispose, procured, taskport>>
  BY DEF StoptaskWakes
<1>6. \/ /\ semaport # <<>> /\ Head(semaport) = t /\ semaport' = Tail(semaport)
         /\ runsema' = [runsema EXCEPT ![t] = "free"] /\ stack' = Pop
      \/ /\ semaport' = semaport \/ (semaport # <<>> /\ semaport' = Tail(semaport))
         /\ runsema' = runsema
         /\ stack' = stack \/ stack' = Append(stack, F("ptr", t, NoMsg))
  <2>. DEFINE mine == ssig /\ semaport # <<>> /\ Head(semaport) = t
  <2>1. CASE mine
    BY <1>1, <2>1 DEF StoptaskWakes
  <2>2. CASE ~mine
    <3>1. runsema' = runsema
      BY <1>1, <2>2 DEF StoptaskWakes
    <3>2. semaport' = semaport \/ (semaport # <<>> /\ semaport' = Tail(semaport))
      BY DEF StoptaskWakes
    <3>3. stack' = stack \/ stack' = Append(stack, F("ptr", t, NoMsg))
      BY <1>1, <2>2 DEF StoptaskWakes
    <3>. QED  BY <3>1, <3>2, <3>3
  <2>. QED  BY <2>1, <2>2
<1>7. \A u \in Quiet : u \in Quiet'
  BY <1>5 DEF Quiet, OfTask
<1>8. \A u \in Tasks : InSemaport(u)' => InSemaport(u)
  <2>1. CASE semaport' = semaport
    BY <2>1 DEF InSemaport
  <2>2. CASE semaport # <<>> /\ semaport' = Tail(semaport)
    <3>1. \A i \in 1..Len(semaport') : i + 1 \in 1..Len(semaport) /\ semaport'[i] = semaport[i + 1]
      BY <1>0, <2>2
    <3>. QED  BY <3>1 DEF InSemaport
  <2>. QED  BY <1>6, <2>1, <2>2
<1>9. ASSUME NEW u \in Tasks, runsema'[u] = runsema[u]
      PROVE  SubtaskInv(u)' /\ DisposeInv(u)' /\ KeptOf(u)
  <2>1. u \in Quiet => u \in Quiet'
    BY <1>7
  <2>. QED  BY <1>4, <1>5, <1>8, <1>9, <2>1, TaskSame
<1>10. CASE semaport # <<>> /\ Head(semaport) = t /\ semaport' = Tail(semaport)
            /\ runsema' = [runsema EXCEPT ![t] = "free"] /\ stack' = Pop
  <2>1. InSemaport(t)
    <3>1. 1 \in 1..Len(semaport) /\ semaport[1] = t
      BY <1>0, <1>10
    <3>. QED  BY <3>1 DEF InSemaport
  <2>2. SubtaskInv(t) /\ DisposeInv(t) /\ t \in GoneTasks
    BY <1>2, <2>1 DEF TaskInv, DisposeInv
  <2>3. runsema'[t] = "free"
    BY <1>0, <1>2, <1>10 DEF TypeOK
  <2>4. spc[t] \in {"none", "ended", "failed"}
    BY <2>2 DEF GoneTasks, Gone
  <2>5. t \in GoneTasks'
    BY <1>2, <1>5, <2>3, <2>4 DEF GoneTasks, Gone
  <2>6. t \in Quiet => t \in Quiet'
    BY <1>7
  <2>7. SubtaskInv(t)'
    <3>1. HasSubport(t)' <=> HasSubport(t)
      BY <1>5 DEF HasSubport
    <3>. QED  BY <1>5, <2>2, <2>4, <2>6, <3>1 DEF SubtaskInv
  <2>8. DisposeInv(t)'
    BY <1>2, <1>5, <2>2, <2>5, <2>6 DEF DisposeInv
  <2>9. KeptOf(t)
    BY <1>2, <1>5, <2>5, <2>6 DEF KeptOf
  <2>10. ASSUME NEW u \in Tasks, u # t PROVE runsema'[u] = runsema[u]
    BY <1>0, <1>10, <2>10 DEF TypeOK
  <2>11. Kept /\ \A u \in Tasks : SubtaskInv(u)' /\ DisposeInv(u)'
    BY <1>9, <2>7, <2>8, <2>9, <2>10 DEF Kept
  <2>12. Len(stack') = n - 1 /\ \A i \in 1..(n - 1) : stack'[i] = stack[i]
    BY <1>0, <1>2, <1>3, <1>10, StackFacts
  <2>13. \A i \in n..Len(stack') : Harmless(i)'
    BY <1>3, <2>12
  <2>14. n - 1 <= Len(stack') /\ Top.task \in GoneTasks'
    BY <1>1, <1>3, <2>5, <2>12
  <2>15. \A i \in 1..Len(stack') : FrameInv(i)'
    BY <1>0, <1>2, <1>3, <2>11, <2>12, <2>13, <2>14, FramesReturn
  <2>. QED  BY <2>11, <2>15 DEF TaskInv
<1>11. CASE runsema' = runsema /\ (stack' = stack \/ stack' = Append(stack, F("ptr", t, NoMsg)))
  <2>1. Kept /\ \A u \in Tasks : SubtaskInv(u)' /\ DisposeInv(u)'
    BY <1>9, <1>11 DEF Kept
  <2>2. PICK f \in Frame : f = F("ptr", t, NoMsg) /\ f.pc = "ptr"
    BY <1>2, FrameIn DEF FramePCs
  <2>3. /\ n <= Len(stack') /\ \A i \in 1..n : stack'[i] = stack[i]
        /\ \A i \in (n + 1)..Len(stack') : stack'[i] = f
    <3>1. CASE stack' = stack
      BY <1>3, <3>1
    <3>2. CASE stack' = Append(stack, f)
      BY <1>0, <1>3, <2>2, <3>2, PushFacts
    <3>. QED  BY <1>11, <2>2, <3>1, <3>2
  <2>4. \A i \in (n + 1)..Len(stack') : Harmless(i)'
    BY <2>2, <2>3 DEF Harmless
  <2>5. \A i \in 1..Len(stack') : FrameInv(i)'
    BY <1>0, <1>3, <2>1, <2>3, <2>4, FramesCall
  <2>. QED  BY <2>1, <2>5 DEF TaskInv
<1>. QED  BY <1>6, <1>10, <1>11

LEMMA DisposeSteps ==
  ASSUME TaskInv, TypeOK', Dodisposetask \/ DodisposetaskDrains \/ DodisposetaskFrees
  PROVE  TaskInv'
<1>. USE DEF mainVars, flagVars, semaVars, subVars
<1>0. TypeOK /\ stack \in Seq(Frame) /\ stack' \in Seq(Frame) /\ Len(stack') \in Nat
  BY StackTypes
<1>1. PICK t : t = Top.task
  OBVIOUS
<1>2. /\ stack # <<>> /\ Top.pc \in {"dd", "ddPtr", "ddFree"} /\ t \in Tasks /\ disposing[t]
      /\ Top.pc \in {"ddPtr", "ddFree"} => t \in GoneTasks
      /\ Top.pc = "ddFree" => t \in Quiet
  BY <1>1, TopFrame DEF Dodisposetask, DodisposetaskDrains, DodisposetaskFrees, AtTop
<1>3. PICK n \in Nat : n = Len(stack) /\ n > 0
  BY <1>0, <1>2, StackFacts
<1>4. \A u \in Tasks : spc[u] # "start"
  BY <1>2, NoneStarting
<1>5. /\ UNCHANGED <<spc, runsema, subport, held, disposing, procured, taskport, semaport>>
      /\ \A u \in Tasks : mustdispose'[u] => mustdispose[u]
  BY <1>0 DEF Dodisposetask, DodisposetaskDrains, DodisposetaskFrees, TypeOK
<1>6. \A u \in Quiet : u \in Quiet'
  BY <1>5 DEF Quiet, OfTask
<1>7. ASSUME UNCHANGED tstate
      PROVE  Kept /\ \A u \in Tasks : SubtaskInv(u)' /\ DisposeInv(u)'
  BY <1>4, <1>5, <1>6, <1>7, TasksSame
<1>8. CASE Dodisposetask
  <2>1. Kept /\ \A u \in Tasks : SubtaskInv(u)' /\ DisposeInv(u)'
    BY <1>7, <1>8 DEF Dodisposetask
  <2>2. PICK f \in Frame : f = F("ddPtr", t, NoMsg) /\ f.pc = "ddPtr" /\ f.task = t
    BY <1>2, FrameIn DEF FramePCs
  <2>3. PICK g \in Frame : g = F("procure", t, NoMsg) /\ g.pc = "procure" /\ g.task = t
    BY <1>2, FrameIn DEF FramePCs
  <2>4. PICK h \in Frame : h = F("ptr", t, NoMsg) /\ h.pc = "ptr"
    BY <1>2, FrameIn DEF FramePCs
  <2>5. PICK s \in Seq(Frame) : s = Goto(f)
    BY <1>0, <1>2, GotoFacts
  <2>6. /\ Len(s) = n /\ s[n] = f /\ \A i \in 1..(n - 1) : s[i] = stack[i]
    <3>1. Len(s) = n /\ \A i \in 1..n : s[i] = IF i = n THEN f ELSE stack[i]
      BY <1>0, <1>2, <1>3, <2>5, GotoFacts
    <3>. QED  BY <1>3, <3>1
  <2>7. stack' = s \o <<g, h>>
    BY <1>1, <1>8, <2>2, <2>3, <2>4, <2>5 DEF Dodisposetask
  <2>8. /\ Len(stack') = n + 2 /\ stack'[n] = f /\ stack'[n + 1] = g /\ stack'[n + 2] = h
        /\ \A i \in 1..(n - 1) : stack'[i] = stack[i]
    <3>1. /\ Len(stack') = Len(s) + 2
          /\ \A i \in 1..Len(s) : stack'[i] = s[i]
          /\ stack'[Len(s) + 1] = g /\ stack'[Len(s) + 2] = h
      BY <2>7, PushTwoFacts
    <3>. QED  BY <1>3, <2>6, <3>1
  <2>9. \A i \in 1..(n - 1) : FrameInv(i)'
    BY <1>0, <1>2, <1>3, <2>1, <2>8, FramesBelow
  <2>10. Below(n, {"procure", "stWait"})'
    BY <1>3, <2>2, <2>3, <2>8 DEF Below
  <2>11. FrameInv(n)'
    BY <1>2, <1>5, <2>2, <2>8, <2>10 DEF FrameInv
  <2>12. Harmless(n + 1)' /\ Harmless(n + 2)'
    BY <1>2, <1>5, <2>3, <2>4, <2>8 DEF Harmless
  <2>13. FrameInv(n + 1)' /\ FrameInv(n + 2)'
    BY <2>12 DEF Harmless, FrameInv
  <2>14. \A i \in 1..Len(stack') : i \in 1..(n - 1) \/ i = n \/ i = n + 1 \/ i = n + 2
    BY <2>8
  <2>. QED  BY <2>1, <2>9, <2>11, <2>13, <2>14 DEF TaskInv
<1>9. CASE DodisposetaskDrains
  <2>1. Kept /\ (\A u \in Tasks : SubtaskInv(u)' /\ DisposeInv(u)') /\ Top.pc = "ddPtr"
    BY <1>7, <1>9 DEF DodisposetaskDrains, AtTop
  <2>2. PICK f \in Frame : f = F("ddFree", t, NoMsg) /\ f.pc = "ddFree" /\ f.task = t
    BY <1>2, FrameIn DEF FramePCs
  <2>3. PICK g \in Frame : g = F("ptr", t, NoMsg) /\ g.pc = "ptr" /\ g.task = t
    BY <1>2, FrameIn DEF FramePCs
  <2>4. PICK s \in Seq(Frame) : s = Goto(f)
    BY <1>0, <1>2, GotoFacts
  <2>5. /\ Len(s) = n /\ s[n] = f /\ \A i \in 1..(n - 1) : s[i] = stack[i]
    <3>1. Len(s) = n /\ \A i \in 1..n : s[i] = IF i = n THEN f ELSE stack[i]
      BY <1>0, <1>2, <1>3, <2>4, GotoFacts
    <3>. QED  BY <1>3, <3>1
  <2>6. stack' = s \o <<g>>
    BY <1>1, <1>9, <2>2, <2>3, <2>4 DEF DodisposetaskDrains
  <2>7. /\ Len(stack') = n + 1 /\ stack'[n] = f /\ stack'[n + 1] = g
        /\ \A i \in 1..(n - 1) : stack'[i] = stack[i]
    <3>1. /\ Len(stack') = Len(s) + 1
          /\ \A i \in 1..Len(s) : stack'[i] = s[i]
          /\ stack'[Len(s) + 1] = g
      BY <2>6, PushOneFacts
    <3>. QED  BY <1>3, <2>5, <3>1
  <2>8. \A i \in 1..(n - 1) : FrameInv(i)'
    BY <1>0, <1>2, <1>3, <2>1, <2>7, FramesBelow
  <2>9. Below(n, {"ptr"})'
    BY <1>3, <2>2, <2>3, <2>7 DEF Below
  <2>10. t \in GoneTasks'
    BY <1>2, <2>1 DEF Kept, KeptOf
  <2>11. FrameInv(n)'
    BY <1>2, <1>5, <2>2, <2>7, <2>9, <2>10 DEF FrameInv
  <2>12. FrameInv(n + 1)'
    BY <2>3, <2>7 DEF FrameInv
  <2>13. \A i \in 1..Len(stack') : i \in 1..(n - 1) \/ i = n \/ i = n + 1
    BY <2>7
  <2>. QED  BY <2>1, <2>8, <2>11, <2>12, <2>13 DEF TaskInv
<1>10. CASE DodisposetaskFrees
  <2>1. Top.pc = "ddFree" /\ stack' = Pop /\ tstate' = [tstate EXCEPT ![t] = "freed"]
    BY <1>1, <1>10 DEF DodisposetaskFrees, AtTop
  <2>2. ASSUME NEW u \in Tasks, u # t
        PROVE  SubtaskInv(u)' /\ DisposeInv(u)' /\ KeptOf(u)
    <3>1. tstate'[u] = tstate[u]
      BY <1>0, <2>1, <2>2 DEF TypeOK
    <3>2. InSemaport(u)' => InSemaport(u)
      BY <1>5 DEF InSemaport
    <3>3. u \in Quiet => u \in Quiet'
      BY <1>6
    <3>. QED  BY <1>4, <1>5, <3>1, <3>2, <3>3, TaskSame
  <2>3. SubtaskInv(t) /\ DisposeInv(t) /\ t \in GoneTasks /\ t \in Quiet
    BY <1>2, <2>1 DEF TaskInv
  <2>4. spc[t] \in {"none", "ended", "failed"}
    BY <2>3 DEF GoneTasks, Gone
  <2>5. t \in GoneTasks' /\ t \in Quiet'
    BY <1>2, <1>5, <1>6, <2>3 DEF GoneTasks, Gone
  <2>6. tstate'[t] = "freed"
    BY <1>0, <1>2, <2>1 DEF TypeOK
  <2>7. SubtaskInv(t)'
    <3>1. ~HasSubport(t)'
      BY <2>6 DEF HasSubport
    <3>. QED  BY <1>5, <2>3, <2>4, <2>5, <2>6, <3>1 DEF SubtaskInv
  <2>8. DisposeInv(t)' /\ KeptOf(t)
    BY <1>2, <1>5, <2>5 DEF DisposeInv, KeptOf
  <2>9. Kept /\ \A u \in Tasks : SubtaskInv(u)' /\ DisposeInv(u)'
    BY <2>2, <2>7, <2>8 DEF Kept
  <2>10. Len(stack') = n - 1 /\ \A i \in 1..(n - 1) : stack'[i] = stack[i]
    BY <1>0, <1>2, <1>3, <2>1, StackFacts
  <2>11. n - 1 <= Len(stack') /\ \A i \in n..Len(stack') : Harmless(i)'
    BY <1>3, <2>10
  <2>12. \A i \in 1..Len(stack') : FrameInv(i)'
    BY <1>0, <1>2, <1>3, <2>1, <2>9, <2>10, <2>11, FramesReturn
  <2>. QED  BY <2>9, <2>12 DEF TaskInv
<1>. QED  BY <1>8, <1>9, <1>10

LEMMA MainKeeps ==
  ASSUME TaskInv, MainStep
  PROVE  TaskInv'
<1>1. TypeOK'
  BY MainSteps DEF TaskInv
<1>. QED  BY <1>1, MessageSteps, WaitSteps, ProcureKeeps, StopKeeps, DisposeSteps DEF MainStep

-----------------------------------------------------------------------------
(* The steps of the client. *)

LEMMA StartKeeps ==
  ASSUME TaskInv, TypeOK', NEW t \in Tasks, Starttask(t)
  PROVE  TaskInv'
<1>. USE DEF mainVars, flagVars, semaVars, subVars
<1>0. TypeOK /\ stack \in Seq(Frame) /\ stack' \in Seq(Frame) /\ Len(stack') \in Nat
  BY StackTypes
<1>1. /\ tstate[t] = "new" /\ ~disposing[t]
      /\ stack = <<>> \/ Top.pc = "upd"
      /\ UNCHANGED <<runsema, subport, held, disposing, procured, taskport, semaport, mustdispose>>
  BY DEF Starttask, MayStart, Caller, AtTop
<1>2. \A u \in Tasks : spc[u] # "start"
  BY <1>1, NoneStarting
<1>3. \A u \in Quiet : u \in Quiet'
  BY <1>1 DEF Quiet, OfTask
<1>4. \/ tstate' = [tstate EXCEPT ![t] = "dead"] /\ UNCHANGED <<stack, spc>>
      \/ /\ spc' = [spc EXCEPT ![t] = "start"] /\ UNCHANGED tstate
         /\ stack' = stack \o <<F("startK", t, NoMsg), F("wfm", t, Msg("startup", t, FALSE, 0))>>
  BY DEF Starttask
<1>5. ASSUME NEW u \in Tasks, u # t
      PROVE  SubtaskInv(u)' /\ DisposeInv(u)' /\ KeptOf(u)
  <2>1. spc'[u] = spc[u] /\ tstate'[u] = tstate[u]
    BY <1>0, <1>4, <1>5 DEF TypeOK
  <2>2. InSemaport(u)' => InSemaport(u)
    BY <1>1 DEF InSemaport
  <2>3. u \in Quiet => u \in Quiet'
    BY <1>3
  <2>. QED  BY <1>1, <1>2, <2>1, <2>2, <2>3, TaskSame
<1>6. SubtaskInv(t) /\ DisposeInv(t)
  BY DEF TaskInv
<1>7. spc[t] = "none" /\ t \in Quiet /\ subport[t] = <<>> /\ held[t] = NoMsg
      /\ t \in Quiet' /\ ~mustdispose[t] /\ ~procured[t] /\ ~InSemaport(t)
  BY <1>1, <1>2, <1>3, <1>6 DEF SubtaskInv, DisposeInv
<1>8. ~InSemaport(t)'
  BY <1>1, <1>7 DEF InSemaport
<1>9. KeptOf(t)
  BY <1>1 DEF KeptOf
<1>10. PICK n \in Nat : n = Len(stack)
  BY <1>0
<1>11. CASE tstate' = [tstate EXCEPT ![t] = "dead"] /\ UNCHANGED <<stack, spc>>
  <2>1. tstate'[t] = "dead" /\ ~HasSubport(t)'
    BY <1>0, <1>11 DEF TypeOK, HasSubport
  <2>2. SubtaskInv(t)'
    BY <1>1, <1>7, <1>11, <2>1 DEF SubtaskInv
  <2>3. DisposeInv(t)'
    BY <1>1, <1>7, <1>8, <2>1 DEF DisposeInv
  <2>4. Kept /\ \A u \in Tasks : SubtaskInv(u)' /\ DisposeInv(u)'
    BY <1>5, <1>9, <2>2, <2>3 DEF Kept
  <2>5. \A i \in 1..Len(stack') : FrameInv(i)'
    BY <1>0, <1>10, <1>11, <2>4, FramesCall
  <2>. QED  BY <2>4, <2>5 DEF TaskInv
<1>12. CASE /\ spc' = [spc EXCEPT ![t] = "start"] /\ UNCHANGED tstate
            /\ stack' = stack \o <<F("startK", t, NoMsg), F("wfm", t, Msg("startup", t, FALSE, 0))>>
  <2>. DEFINE m == Msg("startup", t, FALSE, 0)
  <2>1. m \in Message \cup {NoMsg}
    BY MsgIn DEF MsgTypes
  <2>. HIDE DEF m
  <2>2. PICK f \in Frame : f = F("startK", t, NoMsg) /\ f.pc = "startK"
    BY FrameIn DEF FramePCs
  <2>3. PICK g \in Frame : g = F("wfm", t, m) /\ g.pc = "wfm" /\ g.task = t
    BY <2>1, FrameIn DEF FramePCs
  <2>4. /\ Len(stack') = n + 2 /\ stack'[n + 1] = f /\ stack'[n + 2] = g
        /\ \A i \in 1..n : stack'[i] = stack[i]
    <3>1. stack' = stack \o <<f, g>>
      BY <1>12, <2>2, <2>3 DEF m
    <3>2. /\ Len(stack') = Len(stack) + 2
          /\ \A i \in 1..Len(stack) : stack'[i] = stack[i]
          /\ stack'[Len(stack) + 1] = f /\ stack'[Len(stack) + 2] = g
      BY <1>0, <3>1, PushTwoFacts
    <3>. QED  BY <1>10, <3>2
  <2>5. Top' = g /\ stack' # <<>>
    <3>1. stack' # <<>>
      BY <1>10, <2>4
    <3>. QED  BY <1>0, <2>4, <3>1, TopNext
  <2>6. AwaitsStartup(t)'
    BY <2>3, <2>5 DEF AwaitsStartup
  <2>7. spc'[t] = "start" /\ tstate'[t] = "new" /\ ~HasSubport(t)'
    BY <1>0, <1>1, <1>12 DEF TypeOK, HasSubport
  <2>8. SubtaskInv(t)'
    BY <1>1, <1>7, <2>6, <2>7 DEF SubtaskInv
  <2>9. DisposeInv(t)'
    BY <1>1, <1>7, <1>8, <2>7 DEF DisposeInv
  <2>10. Kept /\ \A u \in Tasks : SubtaskInv(u)' /\ DisposeInv(u)'
    BY <1>5, <1>9, <2>8, <2>9 DEF Kept
  <2>11. \A i \in (n + 1)..Len(stack') : Harmless(i)'
    <3>. SUFFICES ASSUME NEW i \in (n + 1)..Len(stack') PROVE Harmless(i)'
      OBVIOUS
    <3>1. i = n + 1 \/ i = n + 2
      BY <2>4
    <3>2. stack'[i].pc \in {"startK", "wfm"}
      BY <2>2, <2>3, <2>4, <3>1
    <3>. QED  BY <3>2 DEF Harmless
  <2>12. n <= Len(stack')
    BY <2>4
  <2>13. \A i \in 1..Len(stack') : FrameInv(i)'
    BY <1>0, <1>10, <2>4, <2>10, <2>11, <2>12, FramesCall
  <2>. QED  BY <2>10, <2>13 DEF TaskInv
<1>. QED  BY <1>4, <1>11, <1>12

LEMMA DisposeKeeps ==
  ASSUME TaskInv, TypeOK', NEW t \in Tasks, Disposetask(t)
  PROVE  TaskInv'
<1>. USE DEF mainVars, flagVars, semaVars, subVars
<1>0. TypeOK /\ stack \in Seq(Frame) /\ stack' \in Seq(Frame) /\ Len(stack') \in Nat
  BY StackTypes
<1>1. /\ stack = <<>> \/ Top.pc = "upd"
      /\ UNCHANGED <<spc, tstate, runsema, subport, held, procured, taskport, semaport>>
      /\ disposing' = [disposing EXCEPT ![t] = TRUE]
      /\ mustdispose' = mustdispose \/ mustdispose' = [mustdispose EXCEPT ![t] = TRUE]
      /\ stack' = stack \/ stack' = Append(stack, F("dd", t, NoMsg))
  BY DEF Disposetask, Caller, AtTop
<1>2. disposing'[t] /\ \A u \in Tasks : disposing[u] => disposing'[u]
  BY <1>0, <1>1 DEF TypeOK
<1>3. \A u \in Tasks : spc[u] # "start"
  BY <1>1, NoneStarting
<1>4. \A u \in Quiet : u \in Quiet'
  BY <1>1 DEF Quiet, OfTask
<1>5. ASSUME NEW u \in Tasks PROVE SubtaskInv(u)' /\ DisposeInv(u)' /\ KeptOf(u)
  <2>1. InSemaport(u)' <=> InSemaport(u)
    BY <1>1 DEF InSemaport
  <2>2. u \in Quiet => u \in Quiet'
    BY <1>4
  <2>3. CASE u # t
    <3>1. mustdispose'[u] = mustdispose[u]
      BY <1>0, <1>1, <2>3 DEF TypeOK
    <3>. QED  BY <1>1, <1>2, <1>3, <2>1, <2>2, <3>1, TaskSame
  <2>4. CASE u = t
    <3>1. SubtaskInv(u) /\ DisposeInv(u)
      BY DEF TaskInv
    <3>2. u \in GoneTasks' <=> u \in GoneTasks
      BY <1>1 DEF GoneTasks, Gone
    <3>3. HasSubport(u)' <=> HasSubport(u)
      BY <1>1 DEF HasSubport
    <3>4. SubtaskInv(u)'
      BY <1>1, <1>3, <2>2, <3>1, <3>3 DEF SubtaskInv
    <3>5. DisposeInv(u)'
      BY <1>1, <1>2, <2>1, <2>2, <2>4, <3>1, <3>2 DEF DisposeInv
    <3>. QED  BY <1>2, <2>2, <3>2, <3>4, <3>5 DEF KeptOf
  <2>. QED  BY <2>3, <2>4
<1>6. Kept /\ \A u \in Tasks : SubtaskInv(u)' /\ DisposeInv(u)'
  BY <1>5 DEF Kept
<1>7. PICK n \in Nat : n = Len(stack)
  BY <1>0
<1>8. PICK f \in Frame : f = F("dd", t, NoMsg) /\ f.pc = "dd" /\ f.task = t
  BY FrameIn DEF FramePCs
<1>9. /\ n <= Len(stack') /\ \A i \in 1..n : stack'[i] = stack[i]
      /\ \A i \in (n + 1)..Len(stack') : stack'[i] = f
  <2>1. CASE stack' = stack
    BY <1>7, <2>1
  <2>2. CASE stack' = Append(stack, f)
    BY <1>0, <1>7, <2>2, PushFacts
  <2>. QED  BY <1>1, <1>8, <2>1, <2>2
<1>10. \A i \in (n + 1)..Len(stack') : Harmless(i)'
  BY <1>2, <1>8, <1>9 DEF Harmless
<1>11. \A i \in 1..Len(stack') : FrameInv(i)'
  BY <1>0, <1>6, <1>7, <1>9, <1>10, FramesCall
<1>. QED  BY <1>6, <1>11 DEF TaskInv

\* A call of the client that puts a message of t in the port of its subtask,
\* or none.
LEMMA PutKeeps ==
  ASSUME TaskInv, TypeOK', NEW t \in Tasks, stack = <<>> \/ Top.pc = "upd",
         UNCHANGED <<spc, runsema, tstate, held, disposing, mustdispose, procured,
                     taskport, semaport>>,
         NEW m \in Message, m.task = t,
         \/ subport' = subport
         \/ HasSubport(t) /\ subport' = [subport EXCEPT ![t] = Append(@, m)],
         NEW n \in Nat, n = Len(stack), n <= Len(stack'),
         \A i \in 1..n : stack'[i] = stack[i],
         \A i \in (n + 1)..Len(stack') : Harmless(i)'
  PROVE  TaskInv'
<1>0. TypeOK /\ Len(stack') \in Nat
  BY StackTypes
<1>1. \A u \in Tasks : spc[u] # "start"
  BY NoneStarting
<1>2. \A u \in Quiet : u \in Quiet'
  BY DEF Quiet, OfTask
<1>3. ASSUME NEW u \in Tasks PROVE SubtaskInv(u)' /\ DisposeInv(u)' /\ KeptOf(u)
  <2>1. InSemaport(u)' => InSemaport(u)
    BY DEF InSemaport
  <2>2. u \in Quiet => u \in Quiet'
    BY <1>2
  <2>3. CASE subport'[u] = subport[u]
    BY <1>1, <2>1, <2>2, <2>3, TaskSame
  <2>4. CASE u = t /\ HasSubport(t) /\ subport' = [subport EXCEPT ![t] = Append(@, m)]
    <3>1. SubtaskInv(t) /\ DisposeInv(t)
      BY DEF TaskInv
    <3>2. /\ subport[t] \in Seq(Message) /\ subport'[t] = Append(subport[t], m)
      BY <1>0, <2>4 DEF TypeOK
    <3>3. ASSUME NEW i \in 1..Len(subport'[t]) PROVE subport'[t][i].task = t
      <4>1. \A j \in 1..Len(subport[t]) : subport[t][j].task = t
        BY <3>1 DEF SubtaskInv
      <4>2. i \in 1..Len(subport[t]) \/ i = Len(subport[t]) + 1
        BY <3>2
      <4>3. \A j \in 1..Len(subport[t]) : subport'[t][j] = subport[t][j]
        BY <3>2
      <4>4. subport'[t][Len(subport[t]) + 1] = m
        BY <3>2
      <4>. QED  BY <4>1, <4>2, <4>3, <4>4
    <3>4. HasSubport(t)'
      BY <2>4 DEF HasSubport
    <3>5. spc[t] \in {"run", "suspended", "exit"}
      BY <2>4, <3>1 DEF SubtaskInv
    <3>6. SubtaskInv(t)'
      BY <1>1, <2>2, <2>4, <3>1, <3>3, <3>4, <3>5 DEF SubtaskInv
    <3>7. t \in GoneTasks' <=> t \in GoneTasks
      BY DEF GoneTasks, Gone
    <3>8. DisposeInv(t)' /\ KeptOf(t)
      BY <2>1, <2>2, <2>4, <3>1, <3>7 DEF DisposeInv, KeptOf
    <3>. QED  BY <2>4, <3>6, <3>8
  <2>5. CASE u # t
    <3>1. subport'[u] = subport[u]
      BY <1>0, <2>5 DEF TypeOK
    <3>. QED  BY <2>3, <3>1
  <2>. QED  BY <2>3, <2>4, <2>5
<1>4. Kept /\ \A u \in Tasks : SubtaskInv(u)' /\ DisposeInv(u)'
  BY <1>3 DEF Kept
<1>5. \A i \in 1..Len(stack') : FrameInv(i)'
  BY <1>0, <1>4, FramesCall
<1>. QED  BY <1>4, <1>5 DEF TaskInv

LEMMA PutCases ==
  ASSUME TaskInv, TypeOK', NEW t \in Tasks, NEW m \in Message, m.task = t, m.async \in BOOLEAN,
         NEW there \in BOOLEAN, there => HasSubport(t), Put(t, m, there),
         UNCHANGED <<disposing, mustdispose>>, NEW n \in Nat, n = Len(stack)
  PROVE  /\ \/ subport' = subport
            \/ HasSubport(t) /\ subport' = [subport EXCEPT ![t] = Append(@, m)]
         /\ n <= Len(stack')
         /\ \A i \in 1..n : stack'[i] = stack[i]
         /\ \A i \in (n + 1)..Len(stack') : Harmless(i)'
<1>0. TypeOK /\ stack \in Seq(Frame) /\ Len(stack') \in Nat
  BY StackTypes
<1>1. \/ subport' = subport
      \/ HasSubport(t) /\ subport' = [subport EXCEPT ![t] = Append(@, m)]
  BY DEF Put
<1>2. \/ stack' = stack
      \/ stack' = stack \o <<F("msgK", t, m), F("wfm", t, m)>>
      \/ stack' = DisposeIfMust(stack, t)
  BY DEF Put
<1>3. CASE stack' = stack
  BY <1>1, <1>3
<1>4. CASE stack' = stack \o <<F("msgK", t, m), F("wfm", t, m)>>
  <2>1. PICK f \in Frame : f = F("msgK", t, m) /\ f.pc = "msgK"
    BY FrameIn DEF FramePCs
  <2>2. PICK g \in Frame : g = F("wfm", t, m) /\ g.pc = "wfm"
    BY FrameIn DEF FramePCs
  <2>3. stack' = stack \o <<f, g>>
    BY <1>4, <2>1, <2>2
  <2>4. /\ Len(stack') = n + 2 /\ stack'[n + 1] = f /\ stack'[n + 2] = g
        /\ \A i \in 1..n : stack'[i] = stack[i]
    BY <1>0, <2>3, PushTwoFacts
  <2>5. \A i \in (n + 1)..Len(stack') : i = n + 1 \/ i = n + 2
    BY <2>4
  <2>6. \A i \in (n + 1)..Len(stack') : stack'[i].pc \in {"msgK", "wfm"}
    BY <2>1, <2>2, <2>4, <2>5
  <2>7. \A i \in (n + 1)..Len(stack') : Harmless(i)'
    BY <2>6 DEF Harmless
  <2>. QED  BY <1>1, <2>4, <2>7
<1>5. CASE stack' = DisposeIfMust(stack, t)
  <2>1. /\ n <= Len(stack')
        /\ \A i \in 1..n : stack'[i] = stack[i]
        /\ \A i \in (n + 1)..Len(stack') : stack'[i].pc = "dd" /\ disposing[stack'[i].task]
    BY <1>0, <1>5, DisposeShape
  <2>2. \A i \in (n + 1)..Len(stack') : Harmless(i)'
    BY <2>1 DEF Harmless
  <2>. QED  BY <1>1, <2>1, <2>2
<1>. QED  BY <1>2, <1>3, <1>4, <1>5

LEMMA ClientKeeps ==
  ASSUME TaskInv, Client
  PROVE  TaskInv'
<1>. USE DEF mainVars, flagVars, semaVars, subVars
<1>1. TypeOK'
  BY ClientSteps DEF TaskInv
<1>2. TypeOK /\ stack \in Seq(Frame) /\ Len(stack) \in Nat /\ Len(stack') \in Nat
  BY <1>1, StackTypes
<1>3. PICK n \in Nat : n = Len(stack)
  BY <1>2
<1>4. ASSUME NEW t \in Tasks, Starttask(t) \/ Disposetask(t) PROVE TaskInv'
  BY <1>1, <1>4, StartKeeps, DisposeKeeps
<1>5. ASSUME NEW t \in Tasks, Stopasync(t) \/ Asetattrsasync(t) PROVE TaskInv'
  <2>0. PICK async \in BOOLEAN, id \in Nat : async = FALSE /\ id = 0
    OBVIOUS
  <2>1. PICK m \in Message : m = Msg("set", t, async, id) /\ m.task = t
    BY MsgIn DEF MsgTypes
  <2>2. /\ stack = <<>> \/ Top.pc = "upd"
        /\ UNCHANGED <<spc, runsema, tstate, held, disposing, mustdispose, procured,
                       taskport, semaport, stack>>
    BY <1>5 DEF Stopasync, Asetattrsasync, Caller, AtTop
  <2>3. \/ subport' = subport
        \/ HasSubport(t) /\ subport' = [subport EXCEPT ![t] = Append(@, m)]
    BY <1>5, <2>0, <2>1 DEF Stopasync, Asetattrsasync
  <2>4. /\ n <= Len(stack') /\ \A i \in 1..n : stack'[i] = stack[i]
        /\ \A i \in (n + 1)..Len(stack') : Harmless(i)'
    BY <1>3, <2>2
  <2>. QED  BY <1>1, <1>3, <2>1, <2>2, <2>3, <2>4, PutKeeps
<1>6. ASSUME NEW t \in Tasks, NEW async \in BOOLEAN, Messagetask(t, async) PROVE TaskInv'
  <2>1. PICK id \in Nat : id = IF async THEN 0 ELSE Len(stack) + 1
    BY <1>2
  <2>2. PICK m \in Message : m = Msg("msg", t, async, id) /\ m.task = t /\ m.async \in BOOLEAN
    BY MsgIn DEF MsgTypes
  <2>3. /\ stack = <<>> \/ Top.pc = "upd"
        /\ UNCHANGED <<spc, runsema, tstate, held, disposing, mustdispose, procured,
                       taskport, semaport>>
        /\ Put(t, m, HasSubport(t))
    BY <1>6, <2>1, <2>2 DEF Messagetask, Caller, AtTop
  <2>4. HasSubport(t) \in BOOLEAN
    BY DEF HasSubport
  <2>5. /\ \/ subport' = subport
           \/ HasSubport(t) /\ subport' = [subport EXCEPT ![t] = Append(@, m)]
        /\ n <= Len(stack') /\ \A i \in 1..n : stack'[i] = stack[i]
        /\ \A i \in (n + 1)..Len(stack') : Harmless(i)'
    BY <1>1, <1>3, <2>2, <2>3, <2>4, PutCases
  <2>. QED  BY <1>1, <1>3, <2>2, <2>3, <2>5, PutKeeps
<1>7. ASSUME NEW t \in Tasks, NEW async \in BOOLEAN, NEW data \in BOOLEAN,
             Setsuspend(t, data, async)
      PROVE  TaskInv'
  <2>1. PICK id \in Nat : id = IF async THEN 0 ELSE Len(stack) + 1
    BY <1>2
  <2>2. PICK m \in Message : m = Msg("suspend", t, async, id) /\ m.task = t /\ m.async \in BOOLEAN
    BY MsgIn DEF MsgTypes
  <2>3. /\ stack = <<>> \/ Top.pc = "upd"
        /\ UNCHANGED <<spc, runsema, tstate, held, disposing, mustdispose, procured,
                       taskport, semaport>>
    BY <1>7 DEF Setsuspend, Caller, AtTop
  <2>4. Put(t, m, tstate[t] = "run") \/ UNCHANGED <<stack, subport>>
    BY <1>7, <2>1, <2>2 DEF Setsuspend
  <2>5. CASE Put(t, m, tstate[t] = "run")
    BY <1>1, <1>3, <2>2, <2>3, <2>5, PutCases, PutKeeps DEF HasSubport
  <2>6. CASE UNCHANGED <<stack, subport>>
    BY <1>1, <1>2, <1>3, <2>2, <2>3, <2>6, PutKeeps
  <2>. QED  BY <2>4, <2>5, <2>6
<1>. QED  BY <1>4, <1>5, <1>6, <1>7 DEF Client

-----------------------------------------------------------------------------
(* The steps of a subtask. *)

\* A step of the subtask of t, which is not gone, leaves the other task
\* objects and main alone.
LEMMA SubtaskKeeps ==
  ASSUME TaskInv, TypeOK', NEW t \in Tasks, spc[t] # "none", t \notin GoneTasks,
         UNCHANGED <<stack, disposing, mustdispose>>,
         \A u \in Tasks : u # t =>
            /\ spc'[u] = spc[u] /\ runsema'[u] = runsema[u] /\ tstate'[u] = tstate[u]
            /\ subport'[u] = subport[u] /\ held'[u] = held[u] /\ procured'[u] = procured[u]
            /\ InSemaport(u)' => InSemaport(u)
            /\ u \in Quiet => u \in Quiet',
         SubtaskInv(t)', DisposeInv(t)'
  PROVE  TaskInv'
<1>0. TypeOK /\ stack \in Seq(Frame) /\ Len(stack') \in Nat
  BY StackTypes
<1>1. ASSUME NEW u \in Tasks, u # t PROVE SubtaskInv(u)' /\ DisposeInv(u)' /\ KeptOf(u)
  <2>1. spc[u] = "start" => AwaitsStartup(u)'
    BY DEF TaskInv, SubtaskInv, AwaitsStartup, Top
  <2>. QED  BY <1>1, <2>1, TaskSame
<1>2. KeptOf(t)
  BY DEF KeptOf
<1>3. Kept /\ \A u \in Tasks : SubtaskInv(u)' /\ DisposeInv(u)'
  BY <1>1, <1>2 DEF Kept
<1>4. PICK n \in Nat : n = Len(stack)
  BY <1>0
<1>5. \A i \in 1..Len(stack') : FrameInv(i)'
  BY <1>0, <1>3, <1>4, FramesCall
<1>. QED  BY <1>3, <1>5 DEF TaskInv

\* What the steps of the subtask of t, which is not gone, have in common: they
\* change what is its own, and send messages of its own.
OwnStep(t, ms) ==
  /\ UNCHANGED <<stack, disposing, mustdispose, procured, semaport>>
  /\ \E v : spc' = [spc EXCEPT ![t] = v]
  /\ \E v : tstate' = [tstate EXCEPT ![t] = v]
  /\ \E v : subport' = [subport EXCEPT ![t] = v]
  /\ \E v : held' = [held EXCEPT ![t] = v]
  /\ \E v : runsema' = [runsema EXCEPT ![t] = v]
  /\ taskport' = taskport \/ ToMain(ms)

LEMMA OwnKeeps ==
  ASSUME TaskInv, TypeOK', NEW t \in Tasks, NEW ms \in Seq(Message),
         \A i \in 1..Len(ms) : ms[i].task = t, OwnStep(t, ms),
         spc[t] # "none", t \notin GoneTasks, tstate'[t] # "freed", SubtaskInv(t)'
  PROVE  TaskInv'
<1>0. TypeOK
  BY StackTypes
<1>1. ASSUME NEW u \in Tasks, u # t
      PROVE  /\ spc'[u] = spc[u] /\ runsema'[u] = runsema[u] /\ tstate'[u] = tstate[u]
             /\ subport'[u] = subport[u] /\ held'[u] = held[u]
  BY <1>0, <1>1 DEF TypeOK, OwnStep
<1>2. \A u \in Tasks : procured'[u] = procured[u] /\ (InSemaport(u)' => InSemaport(u))
  BY DEF OwnStep, InSemaport
<1>3. ASSUME NEW u \in Tasks, u # t, u \in Quiet PROVE u \in Quiet'
  <2>1. CASE taskport' = taskport
    BY <1>3, <2>1 DEF Quiet, OfTask
  <2>2. CASE ToMain(ms)
    BY <1>0, <1>3, <2>2, QuietPut
  <2>. QED  BY <2>1, <2>2 DEF OwnStep
<1>4. DisposeInv(t)'
  <2>1. DisposeInv(t)
    BY DEF TaskInv
  <2>2. ~InSemaport(t)'
    BY <1>2, <2>1 DEF DisposeInv
  <2>. QED  BY <1>2, <2>1, <2>2 DEF DisposeInv, OwnStep
<1>5. UNCHANGED <<stack, disposing, mustdispose>>
  BY DEF OwnStep
<1>. QED  BY <1>1, <1>2, <1>3, <1>4, <1>5, SubtaskKeeps

LEMMA SubtaskFacts ==
  ASSUME TaskInv, NEW t \in Tasks
  PROVE  /\ SubtaskInv(t) /\ DisposeInv(t)
         /\ spc[t] \in {"none", "start", "run", "suspended", "exit", "ended", "failed"}
         /\ runsema[t] = "sub" \/ spc[t] \in {"start", "run", "suspended", "exit"} =>
               t \notin GoneTasks /\ tstate[t] # "freed"
         /\ subport[t] \in Seq(Message) /\ Len(subport[t]) \in Nat
<1>1. SubtaskInv(t) /\ DisposeInv(t)
  BY DEF TaskInv
<1>2. spc[t] \in {"none", "start", "run", "suspended", "exit", "ended", "failed"}
      /\ subport[t] \in Seq(Message)
  BY DEF TaskInv, TypeOK
<1>3. runsema[t] = "sub" \/ spc[t] \in {"start", "run", "suspended", "exit"} => t \notin GoneTasks
  BY DEF GoneTasks, Gone
<1>4. t \notin GoneTasks => tstate[t] # "freed"
  BY <1>1 DEF DisposeInv
<1>. QED  BY <1>1, <1>2, <1>3, <1>4

LEMMA OneMessage ==
  ASSUME NEW m \in Message, NEW t, m.task = t
  PROVE  \E ms \in Seq(Message) : ms = <<m>> /\ \A i \in 1..Len(ms) : ms[i].task = t
<1>1. PICK ms : ms = <<m>>
  OBVIOUS
<1>2. ms \in Seq(Message) /\ Len(ms) = 1 /\ ms[1] = m
  BY <1>1
<1>3. \A i \in 1..Len(ms) : ms[i].task = t
  BY <1>2
<1>. QED  BY <1>1, <1>2, <1>3

LEMMA StartsKeeps ==
  ASSUME TaskInv, TypeOK', NEW t \in Tasks, SubtaskStarts(t)
  PROVE  TaskInv'
<1>. USE DEF mainVars, flagVars, semaVars, subVars
<1>0. TypeOK /\ SubtaskInv(t) /\ t \notin GoneTasks /\ spc[t] = "start"
  BY SubtaskFacts, StackTypes DEF SubtaskStarts
<1>1. PICK async \in BOOLEAN, id \in Nat : async = FALSE /\ id = 0
  OBVIOUS
<1>2. PICK m \in Message : m = Msg("startup", t, async, id) /\ m.task = t
  BY MsgIn DEF MsgTypes
<1>3. PICK ms \in Seq(Message) : ms = <<m>> /\ \A i \in 1..Len(ms) : ms[i].task = t
  BY <1>2, OneMessage
<1>4. /\ runsema' = [runsema EXCEPT ![t] = "sub"] /\ ToMain(ms)
      /\ \/ tstate' = [tstate EXCEPT ![t] = "dead"] /\ spc' = [spc EXCEPT ![t] = "failed"]
         \/ tstate' = [tstate EXCEPT ![t] = "run"] /\ spc' = [spc EXCEPT ![t] = "run"]
      /\ UNCHANGED <<stack, subport, disposing, mustdispose, held, procured, semaport>>
  BY <1>1, <1>2, <1>3 DEF SubtaskStarts
<1>5. /\ runsema'[t] = "sub"
      /\ \/ tstate'[t] = "dead" /\ spc'[t] = "failed"
         \/ tstate'[t] = "run" /\ spc'[t] = "run"
  BY <1>0, <1>4 DEF TypeOK
<1>6. SubtaskInv(t)'
  <2>1. subport[t] = <<>> /\ held[t] = NoMsg
    BY <1>0 DEF SubtaskInv
  <2>. QED  BY <1>4, <1>5, <2>1 DEF SubtaskInv, HasSubport
<1>7. OwnStep(t, ms)
  <2>1. subport' = [subport EXCEPT ![t] = subport[t]] /\ held' = [held EXCEPT ![t] = held[t]]
    BY <1>0, <1>4 DEF TypeOK
  <2>. QED  BY <1>4, <2>1 DEF OwnStep
<1>. QED  BY <1>0, <1>3, <1>5, <1>6, <1>7, OwnKeeps

\* A subtask that has begun, and has not left its entry.
LEMMA WorkKeeps ==
  ASSUME TaskInv, TypeOK', NEW t \in Tasks,
         \/ \E async \in BOOLEAN : Updatetaskattrs(t, async)
         \/ Replytaskmsg(t) \/ SubtaskStops(t) \/ SubtaskDone(t)
  PROVE  TaskInv'
<1>. USE DEF mainVars, flagVars, semaVars, subVars
<1>0. TypeOK /\ SubtaskInv(t) /\ t \notin GoneTasks /\ spc[t] \in {"run", "suspended", "exit"}
      /\ tstate[t] # "freed"
  BY SubtaskFacts, StackTypes DEF Updatetaskattrs, Running, Replytaskmsg, SubtaskStops, SubtaskDone
<1>1. /\ UNCHANGED <<stack, disposing, mustdispose, procured, semaport, tstate, subport, runsema>>
      /\ \/ spc' = spc
         \/ spc' = [spc EXCEPT ![t] = "exit"]
      /\ held' = held \/ held' = [held EXCEPT ![t] = NoMsg]
      /\ spc' = spc \/ held[t] = NoMsg
  BY DEF Updatetaskattrs, Replytaskmsg, SubtaskStops, SubtaskDone
<1>2. \/ UNCHANGED taskport
      \/ \E m \in Message : m.task = t /\ ToMain(<<m>>)
  <2>1. ASSUME NEW async \in BOOLEAN, Updatetaskattrs(t, async)
        PROVE  \E m \in Message : m.task = t /\ ToMain(<<m>>)
    <3>1. PICK id \in Nat : id = 0
      OBVIOUS
    <3>2. Msg("update", t, async, id) \in Message /\ Msg("update", t, async, id).task = t
      BY MsgIn DEF MsgTypes
    <3>3. ToMain(<<Msg("update", t, async, id)>>)
      BY <2>1, <3>1 DEF Updatetaskattrs
    <3>. QED  BY <3>2, <3>3
  <2>2. ASSUME Replytaskmsg(t) PROVE held[t] \in Message /\ held[t].task = t /\ ToMain(<<held[t]>>)
    BY <1>0, <2>2 DEF Replytaskmsg, TypeOK, SubtaskInv
  <2>3. ASSUME SubtaskStops(t) \/ SubtaskDone(t) PROVE UNCHANGED taskport
    BY <2>3 DEF SubtaskStops, SubtaskDone
  <2>. QED  BY <2>1, <2>2, <2>3
<1>3. PICK ms \in Seq(Message) :
        (\A i \in 1..Len(ms) : ms[i].task = t) /\ (taskport' = taskport \/ ToMain(ms))
  <2>1. CASE UNCHANGED taskport
    <3>1. <<>> \in Seq(Message) /\ \A i \in 1..Len(<<>>) : <<>>[i].task = t
      OBVIOUS
    <3>. QED  BY <2>1, <3>1
  <2>2. CASE \E m \in Message : m.task = t /\ ToMain(<<m>>)
    BY <2>2, OneMessage
  <2>. QED  BY <1>2, <2>1, <2>2
<1>4. SubtaskInv(t)'
  <2>1. spc'[t] \in {"run", "suspended", "exit"} /\ (spc'[t] = spc[t] \/ held[t] = NoMsg)
        /\ (held'[t] = held[t] \/ held'[t] = NoMsg)
    BY <1>0, <1>1 DEF TypeOK
  <2>2. runsema'[t] = "sub" /\ subport' = subport /\ tstate' = tstate
        /\ (HasSubport(t)' <=> HasSubport(t))
    BY <1>0, <1>1 DEF SubtaskInv, HasSubport
  <2>3. held'[t] # NoMsg => spc'[t] = "run" /\ held'[t].task = t
    BY <1>0, <2>1 DEF SubtaskInv
  <2>. QED  BY <1>0, <2>1, <2>2, <2>3 DEF SubtaskInv
<1>5. OwnStep(t, ms)
  <2>1. /\ tstate' = [tstate EXCEPT ![t] = tstate[t]]
        /\ subport' = [subport EXCEPT ![t] = subport[t]]
        /\ runsema' = [runsema EXCEPT ![t] = runsema[t]]
    BY <1>0, <1>1 DEF TypeOK
  <2>2. \E v : spc' = [spc EXCEPT ![t] = v]
    <3>1. spc = [spc EXCEPT ![t] = spc[t]]
      BY <1>0 DEF TypeOK
    <3>. QED  BY <1>1, <3>1
  <2>3. \E v : held' = [held EXCEPT ![t] = v]
    <3>1. held = [held EXCEPT ![t] = held[t]]
      BY <1>0 DEF TypeOK
    <3>. QED  BY <1>1, <3>1
  <2>. QED  BY <1>1, <1>3, <2>1, <2>2, <2>3 DEF OwnStep
<1>6. tstate'[t] # "freed" /\ spc[t] # "none"
  BY <1>0, <1>1
<1>. QED  BY <1>0, <1>3, <1>4, <1>5, <1>6, OwnKeeps

\* Gettaskmsg(), running or suspended.
LEMMA GetKeeps ==
  ASSUME TaskInv, TypeOK', NEW t \in Tasks, Gettaskmsg(t) \/ GettaskmsgSuspended(t)
  PROVE  TaskInv'
<1>. USE DEF mainVars, flagVars, semaVars, subVars
<1>0. /\ TypeOK /\ SubtaskInv(t) /\ t \notin GoneTasks /\ spc[t] \in {"run", "suspended"}
      /\ tstate[t] # "freed" /\ subport[t] \in Seq(Message) /\ Len(subport[t]) \in Nat
  BY SubtaskFacts, StackTypes DEF Gettaskmsg, GettaskmsgSuspended
<1>1. held[t] = NoMsg
  BY <1>0 DEF Gettaskmsg, GettaskmsgSuspended, SubtaskInv
<1>2. UNCHANGED <<stack, disposing, mustdispose, procured, semaport, runsema>>
  BY DEF Gettaskmsg, GettaskmsgSuspended
<1>3. runsema[t] = "sub" /\ \A i \in 1..Len(subport[t]) : subport[t][i].task = t
  BY <1>0 DEF SubtaskInv
<1>4. runsema = [runsema EXCEPT ![t] = runsema[t]] /\ held = [held EXCEPT ![t] = held[t]]
      /\ spc = [spc EXCEPT ![t] = spc[t]] /\ tstate = [tstate EXCEPT ![t] = tstate[t]]
  BY <1>0 DEF TypeOK
<1>5. CASE /\ spc[t] = "run" /\ subport[t] # <<>>
           /\ held' = [held EXCEPT ![t] = Head(subport[t])]
           /\ subport' = [subport EXCEPT ![t] = Tail(@)]
           /\ UNCHANGED <<taskport, tstate, spc>>
  <2>1. /\ held'[t] = Head(subport[t]) /\ subport'[t] = Tail(subport[t])
    BY <1>0, <1>5 DEF TypeOK
  <2>2. Head(subport[t]).task = t
    BY <1>0, <1>3, <1>5
  <2>3. ASSUME NEW i \in 1..Len(subport'[t]) PROVE subport'[t][i].task = t
    <3>1. i + 1 \in 1..Len(subport[t]) /\ subport'[t][i] = subport[t][i + 1]
      <4>1. PICK q \in Seq(Message) : q = subport[t] /\ q # <<>> /\ subport'[t] = Tail(q)
        BY <1>0, <1>5, <2>1
      <4>2. Len(q) \in Nat /\ Len(Tail(q)) = Len(q) - 1
            /\ \A j \in 1..(Len(q) - 1) : Tail(q)[j] = q[j + 1]
        BY <4>1
      <4>3. i \in 1..(Len(q) - 1)
        BY <4>1, <4>2
      <4>. QED  BY <4>1, <4>2, <4>3
    <3>. QED  BY <1>3, <3>1
  <2>4. HasSubport(t)' <=> HasSubport(t)
    BY <1>5 DEF HasSubport
  <2>5. SubtaskInv(t)'
    BY <1>0, <1>2, <1>3, <1>5, <2>1, <2>2, <2>3, <2>4 DEF SubtaskInv
  <2>6. PICK ms \in Seq(Message) : \A i \in 1..Len(ms) : ms[i].task = t
    <3>1. <<>> \in Seq(Message) /\ \A i \in 1..Len(<<>>) : <<>>[i].task = t
      OBVIOUS
    <3>. QED  BY <3>1
  <2>7. OwnStep(t, ms)
    BY <1>2, <1>4, <1>5 DEF OwnStep
  <2>. QED  BY <1>0, <1>5, <2>5, <2>6, <2>7, OwnKeeps
<1>6. ASSUME NEW i \in 1..Len(subport[t]), ToMain(<<subport[t][i]>>),
             subport' = [subport EXCEPT ![t] = RemoveAt(@, i)],
             NEW a \in {"run", "suspend"}, tstate' = [tstate EXCEPT ![t] = a],
             NEW b \in {"run", "suspended"}, spc' = [spc EXCEPT ![t] = b],
             held' = held
      PROVE  TaskInv'
  <2>1. tstate'[t] = a /\ spc'[t] = b /\ subport'[t] = RemoveAt(subport[t], i)
    BY <1>0, <1>6 DEF TypeOK
  <2>2. ASSUME NEW j \in 1..Len(subport'[t]) PROVE subport'[t][j].task = t
    <3>1. PICK k \in 1..Len(subport[t]) : subport'[t][j] = subport[t][k]
      BY <1>0, <2>1, RemoveAtElements
    <3>. QED  BY <1>3, <3>1
  <2>3. SubtaskInv(t)'
    BY <1>1, <1>2, <1>3, <1>6, <2>1, <2>2 DEF SubtaskInv, HasSubport
  <2>4. subport[t][i] \in Message /\ subport[t][i].task = t
    BY <1>0, <1>3
  <2>5. PICK ms \in Seq(Message) : ms = <<subport[t][i]>> /\ \A j \in 1..Len(ms) : ms[j].task = t
    BY <2>4, OneMessage
  <2>6. OwnStep(t, ms)
    BY <1>2, <1>4, <1>6, <2>5 DEF OwnStep
  <2>. QED  BY <1>0, <2>1, <2>3, <2>5, <2>6, OwnKeeps
<1>7. ASSUME Gettaskmsg(t), ~(Special(t) = {} /\ subport' = [subport EXCEPT ![t] = Tail(@)])
      PROVE  TaskInv'
  <2>1. PICK i \in First(Special(t)) :
           /\ ToMain(<<subport[t][i]>>)
           /\ subport' = [subport EXCEPT ![t] = RemoveAt(@, i)]
           /\ tstate' = [tstate EXCEPT ![t] =
                           IF subport[t][i].type = "suspend" THEN "suspend" ELSE "run"]
           /\ spc' = [spc EXCEPT ![t] =
                        IF subport[t][i].type = "suspend" THEN "suspended" ELSE "run"]
           /\ held' = held
    BY <1>7 DEF Gettaskmsg
  <2>2. i \in 1..Len(subport[t])
    BY DEF First, Special
  <2>. QED  BY <1>6, <2>1, <2>2
<1>8. ASSUME GettaskmsgSuspended(t) PROVE TaskInv'
  <2>1. PICK i \in First(Urgent(t)) :
           /\ ToMain(<<subport[t][i]>>)
           /\ subport' = [subport EXCEPT ![t] = RemoveAt(@, i)]
           /\ tstate' = [tstate EXCEPT ![t] =
                           IF subport[t][i].type = "release" THEN "run" ELSE "suspend"]
           /\ spc' = [spc EXCEPT ![t] =
                        IF subport[t][i].type = "release" THEN "run" ELSE "suspended"]
           /\ held' = held
    BY <1>8 DEF GettaskmsgSuspended
  <2>2. i \in 1..Len(subport[t])
    BY DEF First, Urgent, Special
  <2>. QED  BY <1>6, <2>1, <2>2
<1>9. ASSUME Gettaskmsg(t), Special(t) = {} /\ subport' = [subport EXCEPT ![t] = Tail(@)]
      PROVE  TaskInv'
  <2>1. First(Special(t)) = {}
    BY <1>9 DEF First
  <2>. QED  BY <1>5, <1>9, <2>1 DEF Gettaskmsg
<1>. QED  BY <1>7, <1>8, <1>9

LEMMA EndsKeeps ==
  ASSUME TaskInv, TypeOK', NEW t \in Tasks, SubtaskEnds(t)
  PROVE  TaskInv'
<1>. USE DEF mainVars, flagVars, semaVars, subVars
<1>0. /\ TypeOK /\ SubtaskInv(t) /\ t \notin GoneTasks /\ spc[t] = "exit"
      /\ subport[t] \in Seq(Message)
  BY SubtaskFacts, StackTypes DEF SubtaskEnds
<1>1. /\ ToMain(subport[t])
      /\ subport' = [subport EXCEPT ![t] = <<>>]
      /\ tstate' = [tstate EXCEPT ![t] = "dead"]
      /\ spc' = [spc EXCEPT ![t] = "ended"]
      /\ UNCHANGED <<stack, disposing, mustdispose, procured, semaport, runsema, held>>
  BY DEF SubtaskEnds
<1>2. subport'[t] = <<>> /\ tstate'[t] = "dead" /\ spc'[t] = "ended"
  BY <1>0, <1>1 DEF TypeOK
<1>3. held[t] = NoMsg /\ \A i \in 1..Len(subport[t]) : subport[t][i].task = t
  BY <1>0 DEF SubtaskInv
<1>4. SubtaskInv(t)'
  BY <1>1, <1>2, <1>3 DEF SubtaskInv, HasSubport
<1>5. OwnStep(t, subport[t])
  <2>1. runsema = [runsema EXCEPT ![t] = runsema[t]] /\ held = [held EXCEPT ![t] = held[t]]
    BY <1>0 DEF TypeOK
  <2>. QED  BY <1>1, <2>1 DEF OwnStep
<1>. QED  BY <1>0, <1>2, <1>3, <1>4, <1>5, OwnKeeps

LEMMA ReleasesKeeps ==
  ASSUME TaskInv, TypeOK', NEW t \in Tasks, SubtaskReleases(t)
  PROVE  TaskInv'
<1>. USE DEF mainVars, flagVars, semaVars, subVars
<1>0. /\ TypeOK /\ SubtaskInv(t) /\ DisposeInv(t) /\ t \notin GoneTasks
      /\ tstate[t] # "freed" /\ semaport \in Seq(Tasks) /\ spc[t] \in {"ended", "failed"}
  BY SubtaskFacts, StackTypes DEF SubtaskReleases, TypeOK
<1>1. /\ UNCHANGED <<stack, disposing, mustdispose, taskport, subport, tstate, spc, held>>
      /\ \/ /\ procured[t] /\ runsema' = [runsema EXCEPT ![t] = "main"]
            /\ procured' = [procured EXCEPT ![t] = FALSE]
            /\ semaport' = Append(semaport, t)
         \/ /\ runsema' = [runsema EXCEPT ![t] = "free"]
            /\ procured' = procured /\ semaport' = semaport
  BY DEF SubtaskReleases
<1>2. runsema'[t] # "sub" /\ t \in GoneTasks'
  BY <1>0, <1>1 DEF TypeOK, GoneTasks, Gone
<1>3. SubtaskInv(t)'
  <2>1. t \in Quiet' <=> t \in Quiet
    BY <1>1 DEF Quiet, OfTask
  <2>2. HasSubport(t)' <=> HasSubport(t)
    BY <1>1 DEF HasSubport
  <2>. QED  BY <1>0, <1>1, <2>1, <2>2 DEF SubtaskInv
<1>4. DisposeInv(t)'
  <2>1. ~InSemaport(t)
    BY <1>0 DEF DisposeInv
  <2>2. InSemaport(t)' => procured[t]
    <3>1. CASE semaport' = semaport
      BY <2>1, <3>1 DEF InSemaport
    <3>. QED  BY <1>1, <3>1
  <2>3. procured'[t] => procured[t]
    BY <1>0, <1>1 DEF TypeOK
  <2>. QED  BY <1>0, <1>1, <1>2, <2>2, <2>3 DEF DisposeInv
<1>5. ASSUME NEW u \in Tasks, u # t
      PROVE  /\ spc'[u] = spc[u] /\ runsema'[u] = runsema[u] /\ tstate'[u] = tstate[u]
             /\ subport'[u] = subport[u] /\ held'[u] = held[u] /\ procured'[u] = procured[u]
             /\ InSemaport(u)' => InSemaport(u)
             /\ u \in Quiet => u \in Quiet'
  <2>1. runsema'[u] = runsema[u] /\ procured'[u] = procured[u]
    BY <1>0, <1>1, <1>5 DEF TypeOK
  <2>2. InSemaport(u)' => InSemaport(u)
    <3>1. CASE semaport' = semaport
      BY <3>1 DEF InSemaport
    <3>2. CASE semaport' = Append(semaport, t)
      BY <1>0, <1>5, <3>2, PushFacts DEF InSemaport
    <3>. QED  BY <1>1, <3>1, <3>2
  <2>3. u \in Quiet => u \in Quiet'
    BY <1>1 DEF Quiet, OfTask
  <2>. QED  BY <1>1, <2>1, <2>2, <2>3
<1>6. spc[t] # "none" /\ UNCHANGED <<stack, disposing, mustdispose>>
  BY <1>0, <1>1
<1>. QED  BY <1>0, <1>3, <1>4, <1>5, <1>6, SubtaskKeeps

-----------------------------------------------------------------------------
(* The theorems. *)

LEMMA TaskInit ==
  ASSUME Init
  PROVE  TaskInv
<1>1. TypeOK
  BY TypeInit
<1>2. /\ stack = <<>> /\ taskport = <<>> /\ semaport = <<>>
      /\ \A t \in Tasks : /\ spc[t] = "none" /\ tstate[t] = "new" /\ subport[t] = <<>>
                          /\ held[t] = NoMsg /\ ~mustdispose[t] /\ ~procured[t]
  BY DEF Init
<1>3. \A t \in Tasks : t \in Quiet /\ ~InSemaport(t)
  BY <1>2 DEF Quiet, OfTask, InSemaport
<1>4. \A t \in Tasks : SubtaskInv(t) /\ DisposeInv(t)
  BY <1>2, <1>3 DEF SubtaskInv, DisposeInv, HasSubport
<1>5. \A i \in 1..Len(stack) : FrameInv(i)
  BY <1>2
<1>. QED  BY <1>1, <1>4, <1>5 DEF TaskInv

LEMMA TaskNext ==
  ASSUME TaskInv, [Next]_vars
  PROVE  TaskInv'
<1>1. TypeOK'
  BY TypeNext DEF TaskInv
<1>2. CASE MainStep
  BY <1>2, MainKeeps
<1>3. CASE Client
  BY <1>3, ClientKeeps
<1>4. ASSUME NEW t \in Tasks, SubtaskStep(t) \/ SubtaskWork(t) PROVE TaskInv'
  BY <1>1, <1>4, StartsKeeps, WorkKeeps, GetKeeps, EndsKeeps, ReleasesKeeps
  DEF SubtaskStep, SubtaskWork
<1>5. CASE UNCHANGED vars
  <2>1. /\ UNCHANGED <<stack, disposing, mustdispose, procured, semaport, taskport>>
        /\ UNCHANGED <<spc, runsema, tstate, subport, held>>
    BY <1>5 DEF vars, mainVars, flagVars, semaVars, subVars
  <2>2. Kept /\ \A t \in Tasks : SubtaskInv(t)' /\ DisposeInv(t)'
    <3>1. \A t \in Tasks : spc[t] = "start" => AwaitsStartup(t)'
      BY <2>1 DEF TaskInv, SubtaskInv, AwaitsStartup, Top
    <3>2. \A t \in Quiet : t \in Quiet'
      BY <2>1 DEF Quiet, OfTask
    <3>. QED  BY <1>1, <2>1, <3>1, <3>2, TasksSame
  <2>3. PICK n \in Nat : n = Len(stack)
    BY <1>1, StackTypes
  <2>4. \A i \in 1..Len(stack') : FrameInv(i)'
    BY <1>1, <2>1, <2>2, <2>3, FramesCall
  <2>. QED  BY <1>1, <2>2, <2>4 DEF TaskInv
<1>. QED  BY <1>2, <1>3, <1>4, <1>5 DEF Next

\* The invariant of the disposal holds in every reachable state.
THEOREM DisposeInvariant == Spec => []TaskInv
<1>. QED  BY TaskInit, TaskNext, PTL DEF Spec

\* A task object is freed by Dodisposetask() only when its subtask has left
\* the wrapper Subtask(), and no port holds a message that points to it.
THEOREM FreedStaysQuiet == Spec => []FreedIsQuiet
<1>1. ASSUME TaskInv PROVE FreedIsQuiet
  <2>. SUFFICES ASSUME NEW t \in Tasks, tstate[t] = "freed"
                PROVE  /\ Gone(t)
                       /\ OfTask(t) = {} /\ subport[t] = <<>> /\ held[t] = NoMsg
    BY DEF FreedIsQuiet
  <2>1. SubtaskInv(t) /\ t \in GoneTasks /\ t \in Quiet
    BY <1>1 DEF TaskInv, DisposeInv
  <2>2. Gone(t) /\ OfTask(t) = {}
    BY <2>1 DEF GoneTasks, Quiet
  <2>. QED  BY <2>1, <2>2 DEF SubtaskInv, Gone
<1>. QED  BY <1>1, DisposeInvariant, PTL

-----------------------------------------------------------------------------
(***************************************************************************)
(* The calls of main on the task objects of module Task.  Four inductive   *)
(* invariants, each proved with the ones before it:                        *)
(*   TaskInv (module Task_proofs)  what is left of an object that goes;    *)
(*   AnswerInv  where the synchronous update of a subtask that waits is;   *)
(*   CallsInv   which calls of main can be inside which, and what each of  *)
(*              them relies on while main is deeper in.                    *)
(*   StopInv    where the answer to a request for runsema is, and what     *)
(*              main knows of the port when it waits.                      *)
(* AnswerInv holds whatever the clients of the task objects do.  CallsInv  *)
(* needs the rules that CarefulClients states, and StopInv that no target  *)
(* disposes of the task object of another.                                 *)
(***************************************************************************)

-----------------------------------------------------------------------------
(* How a step changes main's call stack. *)

LEMMA PopShape ==
  ASSUME stack \in Seq(Frame), stack # <<>>, NEW s, s = Pop
  PROVE  /\ s \in Seq(Frame) /\ Len(s) = Len(stack) - 1
         /\ Len(stack) \in Nat /\ Len(stack) > 0
         /\ Top \in Frame /\ Top = stack[Len(stack)]
         /\ \A i \in 1..(Len(stack) - 1) : s[i] = stack[i]
BY StackFacts

\* The innermost call goes on to f.
LEMMA GoonShape ==
  ASSUME stack \in Seq(Frame), stack # <<>>, NEW f \in Frame, NEW s, s = Goto(f)
  PROVE  /\ s \in Seq(Frame) /\ Len(s) = Len(stack)
         /\ Len(stack) \in Nat /\ Len(stack) > 0
         /\ \A i \in 1..(Len(stack) - 1) : s[i] = stack[i]
         /\ s[Len(stack)] = f
<1>1. Len(stack) \in Nat /\ Len(stack) > 0
  BY StackFacts
<1>2. /\ s \in Seq(Frame) /\ Len(s) = Len(stack)
      /\ \A i \in 1..Len(stack) : s[i] = IF i = Len(stack) THEN f ELSE stack[i]
  BY GotoFacts
<1>. QED  BY <1>1, <1>2

LEMMA DisposeIfMustShape ==
  ASSUME NEW s \in Seq(Frame), NEW t \in Tasks, NEW r, r = DisposeIfMust(s, t)
  PROVE  \/ ~mustdispose[t] /\ r = s
         \/ /\ mustdispose[t] /\ r \in Seq(Frame) /\ Len(r) = Len(s) + 1
            /\ \A i \in 1..Len(s) : r[i] = s[i]
            /\ r[Len(s) + 1] = F("dd", t, NoMsg)
<1>1. CASE ~mustdispose[t]
  BY <1>1 DEF DisposeIfMust
<1>2. CASE mustdispose[t]
  <2>. DEFINE f == F("dd", t, NoMsg)
  <2>1. r = Append(s, f)
    BY <1>2 DEF DisposeIfMust
  <2>2. f \in Frame
    BY FrameIn DEF FramePCs
  <2>. HIDE DEF f
  <2>3. /\ r \in Seq(Frame) /\ Len(r) = Len(s) + 1
        /\ \A i \in 1..Len(s) : r[i] = s[i]
        /\ r[Len(s) + 1] = f
    BY <2>1, <2>2, PushFacts
  <2>. QED  BY <1>2, <2>3 DEF f
<1>. QED  BY <1>1, <1>2

LEMMA PushedShape ==
  ASSUME NEW s \in Seq(Frame), NEW f \in Frame, NEW r, r = Append(s, f)
  PROVE  /\ r \in Seq(Frame) /\ Len(r) = Len(s) + 1 /\ Len(s) \in Nat
         /\ \A i \in 1..Len(s) : r[i] = s[i]
         /\ r[Len(s) + 1] = f
BY PushFacts

LEMMA PushedTwoShape ==
  ASSUME NEW s \in Seq(Frame), NEW f \in Frame, NEW g \in Frame, NEW r, r = s \o <<f, g>>
  PROVE  /\ r \in Seq(Frame) /\ Len(r) = Len(s) + 2 /\ Len(s) \in Nat
         /\ \A i \in 1..Len(s) : r[i] = s[i]
         /\ r[Len(s) + 1] = f /\ r[Len(s) + 2] = g
BY PushTwoFacts

LEMMA PushedOneShape ==
  ASSUME NEW s \in Seq(Frame), NEW f \in Frame, NEW r, r = s \o <<f>>
  PROVE  /\ r \in Seq(Frame) /\ Len(r) = Len(s) + 1 /\ Len(s) \in Nat
         /\ \A i \in 1..Len(s) : r[i] = s[i]
         /\ r[Len(s) + 1] = f
BY PushOneFacts

-----------------------------------------------------------------------------
(* How a step changes main's port. *)

\* Message k is taken from the port.
Taken(k) ==
  /\ k \in 1..Len(taskport) /\ Len(taskport') = Len(taskport) - 1
  /\ \A j \in 1..(Len(taskport) - 1) :
        taskport'[j] = IF j < k THEN taskport[j] ELSE taskport[j + 1]

LEMMA RemoveTakes ==
  ASSUME taskport \in Seq(Message), NEW k \in 1..Len(taskport), taskport' = RemoveAt(taskport, k)
  PROVE  Taken(k)
BY RemoveAtFacts DEF Taken

LEMMA TailTakes ==
  ASSUME taskport \in Seq(Message), taskport # <<>>, taskport' = Tail(taskport)
  PROVE  Taken(1) /\ Head(taskport) = taskport[1]
<1>1. Len(taskport) \in Nat /\ 1 \in 1..Len(taskport) /\ Len(taskport') = Len(taskport) - 1
      /\ Head(taskport) = taskport[1]
  OBVIOUS
<1>2. \A j \in 1..(Len(taskport) - 1) : taskport'[j] = taskport[j + 1]
  OBVIOUS
<1>. QED  BY <1>1, <1>2 DEF Taken

\* Messages are added to the port.
Added(ms) ==
  /\ ms \in Seq(Message) /\ Len(taskport') = Len(taskport) + Len(ms)
  /\ \A j \in 1..Len(taskport) : taskport'[j] = taskport[j]
  /\ \A j \in 1..Len(ms) : taskport'[Len(taskport) + j] = ms[j]
  /\ \A j \in 1..Len(taskport') :
        j \in 1..Len(taskport) \/ \E i \in 1..Len(ms) : j = Len(taskport) + i

LEMMA ToMainAdds ==
  ASSUME taskport \in Seq(Message), NEW ms \in Seq(Message), ToMain(ms)
  PROVE  Added(ms)
<1>1. taskport' = taskport \o ms
  BY DEF ToMain
<1>2. /\ Len(taskport') = Len(taskport) + Len(ms)
      /\ \A j \in 1..Len(taskport) : taskport'[j] = taskport[j]
      /\ \A j \in 1..Len(ms) : taskport'[Len(taskport) + j] = ms[j]
  BY <1>1, ConcatFacts
<1>3. ASSUME NEW j \in 1..Len(taskport')
      PROVE  j \in 1..Len(taskport) \/ \E i \in 1..Len(ms) : j = Len(taskport) + i
  <2>1. Len(taskport) \in Nat /\ Len(ms) \in Nat
    OBVIOUS
  <2>2. CASE j <= Len(taskport)
    BY <2>1, <2>2
  <2>3. CASE ~(j <= Len(taskport))
    <3>1. j - Len(taskport) \in 1..Len(ms) /\ j = Len(taskport) + (j - Len(taskport))
      BY <1>2, <2>1, <2>3
    <3>. QED  BY <3>1
  <2>. QED  BY <2>2, <2>3
<1>. QED  BY <1>2, <1>3 DEF Added

-----------------------------------------------------------------------------
(* Synchronous updates and their answers. *)

\* What is in the subtask's hands is no update.
NoUpdates(t) ==
  /\ \A i \in 1..Len(subport[t]) : subport[t][i].type # "update"
  /\ held[t] # NoMsg => held[t].type # "update"

\* The message of a call: what is processed is an update of its task, what is
\* waited for is not.
FrameMsg(f) ==
  /\ f.pc = "upd" => f.msg \in Message /\ f.msg.type = "update" /\ f.msg.task = f.task
  /\ f.pc \in {"wfm", "wfmWait"} =>
        f.msg \in Message /\ f.msg.type # "update" /\ f.msg.task = f.task

\* The subtask waits exactly when its update is in the port or being processed.
Served(t) ==
  \/ ~waiting[t] /\ UpdatesOf(t) = {} /\ Handling(t) = {}
  \/ waiting[t] /\ (\E i \in UpdatesOf(t) : UpdatesOf(t) = {i}) /\ Handling(t) = {}
  \/ waiting[t] /\ UpdatesOf(t) = {} /\ (\E i \in Handling(t) : Handling(t) = {i})

AnswerInv ==
  /\ TypeOK
  /\ \A t \in Tasks : NoUpdates(t) /\ Served(t)
  /\ \A i \in 1..Len(stack) : FrameMsg(stack[i])

SyncUpdate(m, t) == m.task = t /\ m.type = "update" /\ ~m.async

LEMMA UpdatesIndex ==
  ASSUME NEW t
  PROVE  /\ UpdatesOf(t) = {i \in 1..Len(taskport) : SyncUpdate(taskport[i], t)}
         /\ UpdatesOf(t)' = {i \in 1..Len(taskport') : SyncUpdate(taskport'[i], t)}
BY DEF UpdatesOf, OfTask, SyncUpdate

\* A message that is taken, which is not the update of t.
LEMMA TakenOther ==
  ASSUME taskport \in Seq(Message), NEW k, Taken(k), NEW t, ~SyncUpdate(taskport[k], t)
  PROVE  /\ UpdatesOf(t) = {} => UpdatesOf(t)' = {}
         /\ (\E i \in UpdatesOf(t) : UpdatesOf(t) = {i}) =>
               \E i \in UpdatesOf(t)' : UpdatesOf(t)' = {i}
<1>1. Len(taskport) \in Nat /\ k \in 1..Len(taskport) /\ Len(taskport') = Len(taskport) - 1
  BY DEF Taken
<1>2. ASSUME NEW j \in 1..Len(taskport')
      PROVE  \/ j < k /\ j \in 1..Len(taskport) /\ taskport'[j] = taskport[j]
             \/ j >= k /\ j + 1 \in 1..Len(taskport) /\ taskport'[j] = taskport[j + 1]
  <2>1. taskport'[j] = IF j < k THEN taskport[j] ELSE taskport[j + 1]
    BY <1>1 DEF Taken
  <2>. QED  BY <1>1, <2>1
<1>3. ASSUME NEW j \in UpdatesOf(t)'
      PROVE  (j < k /\ j \in UpdatesOf(t)) \/ (j >= k /\ j + 1 \in UpdatesOf(t))
  <2>1. j \in 1..Len(taskport') /\ SyncUpdate(taskport'[j], t)
    BY UpdatesIndex
  <2>2. CASE j < k /\ j \in 1..Len(taskport) /\ taskport'[j] = taskport[j]
    BY <2>1, <2>2, UpdatesIndex
  <2>3. CASE j >= k /\ j + 1 \in 1..Len(taskport) /\ taskport'[j] = taskport[j + 1]
    BY <2>1, <2>3, UpdatesIndex
  <2>. QED  BY <1>2, <2>1, <2>2, <2>3
<1>4. ASSUME NEW i \in UpdatesOf(t), UpdatesOf(t) = {i}
      PROVE  \E j \in UpdatesOf(t)' : UpdatesOf(t)' = {j}
  <2>0. \A x : x \in UpdatesOf(t) => x = i
    BY <1>4
  <2>1. i \in 1..Len(taskport) /\ SyncUpdate(taskport[i], t) /\ i # k
    BY UpdatesIndex
  <2>2. CASE i < k
    <3>1. i \in 1..Len(taskport') /\ taskport'[i] = taskport[i]
      BY <1>1, <2>1, <2>2 DEF Taken
    <3>2. i \in UpdatesOf(t)'
      BY <2>1, <3>1, UpdatesIndex
    <3>3. ASSUME NEW j \in UpdatesOf(t)' PROVE j = i
      <4>1. (j < k /\ j = i) \/ (j >= k /\ j + 1 = i)
        BY <1>3, <2>0
      <4>2. j \in Nat /\ i \in Nat /\ k \in Nat
        BY <1>1, <2>1, UpdatesIndex
      <4>. QED  BY <2>2, <4>1, <4>2
    <3>. QED  BY <3>2, <3>3
  <2>3. CASE i > k
    <3>1. i - 1 \in 1..Len(taskport') /\ i - 1 >= k
      BY <1>1, <2>1, <2>3
    <3>2. taskport'[i - 1] = taskport[(i - 1) + 1] /\ (i - 1) + 1 = i
      BY <1>1, <2>1, <3>1 DEF Taken
    <3>3. i - 1 \in UpdatesOf(t)'
      BY <2>1, <3>1, <3>2, UpdatesIndex
    <3>4. ASSUME NEW j \in UpdatesOf(t)' PROVE j = i - 1
      <4>1. (j < k /\ j = i) \/ (j >= k /\ j + 1 = i)
        BY <1>3, <2>0
      <4>2. j \in Nat /\ i \in Nat /\ k \in Nat
        BY <1>1, <2>1, UpdatesIndex
      <4>. QED  BY <2>3, <4>1, <4>2
    <3>. QED  BY <3>3, <3>4
  <2>. QED  BY <1>1, <2>1, <2>2, <2>3
<1>5. ASSUME UpdatesOf(t) = {} PROVE UpdatesOf(t)' = {}
  BY <1>3, <1>5
<1>. QED  BY <1>4, <1>5

\* The only update of t is taken.
LEMMA TakenUpdate ==
  ASSUME taskport \in Seq(Message), NEW k, Taken(k), NEW t, UpdatesOf(t) = {k}
  PROVE  UpdatesOf(t)' = {}
<1>1. Len(taskport) \in Nat /\ k \in 1..Len(taskport) /\ Len(taskport') = Len(taskport) - 1
  BY DEF Taken
<1>2. ASSUME NEW j \in UpdatesOf(t)' PROVE FALSE
  <2>1. j \in 1..Len(taskport') /\ SyncUpdate(taskport'[j], t)
    BY UpdatesIndex
  <2>2. taskport'[j] = IF j < k THEN taskport[j] ELSE taskport[j + 1]
    BY <1>1, <2>1 DEF Taken
  <2>3. CASE j < k
    <3>1. j \in UpdatesOf(t)
      BY <1>1, <2>1, <2>2, <2>3, UpdatesIndex
    <3>. QED  BY <1>1, <2>3, <3>1
  <2>4. CASE ~(j < k)
    <3>1. j + 1 \in 1..Len(taskport) /\ taskport'[j] = taskport[j + 1]
      BY <1>1, <2>1, <2>2, <2>4
    <3>2. j + 1 \in UpdatesOf(t)
      BY <2>1, <3>1, UpdatesIndex
    <3>. QED  BY <1>1, <2>1, <2>4, <3>2
  <2>. QED  BY <2>3, <2>4
<1>. QED  BY <1>2

LEMMA AddedOther ==
  ASSUME taskport \in Seq(Message), NEW ms, Added(ms), NEW t,
         \A i \in 1..Len(ms) : ~SyncUpdate(ms[i], t)
  PROVE  UpdatesOf(t)' = UpdatesOf(t)
<1>1. Len(taskport) \in Nat /\ Len(ms) \in Nat /\ Len(taskport') = Len(taskport) + Len(ms)
  BY DEF Added
<1>2. ASSUME NEW j \in UpdatesOf(t)' PROVE j \in UpdatesOf(t)
  <2>1. j \in 1..Len(taskport') /\ SyncUpdate(taskport'[j], t)
    BY UpdatesIndex
  <2>2. j \in 1..Len(taskport)
    BY <2>1 DEF Added
  <2>3. taskport'[j] = taskport[j]
    BY <2>2 DEF Added
  <2>. QED  BY <2>1, <2>2, <2>3, UpdatesIndex
<1>3. ASSUME NEW j \in UpdatesOf(t) PROVE j \in UpdatesOf(t)'
  <2>1. j \in 1..Len(taskport) /\ SyncUpdate(taskport[j], t)
    BY UpdatesIndex
  <2>2. j \in 1..Len(taskport') /\ taskport'[j] = taskport[j]
    BY <1>1, <2>1 DEF Added
  <2>. QED  BY <2>1, <2>2, UpdatesIndex
<1>. QED  BY <1>2, <1>3

\* An update of t comes to a port that has none.
LEMMA AddedUpdate ==
  ASSUME taskport \in Seq(Message), NEW m \in Message, Added(<<m>>), NEW t, SyncUpdate(m, t),
         UpdatesOf(t) = {}
  PROVE  \E i \in UpdatesOf(t)' : UpdatesOf(t)' = {i}
<1>1. Len(taskport) \in Nat /\ Len(<<m>>) = 1 /\ <<m>>[1] = m
      /\ Len(taskport') = Len(taskport) + 1
  BY DEF Added
<1>. DEFINE n == Len(taskport) + 1
<1>2. n \in 1..Len(taskport') /\ taskport'[n] = m
  BY <1>1 DEF Added
<1>3. n \in UpdatesOf(t)'
  BY <1>2, UpdatesIndex
<1>4. ASSUME NEW j \in UpdatesOf(t)' PROVE j = n
  <2>1. j \in 1..Len(taskport') /\ SyncUpdate(taskport'[j], t)
    BY UpdatesIndex
  <2>2. j \notin 1..Len(taskport)
    <3>1. ASSUME j \in 1..Len(taskport) PROVE FALSE
      <4>1. taskport'[j] = taskport[j]
        BY <3>1 DEF Added
      <4>. QED  BY <2>1, <3>1, <4>1, UpdatesIndex
    <3>. QED  BY <3>1
  <2>. QED  BY <1>1, <2>1, <2>2
<1>. QED  BY <1>3, <1>4

\* Calls that are no update calls come and go.
LEMMA HandlingSame ==
  ASSUME NEW n \in Nat, NEW k \in Nat, n = Len(stack), k <= n,
         Len(stack') \in Nat, k <= Len(stack'),
         \A i \in 1..k : stack'[i] = stack[i],
         \A i \in (k + 1)..n : stack[i].pc # "upd",
         \A i \in (k + 1)..Len(stack') : stack'[i].pc # "upd",
         NEW t
  PROVE  Handling(t)' = Handling(t)
<1>1. ASSUME NEW i \in Handling(t) PROVE i \in Handling(t)'
  <2>1. i \in 1..n /\ stack[i].pc = "upd" /\ stack[i].task = t /\ ~stack[i].msg.async
    BY DEF Handling, UpdateCalls
  <2>2. i \in 1..k
    BY <2>1
  <2>3. i \in 1..Len(stack') /\ stack'[i] = stack[i]
    BY <2>2
  <2>. QED  BY <2>1, <2>3 DEF Handling, UpdateCalls
<1>2. ASSUME NEW i \in Handling(t)' PROVE i \in Handling(t)
  <2>1. i \in 1..Len(stack') /\ stack'[i].pc = "upd" /\ stack'[i].task = t
        /\ ~stack'[i].msg.async
    BY DEF Handling, UpdateCalls
  <2>2. i \in 1..k
    BY <2>1
  <2>3. i \in 1..Len(stack) /\ stack'[i] = stack[i]
    BY <2>2
  <2>. QED  BY <2>1, <2>3 DEF Handling, UpdateCalls
<1>. QED  BY <1>1, <1>2

\* The target of a task is called, or returns.
LEMMA HandlingMore ==
  ASSUME NEW n \in Nat, n = Len(stack), NEW p \in Nat, n <= p, Len(stack') = p + 1,
         \A i \in 1..n : stack'[i] = stack[i], stack'[p + 1].pc = "upd",
         \A i \in (n + 1)..p : stack'[i].pc # "upd", NEW t
  PROVE  Handling(t)' = Handling(t) \cup
            {i \in {p + 1} : stack'[i].task = t /\ ~stack'[i].msg.async}
<1>. DEFINE More == {i \in {p + 1} : stack'[i].task = t /\ ~stack'[i].msg.async}
<1>1. ASSUME NEW i \in Handling(t)' PROVE i \in Handling(t) \cup More
  <2>1. i \in 1..(p + 1) /\ stack'[i].pc = "upd" /\ stack'[i].task = t
        /\ ~stack'[i].msg.async
    BY DEF Handling, UpdateCalls
  <2>2. CASE i = p + 1
    BY <2>1, <2>2
  <2>3. CASE i \in 1..n
    BY <2>1, <2>3 DEF Handling, UpdateCalls
  <2>. QED  BY <2>1, <2>2, <2>3
<1>2. ASSUME NEW i \in Handling(t) PROVE i \in Handling(t)'
  <2>1. i \in 1..n /\ stack[i].pc = "upd" /\ stack[i].task = t /\ ~stack[i].msg.async
    BY DEF Handling, UpdateCalls
  <2>2. i \in 1..Len(stack') /\ stack'[i] = stack[i]
    BY <2>1
  <2>. QED  BY <2>1, <2>2 DEF Handling, UpdateCalls
<1>3. ASSUME NEW i \in More PROVE i \in Handling(t)'
  <2>1. i = p + 1 /\ i \in 1..Len(stack') /\ stack'[i].task = t /\ ~stack'[i].msg.async
    OBVIOUS
  <2>. QED  BY <2>1 DEF Handling, UpdateCalls
<1>. QED  BY <1>1, <1>2, <1>3

LEMMA HandlingLess ==
  ASSUME NEW n \in Nat, n = Len(stack), n > 0, stack[n].pc = "upd",
         Len(stack') \in Nat, n - 1 <= Len(stack'),
         \A i \in 1..(n - 1) : stack'[i] = stack[i],
         \A i \in n..Len(stack') : stack'[i].pc # "upd", NEW t
  PROVE  /\ Handling(t)' = Handling(t) \ {n}
         /\ n \in Handling(t) <=> stack[n].task = t /\ ~stack[n].msg.async
<1>1. ASSUME NEW i \in Handling(t)' PROVE i \in Handling(t) \ {n}
  <2>1. i \in 1..Len(stack') /\ stack'[i].pc = "upd" /\ stack'[i].task = t
        /\ ~stack'[i].msg.async
    BY DEF Handling, UpdateCalls
  <2>2. i \in 1..(n - 1)
    BY <2>1
  <2>3. i \in 1..n /\ i # n /\ stack'[i] = stack[i]
    BY <2>2
  <2>. QED  BY <2>1, <2>3 DEF Handling, UpdateCalls
<1>2. ASSUME NEW i \in Handling(t) \ {n} PROVE i \in Handling(t)'
  <2>1. i \in 1..n /\ stack[i].pc = "upd" /\ stack[i].task = t /\ ~stack[i].msg.async
    BY DEF Handling, UpdateCalls
  <2>2. i \in 1..Len(stack') /\ stack'[i] = stack[i]
    BY <2>1
  <2>. QED  BY <2>1, <2>2 DEF Handling, UpdateCalls
<1>3. n \in 1..Len(stack)
  OBVIOUS
<1>. QED  BY <1>1, <1>2, <1>3 DEF Handling, UpdateCalls

\* A step that does not concern updates.
LEMMA ServedSame ==
  ASSUME NEW t, Served(t), waiting'[t] = waiting[t],
         UpdatesOf(t) = {} => UpdatesOf(t)' = {},
         (\E i \in UpdatesOf(t) : UpdatesOf(t) = {i}) =>
            \E i \in UpdatesOf(t)' : UpdatesOf(t)' = {i},
         Handling(t)' = Handling(t)
  PROVE  Served(t)'
BY DEF Served

LEMMA PortSame ==
  ASSUME UNCHANGED taskport, NEW t
  PROVE  UpdatesOf(t)' = UpdatesOf(t)
BY UpdatesIndex

\* Main takes message m from its port and processes it in the innermost call.
LEMMA AnswerReply ==
  ASSUME AnswerInv, TypeOK', NEW k, Taken(k), NEW s \in Seq(Frame), Processreply(s, taskport[k]),
         NEW n \in Nat, n = Len(stack), n <= Len(s),
         \A i \in 1..n : s[i] = stack[i],
         \A i \in (n + 1)..Len(s) : s[i].pc \notin {"upd", "wfm", "wfmWait"},
         UNCHANGED <<subport, held>>
  PROVE  AnswerInv'
<1>. DEFINE m == taskport[k]  t == taskport[k].task
<1>1. TypeOK /\ taskport \in Seq(Message) /\ k \in 1..Len(taskport) /\ m \in Message
      /\ t \in Tasks /\ Len(stack') \in Nat /\ waiting \in [Tasks -> BOOLEAN]
  <2>1. TypeOK /\ taskport \in Seq(Message) /\ k \in 1..Len(taskport)
        /\ waiting \in [Tasks -> BOOLEAN]
    BY DEF AnswerInv, TypeOK, Taken
  <2>2. m \in Message
    BY <2>1
  <2>3. stack' \in Seq(Frame)
    BY DEF TypeOK
  <2>. QED  BY <2>1, <2>2, <2>3 DEF Message
<1>2. PICK p \in Nat : p = Len(s)
  OBVIOUS
<1>3. \A u \in Tasks : NoUpdates(u)'
  BY DEF AnswerInv, NoUpdates
<1>4. \A i \in 1..n : FrameMsg(stack[i])
  BY DEF AnswerInv
<1>5. \A i \in 1..p : FrameMsg(s[i])
  <2>1. ASSUME NEW i \in (n + 1)..p PROVE FrameMsg(s[i])
    <3>1. s[i].pc \notin {"upd", "wfm", "wfmWait"}
      BY <1>2
    <3>. QED  BY <3>1 DEF FrameMsg
  <2>. QED  BY <1>2, <1>4, <2>1
<1>6. ASSUME NEW u \in Tasks, SyncUpdate(m, u)
      PROVE  UpdatesOf(u) = {k} /\ waiting[u] /\ Handling(u) = {} /\ UpdatesOf(u)' = {} /\ u = t
  <2>1. k \in UpdatesOf(u)
    BY <1>1, <1>6, UpdatesIndex
  <2>2. Served(u)
    BY DEF AnswerInv
  <2>3. UpdatesOf(u) = {k} /\ waiting[u] /\ Handling(u) = {}
    BY <2>1, <2>2 DEF Served
  <2>4. UpdatesOf(u)' = {}
    BY <1>1, <2>3, TakenUpdate
  <2>. QED  BY <1>6, <2>3, <2>4 DEF SyncUpdate
<1>7. ASSUME NEW u \in Tasks, ~SyncUpdate(m, u)
      PROVE  /\ UpdatesOf(u) = {} => UpdatesOf(u)' = {}
             /\ (\E i \in UpdatesOf(u) : UpdatesOf(u) = {i}) =>
                  \E i \in UpdatesOf(u)' : UpdatesOf(u)' = {i}
  BY <1>1, <1>7, TakenOther
<1>8. CASE m.type = "update" /\ target[t]
  <2>. DEFINE f == F("upd", t, m)
  <2>1. stack' = Append(s, f) /\ waiting' = waiting
    BY <1>8 DEF Processreply
  <2>2. f \in Frame /\ f.pc = "upd" /\ f.task = t /\ f.msg = m
    BY <1>1, FrameIn DEF FramePCs
  <2>. HIDE DEF f
  <2>3. Len(stack') = p + 1 /\ (\A i \in 1..p : stack'[i] = s[i]) /\ stack'[p + 1] = f
    BY <1>2, <2>1, <2>2, PushedShape
  <2>4. /\ \A i \in 1..n : stack'[i] = stack[i]
        /\ \A i \in (n + 1)..p : stack'[i].pc # "upd"
    BY <1>2, <2>3
  <2>5. ASSUME NEW u \in Tasks
        PROVE  Handling(u)' = Handling(u) \cup {i \in {p + 1} : stack'[i].task = u /\ ~stack'[i].msg.async}
    BY <1>2, <2>2, <2>3, <2>4, HandlingMore
  <2>6. ASSUME NEW u \in Tasks PROVE Served(u)'
    <3>1. CASE SyncUpdate(m, u)
      <4>1. stack'[p + 1].task = u /\ ~stack'[p + 1].msg.async
        BY <2>2, <2>3, <3>1 DEF SyncUpdate
      <4>2. Handling(u)' = {p + 1}
        BY <1>6, <2>5, <3>1, <4>1
      <4>. QED  BY <1>6, <2>1, <3>1, <4>2 DEF Served
    <3>2. CASE ~SyncUpdate(m, u)
      <4>1. ~(stack'[p + 1].task = u /\ ~stack'[p + 1].msg.async)
        BY <1>8, <2>2, <2>3, <3>2 DEF SyncUpdate
      <4>2. Handling(u)' = Handling(u)
        BY <2>5, <4>1
      <4>3. Served(u)
        BY DEF AnswerInv
      <4>. QED  BY <1>7, <2>1, <3>2, <4>2, <4>3, ServedSame
    <3>. QED  BY <3>1, <3>2
  <2>7. FrameMsg(f)
    BY <1>1, <1>8, <2>2 DEF FrameMsg
  <2>8. \A i \in 1..Len(stack') : FrameMsg(stack'[i])
    <3>1. \A i \in 1..Len(stack') : i \in 1..p \/ i = p + 1
      BY <2>3
    <3>. QED  BY <1>2, <1>5, <2>3, <2>7, <3>1
  <2>. QED  BY <1>3, <2>6, <2>8 DEF AnswerInv, FrameMsg
<1>9. CASE ~(m.type = "update" /\ target[t])
  <2>1. stack' = DisposeIfMust(s, t) /\ Answer(m)
    BY <1>9 DEF Processreply
  <2>2. /\ p <= Len(stack')
        /\ \A i \in 1..p : stack'[i] = s[i]
        /\ \A i \in (p + 1)..Len(stack') : stack'[i].pc = "dd"
    <3>1. CASE stack' = s
      BY <1>2, <3>1
    <3>2. CASE /\ Len(stack') = Len(s) + 1
               /\ \A i \in 1..Len(s) : stack'[i] = s[i]
               /\ stack'[Len(s) + 1] = F("dd", t, NoMsg)
      BY <1>2, <3>2 DEF F
    <3>. QED  BY <1>1, <2>1, <3>1, <3>2, DisposeIfMustShape
  <2>3. /\ \A i \in 1..n : stack'[i] = stack[i]
        /\ \A i \in (n + 1)..n : stack[i].pc # "upd"
        /\ \A i \in (n + 1)..Len(stack') : stack'[i].pc # "upd"
    <3>1. \A i \in (n + 1)..Len(stack') : i \in (n + 1)..p \/ i \in (p + 1)..Len(stack')
      BY <1>1, <1>2
    <3>2. \A i \in (n + 1)..p : stack'[i].pc # "upd"
      BY <1>2, <2>2
    <3>. QED  BY <1>2, <2>2, <3>1, <3>2
  <2>4. ASSUME NEW u \in Tasks PROVE Handling(u)' = Handling(u)
    <3>1. n <= Len(stack')
      BY <1>1, <1>2, <2>2
    <3>2. PICK j \in Nat : j = n
      OBVIOUS
    <3>3. /\ j <= n /\ j <= Len(stack') /\ \A i \in 1..j : stack'[i] = stack[i]
          /\ \A i \in (j + 1)..n : stack[i].pc # "upd"
          /\ \A i \in (j + 1)..Len(stack') : stack'[i].pc # "upd"
      BY <2>3, <3>1, <3>2
    <3>4. Len(stack') \in Nat
      BY <1>1
    <3>. HIDE DEF m, t
    <3>. QED  BY <3>3, <3>4, HandlingSame
  <2>5. ASSUME NEW u \in Tasks PROVE Served(u)'
    <3>1. CASE SyncUpdate(m, u)
      <4>1. waiting' = [waiting EXCEPT ![t] = FALSE] /\ u = t
        BY <2>1, <3>1, <1>6 DEF Answer, SyncUpdate
      <4>2. ~waiting'[u]
        BY <1>1, <4>1
      <4>. QED  BY <1>6, <2>4, <3>1, <4>2 DEF Served
    <3>2. CASE ~SyncUpdate(m, u)
      <4>1. waiting' = waiting \/ (waiting' = [waiting EXCEPT ![t] = FALSE] /\ u # t)
        BY <2>1, <3>2 DEF Answer, SyncUpdate
      <4>2. waiting'[u] = waiting[u]
        BY <1>1, <4>1
      <4>3. Served(u)
        BY DEF AnswerInv
      <4>. QED  BY <1>7, <2>4, <3>2, <4>2, <4>3, ServedSame
    <3>. QED  BY <3>1, <3>2
  <2>6. \A i \in 1..Len(stack') : FrameMsg(stack'[i])
    <3>1. ASSUME NEW i \in (p + 1)..Len(stack') PROVE FrameMsg(stack'[i])
      <4>1. stack'[i].pc = "dd"
        BY <2>2
      <4>. QED  BY <4>1 DEF FrameMsg
    <3>2. \A i \in 1..Len(stack') : i \in 1..p \/ i \in (p + 1)..Len(stack')
      BY <1>1, <1>2
    <3>3. \A i \in 1..p : FrameMsg(stack'[i])
      BY <1>5, <2>2
    <3>. QED  BY <3>1, <3>2, <3>3
  <2>. QED  BY <1>3, <2>5, <2>6 DEF AnswerInv, FrameMsg
<1>. QED  BY <1>8, <1>9

\* A step that touches neither the port nor a call of a target.
LEMMA AnswerStack ==
  ASSUME AnswerInv, TypeOK', UNCHANGED <<taskport, waiting>>, \A t \in Tasks : NoUpdates(t)',
         NEW n \in Nat, NEW k \in Nat, n = Len(stack), k <= n, k <= Len(stack'),
         \A i \in 1..k : stack'[i] = stack[i],
         \A i \in (k + 1)..n : stack[i].pc # "upd",
         \A i \in (k + 1)..Len(stack') : stack'[i].pc # "upd" /\ FrameMsg(stack'[i])
  PROVE  AnswerInv'
<1>1. Len(stack') \in Nat
  <2>1. stack' \in Seq(Frame)
    BY DEF TypeOK
  <2>. QED  BY <2>1
<1>2. ASSUME NEW u \in Tasks PROVE NoUpdates(u)' /\ Served(u)'
  <2>1. Handling(u)' = Handling(u)
    BY <1>1, HandlingSame
  <2>2. UpdatesOf(u)' = UpdatesOf(u)
    BY PortSame
  <2>3. Served(u)
    BY DEF AnswerInv
  <2>. QED  BY <2>1, <2>2, <2>3, ServedSame
<1>3. \A i \in 1..Len(stack') : FrameMsg(stack'[i])
  <2>1. \A i \in 1..Len(stack') : i \in 1..k \/ i \in (k + 1)..Len(stack')
    BY <1>1
  <2>2. \A i \in 1..k : FrameMsg(stack[i])
    BY DEF AnswerInv
  <2>. QED  BY <2>1, <2>2
<1>. QED  BY <1>2, <1>3 DEF AnswerInv, FrameMsg

LEMMA AnswerUnmoved ==
  ASSUME AnswerInv, TypeOK', UNCHANGED <<taskport, waiting, stack>>, \A t \in Tasks : NoUpdates(t)'
  PROVE  AnswerInv'
<1>1. PICK n \in Nat : n = Len(stack)
  <2>1. stack \in Seq(Frame)
    BY DEF AnswerInv, TypeOK
  <2>. QED  BY <2>1
<1>2. /\ n <= n /\ n <= Len(stack') /\ \A i \in 1..n : stack'[i] = stack[i]
      /\ \A i \in (n + 1)..n : stack[i].pc # "upd"
      /\ \A i \in (n + 1)..Len(stack') : stack'[i].pc # "upd" /\ FrameMsg(stack'[i])
  BY <1>1
<1>. QED  BY <1>1, <1>2, AnswerStack

\* Main goes from its innermost call, which is no call of a target, to at most
\* three others that are none and wait for no message.
Plain(f) == f.pc \notin {"upd", "wfm", "wfmWait"}

LEMMA AnswerPlain ==
  ASSUME AnswerInv, TypeOK', UNCHANGED <<taskport, waiting>>, \A t \in Tasks : NoUpdates(t)',
         stack # <<>>, Top.pc # "upd", Len(stack) - 1 <= Len(stack'),
         \A i \in 1..(Len(stack) - 1) : stack'[i] = stack[i],
         \A i \in Len(stack)..Len(stack') : Plain(stack'[i])
  PROVE  AnswerInv'
<1>1. stack \in Seq(Frame)
  BY DEF AnswerInv, TypeOK
<1>2. PICK n \in Nat : n = Len(stack)
  BY <1>1
<1>3. n > 0 /\ Top = stack[n]
  BY <1>1, <1>2, StackFacts
<1>4. PICK k \in Nat : k = n - 1
  BY <1>3
<1>5. /\ k <= n /\ k <= Len(stack') /\ \A i \in 1..k : stack'[i] = stack[i]
      /\ \A i \in (k + 1)..n : stack[i].pc # "upd"
  <2>1. \A i \in (k + 1)..n : i = n
    BY <1>4
  <2>. QED  BY <1>2, <1>3, <1>4, <2>1
<1>6. ASSUME NEW i \in (k + 1)..Len(stack') PROVE stack'[i].pc # "upd" /\ FrameMsg(stack'[i])
  <2>1. Plain(stack'[i])
    BY <1>2, <1>4
  <2>. QED  BY <2>1 DEF Plain, FrameMsg
<1>. QED  BY <1>2, <1>5, <1>6, AnswerStack

LEMMA ReturnPlain ==
  ASSUME AnswerInv, TypeOK', UNCHANGED <<taskport, waiting>>, \A t \in Tasks : NoUpdates(t)',
         stack # <<>>, Top.pc # "upd", NEW t \in Tasks,
         stack' = Pop \/ stack' = DisposeIfMust(Pop, t)
  PROVE  AnswerInv'
<1>1. stack \in Seq(Frame)
  BY DEF AnswerInv, TypeOK
<1>2. PICK s : s = Pop
  OBVIOUS
<1>3. /\ s \in Seq(Frame) /\ Len(s) = Len(stack) - 1 /\ Len(stack) \in Nat
      /\ \A i \in 1..(Len(stack) - 1) : s[i] = stack[i]
  BY <1>1, <1>2, PopShape
<1>4. CASE stack' = s
  <2>1. \A i \in Len(stack)..Len(stack') : Plain(stack'[i])
    BY <1>3, <1>4
  <2>. QED  BY <1>3, <1>4, <2>1, AnswerPlain
<1>5. CASE /\ Len(stack') = Len(s) + 1
           /\ \A i \in 1..Len(s) : stack'[i] = s[i]
           /\ stack'[Len(s) + 1] = F("dd", t, NoMsg)
  <2>1. \A i \in Len(stack)..Len(stack') : i = Len(s) + 1
    BY <1>3, <1>5
  <2>2. \A i \in Len(stack)..Len(stack') : Plain(stack'[i])
    BY <1>5, <2>1 DEF F, Plain
  <2>. QED  BY <1>3, <1>5, <2>2, AnswerPlain
<1>. QED  BY <1>2, <1>3, <1>4, <1>5, DisposeIfMustShape

LEMMA AnswerMain ==
  ASSUME AnswerInv, TypeOK', MainStep
  PROVE  AnswerInv'
<1>. USE DEF mainVars, flagVars, semaVars, subVars
<1>0. /\ TypeOK /\ stack \in Seq(Frame) /\ taskport \in Seq(Message)
      /\ stack' \in Seq(Frame) /\ Len(stack') \in Nat
  <2>1. TypeOK /\ stack \in Seq(Frame) /\ taskport \in Seq(Message) /\ stack' \in Seq(Frame)
    BY DEF AnswerInv, TypeOK
  <2>. QED  BY <2>1
<1>1. UNCHANGED <<subport, held>>
  BY DEF MainStep, EventWait, Processtask, ProcesstaskReturns, UpdateReturns, Processtaskreply,
     WaitformsgScan, WaitformsgWakes, StarttaskReturns, MessageReturns, Dodisposetask, Procure,
     StoptaskWakes, DodisposetaskDrains, DodisposetaskFrees
<1>2. \A t \in Tasks : NoUpdates(t)'
  BY <1>1 DEF AnswerInv, NoUpdates
<1>3. PICK n \in Nat : n = Len(stack)
  BY <1>0
<1>4. ASSUME stack # <<>>
      PROVE  /\ n > 0 /\ Top = stack[n] /\ Top \in Frame /\ Top.task \in Tasks
             /\ FrameMsg(Top)
  <2>1. n > 0 /\ Top = stack[n] /\ Top \in Frame
    BY <1>0, <1>3, <1>4, StackFacts
  <2>2. n \in 1..Len(stack)
    BY <1>3, <2>1
  <2>. QED  BY <2>1, <2>2 DEF AnswerInv, Frame
<1>5. ASSUME NEW f \in Frame, stack # <<>>, Top.pc # "upd", Plain(f), stack' = Goto(f),
             UNCHANGED <<taskport, waiting>>
      PROVE  AnswerInv'
  <2>1. /\ Len(stack') = Len(stack) /\ stack'[Len(stack)] = f
        /\ \A i \in 1..(Len(stack) - 1) : stack'[i] = stack[i]
    BY <1>0, <1>5, GoonShape
  <2>2. \A i \in Len(stack)..Len(stack') : i = Len(stack)
    BY <1>0, <2>1
  <2>3. Len(stack) - 1 <= Len(stack')
    BY <1>3, <2>1
  <2>. QED  BY <1>2, <1>5, <2>1, <2>2, <2>3, AnswerPlain
<1>6. ASSUME NEW pc \in {"wfm", "wfmWait"}, stack # <<>>, Top.pc \in {"wfm", "wfmWait"},
             stack' = Goto(F(pc, Top.task, Top.msg)), UNCHANGED <<taskport, waiting>>
      PROVE  AnswerInv'
  <2>1. /\ Top.msg \in Message /\ Top.msg.type # "update" /\ Top.msg.task = Top.task
        /\ Top.task \in Tasks /\ n > 0 /\ Top = stack[n]
    BY <1>4, <1>6 DEF FrameMsg
  <2>2. PICK f \in Frame : f = F(pc, Top.task, Top.msg) /\ f.pc = pc /\ f.task = Top.task
                           /\ f.msg = Top.msg
    BY <2>1, FrameIn DEF FramePCs
  <2>3. /\ Len(stack') = n /\ stack'[n] = f /\ \A i \in 1..(n - 1) : stack'[i] = stack[i]
    BY <1>0, <1>3, <1>6, <2>2, GoonShape
  <2>4. FrameMsg(f) /\ f.pc # "upd"
    BY <2>1, <2>2 DEF FrameMsg
  <2>5. PICK k \in Nat : k = n - 1
    BY <2>1
  <2>6. /\ k <= n /\ k <= Len(stack') /\ \A i \in 1..k : stack'[i] = stack[i]
        /\ \A i \in (k + 1)..n : stack[i].pc # "upd"
        /\ \A i \in (k + 1)..Len(stack') : stack'[i].pc # "upd" /\ FrameMsg(stack'[i])
    <3>1. \A i \in (k + 1)..n : i = n
      BY <2>5
    <3>. QED  BY <1>6, <2>1, <2>3, <2>4, <2>5, <3>1
  <2>. QED  BY <1>2, <1>3, <1>6, <2>6, AnswerStack
<1>7. ASSUME NEW k \in 1..Len(taskport), taskport' = RemoveAt(taskport, k), stack # <<>>,
             Processreply(stack, taskport[k])
      PROVE  AnswerInv'
  <2>1. Taken(k)
    BY <1>0, <1>7, RemoveTakes
  <2>2. /\ n <= Len(stack) /\ \A i \in 1..n : stack[i] = stack[i]
        /\ \A i \in (n + 1)..Len(stack) : stack[i].pc \notin {"upd", "wfm", "wfmWait"}
    BY <1>3
  <2>. QED  BY <1>0, <1>1, <1>3, <1>7, <2>1, <2>2, AnswerReply
<1>8. CASE EventWait
  BY <1>2, <1>8, AnswerUnmoved DEF EventWait
<1>9. CASE Processtask
  <2>1. CASE taskport = <<>>
    BY <1>2, <1>9, <2>1, AnswerUnmoved DEF Processtask
  <2>2. CASE taskport # <<>>
    <3>. DEFINE f == F("ptTail", Head(taskport).task, NoMsg)
    <3>1. Taken(1) /\ Head(taskport) = taskport[1] /\ Head(taskport) \in Message
      BY <1>0, <1>9, <2>2, TailTakes DEF Processtask
    <3>2. f \in Frame /\ f.pc = "ptTail"
      BY <3>1, FrameIn DEF FramePCs, Message
    <3>3. stack = <<>> /\ Processreply(<<f>>, taskport[1])
      BY <1>9, <2>2, <3>1 DEF Processtask
    <3>. HIDE DEF f
    <3>4. PICK s : s = <<f>>
      OBVIOUS
    <3>7. s \in Seq(Frame) /\ Len(s) = 1 /\ s[1] = f
      BY <3>2, <3>4
    <3>5. /\ n = 0 /\ n <= Len(s) /\ \A i \in 1..n : s[i] = stack[i]
          /\ \A i \in (n + 1)..Len(s) : s[i].pc \notin {"upd", "wfm", "wfmWait"}
      BY <1>3, <3>2, <3>3, <3>7
    <3>6. Processreply(s, taskport[1])
      BY <3>3, <3>4
    <3>. QED  BY <1>0, <1>1, <1>3, <3>1, <3>5, <3>6, <3>7, AnswerReply
  <2>. QED  BY <2>1, <2>2
<1>10. CASE ProcesstaskReturns
  <2>1. stack # <<>> /\ Top.pc = "ptTail" /\ stack' = Pop /\ UNCHANGED <<taskport, waiting>>
    BY <1>10 DEF ProcesstaskReturns, AtTop
  <2>. QED  BY <1>2, <1>4, <2>1, ReturnPlain
<1>11. CASE UpdateReturns
  <2>1. /\ stack # <<>> /\ Top.pc = "upd" /\ stack' = DisposeIfMust(Pop, Top.task)
        /\ Answer(Top.msg) /\ UNCHANGED taskport
    BY <1>11 DEF UpdateReturns, AtTop
  <2>2. PICK t \in Tasks : t = Top.task
    BY <1>4, <2>1
  <2>3. PICK m \in Message : m = Top.msg /\ m.type = "update" /\ m.task = t
    BY <1>4, <2>1, <2>2 DEF FrameMsg
  <2>4. n > 0 /\ stack[n].pc = "upd" /\ stack[n].task = t /\ stack[n].msg = m
    BY <1>4, <2>1, <2>2, <2>3
  <2>5. PICK s : s = Pop
    OBVIOUS
  <2>6. /\ s \in Seq(Frame) /\ Len(s) = n - 1 /\ \A i \in 1..(n - 1) : s[i] = stack[i]
    BY <1>0, <1>3, <2>1, <2>5, PopShape
  <2>7. /\ n - 1 <= Len(stack') /\ \A i \in 1..(n - 1) : stack'[i] = stack[i]
        /\ \A i \in n..Len(stack') : stack'[i].pc = "dd"
    <3>1. CASE stack' = s
      <4>1. \A i \in n..Len(stack') : FALSE
        BY <2>6, <3>1
      <4>. QED  BY <2>6, <3>1, <4>1
    <3>2. CASE /\ Len(stack') = Len(s) + 1
               /\ \A i \in 1..Len(s) : stack'[i] = s[i]
               /\ stack'[Len(s) + 1] = F("dd", t, NoMsg)
      <4>1. \A i \in n..Len(stack') : i = Len(s) + 1
        BY <2>6, <3>2
      <4>2. F("dd", t, NoMsg).pc = "dd"
        BY DEF F
      <4>3. \A i \in n..Len(stack') : stack'[i].pc = "dd"
        BY <3>2, <4>1, <4>2
      <4>4. n - 1 <= Len(stack') /\ \A i \in 1..(n - 1) : stack'[i] = stack[i]
        BY <2>6, <3>2
      <4>. QED  BY <4>3, <4>4
    <3>. QED  BY <2>1, <2>2, <2>5, <2>6, <3>1, <3>2, DisposeIfMustShape
  <2>8. ASSUME NEW u \in Tasks
        PROVE  /\ Handling(u)' = Handling(u) \ {n}
               /\ n \in Handling(u) <=> stack[n].task = u /\ ~stack[n].msg.async
    <3>1. \A i \in n..Len(stack') : stack'[i].pc # "upd"
      BY <2>7
    <3>. QED  BY <1>0, <1>3, <2>4, <2>7, <3>1, HandlingLess
  <2>9. ASSUME NEW u \in Tasks PROVE Served(u)'
    <3>1. Served(u) /\ UpdatesOf(u)' = UpdatesOf(u)
      BY <2>1, PortSame DEF AnswerInv
    <3>2. waiting \in [Tasks -> BOOLEAN]
      BY <1>0 DEF TypeOK
    <3>3. CASE n \in Handling(u)
      <4>1. u = t /\ ~m.async
        BY <2>4, <2>8, <3>3
      <4>2. ~waiting'[u]
        BY <2>1, <2>3, <3>2, <4>1 DEF Answer
      <4>3. UpdatesOf(u) = {} /\ \E i \in Handling(u) : Handling(u) = {i}
        BY <3>1, <3>3 DEF Served
      <4>4. Handling(u)' = {}
        BY <2>8, <3>3, <4>3
      <4>. QED  BY <3>1, <4>2, <4>3, <4>4 DEF Served
    <3>4. CASE n \notin Handling(u)
      <4>1. Handling(u)' = Handling(u)
        BY <2>8, <3>4
      <4>2. waiting'[u] = waiting[u]
        <5>1. m.async \/ u # t
          BY <2>4, <2>8, <3>4
        <5>2. CASE m.async
          BY <2>1, <2>3, <5>2 DEF Answer
        <5>3. CASE u # t
          BY <2>1, <2>3, <3>2, <5>3 DEF Answer
        <5>. QED  BY <5>1, <5>2, <5>3
      <4>. QED  BY <3>1, <4>1, <4>2, ServedSame
    <3>. QED  BY <3>3, <3>4
  <2>10. \A i \in 1..Len(stack') : FrameMsg(stack'[i])
    <3>1. ASSUME NEW i \in n..Len(stack') PROVE FrameMsg(stack'[i])
      <4>1. stack'[i].pc = "dd"
        BY <2>7
      <4>. QED  BY <4>1 DEF FrameMsg
    <3>2. \A i \in 1..(n - 1) : FrameMsg(stack[i])
      BY <1>3 DEF AnswerInv
    <3>3. \A i \in 1..Len(stack') : i \in 1..(n - 1) \/ i \in n..Len(stack')
      BY <1>0
    <3>. QED  BY <2>7, <3>1, <3>2, <3>3
  <2>. QED  BY <1>2, <2>9, <2>10 DEF AnswerInv, FrameMsg
<1>12. CASE Processtaskreply
  <2>1. stack # <<>> /\ Top.pc = "ptr"
    BY <1>12 DEF Processtaskreply, AtTop
  <2>2. CASE stack' = Pop /\ UNCHANGED <<taskport, waiting>>
    BY <1>2, <1>4, <2>1, <2>2, ReturnPlain
  <2>3. ASSUME NEW i \in First(OfTask(Top.task)), Processreply(stack, taskport[i]),
               taskport' = RemoveAt(taskport, i)
        PROVE  AnswerInv'
    <3>1. i \in 1..Len(taskport)
      BY DEF First, OfTask
    <3>. QED  BY <1>7, <2>1, <2>3, <3>1
  <2>. QED  BY <1>12, <2>2, <2>3 DEF Processtaskreply
<1>13. CASE WaitformsgScan
  <2>1. stack # <<>> /\ Top.pc = "wfm"
    BY <1>13 DEF WaitformsgScan, AtTop
  <2>2. CASE stack' = Goto(F("wfmWait", Top.task, Top.msg)) /\ UNCHANGED <<taskport, waiting>>
    BY <1>6, <2>1, <2>2
  <2>3. ASSUME NEW i \in First(OfTask(Top.task)), Processreply(stack, taskport[i]),
               taskport' = RemoveAt(taskport, i)
        PROVE  AnswerInv'
    <3>1. i \in 1..Len(taskport)
      BY DEF First, OfTask
    <3>. QED  BY <1>7, <2>1, <2>3, <3>1
  <2>4. ASSUME NEW i \in First(OfTask(Top.task)), taskport[i] = Top.msg, stack' = Pop,
               taskport' = RemoveAt(taskport, i), waiting' = waiting
        PROVE  AnswerInv'
    <3>1. i \in 1..Len(taskport) /\ Taken(i)
      BY <1>0, <2>4, RemoveTakes DEF First, OfTask
    <3>2. taskport[i].type # "update"
      BY <1>4, <2>1, <2>4 DEF FrameMsg
    <3>3. /\ Len(stack') = n - 1 /\ \A j \in 1..(n - 1) : stack'[j] = stack[j]
      BY <1>0, <1>3, <2>1, <2>4, PopShape
    <3>4. PICK k \in Nat : k = n - 1
      BY <1>4, <2>1
    <3>5. /\ k <= n /\ k <= Len(stack') /\ \A j \in 1..k : stack'[j] = stack[j]
          /\ \A j \in (k + 1)..n : stack[j].pc # "upd"
          /\ \A j \in (k + 1)..Len(stack') : stack'[j].pc # "upd"
      <4>1. \A j \in (k + 1)..n : j = n
        BY <3>4
      <4>. QED  BY <1>4, <2>1, <3>3, <3>4, <4>1
    <3>6. ASSUME NEW u \in Tasks PROVE Served(u)'
      <4>1. Handling(u)' = Handling(u)
        BY <1>0, <1>3, <3>5, HandlingSame
      <4>2. ~SyncUpdate(taskport[i], u)
        BY <3>2 DEF SyncUpdate
      <4>3. Served(u) /\ waiting'[u] = waiting[u]
        BY <2>4 DEF AnswerInv
      <4>4. /\ UpdatesOf(u) = {} => UpdatesOf(u)' = {}
            /\ (\E j \in UpdatesOf(u) : UpdatesOf(u) = {j}) =>
                  \E j \in UpdatesOf(u)' : UpdatesOf(u)' = {j}
        BY <1>0, <3>1, <4>2, TakenOther
      <4>. QED  BY <4>1, <4>3, <4>4, ServedSame
    <3>7. \A j \in 1..Len(stack') : FrameMsg(stack'[j])
      BY <1>3, <3>3 DEF AnswerInv
    <3>. QED  BY <1>2, <3>6, <3>7 DEF AnswerInv, FrameMsg
  <2>. QED  BY <1>13, <2>2, <2>3, <2>4 DEF WaitformsgScan
<1>14. CASE WaitformsgWakes
  <2>1. /\ stack # <<>> /\ Top.pc = "wfmWait" /\ stack' = Goto(F("wfm", Top.task, Top.msg))
        /\ UNCHANGED <<taskport, waiting>>
    BY <1>14 DEF WaitformsgWakes, AtTop
  <2>. QED  BY <1>6, <2>1
<1>15. CASE StarttaskReturns
  <2>1. stack # <<>> /\ Top.pc = "startK" /\ stack' = Pop /\ UNCHANGED <<taskport, waiting>>
    BY <1>15 DEF StarttaskReturns, AtTop
  <2>. QED  BY <1>2, <1>4, <2>1, ReturnPlain
<1>16. CASE MessageReturns
  <2>1. /\ stack # <<>> /\ Top.pc = "msgK" /\ stack' = DisposeIfMust(Pop, Top.task)
        /\ UNCHANGED <<taskport, waiting>>
    BY <1>16 DEF MessageReturns, AtTop
  <2>. QED  BY <1>2, <1>4, <2>1, ReturnPlain
<1>17. ASSUME NEW f \in Frame, NEW g \in Frame, NEW h \in Frame, stack # <<>>, Top.pc # "upd",
              Plain(f), Plain(g), Plain(h), UNCHANGED <<taskport, waiting>>,
              stack' = Goto(f) \o <<g, h>> \/ stack' = Goto(f) \o <<g>>
       PROVE  AnswerInv'
  <2>1. PICK r : r = Goto(f)
    OBVIOUS
  <2>2. /\ r \in Seq(Frame) /\ Len(r) = n /\ r[n] = f
        /\ \A i \in 1..(n - 1) : r[i] = stack[i]
    <3>1. stack \in Seq(Frame) /\ stack # <<>> /\ f \in Frame
      BY <1>0, <1>17
    <3>. QED  BY <1>3, <2>1, <3>1, GoonShape
  <2>3. n <= Len(stack') /\ (\A i \in 1..n : stack'[i] = r[i])
        /\ \A i \in (n + 1)..Len(stack') : stack'[i] \in {g, h}
    <3>1. CASE stack' = r \o <<g, h>>
      <4>1. r \in Seq(Frame) /\ g \in Frame /\ h \in Frame
        BY <2>2
      <4>2. /\ Len(stack') = Len(r) + 2 /\ (\A i \in 1..Len(r) : stack'[i] = r[i])
            /\ stack'[Len(r) + 1] = g /\ stack'[Len(r) + 2] = h
        BY <3>1, <4>1, PushedTwoShape
      <4>. QED  BY <2>2, <4>2
    <3>2. CASE stack' = r \o <<g>>
      <4>1. r \in Seq(Frame) /\ g \in Frame
        BY <2>2
      <4>2. /\ Len(stack') = Len(r) + 1 /\ (\A i \in 1..Len(r) : stack'[i] = r[i])
            /\ stack'[Len(r) + 1] = g
        BY <3>2, <4>1, PushedOneShape
      <4>. QED  BY <2>2, <4>2
    <3>. QED  BY <1>17, <2>1, <3>1, <3>2
  <2>4. n > 0
    BY <1>4, <1>17
  <2>5. /\ n - 1 <= Len(stack') /\ \A i \in 1..(n - 1) : stack'[i] = stack[i]
        /\ \A i \in n..Len(stack') : Plain(stack'[i])
    <3>1. \A i \in n..Len(stack') : i = n \/ i \in (n + 1)..Len(stack')
      BY <1>0
    <3>2. stack'[n] = f
      BY <2>2, <2>3, <2>4
    <3>. QED  BY <1>17, <2>2, <2>3, <2>4, <3>1, <3>2
  <2>. QED  BY <1>2, <1>3, <1>17, <2>5, AnswerPlain
<1>18. ASSUME NEW pc \in FramePCs \ {"upd", "wfm", "wfmWait"}, NEW t \in Tasks
       PROVE  F(pc, t, NoMsg) \in Frame /\ Plain(F(pc, t, NoMsg))
  BY FrameIn DEF Plain
<1>19. {"procure", "ptr", "stWait", "ddPtr", "ddFree"} \subseteq FramePCs \ {"upd", "wfm", "wfmWait"}
  BY DEF FramePCs
<1>20. CASE Dodisposetask
  <2>1. /\ stack # <<>> /\ Top.pc = "dd" /\ UNCHANGED <<taskport, waiting>>
        /\ stack' = Goto(F("ddPtr", Top.task, NoMsg))
                      \o <<F("procure", Top.task, NoMsg), F("ptr", Top.task, NoMsg)>>
    BY <1>20 DEF Dodisposetask, AtTop
  <2>2. Top.task \in Tasks
    BY <1>4, <2>1
  <2>. QED  BY <1>17, <1>18, <1>19, <2>1, <2>2
<1>21. CASE Procure
  <2>1. /\ stack # <<>> /\ Top.pc = "procure" /\ UNCHANGED <<taskport, waiting>>
        /\ stack' = Goto(F("stWait", Top.task, NoMsg))
    BY <1>21 DEF Procure, AtTop
  <2>. QED  BY <1>4, <1>5, <1>18, <1>19, <2>1
<1>22. CASE StoptaskWakes
  <2>1. /\ stack # <<>> /\ Top.pc = "stWait" /\ UNCHANGED <<taskport, waiting>>
        /\ \/ stack' = Pop \/ stack' = stack \/ stack' = Append(stack, F("ptr", Top.task, NoMsg))
    <3>1. CASE ssig /\ semaport # <<>> /\ Head(semaport) = Top.task
      BY <1>22, <3>1 DEF StoptaskWakes, AtTop
    <3>2. CASE ~(ssig /\ semaport # <<>> /\ Head(semaport) = Top.task)
      BY <1>22, <3>2 DEF StoptaskWakes, AtTop
    <3>. QED  BY <3>1, <3>2
  <2>2. CASE stack' = Pop
    BY <1>2, <1>4, <2>1, <2>2, ReturnPlain
  <2>3. CASE stack' = stack
    BY <1>2, <2>1, <2>3, AnswerUnmoved
  <2>4. CASE stack' = Append(stack, F("ptr", Top.task, NoMsg))
    <3>1. PICK f \in Frame : f = F("ptr", Top.task, NoMsg) /\ Plain(f)
      BY <1>4, <1>18, <1>19, <2>1
    <3>2. Len(stack') = n + 1 /\ (\A i \in 1..n : stack'[i] = stack[i]) /\ stack'[n + 1] = f
      BY <1>0, <1>3, <2>4, <3>1, PushedShape
    <3>3. Plain(Top) /\ Top = stack[n] /\ n > 0
      BY <1>4, <2>1 DEF Plain
    <3>4. \A i \in n..Len(stack') : i = n \/ i = n + 1
      BY <3>2
    <3>5. /\ n - 1 <= Len(stack') /\ \A i \in 1..(n - 1) : stack'[i] = stack[i]
          /\ \A i \in n..Len(stack') : Plain(stack'[i])
      BY <3>1, <3>2, <3>3, <3>4
    <3>. QED  BY <1>2, <1>3, <2>1, <3>5, AnswerPlain
  <2>. QED  BY <2>1, <2>2, <2>3, <2>4
<1>23. CASE DodisposetaskDrains
  <2>1. /\ stack # <<>> /\ Top.pc = "ddPtr" /\ UNCHANGED <<taskport, waiting>>
        /\ stack' = Goto(F("ddFree", Top.task, NoMsg)) \o <<F("ptr", Top.task, NoMsg)>>
    BY <1>23 DEF DodisposetaskDrains, AtTop
  <2>2. Top.task \in Tasks
    BY <1>4, <2>1
  <2>. QED  BY <1>17, <1>18, <1>19, <2>1, <2>2
<1>24. CASE DodisposetaskFrees
  <2>1. stack # <<>> /\ Top.pc = "ddFree" /\ stack' = Pop /\ UNCHANGED <<taskport, waiting>>
    BY <1>24 DEF DodisposetaskFrees, AtTop
  <2>. QED  BY <1>2, <1>4, <2>1, ReturnPlain
<1>. QED
  BY <1>8, <1>9, <1>10, <1>11, <1>12, <1>13, <1>14, <1>15, <1>16, <1>20, <1>21, <1>22,
     <1>23, <1>24 DEF MainStep

\* A message for a subtask that is no update.
LEMMA NoUpdatesPut ==
  ASSUME AnswerInv, NEW t \in Tasks, NEW m \in Message, m.type # "update", held' = held,
         subport' = subport \/ subport' = [subport EXCEPT ![t] = Append(@, m)]
  PROVE  \A u \in Tasks : NoUpdates(u)'
<1>1. subport \in [Tasks -> Seq(Message)]
  BY DEF AnswerInv, TypeOK
<1>2. ASSUME NEW u \in Tasks PROVE NoUpdates(u)'
  <2>1. NoUpdates(u)
    BY DEF AnswerInv
  <2>2. CASE subport'[u] = subport[u]
    BY <2>1, <2>2 DEF NoUpdates
  <2>3. CASE u = t /\ subport' = [subport EXCEPT ![t] = Append(@, m)]
    <3>1. subport[u] \in Seq(Message) /\ subport'[u] = Append(subport[u], m)
      BY <1>1, <2>3
    <3>2. PICK q \in Seq(Message) : q = subport[u]
      BY <3>1
    <3>3. Len(subport'[u]) = Len(q) + 1 /\ subport'[u][Len(q) + 1] = m
          /\ \A i \in 1..Len(q) : subport'[u][i] = q[i]
      BY <3>1, <3>2, PushFacts
    <3>4. \A i \in 1..Len(subport'[u]) : i \in 1..Len(q) \/ i = Len(q) + 1
      BY <3>2, <3>3
    <3>. QED  BY <2>1, <3>2, <3>3, <3>4 DEF NoUpdates
  <2>4. subport'[u] = subport[u] \/ (u = t /\ subport' = [subport EXCEPT ![t] = Append(@, m)])
    BY <1>1
  <2>. QED  BY <2>2, <2>3, <2>4
<1>. QED  BY <1>2

LEMMA AnswerCall ==
  ASSUME AnswerInv, TypeOK', UNCHANGED <<taskport, waiting>>, \A u \in Tasks : NoUpdates(u)',
         NEW f \in Frame, NEW g \in Frame, f.pc # "upd", g.pc # "upd", FrameMsg(f), FrameMsg(g),
         stack' = stack \o <<f, g>> \/ stack' = Append(stack, f) \/ stack' = stack
  PROVE  AnswerInv'
<1>1. stack \in Seq(Frame)
  BY DEF AnswerInv, TypeOK
<1>2. PICK n \in Nat : n = Len(stack)
  BY <1>1
<1>3. /\ n <= Len(stack') /\ \A i \in 1..n : stack'[i] = stack[i]
      /\ \A i \in (n + 1)..Len(stack') : stack'[i] \in {f, g}
  <2>1. CASE stack' = stack \o <<f, g>>
    <3>1. /\ Len(stack') = n + 2 /\ (\A i \in 1..n : stack'[i] = stack[i])
          /\ stack'[n + 1] = f /\ stack'[n + 2] = g
      BY <1>1, <1>2, <2>1, PushedTwoShape
    <3>. QED  BY <3>1
  <2>2. CASE stack' = Append(stack, f)
    <3>1. /\ Len(stack') = n + 1 /\ (\A i \in 1..n : stack'[i] = stack[i])
          /\ stack'[n + 1] = f
      BY <1>1, <1>2, <2>2, PushedShape
    <3>. QED  BY <3>1
  <2>3. CASE stack' = stack
    BY <1>2, <2>3
  <2>. QED  BY <2>1, <2>2, <2>3
<1>4. /\ n <= n /\ \A i \in (n + 1)..n : stack[i].pc # "upd"
      /\ \A i \in (n + 1)..Len(stack') : stack'[i].pc # "upd" /\ FrameMsg(stack'[i])
  BY <1>3
<1>. QED  BY <1>2, <1>3, <1>4, AnswerStack

\* A message that main or a subtask sends.
LEMMA SomeMsg ==
  ASSUME NEW type \in MsgTypes, NEW t \in Tasks, NEW async \in BOOLEAN, NEW id \in Nat
  PROVE  \E m \in Message : /\ m = Msg(type, t, async, id) /\ m.type = type /\ m.task = t
                            /\ m.async = async
<1>1. /\ Msg(type, t, async, id) \in Message /\ Msg(type, t, async, id).type = type
      /\ Msg(type, t, async, id).task = t /\ Msg(type, t, async, id).async = async
  BY MsgIn DEF Msg
<1>. QED  BY <1>1

LEMMA MsgNames ==
  {"startup", "update", "set", "msg", "suspend", "release"} \subseteq MsgTypes /\ FALSE \in BOOLEAN
BY DEF MsgTypes

LEMMA SomeSyncMsg ==
  ASSUME NEW type \in {"startup", "set"}, NEW t \in Tasks
  PROVE  /\ Msg(type, t, FALSE, 0) \in Message /\ Msg(type, t, FALSE, 0).type = type
         /\ Msg(type, t, FALSE, 0).task = t /\ Msg(type, t, FALSE, 0).async = FALSE
BY DEF Msg, Message, MsgTypes

LEMMA AnswerClient ==
  ASSUME AnswerInv, TypeOK', Client
  PROVE  AnswerInv'
<1>. USE DEF mainVars, flagVars, semaVars, subVars
<1>. SUFFICES ASSUME NEW t \in Tasks,
                     \/ Starttask(t) \/ Stopasync(t) \/ Disposetask(t) \/ Asetattrsasync(t)
                     \/ \E async \in BOOLEAN :
                           Messagetask(t, async) \/ \E data \in BOOLEAN : Setsuspend(t, data, async)
              PROVE  AnswerInv'
  BY DEF Client
<1>0. stack \in Seq(Frame) /\ Len(stack) \in Nat
  BY DEF AnswerInv, TypeOK
<1>1. UNCHANGED <<taskport, waiting, held>>
  BY DEF Starttask, Stopasync, Disposetask, Asetattrsasync, Messagetask, Setsuspend
<1>2. ASSUME subport' = subport PROVE \A u \in Tasks : NoUpdates(u)'
  BY <1>1, <1>2 DEF AnswerInv, NoUpdates
<1>3. ASSUME NEW pc \in FramePCs \ {"upd", "wfm", "wfmWait"}, NEW m \in Message \cup {NoMsg}
      PROVE  F(pc, t, m) \in Frame /\ F(pc, t, m).pc # "upd" /\ FrameMsg(F(pc, t, m))
  <2>1. F(pc, t, m) \in Frame /\ F(pc, t, m).pc = pc
    BY <1>3, FrameIn
  <2>. QED  BY <2>1 DEF FrameMsg
<1>4. ASSUME NEW m \in Message, m.type # "update", m.task = t
      PROVE  F("wfm", t, m) \in Frame /\ F("wfm", t, m).pc # "upd" /\ FrameMsg(F("wfm", t, m))
  <2>1. /\ F("wfm", t, m) \in Frame /\ F("wfm", t, m).pc = "wfm" /\ F("wfm", t, m).task = t
        /\ F("wfm", t, m).msg = m
    BY <1>4, FrameIn DEF FramePCs
  <2>. QED  BY <1>4, <2>1 DEF FrameMsg
<1>5. {"startK", "msgK", "dd"} \subseteq FramePCs \ {"upd", "wfm", "wfmWait"}
  BY DEF FramePCs
<1>6. ASSUME NEW m \in Message, m.type # "update", m.task = t, NEW there, Put(t, m, there)
      PROVE  AnswerInv'
  <2>1. \A u \in Tasks : NoUpdates(u)'
    <3>1. subport' = subport \/ subport' = [subport EXCEPT ![t] = Append(@, m)]
      BY <1>6 DEF Put
    <3>. QED  BY <1>1, <1>6, <3>1, NoUpdatesPut
  <2>2. PICK f \in Frame : f = F("msgK", t, m) /\ f.pc # "upd" /\ FrameMsg(f)
    BY <1>3, <1>5
  <2>3. PICK g \in Frame : g = F("wfm", t, m) /\ g.pc # "upd" /\ FrameMsg(g)
    BY <1>4, <1>6
  <2>4. PICK h \in Frame : h = F("dd", t, NoMsg) /\ h.pc # "upd" /\ FrameMsg(h)
    BY <1>3, <1>5
  <2>5. stack' = stack \/ stack' = stack \o <<f, g>> \/ stack' = Append(stack, h)
    BY <1>6, <2>2, <2>3, <2>4 DEF Put, DisposeIfMust
  <2>. QED  BY <1>1, <2>1, <2>2, <2>3, <2>4, <2>5, AnswerCall
<1>7. CASE Starttask(t)
  <2>1. PICK f \in Frame : f = F("startK", t, NoMsg) /\ f.pc # "upd" /\ FrameMsg(f)
    BY <1>3, <1>5
  <2>2. PICK m \in Message : m = Msg("startup", t, FALSE, 0) /\ m.type = "startup" /\ m.task = t
    <3>1. "startup" \in {"startup", "set"}
      OBVIOUS
    <3>2. /\ Msg("startup", t, FALSE, 0) \in Message /\ Msg("startup", t, FALSE, 0).type = "startup"
          /\ Msg("startup", t, FALSE, 0).task = t
      BY <3>1, SomeSyncMsg
    <3>. QED  BY <3>2
  <2>3. PICK g \in Frame : g = F("wfm", t, m) /\ g.pc # "upd" /\ FrameMsg(g)
    BY <1>4, <2>2
  <2>4. stack' = stack \/ stack' = stack \o <<f, g>>
    BY <1>7, <2>1, <2>2, <2>3 DEF Starttask
  <2>5. subport' = subport
    BY <1>7 DEF Starttask
  <2>. QED  BY <1>1, <1>2, <2>1, <2>3, <2>4, <2>5, AnswerCall
<1>8. CASE Stopasync(t)
  BY <1>1, <1>2, <1>8, AnswerUnmoved DEF Stopasync
<1>9. CASE Disposetask(t)
  <2>1. PICK f \in Frame : f = F("dd", t, NoMsg) /\ f.pc # "upd" /\ FrameMsg(f)
    BY <1>3, <1>5
  <2>2. stack' = stack \/ stack' = Append(stack, f)
    BY <1>9, <2>1 DEF Disposetask
  <2>3. subport' = subport
    BY <1>9 DEF Disposetask
  <2>. QED  BY <1>1, <1>2, <2>1, <2>2, <2>3, AnswerCall
<1>10. CASE Asetattrsasync(t)
  <2>1. PICK m \in Message : m = Msg("set", t, FALSE, 0) /\ m.type = "set"
    <3>1. "set" \in {"startup", "set"}
      OBVIOUS
    <3>2. /\ Msg("set", t, FALSE, 0) \in Message /\ Msg("set", t, FALSE, 0).type = "set"
          /\ Msg("set", t, FALSE, 0).task = t
      BY <3>1, SomeSyncMsg
    <3>. QED  BY <3>2
  <2>2. /\ stack' = stack
        /\ subport' = subport \/ subport' = [subport EXCEPT ![t] = Append(@, m)]
    BY <1>10, <2>1 DEF Asetattrsasync
  <2>. QED  BY <1>1, <2>1, <2>2, NoUpdatesPut, AnswerUnmoved
<1>11. \A async \in BOOLEAN : (IF async THEN 0 ELSE Len(stack) + 1) \in Nat
  BY <1>0
<1>12. ASSUME NEW async \in BOOLEAN, Messagetask(t, async) PROVE AnswerInv'
  <2>1. PICK m \in Message : m = Msg("msg", t, async, IF async THEN 0 ELSE Len(stack) + 1)
                             /\ m.type = "msg" /\ m.task = t
    BY <1>11, MsgNames, SomeMsg
  <2>. QED  BY <1>6, <1>12, <2>1 DEF Messagetask
<1>13. ASSUME NEW async \in BOOLEAN, NEW data \in BOOLEAN, Setsuspend(t, data, async)
       PROVE  AnswerInv'
  <2>1. PICK m \in Message : m = Msg("suspend", t, async, IF async THEN 0 ELSE Len(stack) + 1)
                             /\ m.type = "suspend" /\ m.task = t
    BY <1>11, MsgNames, SomeMsg
  <2>2. CASE data
    BY <1>6, <1>13, <2>1, <2>2 DEF Setsuspend
  <2>3. CASE ~data
    <3>1. UNCHANGED <<stack, subport>>
      BY <1>13, <2>3 DEF Setsuspend
    <3>. QED  BY <1>1, <1>2, <3>1, AnswerUnmoved
  <2>. QED  BY <2>2, <2>3
<1>. QED  BY <1>7, <1>8, <1>9, <1>10, <1>12, <1>13

\* A subtask answers, or sends what nobody waits for.
LEMMA AnswerSent ==
  ASSUME AnswerInv, TypeOK', UNCHANGED <<stack, waiting>>, \A u \in Tasks : NoUpdates(u)',
         NEW ms \in Seq(Message), ToMain(ms),
         \A i \in 1..Len(ms) : ms[i].type # "update" \/ ms[i].async
  PROVE  AnswerInv'
<1>1. taskport \in Seq(Message)
  BY DEF AnswerInv, TypeOK
<1>2. Added(ms)
  BY <1>1, ToMainAdds
<1>3. ASSUME NEW u \in Tasks PROVE Served(u)'
  <2>1. \A i \in 1..Len(ms) : ~SyncUpdate(ms[i], u)
    BY DEF SyncUpdate
  <2>2. UpdatesOf(u)' = UpdatesOf(u)
    BY <1>1, <1>2, <2>1, AddedOther
  <2>3. Handling(u)' = Handling(u)
    BY DEF Handling, UpdateCalls
  <2>4. Served(u)
    BY DEF AnswerInv
  <2>. QED  BY <2>2, <2>3, <2>4, ServedSame
<1>4. \A i \in 1..Len(stack') : FrameMsg(stack'[i])
  BY DEF AnswerInv
<1>. QED  BY <1>3, <1>4 DEF AnswerInv, FrameMsg

\* Message i goes out of a subtask's port.
LEMMA NoUpdatesGet ==
  ASSUME AnswerInv, NEW t \in Tasks, NEW i \in 1..Len(subport[t]),
         subport' = [subport EXCEPT ![t] = RemoveAt(@, i)], held' = held
  PROVE  \A u \in Tasks : NoUpdates(u)'
<1>1. subport \in [Tasks -> Seq(Message)]
  BY DEF AnswerInv, TypeOK
<1>2. ASSUME NEW u \in Tasks PROVE NoUpdates(u)'
  <2>1. NoUpdates(u)
    BY DEF AnswerInv
  <2>2. CASE u # t
    <3>1. subport'[u] = subport[u]
      BY <1>1, <2>2
    <3>. QED  BY <2>1, <3>1 DEF NoUpdates
  <2>3. CASE u = t
    <3>1. subport[t] \in Seq(Message) /\ subport'[t] = RemoveAt(subport[t], i)
      BY <1>1
    <3>2. \A j \in 1..Len(subport'[t]) : \E k \in 1..Len(subport[t]) : subport'[t][j] = subport[t][k]
      BY <3>1, RemoveAtElements
    <3>. QED  BY <2>1, <2>3, <3>2 DEF NoUpdates
  <2>. QED  BY <2>2, <2>3
<1>. QED  BY <1>2

LEMMA AnswerSubtask ==
  ASSUME AnswerInv, TypeOK', NEW t \in Tasks, SubtaskStep(t) \/ SubtaskWork(t)
  PROVE  AnswerInv'
<1>. USE DEF mainVars, flagVars, semaVars, subVars
<1>0. /\ TypeOK /\ taskport \in Seq(Message) /\ subport \in [Tasks -> Seq(Message)]
      /\ held \in [Tasks -> Message \cup {NoMsg}] /\ NoMsg \notin Message
  BY TaskAssumption DEF AnswerInv, TypeOK
<1>1. ASSUME UNCHANGED <<subport, held>> PROVE \A u \in Tasks : NoUpdates(u)'
  BY <1>1 DEF AnswerInv, NoUpdates
<1>2. \A m : m \in Message => <<m>> \in Seq(Message) /\ Len(<<m>>) = 1 /\ <<m>>[1] = m
  OBVIOUS
<1>3. ASSUME NEW m \in Message, ToMain(<<m>>), m.type # "update" \/ m.async,
             UNCHANGED <<stack, waiting>>, \A u \in Tasks : NoUpdates(u)'
      PROVE  AnswerInv'
  <2>1. PICK ms \in Seq(Message) : ms = <<m>> /\ Len(ms) = 1 /\ ms[1] = m
    BY <1>2
  <2>2. \A i \in 1..Len(ms) : ms[i].type # "update" \/ ms[i].async
    BY <1>3, <2>1
  <2>. QED  BY <1>3, <2>1, <2>2, AnswerSent
<1>4. ASSUME NEW i \in 1..Len(subport[t])
      PROVE  subport[t][i] \in Message /\ subport[t][i].type # "update"
  <2>1. subport[t] \in Seq(Message)
    BY <1>0
  <2>2. subport[t][i] \in Message
    BY <2>1
  <2>. QED  BY <2>2 DEF AnswerInv, NoUpdates
<1>5. CASE SubtaskStarts(t)
  <2>1. PICK m \in Message : m = Msg("startup", t, FALSE, 0) /\ m.type = "startup"
    <3>1. "startup" \in {"startup", "set"}
      OBVIOUS
    <3>2. /\ Msg("startup", t, FALSE, 0) \in Message /\ Msg("startup", t, FALSE, 0).type = "startup"
          /\ Msg("startup", t, FALSE, 0).task = t
      BY <3>1, SomeSyncMsg
    <3>. QED  BY <3>2
  <2>2. ToMain(<<m>>) /\ UNCHANGED <<stack, waiting, subport, held>>
    BY <1>5, <2>1 DEF SubtaskStarts
  <2>. QED  BY <1>1, <1>3, <2>1, <2>2
<1>6. CASE Gettaskmsg(t)
  <2>1. CASE /\ held' = [held EXCEPT ![t] = Head(subport[t])]
             /\ subport' = [subport EXCEPT ![t] = Tail(@)]
             /\ UNCHANGED <<taskport, tsig, tstate, spc>>
    <3>1. PICK q \in Seq(Message) : q = subport[t] /\ q # <<>>
      BY <1>0, <1>6 DEF Gettaskmsg
    <3>2. /\ Head(q) = q[1] /\ 1 \in 1..Len(q)
          /\ \A i \in 1..Len(Tail(q)) : i + 1 \in 1..Len(q) /\ Tail(q)[i] = q[i + 1]
      BY <3>1
    <3>3. ASSUME NEW u \in Tasks PROVE NoUpdates(u)'
      <4>1. NoUpdates(u)
        BY DEF AnswerInv
      <4>2. CASE u # t
        <5>1. subport'[u] = subport[u] /\ held'[u] = held[u]
          BY <1>0, <2>1, <4>2
        <5>. QED  BY <4>1, <5>1 DEF NoUpdates
      <4>3. CASE u = t
        <5>1. subport'[u] = Tail(q) /\ held'[u] = Head(q)
          BY <1>0, <2>1, <3>1, <4>3
        <5>. QED  BY <4>1, <4>3, <3>1, <3>2, <5>1 DEF NoUpdates
      <4>. QED  BY <4>2, <4>3
    <3>4. UNCHANGED <<stack, waiting, taskport>>
      BY <1>6, <2>1 DEF Gettaskmsg
    <3>. QED  BY <3>3, <3>4, AnswerUnmoved
  <2>2. ASSUME NEW i \in First(Special(t)), ToMain(<<subport[t][i]>>), held' = held,
               subport' = [subport EXCEPT ![t] = RemoveAt(@, i)]
        PROVE  AnswerInv'
    <3>1. i \in 1..Len(subport[t])
      BY DEF First, Special
    <3>2. UNCHANGED <<stack, waiting>>
      BY <1>6 DEF Gettaskmsg
    <3>. QED  BY <1>3, <1>4, <2>2, <3>1, <3>2, NoUpdatesGet
  <2>. QED  BY <1>6, <2>1, <2>2 DEF Gettaskmsg
<1>7. CASE GettaskmsgSuspended(t)
  <2>1. PICK i \in First(Urgent(t)) :
           ToMain(<<subport[t][i]>>) /\ subport' = [subport EXCEPT ![t] = RemoveAt(@, i)]
    BY <1>7 DEF GettaskmsgSuspended
  <2>2. i \in 1..Len(subport[t])
    BY DEF First, Urgent, Special
  <2>3. UNCHANGED <<stack, waiting, held>>
    BY <1>7 DEF GettaskmsgSuspended
  <2>. QED  BY <1>3, <1>4, <2>1, <2>2, <2>3, NoUpdatesGet
<1>8. CASE Replytaskmsg(t)
  <2>1. held[t] \in Message /\ held[t].type # "update"
    BY <1>0, <1>8 DEF Replytaskmsg, AnswerInv, NoUpdates
  <2>2. /\ ToMain(<<held[t]>>) /\ UNCHANGED <<stack, waiting, subport>>
        /\ held' = [held EXCEPT ![t] = NoMsg]
    BY <1>8 DEF Replytaskmsg
  <2>3. ASSUME NEW u \in Tasks PROVE NoUpdates(u)'
    <3>1. held'[u] = held[u] \/ held'[u] = NoMsg
      BY <1>0, <2>2
    <3>. QED  BY <2>2, <3>1 DEF AnswerInv, NoUpdates
  <2>. QED  BY <1>3, <2>1, <2>2, <2>3
<1>9. CASE SubtaskStops(t) \/ SubtaskReleases(t) \/ SubtaskDone(t)
  <2>1. UNCHANGED <<stack, waiting, taskport, subport, held>>
    BY <1>9 DEF SubtaskStops, SubtaskReleases, SubtaskDone
  <2>. QED  BY <1>1, <2>1, AnswerUnmoved
<1>10. CASE SubtaskEnds(t)
  <2>1. /\ ToMain(subport[t]) /\ UNCHANGED <<stack, waiting, held>>
        /\ subport' = [subport EXCEPT ![t] = <<>>]
    BY <1>10 DEF SubtaskEnds
  <2>2. PICK ms \in Seq(Message) : ms = subport[t]
    BY <1>0
  <2>3. \A i \in 1..Len(ms) : ms[i].type # "update" \/ ms[i].async
    BY <1>4, <2>2
  <2>4. ASSUME NEW u \in Tasks PROVE NoUpdates(u)'
    <3>1. subport'[u] = subport[u] \/ subport'[u] = <<>>
      BY <1>0, <2>1
    <3>. QED  BY <2>1, <3>1 DEF AnswerInv, NoUpdates
  <2>. QED  BY <2>1, <2>2, <2>3, <2>4, AnswerSent
<1>11. ASSUME NEW async \in BOOLEAN, Updatetaskattrs(t, async)
       PROVE  AnswerInv'
  <2>1. PICK m \in Message : /\ m = Msg("update", t, async, 0) /\ m.type = "update"
                             /\ m.task = t /\ m.async = async
    BY MsgNames, SomeMsg
  <2>2. /\ ToMain(<<m>>) /\ UNCHANGED <<stack, subport, held>> /\ ~waiting[t]
        /\ waiting' = [waiting EXCEPT ![t] = ~async]
    BY <1>11, <2>1 DEF Updatetaskattrs, Running
  <2>3. waiting \in [Tasks -> BOOLEAN]
    BY <1>0 DEF TypeOK
  <2>4. Added(<<m>>) /\ <<m>> \in Seq(Message)
    BY <1>0, <1>2, <2>2, ToMainAdds
  <2>5. ASSUME NEW u \in Tasks PROVE Served(u)'
    <3>1. Served(u) /\ Handling(u)' = Handling(u)
      BY <2>2 DEF AnswerInv, Handling, UpdateCalls
    <3>2. CASE u = t /\ ~async
      <4>1. UpdatesOf(u) = {} /\ Handling(u) = {} /\ waiting'[u]
        BY <2>2, <2>3, <3>1, <3>2 DEF Served
      <4>2. SyncUpdate(m, u)
        BY <2>1, <3>2 DEF SyncUpdate
      <4>3. \E i \in UpdatesOf(u)' : UpdatesOf(u)' = {i}
        BY <1>0, <2>4, <4>1, <4>2, AddedUpdate
      <4>. QED  BY <3>1, <4>1, <4>3 DEF Served
    <3>3. CASE ~(u = t /\ ~async)
      <4>1. waiting'[u] = waiting[u]
        BY <2>2, <2>3, <3>3
      <4>2. \A i \in 1..Len(<<m>>) : ~SyncUpdate(<<m>>[i], u)
        BY <1>2, <2>1, <3>3 DEF SyncUpdate
      <4>3. PICK ms : ms = <<m>>
        OBVIOUS
      <4>4. UpdatesOf(u)' = UpdatesOf(u)
        BY <1>0, <2>4, <4>2, <4>3, AddedOther
      <4>. QED  BY <3>1, <4>1, <4>4, ServedSame
    <3>. QED  BY <3>2, <3>3
  <2>6. \A i \in 1..Len(stack') : FrameMsg(stack'[i])
    BY <2>2 DEF AnswerInv
  <2>7. \A u \in Tasks : NoUpdates(u)'
    BY <1>1, <2>2
  <2>. QED  BY <2>5, <2>6, <2>7 DEF AnswerInv, FrameMsg
<1>. QED
  BY <1>5, <1>6, <1>7, <1>8, <1>9, <1>10, <1>11 DEF SubtaskStep, SubtaskWork

LEMMA AnswerInit ==
  ASSUME Init
  PROVE  AnswerInv
<1>1. TypeOK
  BY TypeInit
<1>2. /\ stack = <<>> /\ taskport = <<>>
      /\ \A t \in Tasks : subport[t] = <<>> /\ held[t] = NoMsg /\ ~waiting[t]
  BY DEF Init
<1>3. \A t \in Tasks : UpdatesOf(t) = {} /\ Handling(t) = {}
  BY <1>2 DEF UpdatesOf, OfTask, Handling, UpdateCalls
<1>4. \A t \in Tasks : NoUpdates(t) /\ Served(t)
  BY <1>2, <1>3 DEF NoUpdates, Served
<1>5. \A i \in 1..Len(stack) : FrameMsg(stack[i])
  BY <1>2
<1>. QED  BY <1>1, <1>4, <1>5 DEF AnswerInv

LEMMA AnswerNext ==
  ASSUME AnswerInv, [Next]_vars
  PROVE  AnswerInv'
<1>1. TypeOK'
  BY TypeNext DEF AnswerInv
<1>2. CASE MainStep
  BY <1>1, <1>2, AnswerMain
<1>3. CASE Client
  BY <1>1, <1>3, AnswerClient
<1>4. ASSUME NEW t \in Tasks, SubtaskStep(t) \/ SubtaskWork(t) PROVE AnswerInv'
  BY <1>1, <1>4, AnswerSubtask
<1>5. CASE UNCHANGED vars
  <2>1. UNCHANGED <<stack, waiting, taskport, subport, held>>
    BY <1>5 DEF vars, mainVars, flagVars, semaVars, subVars
  <2>2. \A t \in Tasks : NoUpdates(t)'
    BY <2>1 DEF AnswerInv, NoUpdates
  <2>. QED  BY <1>1, <2>1, <2>2, AnswerUnmoved
<1>. QED  BY <1>2, <1>3, <1>4, <1>5 DEF Next

\* The invariant of the answers holds in every reachable state.
THEOREM AnswerInvariant == Spec => []AnswerInv
BY AnswerInit, AnswerNext, PTL DEF Spec

\* Whatever AWeb and the targets do with task objects, a subtask that waits in
\* Updatetask() has its message in main's port or in the hands of one call of
\* Processreply(), in one of them and once: it is answered once.
THEOREM WaitingServed == Spec => []WaitingIsServed
<1>1. ASSUME AnswerInv PROVE WaitingIsServed
  <2>. SUFFICES ASSUME NEW t \in Tasks
                PROVE  Cardinality(UpdatesOf(t)) + Cardinality(Handling(t))
                          = IF waiting[t] THEN 1 ELSE 0
    BY DEF WaitingIsServed
  <2>1. Served(t)
    BY <1>1 DEF AnswerInv
  <2>2. Cardinality({}) = 0
    BY FS_EmptySet
  <2>3. \A S : (\E i \in S : S = {i}) => Cardinality(S) = 1
    BY FS_Singleton
  <2>4. CASE ~waiting[t] /\ UpdatesOf(t) = {} /\ Handling(t) = {}
    BY <2>2, <2>4
  <2>5. CASE waiting[t] /\ (\E i \in UpdatesOf(t) : UpdatesOf(t) = {i}) /\ Handling(t) = {}
    <3>1. Cardinality(UpdatesOf(t)) = 1 /\ Cardinality(Handling(t)) = 0
      BY <2>2, <2>3, <2>5
    <3>. QED  BY <2>5, <3>1
  <2>6. CASE waiting[t] /\ UpdatesOf(t) = {} /\ (\E i \in Handling(t) : Handling(t) = {i})
    <3>1. Cardinality(UpdatesOf(t)) = 0 /\ Cardinality(Handling(t)) = 1
      BY <2>2, <2>3, <2>6
    <3>. QED  BY <2>6, <3>1
  <2>. QED  BY <2>1, <2>4, <2>5, <2>6 DEF Served
<1>. QED  BY <1>1, AnswerInvariant, PTL

-----------------------------------------------------------------------------
(* Main's nested calls. *)

\* A target that handles an update disposes of no task object.
Frees == HandlerOps \cap {"dispose", "disposeother"} # {}

\* What the clients of task objects keep to: a target sends its subtask no
\* message while it handles an update, and where the event loop waits for
\* replies of subtasks no target disposes of task objects.
CarefulClients ==
  /\ HandlerOps \cap {"message", "suspend"} = {}
  /\ "sync" \in ClientOps => ~Frees

Startup(t) == Msg("startup", t, FALSE, 0)

\* A message that main waits for is not lost.
Underway(m) ==
  \/ Contains(taskport, m) \/ Contains(subport[m.task], m) \/ held[m.task] = m
  \/ m.type = "startup" /\ spc[m.task] = "start"

\* The startup message is the first that a subtask sends.
StartupFirst(t) ==
  /\ spc[t] = "start" \/ OfTask(t) # {}
  /\ \A k \in First(OfTask(t)) : taskport[k] = Startup(t)

Awaits(t, m) ==
  /\ spc[t] # "none" /\ Underway(m)
  /\ m.type = "startup" => m = Startup(t) /\ StartupFirst(t)
  /\ m.type # "startup" => ~Frees

WaitPCs == {"wfm", "wfmWait"}

\* A call of main and the state of its task object.
FrameOK(f) ==
  /\ f.pc = "upd" => processing[f.task] /\ spc[f.task] \notin {"none", "start"}
  /\ f.pc = "ptr" => disposing[f.task]
  /\ f.pc \in WaitPCs => Awaits(f.task, f.msg)
  /\ f.pc = "msgK" => ~Frees
  /\ mustdispose[f.task] => f.pc \in {"upd", "ptTail", "dd"}
  /\ tstate[f.task] = "freed" => f.pc = "ptTail"

\* Two calls of main: g was made inside f.
PairOK(f, g) ==
  /\ f.pc = "upd" => g.task # f.task
  /\ g.pc \in {"dd", "ddPtr", "ddFree"} /\ f.task = g.task => f.pc = "ptTail"
  /\ f.pc = "wfm" => f.msg.type # "startup" /\ (g.task = f.task => g.pc = "upd")
  /\ f.pc \notin {"wfmWait", "dd"}
  /\ f.pc = "startK" => g.pc \in WaitPCs /\ g.msg.type = "startup"

FramesOK == \A i \in 1..Len(stack) : FrameOK(stack[i])

PairsOK == \A j \in 1..Len(stack) : \A i \in 1..(j - 1) : PairOK(stack[i], stack[j])

Handled == \A t \in Tasks : processing[t] => UpdateCalls(t) # {}

CallsInv == FramesOK /\ PairsOK /\ Handled

\* Call f may be made inside the k outermost ones.
Fits(k, f) == \A i \in 1..k : PairOK(stack[i], f)

\* The k outermost calls stay, and agree with the new state.
Lower(k) ==
  /\ k \in 0..Len(stack) /\ k <= Len(stack')
  /\ \A i \in 1..k : stack'[i] = stack[i]
  /\ \A f \in Frame : \A i \in 1..k : stack[i] = f => FrameOK(f)'

LEMMA NoCall ==
  ASSUME stack \in Seq(Frame), PairsOK, NEW k, Lower(k), Len(stack') = k, Handled'
  PROVE  CallsInv'
<1>1. Len(stack) \in Nat /\ k \in Nat /\ k <= Len(stack) /\ \A i \in 1..k : stack[i] \in Frame
  BY DEF Lower
<1>2. FramesOK'
  <2>1. ASSUME NEW i \in 1..k PROVE FrameOK(stack[i])'
    <3>1. PICK f \in Frame : f = stack[i] /\ f = stack'[i]
      BY <1>1 DEF Lower
    <3>2. FrameOK(f)'
      BY <3>1 DEF Lower
    <3>. QED  BY <3>1, <3>2 DEF FrameOK
  <2>. QED  BY <2>1 DEF FramesOK
<1>3. PairsOK'
  <2>1. ASSUME NEW j \in 1..k, NEW i \in 1..(j - 1) PROVE PairOK(stack'[i], stack'[j])
    <3>1. j \in 1..Len(stack) /\ i \in 1..k /\ stack'[i] = stack[i] /\ stack'[j] = stack[j]
      BY <1>1 DEF Lower
    <3>. QED  BY <3>1 DEF PairsOK
  <2>. QED  BY <2>1 DEF PairsOK
<1>. QED  BY <1>2, <1>3 DEF CallsInv

LEMMA OneCall ==
  ASSUME stack \in Seq(Frame), PairsOK, NEW k, Lower(k), Handled',
         NEW f \in Frame, Len(stack') = k + 1, stack'[k + 1] = f, FrameOK(f)', Fits(k, f)
  PROVE  CallsInv'
<1>1. Len(stack) \in Nat /\ k \in Nat /\ k <= Len(stack) /\ \A i \in 1..k : stack[i] \in Frame
  BY DEF Lower
<1>2. FramesOK'
  <2>1. ASSUME NEW i \in 1..k PROVE FrameOK(stack[i])'
    <3>1. PICK g \in Frame : g = stack[i] /\ g = stack'[i]
      BY <1>1 DEF Lower
    <3>2. FrameOK(g)'
      BY <3>1 DEF Lower
    <3>. QED  BY <3>1, <3>2 DEF FrameOK
  <2>2. FrameOK(stack[k + 1])'
    BY DEF FrameOK
  <2>3. \A i \in 1..(k + 1) : i \in 1..k \/ i = k + 1
    BY <1>1
  <2>. QED  BY <2>1, <2>2, <2>3 DEF FramesOK
<1>3. PairsOK'
  <2>1. ASSUME NEW j \in 1..k, NEW i \in 1..(j - 1) PROVE PairOK(stack'[i], stack'[j])
    <3>1. j \in 1..Len(stack) /\ i \in 1..k /\ stack'[i] = stack[i] /\ stack'[j] = stack[j]
      BY <1>1 DEF Lower
    <3>. QED  BY <3>1 DEF PairsOK
  <2>2. ASSUME NEW i \in 1..k PROVE PairOK(stack'[i], stack'[k + 1])
    <3>1. stack'[i] = stack[i] /\ PairOK(stack[i], f)
      BY DEF Lower, Fits
    <3>. QED  BY <3>1
  <2>3. \A j \in 1..(k + 1) : j \in 1..k \/ (j = k + 1 /\ j - 1 = k)
    BY <1>1
  <2>. QED  BY <2>1, <2>2, <2>3 DEF PairsOK
<1>. QED  BY <1>2, <1>3 DEF CallsInv

\* Two calls at once; the same with a third.
LEMMA MoreCalls ==
  ASSUME stack \in Seq(Frame), PairsOK, NEW k, Lower(k), Handled',
         NEW f \in Frame, NEW g \in Frame, NEW h \in Frame,
         stack'[k + 1] = f, stack'[k + 2] = g,
         FrameOK(f)', FrameOK(g)', Fits(k, f), Fits(k, g), PairOK(f, g),
         \/ Len(stack') = k + 2
         \/ /\ Len(stack') = k + 3 /\ stack'[k + 3] = h
            /\ FrameOK(h)' /\ Fits(k, h) /\ PairOK(f, h) /\ PairOK(g, h)
  PROVE  CallsInv'
<1>1. Len(stack) \in Nat /\ k \in Nat /\ k <= Len(stack) /\ \A i \in 1..k : stack[i] \in Frame
  BY DEF Lower
<1>2. PICK p \in Nat : p = Len(stack') /\ p \in {k + 2, k + 3}
  BY <1>1
<1>3. \A i \in 1..p : \/ i \in 1..k \/ i = k + 1 \/ i = k + 2
                      \/ /\ i = k + 3 /\ stack'[k + 3] = h
                         /\ FrameOK(h)' /\ Fits(k, h) /\ PairOK(f, h) /\ PairOK(g, h)
  BY <1>1, <1>2
<1>4. FramesOK'
  <2>1. ASSUME NEW i \in 1..k PROVE FrameOK(stack[i])'
    <3>1. PICK e \in Frame : e = stack[i] /\ e = stack'[i]
      BY <1>1 DEF Lower
    <3>2. FrameOK(e)'
      BY <3>1 DEF Lower
    <3>. QED  BY <3>1, <3>2 DEF FrameOK
  <2>2. FrameOK(stack[k + 1])' /\ FrameOK(stack[k + 2])'
    BY DEF FrameOK
  <2>3. stack'[k + 3] = h /\ FrameOK(h)' => FrameOK(stack[k + 3])'
    BY DEF FrameOK
  <2>. QED  BY <1>2, <1>3, <2>1, <2>2, <2>3 DEF FramesOK
<1>5. PairsOK'
  <2>1. ASSUME NEW j \in 1..k, NEW i \in 1..(j - 1) PROVE PairOK(stack'[i], stack'[j])
    <3>1. j \in 1..Len(stack) /\ i \in 1..k /\ stack'[i] = stack[i] /\ stack'[j] = stack[j]
      BY <1>1 DEF Lower
    <3>. QED  BY <3>1 DEF PairsOK
  <2>2. ASSUME NEW e \in {f, g, h}, Fits(k, e), NEW i \in 1..k PROVE PairOK(stack'[i], e)
    <3>1. stack'[i] = stack[i] /\ PairOK(stack[i], e)
      BY <2>2 DEF Lower, Fits
    <3>. QED  BY <3>1
  <2>3. ASSUME NEW j \in 1..p, NEW i \in 1..(j - 1) PROVE PairOK(stack'[i], stack'[j])
    <3>1. CASE j \in 1..k
      BY <2>1, <3>1
    <3>2. CASE j = k + 1
      <4>1. i \in 1..k
        BY <1>1, <3>2
      <4>. QED  BY <2>2, <3>2, <4>1
    <3>3. CASE j = k + 2
      <4>1. i \in 1..k \/ i = k + 1
        BY <1>1, <3>3
      <4>. QED  BY <2>2, <3>3, <4>1
    <3>4. CASE /\ j = k + 3 /\ stack'[k + 3] = h
               /\ FrameOK(h)' /\ Fits(k, h) /\ PairOK(f, h) /\ PairOK(g, h)
      <4>1. i \in 1..k \/ i = k + 1 \/ i = k + 2
        BY <1>1, <3>4
      <4>. QED  BY <2>2, <3>4, <4>1
    <3>. QED  BY <1>3, <3>1, <3>2, <3>3, <3>4
  <2>. QED  BY <1>2, <2>3 DEF PairsOK
<1>. QED  BY <1>4, <1>5 DEF CallsInv

-----------------------------------------------------------------------------
(* The messages that main waits for. *)

LEMMA AwaitsSame ==
  ASSUME UNCHANGED <<spc, taskport, subport, held>>, NEW t, NEW m, Awaits(t, m)
  PROVE  Awaits(t, m)'
<1>1. Underway(m) => Underway(m)'
  BY DEF Underway
<1>2. StartupFirst(t) => StartupFirst(t)'
  BY DEF StartupFirst, First, OfTask
<1>. QED  BY <1>1, <1>2 DEF Awaits

LEMMA OfTaskIndex ==
  ASSUME NEW t
  PROVE  /\ OfTask(t) = {i \in 1..Len(taskport) : taskport[i].task = t}
         /\ OfTask(t)' = {i \in 1..Len(taskport') : taskport'[i].task = t}
BY DEF OfTask

\* A message of another task is taken from the port.
LEMMA StartupTaken ==
  ASSUME taskport \in Seq(Message), NEW k, Taken(k), NEW t, taskport[k].task # t,
         StartupFirst(t), spc'[t] = spc[t]
  PROVE  StartupFirst(t)'
<1>1. Len(taskport) \in Nat /\ k \in 1..Len(taskport) /\ Len(taskport') = Len(taskport) - 1
  BY DEF Taken
<1>2. ASSUME NEW j \in 1..Len(taskport), j # k
      PROVE  \/ j < k /\ j \in 1..Len(taskport') /\ taskport'[j] = taskport[j]
             \/ j > k /\ j - 1 \in 1..Len(taskport') /\ taskport'[j - 1] = taskport[j]
  <2>1. CASE j < k
    <3>1. j \in 1..(Len(taskport) - 1)
      BY <1>1, <2>1
    <3>2. taskport'[j] = taskport[j]
      BY <2>1, <3>1 DEF Taken
    <3>. QED  BY <1>1, <2>1, <3>1, <3>2
  <2>2. CASE j > k
    <3>1. j - 1 \in 1..(Len(taskport) - 1) /\ ~(j - 1 < k) /\ (j - 1) + 1 = j
      BY <1>1, <2>2
    <3>2. taskport'[j - 1] = taskport[(j - 1) + 1]
      BY <3>1 DEF Taken
    <3>. QED  BY <1>1, <2>2, <3>1, <3>2
  <2>. QED  BY <1>1, <1>2, <2>1, <2>2
<1>3. ASSUME NEW j \in OfTask(t)
      PROVE  (j < k /\ j \in OfTask(t)') \/ (j > k /\ j - 1 \in OfTask(t)')
  <2>1. j \in 1..Len(taskport) /\ taskport[j].task = t /\ j # k
    BY OfTaskIndex
  <2>. QED  BY <1>2, <2>1, OfTaskIndex
<1>4. spc'[t] = "start" \/ OfTask(t)' # {}
  BY <1>3 DEF StartupFirst
<1>5. ASSUME NEW x \in First(OfTask(t)') PROVE taskport'[x] = Startup(t)
  <2>1. x \in 1..Len(taskport') /\ taskport'[x].task = t /\ \A j \in OfTask(t)' : x <= j
    BY OfTaskIndex DEF First
  <2>2. taskport'[x] = IF x < k THEN taskport[x] ELSE taskport[x + 1]
    BY <1>1, <2>1 DEF Taken
  <2>3. CASE x < k
    <3>1. x \in OfTask(t)
      BY <1>1, <2>1, <2>2, <2>3, OfTaskIndex
    <3>2. ASSUME NEW j \in OfTask(t) PROVE x <= j
      <4>1. j \in Nat /\ x \in Nat /\ k \in Nat
        BY <1>1, <2>1, OfTaskIndex
      <4>2. x <= j \/ (j > k /\ x <= j - 1)
        BY <1>3, <2>1
      <4>. QED  BY <4>1, <4>2
    <3>3. x \in First(OfTask(t))
      BY <3>1, <3>2 DEF First
    <3>. QED  BY <2>2, <2>3, <3>3 DEF StartupFirst
  <2>4. CASE ~(x < k)
    <3>0. x + 1 \in 1..Len(taskport) /\ x + 1 # k
      BY <1>1, <2>1, <2>4
    <3>1. x + 1 \in OfTask(t)
      BY <2>1, <2>2, <2>4, <3>0, OfTaskIndex
    <3>2. ASSUME NEW j \in OfTask(t) PROVE x + 1 <= j
      <4>1. j \in Nat /\ x \in Nat /\ k \in Nat
        BY <1>1, <2>1, OfTaskIndex
      <4>2. (j < k /\ x <= j) \/ (j > k /\ x <= j - 1)
        BY <1>3, <2>1
      <4>. QED  BY <2>4, <4>1, <4>2
    <3>3. x + 1 \in First(OfTask(t))
      BY <3>1, <3>2 DEF First
    <3>. QED  BY <2>2, <2>4, <3>3 DEF StartupFirst
  <2>. QED  BY <2>3, <2>4
<1>. QED  BY <1>4, <1>5 DEF StartupFirst, First, Startup

LEMMA ContainsTaken ==
  ASSUME taskport \in Seq(Message), NEW k, Taken(k), NEW m, m # taskport[k],
         Contains(taskport, m)
  PROVE  Contains(taskport', m)
<1>1. Len(taskport) \in Nat /\ k \in 1..Len(taskport) /\ Len(taskport') = Len(taskport) - 1
  BY DEF Taken
<1>2. PICK j \in 1..Len(taskport) : taskport[j] = m
  BY DEF Contains
<1>3. CASE j < k
  <2>1. j \in 1..(Len(taskport) - 1)
    BY <1>1, <1>3
  <2>2. taskport'[j] = taskport[j]
    BY <1>3, <2>1 DEF Taken
  <2>. QED  BY <1>1, <1>2, <2>1, <2>2 DEF Contains
<1>4. CASE j > k
  <2>1. j - 1 \in 1..(Len(taskport) - 1) /\ ~(j - 1 < k) /\ (j - 1) + 1 = j
    BY <1>1, <1>4
  <2>2. taskport'[j - 1] = taskport[(j - 1) + 1]
    BY <2>1 DEF Taken
  <2>. QED  BY <1>1, <1>2, <2>1, <2>2 DEF Contains
<1>. QED  BY <1>1, <1>2, <1>3, <1>4

LEMMA AwaitsTaken ==
  ASSUME taskport \in Seq(Message), NEW k, Taken(k), UNCHANGED <<spc, subport, held>>,
         NEW t, NEW m, Awaits(t, m), m # taskport[k],
         taskport[k].task # t \/ m.type # "startup"
  PROVE  Awaits(t, m)'
<1>1. Underway(m)'
  <2>1. Contains(taskport, m) => Contains(taskport', m)
    BY ContainsTaken
  <2>. QED  BY <2>1 DEF Awaits, Underway
<1>2. CASE m.type # "startup"
  BY <1>1, <1>2 DEF Awaits
<1>3. CASE m.type = "startup"
  <2>1. StartupFirst(t)'
    BY <1>3, StartupTaken DEF Awaits
  <2>. QED  BY <1>1, <1>3, <2>1 DEF Awaits, Startup
<1>. QED  BY <1>2, <1>3

\* Messages of u are added to the port.
LEMMA StartupAdded ==
  ASSUME taskport \in Seq(Message), NEW ms, Added(ms), NEW u, NEW t,
         \A i \in 1..Len(ms) : ms[i].task = u,
         StartupFirst(t), spc[t] = "start" => spc'[t] = "start" /\ t # u
  PROVE  StartupFirst(t)'
<1>1. Len(taskport) \in Nat /\ Len(ms) \in Nat /\ Len(taskport') = Len(taskport) + Len(ms)
  BY DEF Added
<1>2. ASSUME NEW j \in OfTask(t) PROVE j \in OfTask(t)'
  <2>1. j \in 1..Len(taskport) /\ taskport[j].task = t
    BY OfTaskIndex
  <2>2. j \in 1..Len(taskport') /\ taskport'[j] = taskport[j]
    BY <1>1, <2>1 DEF Added
  <2>. QED  BY <2>1, <2>2, OfTaskIndex
<1>3. CASE OfTask(t) # {}
  <2>1. ASSUME NEW x \in First(OfTask(t)') PROVE taskport'[x] = Startup(t)
    <3>1. x \in 1..Len(taskport') /\ taskport'[x].task = t /\ \A j \in OfTask(t)' : x <= j
      BY OfTaskIndex DEF First
    <3>2. PICK j \in OfTask(t) : x <= j
      BY <1>2, <1>3, <3>1
    <3>3. x \in 1..Len(taskport)
      <4>1. j \in 1..Len(taskport)
        BY OfTaskIndex
      <4>. QED  BY <1>1, <3>1, <3>2, <4>1
    <3>4. taskport'[x] = taskport[x]
      BY <3>3 DEF Added
    <3>5. x \in First(OfTask(t))
      BY <1>2, <3>1, <3>3, <3>4, OfTaskIndex DEF First
    <3>. QED  BY <3>4, <3>5 DEF StartupFirst
  <2>2. OfTask(t)' # {}
    BY <1>2, <1>3
  <2>. QED  BY <2>1, <2>2 DEF StartupFirst, First, Startup
<1>4. CASE OfTask(t) = {}
  <2>1. spc'[t] = "start" /\ t # u
    BY <1>4 DEF StartupFirst
  <2>2. ASSUME NEW j \in OfTask(t)' PROVE FALSE
    <3>1. j \in 1..Len(taskport') /\ taskport'[j].task = t
      BY OfTaskIndex
    <3>2. CASE j \in 1..Len(taskport)
      <4>1. taskport'[j] = taskport[j]
        BY <3>2 DEF Added
      <4>. QED  BY <1>4, <3>1, <3>2, <4>1, OfTaskIndex
    <3>3. ASSUME NEW i \in 1..Len(ms), j = Len(taskport) + i PROVE FALSE
      <4>1. taskport'[j] = ms[i]
        BY <3>3 DEF Added
      <4>. QED  BY <2>1, <3>1, <4>1
    <3>. QED  BY <3>1, <3>2, <3>3 DEF Added
  <2>. QED  BY <2>1, <2>2 DEF StartupFirst, First
<1>. QED  BY <1>3, <1>4

-----------------------------------------------------------------------------
(* Steps of main. *)

LEMMA TopCall ==
  ASSUME stack \in Seq(Frame), stack # <<>>, CallsInv, AnswerInv, NEW n, n = Len(stack)
  PROVE  /\ n \in Nat /\ n > 0 /\ Top = stack[n] /\ Top \in Frame /\ Top.task \in Tasks
         /\ FrameOK(Top) /\ FrameMsg(Top) /\ Fits(n - 1, Top)
<1>1. n \in Nat /\ n > 0 /\ Top = stack[n] /\ Top \in Frame
  BY StackFacts
<1>2. n \in 1..Len(stack)
  BY <1>1
<1>3. Top.task \in Tasks
  BY <1>1 DEF Frame
<1>. QED  BY <1>1, <1>2, <1>3 DEF CallsInv, FramesOK, PairsOK, AnswerInv, Fits

LEMMA HandledSame ==
  ASSUME stack \in Seq(Frame), Handled, UNCHANGED processing, NEW k \in 0..Len(stack),
         Len(stack') \in Nat, k <= Len(stack'), \A i \in 1..k : stack'[i] = stack[i],
         \A i \in (k + 1)..Len(stack) : stack[i].pc # "upd"
  PROVE  Handled'
<1>1. Len(stack) \in Nat /\ k \in Nat
  OBVIOUS
<1>2. ASSUME NEW t \in Tasks, processing'[t] PROVE UpdateCalls(t)' # {}
  <2>1. PICK i \in 1..Len(stack) : stack[i].pc = "upd" /\ stack[i].task = t
    BY <1>2 DEF Handled, UpdateCalls
  <2>2. i \in 1..k
    BY <1>1, <2>1
  <2>3. i \in 1..Len(stack') /\ stack'[i] = stack[i]
    BY <1>1, <2>2
  <2>. QED  BY <2>1, <2>3 DEF UpdateCalls
<1>. QED  BY <1>2 DEF Handled

LEMMA FrameSame ==
  ASSUME UNCHANGED <<spc, taskport, subport, held>>, NEW f \in Frame, FrameOK(f),
         f.pc = "upd" => processing'[f.task], f.pc = "ptr" => disposing'[f.task],
         mustdispose'[f.task] => f.pc \in {"upd", "ptTail", "dd"},
         tstate'[f.task] = "freed" => f.pc = "ptTail"
  PROVE  FrameOK(f)'
BY AwaitsSame DEF FrameOK

LEMMA LowerSame ==
  ASSUME stack \in Seq(Frame), FramesOK, UNCHANGED <<spc, taskport, subport, held>>,
         UNCHANGED <<processing, disposing, tstate>>,
         \A t \in Tasks : mustdispose'[t] => mustdispose[t],
         NEW k \in 0..Len(stack), k <= Len(stack'), \A i \in 1..k : stack'[i] = stack[i]
  PROVE  Lower(k)
<1>1. ASSUME NEW f \in Frame, NEW i \in 1..k, stack[i] = f PROVE FrameOK(f)'
  <2>1. i \in 1..Len(stack)
    OBVIOUS
  <2>2. FrameOK(f)
    BY <1>1, <2>1 DEF FramesOK
  <2>3. f.task \in Tasks
    BY DEF Frame
  <2>. QED  BY <2>2, <2>3, FrameSame DEF FrameOK
<1>. QED  BY <1>1 DEF Lower

\* Main goes from its innermost call to its caller, to another call, to two or
\* to three; nothing else that the calls depend on changes.
LEMMA SameReturn ==
  ASSUME stack \in Seq(Frame), CallsInv, AnswerInv, stack # <<>>, Top.pc # "upd",
         UNCHANGED <<spc, taskport, subport, held, processing, disposing, mustdispose, tstate>>,
         stack' = Pop
  PROVE  CallsInv'
<1>1. PICK n : n = Len(stack)
  OBVIOUS
<1>2. n \in Nat /\ n > 0 /\ Top = stack[n]
  BY <1>1, TopCall
<1>3. Len(stack') = n - 1 /\ \A i \in 1..(n - 1) : stack'[i] = stack[i]
  BY <1>1, PopShape
<1>4. PICK k \in 0..Len(stack) : k = n - 1
  <2>1. n - 1 \in 0..Len(stack)
    BY <1>1, <1>2
  <2>. QED  BY <2>1
<1>5. Lower(k)
  <2>1. k <= Len(stack') /\ \A i \in 1..k : stack'[i] = stack[i]
    BY <1>2, <1>3, <1>4
  <2>. QED  BY <2>1, LowerSame DEF CallsInv
<1>6. Handled'
  <2>1. \A i \in (k + 1)..Len(stack) : i = n
    BY <1>1, <1>4
  <2>2. Len(stack') \in Nat /\ k <= Len(stack') /\ \A i \in (k + 1)..Len(stack) : stack[i].pc # "upd"
    BY <1>2, <1>3, <1>4, <2>1
  <2>. QED  BY <1>3, <1>4, <2>2, HandledSame DEF CallsInv
<1>. QED  BY <1>3, <1>4, <1>5, <1>6, NoCall DEF CallsInv

LEMMA SameGoto ==
  ASSUME stack \in Seq(Frame), CallsInv, AnswerInv, stack # <<>>, Top.pc # "upd",
         UNCHANGED <<spc, taskport, subport, held, processing, disposing, mustdispose, tstate>>,
         NEW f \in Frame, stack' = Goto(f), FrameOK(f)',
         \A e \in Frame : PairOK(e, Top) => PairOK(e, f)
  PROVE  CallsInv'
<1>1. PICK n : n = Len(stack)
  OBVIOUS
<1>2. n \in Nat /\ n > 0 /\ Top = stack[n] /\ Fits(n - 1, Top)
  BY <1>1, TopCall
<1>3. Len(stack') = n /\ stack'[n] = f /\ \A i \in 1..(n - 1) : stack'[i] = stack[i]
  BY <1>1, GoonShape
<1>4. PICK k \in 0..Len(stack) : k = n - 1
  <2>1. n - 1 \in 0..Len(stack)
    BY <1>1, <1>2
  <2>. QED  BY <2>1
<1>5. Lower(k)
  <2>1. k <= Len(stack') /\ \A i \in 1..k : stack'[i] = stack[i]
    BY <1>2, <1>3, <1>4
  <2>. QED  BY <2>1, LowerSame DEF CallsInv
<1>6. Handled'
  <2>1. \A i \in (k + 1)..Len(stack) : i = n
    BY <1>1, <1>4
  <2>2. Len(stack') \in Nat /\ k <= Len(stack') /\ \A i \in (k + 1)..Len(stack) : stack[i].pc # "upd"
    BY <1>2, <1>3, <1>4, <2>1
  <2>. QED  BY <1>3, <1>4, <2>2, HandledSame DEF CallsInv
<1>7. Fits(k, f)
  <2>1. \A i \in 1..k : stack[i] \in Frame /\ PairOK(stack[i], Top)
    BY <1>1, <1>2, <1>4 DEF Fits
  <2>. QED  BY <2>1 DEF Fits
<1>8. Len(stack') = k + 1 /\ stack'[k + 1] = f
  BY <1>2, <1>3, <1>4
<1>. QED  BY <1>5, <1>6, <1>7, <1>8, OneCall DEF CallsInv

LEMMA SameMore ==
  ASSUME stack \in Seq(Frame), CallsInv, AnswerInv, stack # <<>>, Top.pc # "upd",
         UNCHANGED <<spc, taskport, subport, held, processing, disposing, tstate>>,
         \A t \in Tasks : mustdispose'[t] => mustdispose[t],
         NEW f \in Frame, NEW g \in Frame, NEW h \in Frame,
         FrameOK(f)', FrameOK(g)', FrameOK(h)', NEW n, n = Len(stack),
         Len(stack') = n + 1 \/ (Len(stack') = n + 2 /\ stack'[n + 2] = h),
         stack'[n] = f, stack'[n + 1] = g, \A i \in 1..(n - 1) : stack'[i] = stack[i],
         \A e \in Frame : PairOK(e, Top) => PairOK(e, f) /\ PairOK(e, g) /\ PairOK(e, h),
         PairOK(f, g), PairOK(f, h), PairOK(g, h)
  PROVE  CallsInv'
<1>1. n \in Nat /\ n > 0 /\ Top = stack[n] /\ Fits(n - 1, Top)
  BY TopCall
<1>2. PICK k \in 0..Len(stack) : k = n - 1
  <2>1. n - 1 \in 0..Len(stack)
    BY <1>1
  <2>. QED  BY <2>1
<1>3. Lower(k)
  <2>1. k <= Len(stack') /\ \A i \in 1..k : stack'[i] = stack[i]
    BY <1>1, <1>2
  <2>. QED  BY <2>1, LowerSame DEF CallsInv
<1>4. Handled'
  <2>1. \A i \in (k + 1)..Len(stack) : i = n
    BY <1>2
  <2>2. Len(stack') \in Nat /\ k <= Len(stack') /\ \A i \in (k + 1)..Len(stack) : stack[i].pc # "upd"
    BY <1>1, <1>2, <2>1
  <2>. QED  BY <1>2, <2>2, HandledSame DEF CallsInv
<1>5. Fits(k, f) /\ Fits(k, g) /\ Fits(k, h)
  <2>1. \A i \in 1..k : stack[i] \in Frame /\ PairOK(stack[i], Top)
    BY <1>1, <1>2 DEF Fits
  <2>. QED  BY <2>1 DEF Fits
<1>6. /\ Len(stack') = k + 2 \/ (Len(stack') = k + 3 /\ stack'[k + 3] = h)
      /\ stack'[k + 1] = f /\ stack'[k + 2] = g
  <2>1. k + 1 = n /\ k + 2 = n + 1 /\ k + 3 = n + 2
    BY <1>1, <1>2
  <2>. QED  BY <2>1
<1>. QED  BY <1>3, <1>4, <1>5, <1>6, MoreCalls DEF CallsInv

LEMMA SamePush ==
  ASSUME stack \in Seq(Frame), CallsInv, AnswerInv, stack # <<>>,
         UNCHANGED <<spc, taskport, subport, held, processing, disposing, mustdispose, tstate>>,
         NEW f \in Frame, stack' = Append(stack, f), FrameOK(f)', PairOK(Top, f),
         \A e \in Frame : PairOK(e, Top) => PairOK(e, f)
  PROVE  CallsInv'
<1>1. PICK n : n = Len(stack)
  OBVIOUS
<1>2. n \in Nat /\ n > 0 /\ Top = stack[n] /\ Fits(n - 1, Top)
  BY <1>1, TopCall
<1>3. Len(stack') = n + 1 /\ stack'[n + 1] = f /\ \A i \in 1..n : stack'[i] = stack[i]
  BY <1>1, PushedShape
<1>4. PICK k \in 0..Len(stack) : k = n
  BY <1>1, <1>2
<1>5. Lower(k)
  <2>1. k <= Len(stack') /\ \A i \in 1..k : stack'[i] = stack[i]
    BY <1>2, <1>3, <1>4
  <2>. QED  BY <2>1, LowerSame DEF CallsInv
<1>6. Handled'
  <2>1. Len(stack') \in Nat /\ k <= Len(stack') /\ \A i \in (k + 1)..Len(stack) : stack[i].pc # "upd"
    BY <1>1, <1>2, <1>3, <1>4
  <2>. QED  BY <1>3, <1>4, <2>1, HandledSame DEF CallsInv
<1>7. Fits(k, f)
  <2>1. \A i \in 1..(n - 1) : stack[i] \in Frame /\ PairOK(stack[i], Top)
    BY <1>1, <1>2 DEF Fits
  <2>2. \A i \in 1..k : i \in 1..(n - 1) \/ i = n
    BY <1>2, <1>4
  <2>. QED  BY <1>2, <2>1, <2>2 DEF Fits
<1>. QED  BY <1>3, <1>4, <1>5, <1>6, <1>7, OneCall DEF CallsInv

\* Main takes a message of the innermost call's task and processes it there.
LEMMA SameReply ==
  ASSUME TaskInv, AnswerInv, CallsInv, TypeOK', stack # <<>>, Top.pc \in {"ptr", "wfm"},
         NEW k, Taken(k), Processreply(stack, taskport[k]), taskport[k].task = Top.task,
         Top.pc = "wfm" => Top.msg # taskport[k] /\ Top.msg.type # "startup",
         UNCHANGED <<spc, subport, held, disposing, mustdispose, tstate>>
  PROVE  CallsInv'
<1>0. /\ stack \in Seq(Frame) /\ taskport \in Seq(Message) /\ k \in 1..Len(taskport)
      /\ processing \in [Tasks -> BOOLEAN]
  BY DEF AnswerInv, TypeOK, Taken
<1>1. PICK n : n = Len(stack)
  OBVIOUS
<1>2. /\ n \in Nat /\ n > 0 /\ Top = stack[n] /\ Top \in Frame /\ Top.task \in Tasks
      /\ FrameOK(Top) /\ FrameMsg(Top) /\ Fits(n - 1, Top)
  BY <1>0, <1>1, TopCall
<1>3. PICK t \in Tasks : t = Top.task /\ t = taskport[k].task
  BY <1>2
<1>4. PICK m \in Message : m = taskport[k]
  BY <1>0
<1>5. ~mustdispose[t]
  BY <1>2, <1>3 DEF FrameOK
<1>6. spc[t] \notin {"none", "start"} /\ tstate[t] # "freed"
  <2>1. t \notin Quiet
    BY <1>0, <1>3 DEF Quiet, OfTask
  <2>. QED  BY <2>1 DEF TaskInv, SubtaskInv, DisposeInv
<1>7. \A u \in Tasks : processing[u] => processing'[u]
  <2>1. processing' = processing \/ processing' = [processing EXCEPT ![t] = TRUE]
    BY <1>3 DEF Processreply
  <2>. QED  BY <1>0, <2>1
<1>8. ASSUME NEW f \in Frame, NEW i \in 1..n, stack[i] = f PROVE FrameOK(f)'
  <2>1. FrameOK(f) /\ FrameMsg(f) /\ f.task \in Tasks
    BY <1>1, <1>8 DEF CallsInv, FramesOK, AnswerInv, Frame
  <2>2. ASSUME f.pc \in WaitPCs PROVE Awaits(f.task, f.msg)'
    <3>1. Awaits(f.task, f.msg) /\ f.msg.task = f.task
      BY <2>1, <2>2 DEF FrameOK, FrameMsg, WaitPCs
    <3>2. f.msg # taskport[k] /\ (taskport[k].task # f.task \/ f.msg.type # "startup")
      <4>1. CASE f.task # t
        BY <1>3, <3>1, <4>1
      <4>2. CASE i = n
        BY <1>2, <1>8, <2>2, <4>2 DEF WaitPCs
      <4>3. CASE f.task = t /\ i # n
        <5>1. i \in 1..(n - 1)
          BY <1>2, <4>3
        <5>2. PairOK(f, Top)
          BY <1>2, <1>8, <5>1 DEF Fits
        <5>. QED  BY <1>3, <2>2, <4>3, <5>2 DEF PairOK, WaitPCs
      <4>. QED  BY <4>1, <4>2, <4>3
    <3>. QED  BY <1>0, <3>1, <3>2, AwaitsTaken
  <2>. QED  BY <1>7, <2>1, <2>2 DEF FrameOK
<1>9. PICK p \in 0..Len(stack) : p = n
  BY <1>1, <1>2
<1>10. CASE stack' = Append(stack, F("upd", t, m)) /\ processing' = [processing EXCEPT ![t] = TRUE]
  <2>1. PICK f \in Frame : f = F("upd", t, m) /\ f.pc = "upd" /\ f.task = t
    BY <1>4, FrameIn DEF FramePCs
  <2>2. Len(stack') = n + 1 /\ stack'[n + 1] = f /\ \A i \in 1..n : stack'[i] = stack[i]
    BY <1>0, <1>1, <1>10, <2>1, PushedShape
  <2>3. Lower(p)
    BY <1>1, <1>2, <1>8, <1>9, <2>2 DEF Lower
  <2>4. Handled'
    <3>1. ASSUME NEW u \in Tasks, processing'[u] PROVE UpdateCalls(u)' # {}
      <4>1. CASE u = t
        <5>1. n + 1 \in UpdateCalls(u)'
          BY <1>2, <2>1, <2>2, <4>1 DEF UpdateCalls
        <5>. QED  BY <5>1
      <4>2. CASE u # t
        <5>1. processing[u]
          BY <1>0, <1>10, <3>1, <4>2
        <5>2. PICK i \in 1..n : stack[i].pc = "upd" /\ stack[i].task = u
          BY <1>1, <5>1 DEF CallsInv, Handled, UpdateCalls
        <5>3. i \in UpdateCalls(u)'
          BY <1>2, <2>2, <5>2 DEF UpdateCalls
        <5>. QED  BY <5>3
      <4>. QED  BY <4>1, <4>2
    <3>. QED  BY <3>1 DEF Handled
  <2>5. FrameOK(f)'
    <3>1. processing'[t]
      BY <1>0, <1>10
    <3>. QED  BY <1>5, <1>6, <2>1, <3>1 DEF FrameOK, WaitPCs
  <2>6. Fits(p, f)
    <3>1. PairOK(Top, f)
      BY <1>2, <1>3, <2>1 DEF PairOK
    <3>2. ASSUME NEW i \in 1..(n - 1) PROVE PairOK(stack[i], f)
      <4>1. PairOK(stack[i], Top)
        BY <1>2 DEF Fits
      <4>. QED  BY <1>3, <2>1, <4>1 DEF PairOK, WaitPCs
    <3>3. \A i \in 1..p : i \in 1..(n - 1) \/ i = n
      BY <1>2, <1>9
    <3>. QED  BY <1>2, <3>1, <3>2, <3>3 DEF Fits
  <2>. QED  BY <1>0, <1>9, <2>2, <2>3, <2>4, <2>5, <2>6, OneCall DEF CallsInv
<1>11. CASE stack' = stack /\ processing' = processing
  <2>1. Lower(p)
    BY <1>1, <1>2, <1>8, <1>9, <1>11 DEF Lower
  <2>2. Handled'
    BY <1>11 DEF CallsInv, Handled, UpdateCalls
  <2>. QED  BY <1>0, <1>1, <1>9, <1>11, <2>1, <2>2, NoCall DEF CallsInv
<1>. QED  BY <1>3, <1>4, <1>5, <1>10, <1>11 DEF Processreply, DisposeIfMust

\* A call that processes an update goes on to none of these.
LEMMA CallsUpdateReturns ==
  ASSUME AnswerInv, CallsInv, TypeOK', UpdateReturns
  PROVE  CallsInv'
<1>. USE DEF mainVars, flagVars, semaVars, subVars
<1>0. stack \in Seq(Frame) /\ processing \in [Tasks -> BOOLEAN] /\ stack' \in Seq(Frame)
  BY DEF AnswerInv, TypeOK
<1>1. stack # <<>> /\ Top.pc = "upd"
  BY DEF UpdateReturns, AtTop
<1>2. PICK n : n = Len(stack)
  OBVIOUS
<1>3. /\ n \in Nat /\ n > 0 /\ Top = stack[n] /\ Top \in Frame /\ Top.task \in Tasks
      /\ FrameOK(Top) /\ FrameMsg(Top) /\ Fits(n - 1, Top)
  BY <1>0, <1>1, <1>2, TopCall
<1>4. PICK t \in Tasks : t = Top.task
  BY <1>3
<1>5. /\ processing' = [processing EXCEPT ![t] = FALSE] /\ stack' = DisposeIfMust(Pop, t)
      /\ UNCHANGED <<spc, taskport, subport, held, disposing, mustdispose, tstate>>
  BY <1>4 DEF UpdateReturns
<1>6. ASSUME NEW i \in 1..(n - 1)
      PROVE  /\ stack[i] \in Frame /\ FrameOK(stack[i]) /\ PairOK(stack[i], Top)
             /\ stack[i].pc = "upd" => stack[i].task # t
  <2>1. i \in 1..Len(stack)
    BY <1>2, <1>3
  <2>2. stack[i] \in Frame
    BY <1>0, <2>1
  <2>3. FrameOK(stack[i]) /\ PairOK(stack[i], Top)
    BY <1>3, <2>1 DEF Fits, CallsInv, FramesOK
  <2>. QED  BY <1>4, <2>2, <2>3 DEF PairOK
<1>7. ASSUME NEW f \in Frame, NEW i \in 1..(n - 1), stack[i] = f PROVE FrameOK(f)'
  <2>1. FrameOK(f) /\ (f.pc = "upd" => f.task # t) /\ f.task \in Tasks
    BY <1>6, <1>7 DEF Frame
  <2>2. f.pc = "upd" => processing'[f.task]
    BY <1>0, <1>5, <2>1 DEF FrameOK
  <2>. QED  BY <1>5, <2>1, <2>2, FrameSame DEF FrameOK
<1>8. PICK k \in 0..Len(stack) : k = n - 1
  <2>1. n - 1 \in 0..Len(stack)
    BY <1>2, <1>3
  <2>. QED  BY <2>1
<1>9. PICK s : s = Pop
  OBVIOUS
<1>10. s \in Seq(Frame) /\ Len(s) = n - 1 /\ \A i \in 1..(n - 1) : s[i] = stack[i]
  BY <1>0, <1>1, <1>2, <1>9, PopShape
<1>11. PICK f \in Frame : f = F("dd", t, NoMsg) /\ f.pc = "dd" /\ f.task = t
  BY FrameIn DEF FramePCs
<1>12. \/ Len(stack') = n - 1 /\ \A i \in 1..(n - 1) : stack'[i] = stack[i]
       \/ /\ mustdispose[t] /\ Len(stack') = n /\ stack'[n] = f
          /\ \A i \in 1..(n - 1) : stack'[i] = stack[i]
  <2>1. CASE stack' = s
    BY <1>10, <2>1
  <2>2. CASE /\ mustdispose[t] /\ Len(stack') = Len(s) + 1
             /\ \A i \in 1..Len(s) : stack'[i] = s[i]
             /\ stack'[Len(s) + 1] = F("dd", t, NoMsg)
    <3>1. Len(s) + 1 = n
      BY <1>3, <1>10
    <3>. QED  BY <1>10, <1>11, <2>2, <3>1
  <2>. QED  BY <1>5, <1>9, <1>10, <2>1, <2>2, DisposeIfMustShape
<1>13. Lower(k)
  BY <1>2, <1>3, <1>7, <1>8, <1>12 DEF Lower
<1>14. Handled'
  <2>1. ASSUME NEW u \in Tasks, processing'[u] PROVE UpdateCalls(u)' # {}
    <3>1. u # t /\ processing[u]
      BY <1>0, <1>5, <2>1
    <3>2. PICK i \in 1..n : stack[i].pc = "upd" /\ stack[i].task = u
      BY <1>2, <3>1 DEF CallsInv, Handled, UpdateCalls
    <3>3. i \in 1..(n - 1)
      BY <1>3, <1>4, <3>1, <3>2
    <3>4. i \in 1..Len(stack') /\ stack'[i] = stack[i]
      BY <1>3, <1>12, <3>3
    <3>. QED  BY <3>2, <3>4 DEF UpdateCalls
  <2>. QED  BY <2>1 DEF Handled
<1>15. CASE Len(stack') = n - 1
  BY <1>0, <1>8, <1>13, <1>14, <1>15, NoCall DEF CallsInv
<1>16. CASE mustdispose[t] /\ Len(stack') = n /\ stack'[n] = f
  <2>1. FrameOK(f)'
    <3>1. tstate[t] # "freed"
      BY <1>1, <1>3, <1>4 DEF FrameOK
    <3>. QED  BY <1>5, <1>11, <3>1 DEF FrameOK, WaitPCs
  <2>2. Fits(k, f)
    <3>1. ASSUME NEW i \in 1..(n - 1) PROVE PairOK(stack[i], f)
      <4>1. FrameOK(stack[i]) /\ PairOK(stack[i], Top) /\ (stack[i].pc = "upd" => stack[i].task # t)
        BY <1>6
      <4>2. stack[i].task = t => stack[i].pc = "ptTail"
        BY <1>1, <1>16, <4>1 DEF FrameOK, PairOK
      <4>. QED  BY <1>1, <1>11, <4>1, <4>2 DEF PairOK, WaitPCs
    <3>. QED  BY <1>8, <3>1 DEF Fits
  <2>3. Len(stack') = k + 1 /\ stack'[k + 1] = f
    BY <1>3, <1>8, <1>16
  <2>. QED  BY <1>0, <1>13, <1>14, <2>1, <2>2, <2>3, OneCall DEF CallsInv
<1>. QED  BY <1>12, <1>15, <1>16

LEMMA CallsProcesstask ==
  ASSUME TaskInv, AnswerInv, CallsInv, TypeOK', Processtask
  PROVE  CallsInv'
<1>. USE DEF mainVars, flagVars, semaVars, subVars
<1>0. /\ stack \in Seq(Frame) /\ taskport \in Seq(Message) /\ stack = <<>> /\ Len(stack) = 0
      /\ processing \in [Tasks -> BOOLEAN]
  BY DEF AnswerInv, TypeOK, Processtask
<1>1. \A u \in Tasks : ~processing[u]
  BY <1>0 DEF CallsInv, Handled, UpdateCalls
<1>2. UNCHANGED <<spc, subport, held, disposing, mustdispose, tstate>>
  BY DEF Processtask
<1>3. CASE taskport = <<>>
  <2>1. stack' = <<>> /\ processing' = processing
    BY <1>0, <1>3 DEF Processtask
  <2>. QED  BY <1>1, <2>1 DEF CallsInv, FramesOK, PairsOK, Handled
<1>4. CASE taskport # <<>>
  <2>1. Taken(1) /\ Head(taskport) = taskport[1] /\ taskport[1] \in Message /\ 1 \in 1..Len(taskport)
    BY <1>0, <1>4, TailTakes DEF Processtask
  <2>2. PICK m \in Message : m = taskport[1]
    BY <2>1
  <2>3. PICK t \in Tasks : t = m.task
    BY DEF Message
  <2>4. PICK e \in Frame : e = F("ptTail", t, NoMsg) /\ e.pc = "ptTail" /\ e.task = t
    BY FrameIn DEF FramePCs
  <2>5. PICK s : s = <<e>>
    OBVIOUS
  <2>6. s \in Seq(Frame) /\ Len(s) = 1 /\ s[1] = e
    BY <2>5
  <2>7. Processreply(s, m)
    BY <1>4, <2>1, <2>2, <2>3, <2>4, <2>5 DEF Processtask
  <2>8. spc[t] \notin {"none", "start"} /\ tstate[t] # "freed"
    <3>1. t \notin Quiet
      BY <2>1, <2>2, <2>3 DEF Quiet, OfTask
    <3>. QED  BY <3>1 DEF TaskInv, SubtaskInv, DisposeInv
  <2>9. Lower(0)
    BY <1>0 DEF Lower, TypeOK
  <2>10. FrameOK(e)'
    BY <2>4 DEF FrameOK, WaitPCs
  <2>11. ASSUME NEW f \in Frame, f.pc \in {"upd", "dd"}, f.task = t, FrameOK(f)',
                Len(stack') = Len(s) + 1, \A i \in 1..Len(s) : stack'[i] = s[i],
                stack'[Len(s) + 1] = f, Handled'
         PROVE  CallsInv'
    <3>1. PairOK(e, f)
      BY <2>4, <2>11 DEF PairOK
    <3>2. Len(stack') = 0 + 2 /\ stack'[0 + 1] = e /\ stack'[0 + 2] = f
      BY <2>6, <2>11
    <3>3. PairOK(f, f) \/ TRUE
      OBVIOUS
    <3>4. Fits(0, e) /\ Fits(0, f)
      BY DEF Fits
    <3>5. FramesOK'
      <4>1. \A i \in 1..Len(stack') : i = 1 \/ i = 2
        BY <3>2
      <4>2. FrameOK(stack[1])' /\ FrameOK(stack[2])'
        BY <2>10, <2>11, <3>2 DEF FrameOK
      <4>. QED  BY <4>1, <4>2 DEF FramesOK
    <3>6. PairsOK'
      <4>1. \A j \in 1..Len(stack') : \A i \in 1..(j - 1) : i = 1 /\ j = 2
        BY <3>2
      <4>. QED  BY <3>1, <3>2, <4>1 DEF PairsOK
    <3>. QED  BY <2>11, <3>5, <3>6 DEF CallsInv
  <2>12. CASE stack' = Append(s, F("upd", t, m)) /\ processing' = [processing EXCEPT ![t] = TRUE]
    <3>1. PICK f \in Frame : f = F("upd", t, m) /\ f.pc = "upd" /\ f.task = t
      BY FrameIn DEF FramePCs
    <3>2. Len(stack') = Len(s) + 1 /\ (\A i \in 1..Len(s) : stack'[i] = s[i]) /\ stack'[Len(s) + 1] = f
      BY <2>6, <2>12, <3>1, PushedShape
    <3>3. processing'[t] /\ \A u \in Tasks : processing'[u] => u = t
      BY <1>0, <1>1, <2>12
    <3>4. FrameOK(f)'
      BY <1>2, <2>8, <3>1, <3>3 DEF FrameOK, WaitPCs
    <3>5. Handled'
      <4>1. 2 \in 1..Len(stack') /\ stack'[2] = f
        BY <2>6, <3>2
      <4>2. 2 \in UpdateCalls(t)'
        BY <3>1, <4>1 DEF UpdateCalls
      <4>. QED  BY <3>3, <4>2 DEF Handled
    <3>. QED  BY <2>11, <3>1, <3>2, <3>4, <3>5
  <2>13. CASE stack' = DisposeIfMust(s, t) /\ processing' = processing
    <3>1. Handled'
      BY <1>1, <2>13 DEF Handled
    <3>2. CASE stack' = s
      <4>0. Len(stack') = 1
        BY <2>6, <3>2
      <4>1. FramesOK'
        <5>1. \A i \in 1..Len(stack') : i = 1
          BY <4>0
        <5>2. FrameOK(stack[1])'
          BY <2>6, <2>10, <3>2 DEF FrameOK
        <5>. QED  BY <5>1, <5>2 DEF FramesOK
      <4>2. PairsOK'
        <5>1. \A j \in 1..Len(stack') : \A i \in 1..(j - 1) : FALSE
          BY <4>0
        <5>. QED  BY <5>1 DEF PairsOK
      <4>. QED  BY <3>1, <4>1, <4>2 DEF CallsInv
    <3>3. CASE /\ mustdispose[t] /\ Len(stack') = Len(s) + 1
               /\ \A i \in 1..Len(s) : stack'[i] = s[i]
               /\ stack'[Len(s) + 1] = F("dd", t, NoMsg)
      <4>1. PICK f \in Frame : f = F("dd", t, NoMsg) /\ f.pc = "dd" /\ f.task = t
        BY FrameIn DEF FramePCs
      <4>2. FrameOK(f)'
        BY <1>2, <2>8, <4>1 DEF FrameOK, WaitPCs
      <4>. QED  BY <2>11, <3>1, <3>3, <4>1, <4>2
    <3>4. s \in Seq(Frame) /\ t \in Tasks /\ stack' = DisposeIfMust(s, t)
      BY <2>6, <2>13
    <3>5. PICK r : r = stack'
      OBVIOUS
    <3>6. \/ r = s
          \/ /\ mustdispose[t] /\ Len(r) = Len(s) + 1
             /\ \A i \in 1..Len(s) : r[i] = s[i]
             /\ r[Len(s) + 1] = F("dd", t, NoMsg)
      BY <3>4, <3>5, DisposeIfMustShape
    <3>. QED  BY <3>2, <3>3, <3>5, <3>6
  <2>. QED  BY <2>3, <2>7, <2>12, <2>13 DEF Processreply
<1>. QED  BY <1>3, <1>4

LEMMA CallsMain ==
  ASSUME TaskInv, AnswerInv, CallsInv, TypeOK', MainStep
  PROVE  CallsInv'
<1>. USE DEF mainVars, flagVars, semaVars, subVars
<1>0. stack \in Seq(Frame) /\ taskport \in Seq(Message) /\ mustdispose \in [Tasks -> BOOLEAN]
  BY DEF AnswerInv, TypeOK
<1>1. PICK n \in Nat : n = Len(stack)
  BY <1>0
<1>2. ASSUME stack # <<>>
      PROVE  /\ n > 0 /\ Top = stack[n] /\ Top \in Frame /\ Top.task \in Tasks
             /\ FrameOK(Top) /\ FrameMsg(Top) /\ n \in 1..Len(stack)
  BY <1>0, <1>1, <1>2, TopCall
<1>3. ASSUME stack # <<>>, Top.pc \in {"dd", "ddPtr", "ddFree", "procure", "stWait"}
      PROVE  disposing[Top.task]
  <2>1. FrameInv(n) /\ Top = stack[n]
    BY <1>2, <1>3 DEF TaskInv
  <2>. QED  BY <1>3, <2>1 DEF FrameInv
<1>4. CASE EventWait
  <2>1. UNCHANGED <<stack, spc, taskport, subport, held, processing, disposing, mustdispose, tstate>>
        /\ stack = <<>>
    BY <1>4 DEF EventWait
  <2>. QED  BY <2>1 DEF CallsInv, FramesOK, PairsOK, Handled, UpdateCalls
<1>5. CASE Processtask
  BY <1>5, CallsProcesstask
<1>6. CASE UpdateReturns
  BY <1>6, CallsUpdateReturns
<1>7. ASSUME stack # <<>>, Top.pc # "upd", stack' = Pop,
             UNCHANGED <<spc, taskport, subport, held, processing, disposing, mustdispose, tstate>>
      PROVE  CallsInv'
  BY <1>0, <1>7, SameReturn
<1>8. CASE ProcesstaskReturns
  BY <1>7, <1>8 DEF ProcesstaskReturns, AtTop
<1>9. CASE StarttaskReturns
  BY <1>7, <1>9 DEF StarttaskReturns, AtTop
<1>10. CASE MessageReturns
  <2>1. stack # <<>> /\ Top.pc = "msgK" /\ stack' = DisposeIfMust(Pop, Top.task)
        /\ UNCHANGED <<spc, taskport, subport, held, processing, disposing, mustdispose, tstate>>
    BY <1>10 DEF MessageReturns, AtTop
  <2>2. stack' = Pop
    BY <1>2, <2>1 DEF FrameOK, DisposeIfMust
  <2>. QED  BY <1>7, <2>1, <2>2
<1>11. ASSUME NEW i \in First(OfTask(Top.task)), stack # <<>>, Top.pc \in {"ptr", "wfm"},
              Processreply(stack, taskport[i]), taskport' = RemoveAt(taskport, i),
              Top.pc = "wfm" => Top.msg # taskport[i] /\ Top.msg.type # "startup",
              UNCHANGED <<spc, subport, held, disposing, mustdispose, tstate>>
       PROVE  CallsInv'
  <2>1. i \in 1..Len(taskport) /\ taskport[i].task = Top.task
    BY DEF First, OfTask
  <2>2. Taken(i)
    BY <1>0, <1>11, <2>1, RemoveTakes
  <2>. QED  BY <1>11, <2>1, <2>2, SameReply
<1>12. CASE Processtaskreply
  <2>1. stack # <<>> /\ Top.pc = "ptr"
        /\ UNCHANGED <<spc, subport, held, disposing, mustdispose, tstate>>
    BY <1>12 DEF Processtaskreply, AtTop
  <2>2. CASE stack' = Pop /\ UNCHANGED <<processing, taskport>>
    BY <1>7, <2>1, <2>2
  <2>3. ASSUME NEW i \in First(OfTask(Top.task)), Processreply(stack, taskport[i]),
               taskport' = RemoveAt(taskport, i)
        PROVE  CallsInv'
    BY <1>11, <2>1, <2>3
  <2>. QED  BY <1>12, <2>2, <2>3 DEF Processtaskreply
<1>13. CASE WaitformsgScan
  <2>1. stack # <<>> /\ Top.pc = "wfm"
        /\ UNCHANGED <<spc, subport, held, disposing, mustdispose, tstate>>
    BY <1>13 DEF WaitformsgScan, AtTop
  <2>2. CASE /\ stack' = Goto(F("wfmWait", Top.task, Top.msg))
             /\ UNCHANGED <<taskport, processing>>
    <3>1. Top.msg \in Message
      BY <1>2, <2>1 DEF FrameMsg
    <3>2. PICK f \in Frame : /\ f = F("wfmWait", Top.task, Top.msg) /\ f.pc = "wfmWait"
                             /\ f.task = Top.task /\ f.msg = Top.msg
      BY <1>2, <2>1, <3>1, FrameIn DEF FramePCs
    <3>3. FrameOK(f)
      BY <1>2, <2>1, <3>2 DEF FrameOK, WaitPCs
    <3>4. FrameOK(f)'
      BY <2>1, <2>2, <3>2, <3>3, FrameSame DEF FrameOK
    <3>5. \A e \in Frame : PairOK(e, Top) => PairOK(e, f)
      BY <2>1, <3>2 DEF PairOK, WaitPCs
    <3>6. stack' = Goto(f)
      BY <2>2, <3>2
    <3>. QED  BY <1>0, <2>1, <2>2, <3>4, <3>5, <3>6, SameGoto
  <2>3. ASSUME NEW i \in First(OfTask(Top.task)), taskport' = RemoveAt(taskport, i)
        PROVE  CallsInv' \/ /\ taskport[i] = Top.msg => ~(stack' = Pop /\ processing' = processing)
                            /\ taskport[i] # Top.msg => ~Processreply(stack, taskport[i])
    <3>1. i \in 1..Len(taskport) /\ taskport[i].task = Top.task /\ Taken(i)
      BY <1>0, <2>3, RemoveTakes DEF First, OfTask
    <3>2. CASE taskport[i] # Top.msg /\ Processreply(stack, taskport[i])
      <4>1. Awaits(Top.task, Top.msg)
        BY <1>2, <2>1 DEF FrameOK, WaitPCs
      <4>2. Top.msg.type # "startup"
        BY <3>2, <4>1 DEF Awaits, StartupFirst
      <4>. QED  BY <1>11, <2>1, <2>3, <3>2, <4>2
    <3>3. CASE taskport[i] = Top.msg /\ stack' = Pop /\ processing' = processing
      <4>1. Len(stack') = n - 1 /\ \A j \in 1..(n - 1) : stack'[j] = stack[j]
        BY <1>0, <1>1, <2>1, <3>3, PopShape
      <4>2. Fits(n - 1, Top) /\ n > 0 /\ Top = stack[n]
        BY <1>0, <1>1, <2>1, TopCall
      <4>3. ASSUME NEW f \in Frame, NEW j \in 1..(n - 1), stack[j] = f PROVE FrameOK(f)'
        <5>1. j \in 1..Len(stack)
          BY <1>1
        <5>2. FrameOK(f) /\ FrameMsg(f) /\ PairOK(f, Top)
          BY <4>2, <4>3, <5>1 DEF CallsInv, FramesOK, AnswerInv, Fits
        <5>3. ASSUME f.pc \in WaitPCs PROVE Awaits(f.task, f.msg)'
          <6>1. Awaits(f.task, f.msg) /\ f.msg.task = f.task /\ f.task # Top.task
            BY <2>1, <5>2, <5>3 DEF FrameOK, FrameMsg, PairOK, WaitPCs
          <6>2. f.msg # taskport[i] /\ taskport[i].task # f.task
            BY <3>1, <6>1
          <6>. QED  BY <1>0, <2>1, <3>1, <6>1, <6>2, AwaitsTaken
        <5>. QED  BY <2>1, <3>3, <5>2, <5>3 DEF FrameOK
      <4>4. PICK k \in 0..Len(stack) : k = n - 1
        <5>1. n - 1 \in 0..Len(stack)
          BY <1>1, <4>2
        <5>. QED  BY <5>1
      <4>5. Lower(k)
        BY <1>1, <4>1, <4>3, <4>4 DEF Lower
      <4>6. Handled'
        <5>1. \A j \in (k + 1)..Len(stack) : j = n
          BY <1>1, <4>4
        <5>2. Len(stack') \in Nat /\ k <= Len(stack') /\ (\A j \in 1..k : stack'[j] = stack[j])
              /\ \A j \in (k + 1)..Len(stack) : stack[j].pc # "upd"
          BY <2>1, <4>1, <4>2, <4>4, <5>1
        <5>3. stack \in Seq(Frame) /\ Handled /\ processing' = processing /\ k \in 0..Len(stack)
          BY <1>0, <3>3, <4>4 DEF CallsInv
        <5>. QED  BY <5>2, <5>3, HandledSame
      <4>7. Len(stack') = k
        BY <4>1, <4>4
      <4>. QED  BY <1>0, <4>5, <4>6, <4>7, NoCall DEF CallsInv
    <3>. QED  BY <3>2, <3>3
  <2>. QED  BY <1>13, <2>2, <2>3 DEF WaitformsgScan
<1>14. CASE WaitformsgWakes
  <2>1. stack # <<>> /\ Top.pc = "wfmWait" /\ stack' = Goto(F("wfm", Top.task, Top.msg))
        /\ UNCHANGED <<spc, taskport, subport, held, processing, disposing, mustdispose, tstate>>
    BY <1>14 DEF WaitformsgWakes, AtTop
  <2>2. Top.msg \in Message
    BY <1>2, <2>1 DEF FrameMsg
  <2>3. PICK f \in Frame : /\ f = F("wfm", Top.task, Top.msg) /\ f.pc = "wfm"
                           /\ f.task = Top.task /\ f.msg = Top.msg
    BY <1>2, <2>1, <2>2, FrameIn DEF FramePCs
  <2>4. FrameOK(f)
    BY <1>2, <2>1, <2>3 DEF FrameOK, WaitPCs
  <2>5. FrameOK(f)'
    BY <2>1, <2>3, <2>4, FrameSame DEF FrameOK
  <2>6. \A e \in Frame : PairOK(e, Top) => PairOK(e, f)
    BY <2>1, <2>3 DEF PairOK, WaitPCs
  <2>7. stack' = Goto(f)
    BY <2>1, <2>3
  <2>. QED  BY <1>0, <2>1, <2>5, <2>6, <2>7, SameGoto
<1>15. ASSUME NEW f \in Frame, NEW g \in Frame, NEW h \in Frame, stack # <<>>,
              stack' = Goto(f) \o <<g, h>> \/ stack' = Goto(f) \o <<g>>
       PROVE  /\ Len(stack') = n + 1 \/ (Len(stack') = n + 2 /\ stack'[n + 2] = h)
              /\ stack'[n] = f /\ stack'[n + 1] = g /\ \A i \in 1..(n - 1) : stack'[i] = stack[i]
  <2>1. PICK r : r = Goto(f)
    OBVIOUS
  <2>2. /\ r \in Seq(Frame) /\ Len(r) = n /\ r[n] = f
        /\ \A i \in 1..(n - 1) : r[i] = stack[i]
    <3>1. stack \in Seq(Frame) /\ stack # <<>> /\ f \in Frame
      BY <1>0, <1>15
    <3>. QED  BY <1>1, <2>1, <3>1, GoonShape
  <2>3. n \in 1..n /\ \A i \in 1..(n - 1) : i \in 1..n
    BY <1>2, <1>15
  <2>4. CASE stack' = r \o <<g, h>>
    <3>1. /\ Len(stack') = Len(r) + 2 /\ (\A i \in 1..Len(r) : stack'[i] = r[i])
          /\ stack'[Len(r) + 1] = g /\ stack'[Len(r) + 2] = h
      <4>1. r \in Seq(Frame) /\ g \in Frame /\ h \in Frame
        BY <1>15, <2>2
      <4>. QED  BY <2>4, <4>1, PushedTwoShape
    <3>. QED  BY <2>2, <2>3, <3>1
  <2>5. CASE stack' = r \o <<g>>
    <3>1. /\ Len(stack') = Len(r) + 1 /\ (\A i \in 1..Len(r) : stack'[i] = r[i])
          /\ stack'[Len(r) + 1] = g
      <4>1. r \in Seq(Frame) /\ g \in Frame
        BY <1>15, <2>2
      <4>. QED  BY <2>5, <4>1, PushedOneShape
    <3>. QED  BY <2>2, <2>3, <3>1
  <2>. QED  BY <1>15, <2>1, <2>4, <2>5
<1>16. {"procure", "ptr", "stWait", "ddPtr", "ddFree"} \subseteq FramePCs
  BY DEF FramePCs
<1>17. ASSUME NEW pc \in {"procure", "ptr", "stWait", "ddPtr", "ddFree"}, NEW t \in Tasks,
              ~mustdispose'[t], tstate[t] # "freed", tstate' = tstate, disposing'[t]
       PROVE  /\ F(pc, t, NoMsg) \in Frame /\ F(pc, t, NoMsg).pc = pc /\ F(pc, t, NoMsg).task = t
              /\ FrameOK(F(pc, t, NoMsg))'
  <2>1. PICK f \in Frame : f = F(pc, t, NoMsg) /\ f.pc = pc /\ f.task = t
    BY <1>16, FrameIn
  <2>2. FrameOK(f)'
    BY <1>17, <2>1 DEF FrameOK, WaitPCs
  <2>. QED  BY <2>1, <2>2
<1>18. CASE Dodisposetask
  <2>1. stack # <<>> /\ Top.pc = "dd"
        /\ UNCHANGED <<spc, taskport, subport, held, processing, disposing, tstate>>
        /\ mustdispose' = [mustdispose EXCEPT ![Top.task] = FALSE]
        /\ stack' = Goto(F("ddPtr", Top.task, NoMsg))
                    \o <<F("procure", Top.task, NoMsg), F("ptr", Top.task, NoMsg)>>
    BY <1>18 DEF Dodisposetask, AtTop
  <2>2. PICK t \in Tasks : t = Top.task
    BY <1>2, <2>1
  <2>3. ~mustdispose'[t] /\ tstate[t] # "freed" /\ disposing'[t] /\ tstate' = tstate
        /\ \A u \in Tasks : mustdispose'[u] => mustdispose[u]
    BY <1>0, <1>2, <1>3, <2>1, <2>2 DEF FrameOK
  <2>4. PICK f \in Frame : f = F("ddPtr", t, NoMsg) /\ f.pc = "ddPtr" /\ f.task = t /\ FrameOK(f)'
    BY <1>17, <2>3
  <2>5. PICK g \in Frame : g = F("procure", t, NoMsg) /\ g.pc = "procure" /\ g.task = t /\ FrameOK(g)'
    BY <1>17, <2>3
  <2>6. PICK h \in Frame : h = F("ptr", t, NoMsg) /\ h.pc = "ptr" /\ h.task = t /\ FrameOK(h)'
    BY <1>17, <2>3
  <2>7. /\ Len(stack') = n + 1 \/ (Len(stack') = n + 2 /\ stack'[n + 2] = h)
        /\ stack'[n] = f /\ stack'[n + 1] = g /\ \A i \in 1..(n - 1) : stack'[i] = stack[i]
    <3>1. stack' = Goto(f) \o <<g, h>>
      BY <2>1, <2>2, <2>4, <2>5, <2>6
    <3>. QED  BY <1>15, <2>1, <3>1
  <2>8. \A e \in Frame : PairOK(e, Top) => PairOK(e, f) /\ PairOK(e, g) /\ PairOK(e, h)
    BY <2>1, <2>2, <2>4, <2>5, <2>6 DEF PairOK, WaitPCs
  <2>9. PairOK(f, g) /\ PairOK(f, h) /\ PairOK(g, h)
    BY <2>4, <2>5, <2>6 DEF PairOK
  <2>10. /\ stack # <<>> /\ Top.pc # "upd" /\ FrameOK(f)' /\ FrameOK(g)' /\ FrameOK(h)'
         /\ UNCHANGED <<spc, taskport, subport, held, processing, disposing, tstate>>
         /\ \A u \in Tasks : mustdispose'[u] => mustdispose[u]
    BY <2>1, <2>3, <2>4, <2>5, <2>6
  <2>. QED  BY <1>0, <1>1, <2>7, <2>8, <2>9, <2>10, SameMore
<1>19. CASE Procure
  <2>1. stack # <<>> /\ Top.pc = "procure" /\ stack' = Goto(F("stWait", Top.task, NoMsg))
        /\ UNCHANGED <<spc, taskport, subport, held, processing, disposing, mustdispose, tstate>>
    BY <1>19 DEF Procure, AtTop
  <2>2. ~mustdispose'[Top.task] /\ tstate[Top.task] # "freed" /\ disposing'[Top.task]
    BY <1>2, <1>3, <2>1 DEF FrameOK
  <2>3. PICK f \in Frame : /\ f = F("stWait", Top.task, NoMsg) /\ f.pc = "stWait"
                           /\ f.task = Top.task /\ FrameOK(f)'
    BY <1>2, <1>17, <2>1, <2>2
  <2>4. \A e \in Frame : PairOK(e, Top) => PairOK(e, f)
    BY <2>1, <2>3 DEF PairOK, WaitPCs
  <2>5. stack' = Goto(f)
    BY <2>1, <2>3
  <2>. QED  BY <1>0, <2>1, <2>3, <2>4, <2>5, SameGoto
<1>20. CASE StoptaskWakes
  <2>1. /\ stack # <<>> /\ Top.pc = "stWait"
        /\ UNCHANGED <<spc, taskport, subport, held, processing, disposing, mustdispose, tstate>>
        /\ \/ stack' = Pop \/ stack' = stack \/ stack' = Append(stack, F("ptr", Top.task, NoMsg))
    <3>1. CASE ssig /\ semaport # <<>> /\ Head(semaport) = Top.task
      BY <1>20, <3>1 DEF StoptaskWakes, AtTop
    <3>2. CASE ~(ssig /\ semaport # <<>> /\ Head(semaport) = Top.task)
      BY <1>20, <3>2 DEF StoptaskWakes, AtTop
    <3>. QED  BY <3>1, <3>2
  <2>2. CASE stack' = Pop
    BY <1>7, <2>1, <2>2
  <2>3. CASE stack' = stack
    <3>1. PICK k \in 0..Len(stack) : k = n
      BY <1>1
    <3>2. Lower(k) /\ Len(stack') = k
      BY <1>0, <1>1, <2>1, <2>3, <3>1, LowerSame DEF CallsInv
    <3>3. Handled'
      BY <2>1, <2>3 DEF CallsInv, Handled, UpdateCalls
    <3>. QED  BY <1>0, <3>2, <3>3, NoCall DEF CallsInv
  <2>4. CASE stack' = Append(stack, F("ptr", Top.task, NoMsg))
    <3>1. ~mustdispose'[Top.task] /\ tstate[Top.task] # "freed" /\ disposing'[Top.task]
      BY <1>2, <1>3, <2>1 DEF FrameOK
    <3>2. PICK f \in Frame : /\ f = F("ptr", Top.task, NoMsg) /\ f.pc = "ptr"
                             /\ f.task = Top.task /\ FrameOK(f)'
      BY <1>2, <1>17, <2>1, <3>1
    <3>3. PairOK(Top, f) /\ \A e \in Frame : PairOK(e, Top) => PairOK(e, f)
      BY <2>1, <3>2 DEF PairOK, WaitPCs
    <3>4. stack' = Append(stack, f)
      BY <2>4, <3>2
    <3>. QED  BY <1>0, <2>1, <3>2, <3>3, <3>4, SamePush
  <2>. QED  BY <2>1, <2>2, <2>3, <2>4
<1>21. CASE DodisposetaskDrains
  <2>1. stack # <<>> /\ Top.pc = "ddPtr"
        /\ UNCHANGED <<spc, taskport, subport, held, processing, disposing, mustdispose, tstate>>
        /\ stack' = Goto(F("ddFree", Top.task, NoMsg)) \o <<F("ptr", Top.task, NoMsg)>>
    BY <1>21 DEF DodisposetaskDrains, AtTop
  <2>2. PICK t \in Tasks : t = Top.task
    BY <1>2, <2>1
  <2>3. ~mustdispose'[t] /\ tstate[t] # "freed" /\ disposing'[t] /\ tstate' = tstate
        /\ \A u \in Tasks : mustdispose'[u] => mustdispose[u]
    BY <1>0, <1>2, <1>3, <2>1, <2>2 DEF FrameOK
  <2>4. PICK f \in Frame : f = F("ddFree", t, NoMsg) /\ f.pc = "ddFree" /\ f.task = t /\ FrameOK(f)'
    BY <1>17, <2>3
  <2>5. PICK g \in Frame : g = F("ptr", t, NoMsg) /\ g.pc = "ptr" /\ g.task = t /\ FrameOK(g)'
    BY <1>17, <2>3
  <2>10. PICK h \in Frame : h = g
    OBVIOUS
  <2>6. /\ Len(stack') = n + 1 \/ (Len(stack') = n + 2 /\ stack'[n + 2] = h)
        /\ stack'[n] = f /\ stack'[n + 1] = g /\ \A i \in 1..(n - 1) : stack'[i] = stack[i]
    BY <1>15, <2>1, <2>2, <2>4, <2>5, <2>10
  <2>7. \A e \in Frame : PairOK(e, Top) => PairOK(e, f) /\ PairOK(e, g) /\ PairOK(e, h)
    BY <2>1, <2>2, <2>4, <2>5, <2>10 DEF PairOK, WaitPCs
  <2>8. PairOK(f, g) /\ PairOK(f, h) /\ PairOK(g, h)
    BY <2>4, <2>5, <2>10 DEF PairOK
  <2>9. /\ stack # <<>> /\ Top.pc # "upd" /\ FrameOK(f)' /\ FrameOK(g)' /\ FrameOK(h)'
        /\ UNCHANGED <<spc, taskport, subport, held, processing, disposing, tstate>>
        /\ \A u \in Tasks : mustdispose'[u] => mustdispose[u]
    BY <2>1, <2>3, <2>4, <2>5, <2>10
  <2>. QED  BY <1>0, <1>1, <2>6, <2>7, <2>8, <2>9, SameMore
<1>22. CASE DodisposetaskFrees
  <2>1. /\ stack # <<>> /\ Top.pc = "ddFree" /\ stack' = Pop
        /\ UNCHANGED <<spc, taskport, subport, held, processing, disposing, mustdispose>>
        /\ tstate' = [tstate EXCEPT ![Top.task] = "freed"]
    BY <1>22 DEF DodisposetaskFrees, AtTop
  <2>2. Len(stack') = n - 1 /\ \A j \in 1..(n - 1) : stack'[j] = stack[j]
    BY <1>0, <1>1, <2>1, PopShape
  <2>3. Fits(n - 1, Top) /\ n > 0 /\ Top = stack[n]
    BY <1>0, <1>1, <2>1, TopCall
  <2>4. ASSUME NEW f \in Frame, NEW j \in 1..(n - 1), stack[j] = f PROVE FrameOK(f)'
    <3>1. j \in 1..Len(stack)
      BY <1>1
    <3>2. FrameOK(f) /\ PairOK(f, Top) /\ f.task \in Tasks
      BY <2>3, <2>4, <3>1 DEF CallsInv, FramesOK, Fits, Frame
    <3>3. tstate \in [Tasks -> {"new", "run", "suspend", "dead", "freed"}]
      BY DEF AnswerInv, TypeOK
    <3>4. tstate'[f.task] = "freed" => f.pc = "ptTail"
      BY <2>1, <3>2, <3>3 DEF FrameOK, PairOK
    <3>. QED  BY <2>1, <3>2, <3>4, FrameSame DEF FrameOK
  <2>5. PICK k \in 0..Len(stack) : k = n - 1
    <3>1. n - 1 \in 0..Len(stack)
      BY <1>1, <2>3
    <3>. QED  BY <3>1
  <2>6. Lower(k)
    BY <1>1, <2>2, <2>4, <2>5 DEF Lower
  <2>7. Handled'
    <3>1. \A j \in (k + 1)..Len(stack) : j = n
      BY <1>1, <2>5
    <3>2. Len(stack') \in Nat /\ k <= Len(stack') /\ (\A j \in 1..k : stack'[j] = stack[j])
          /\ \A j \in (k + 1)..Len(stack) : stack[j].pc # "upd"
      BY <2>1, <2>2, <2>3, <2>5, <3>1
    <3>3. stack \in Seq(Frame) /\ Handled /\ processing' = processing /\ k \in 0..Len(stack)
      BY <1>0, <2>1, <2>5 DEF CallsInv
    <3>. QED  BY <3>2, <3>3, HandledSame
  <2>8. Len(stack') = k
    BY <2>2, <2>5
  <2>. QED  BY <1>0, <2>6, <2>7, <2>8, NoCall DEF CallsInv
<1>. QED
  BY <1>4, <1>5, <1>6, <1>8, <1>9, <1>10, <1>12, <1>13, <1>14, <1>18, <1>19, <1>20, <1>21,
     <1>22 DEF MainStep

-----------------------------------------------------------------------------
(* Steps of the clients. *)

LEMMA AwaitsPut ==
  ASSUME subport \in [Tasks -> Seq(Message)], NEW t \in Tasks, NEW m \in Message,
         subport' = subport \/ subport' = [subport EXCEPT ![t] = Append(@, m)],
         UNCHANGED <<spc, taskport, held>>, NEW u \in Tasks, NEW a, a.task = u, Awaits(u, a)
  PROVE  Awaits(u, a)'
<1>1. StartupFirst(u) => StartupFirst(u)'
  BY DEF StartupFirst, First, OfTask, Startup
<1>2. ASSUME Contains(subport[u], a) PROVE Contains(subport'[u], a)
  <2>1. CASE subport'[u] = subport[u]
    BY <1>2, <2>1
  <2>2. CASE u = t /\ subport' = [subport EXCEPT ![t] = Append(@, m)]
    <3>1. PICK q \in Seq(Message) : q = subport[u]
      OBVIOUS
    <3>2. subport'[u] = Append(q, m)
      BY <2>2, <3>1
    <3>3. Len(subport'[u]) = Len(q) + 1 /\ \A i \in 1..Len(q) : subport'[u][i] = q[i]
      BY <3>1, <3>2, PushFacts
    <3>4. PICK i \in 1..Len(q) : q[i] = a
      BY <1>2, <3>1 DEF Contains
    <3>5. i \in 1..Len(subport'[u]) /\ subport'[u][i] = a
      BY <3>1, <3>3, <3>4
    <3>. QED  BY <3>5 DEF Contains
  <2>3. subport'[u] = subport[u] \/ (u = t /\ subport' = [subport EXCEPT ![t] = Append(@, m)])
    OBVIOUS
  <2>. QED  BY <2>1, <2>2, <2>3
<1>3. Underway(a)'
  BY <1>2 DEF Awaits, Underway
<1>. QED  BY <1>1, <1>3 DEF Awaits, Startup

\* Main's calls stay as they are.
LEMMA SameCalls ==
  ASSUME stack \in Seq(Frame), CallsInv, AnswerInv, UNCHANGED <<stack, processing>>,
         \A f \in Frame : \A i \in 1..Len(stack) :
            stack[i] = f /\ FrameOK(f) /\ FrameMsg(f) => FrameOK(f)'
  PROVE  CallsInv'
<1>1. PICK k \in 0..Len(stack) : k = Len(stack)
  OBVIOUS
<1>2. ASSUME NEW f \in Frame, NEW i \in 1..k, stack[i] = f PROVE FrameOK(f)'
  <2>1. i \in 1..Len(stack) /\ FrameOK(f) /\ FrameMsg(f)
    BY <1>1, <1>2 DEF CallsInv, FramesOK, AnswerInv
  <2>. QED  BY <1>2, <2>1
<1>3. k <= Len(stack') /\ Len(stack') = k /\ \A i \in 1..k : stack'[i] = stack[i]
  BY <1>1
<1>4. Lower(k)
  BY <1>2, <1>3 DEF Lower
<1>5. Handled'
  BY DEF CallsInv, Handled, UpdateCalls
<1>. QED  BY <1>3, <1>4, <1>5, NoCall DEF CallsInv

\* A subtask is started from the event loop, or by the target of another task.
LEMMA CallsStart ==
  ASSUME TaskInv, AnswerInv, CallsInv, TypeOK', NEW t \in Tasks, Starttask(t)
  PROVE  CallsInv'
<1>. USE DEF mainVars, flagVars, semaVars, subVars
<1>0. /\ stack \in Seq(Frame) /\ spc \in [Tasks -> {"none", "start", "run", "suspended", "exit", "ended", "failed"}]
      /\ tstate \in [Tasks -> {"new", "run", "suspend", "dead", "freed"}]
  BY DEF AnswerInv, TypeOK
<1>1. PICK n \in Nat : n = Len(stack)
  BY <1>0
<1>2. /\ tstate[t] = "new" /\ ~disposing[t] /\ ~mustdispose[t]
      /\ stack = <<>> \/ (stack # <<>> /\ Top.pc = "upd")
      /\ UNCHANGED <<taskport, subport, held, processing, disposing, mustdispose>>
  BY DEF Starttask, MayStart, Caller, AtTop, TaskInv, DisposeInv
<1>3. spc[t] = "none" /\ OfTask(t) = {}
  BY <1>2 DEF TaskInv, SubtaskInv, AwaitsStartup, Quiet
<1>4. ASSUME stack # <<>>
      PROVE  n > 0 /\ Top = stack[n] /\ FrameOK(Top) /\ Fits(n - 1, Top)
  BY <1>0, <1>1, <1>4, TopCall
<1>5. CASE stack' = stack /\ spc' = spc /\ tstate' = [tstate EXCEPT ![t] = "dead"]
  <2>1. ASSUME NEW f \in Frame, FrameOK(f) PROVE FrameOK(f)'
    <3>1. f.task \in Tasks
      BY DEF Frame
    <3>2. tstate'[f.task] = "freed" => f.pc = "ptTail"
      BY <1>0, <1>5, <2>1, <3>1 DEF FrameOK
    <3>. QED  BY <1>2, <1>5, <2>1, <3>2, FrameSame DEF FrameOK
  <2>. QED  BY <1>0, <1>2, <1>5, <2>1, SameCalls
<1>6. ASSUME /\ spc' = [spc EXCEPT ![t] = "start"] /\ tstate' = tstate
             /\ stack' = stack \o <<F("startK", t, NoMsg), F("wfm", t, Msg("startup", t, FALSE, 0))>>
      PROVE  CallsInv'
  <2>1. PICK a \in Message : a = Startup(t) /\ a.type = "startup" /\ a.task = t
    <3>1. "startup" \in {"startup", "set"}
      OBVIOUS
    <3>. QED  BY <3>1, SomeSyncMsg DEF Startup
  <2>2. PICK f \in Frame : f = F("startK", t, NoMsg) /\ f.pc = "startK" /\ f.task = t
    BY FrameIn DEF FramePCs
  <2>3. PICK g \in Frame : g = F("wfm", t, a) /\ g.pc = "wfm" /\ g.task = t /\ g.msg = a
    BY FrameIn DEF FramePCs
  <2>4. stack' = stack \o <<f, g>>
    BY <1>6, <2>1, <2>2, <2>3 DEF Startup
  <2>5. /\ Len(stack') = n + 2 /\ (\A i \in 1..n : stack'[i] = stack[i])
        /\ stack'[n + 1] = f /\ stack'[n + 2] = g
    BY <1>0, <1>1, <2>4, PushedTwoShape
  <2>6. ASSUME NEW e \in Frame, FrameOK(e), FrameMsg(e) PROVE FrameOK(e)'
    <3>1. e.task \in Tasks
      BY DEF Frame
    <3>2. e.task # t => spc'[e.task] = spc[e.task]
      BY <1>0, <1>6, <3>1
    <3>3. e.pc = "upd" => spc'[e.task] \notin {"none", "start"}
      BY <1>3, <2>6, <3>2 DEF FrameOK
    <3>4. ASSUME e.pc \in WaitPCs PROVE Awaits(e.task, e.msg)'
      <4>1. Awaits(e.task, e.msg) /\ e.msg.task = e.task /\ e.task # t
        BY <1>3, <2>6, <3>4 DEF FrameOK, FrameMsg, Awaits, WaitPCs
      <4>2. Underway(e.msg)'
        BY <1>2, <3>2, <4>1 DEF Awaits, Underway
      <4>3. StartupFirst(e.task) => StartupFirst(e.task)'
        BY <1>2, <3>2, <4>1 DEF StartupFirst, First, OfTask, Startup
      <4>. QED  BY <3>2, <4>1, <4>2, <4>3 DEF Awaits, Startup
    <3>. QED  BY <1>2, <1>6, <2>6, <3>3, <3>4 DEF FrameOK
  <2>7. ASSUME NEW i \in 1..n
        PROVE  /\ stack[i] \in Frame /\ FrameOK(stack[i]) /\ FrameMsg(stack[i])
               /\ stack[i].task = t => stack[i].pc \notin {"upd", "wfm", "wfmWait"}
    <3>1. stack[i] \in Frame /\ FrameOK(stack[i]) /\ FrameMsg(stack[i])
      BY <1>0, <1>1 DEF CallsInv, FramesOK, AnswerInv
    <3>. QED  BY <1>3, <3>1 DEF FrameOK, Awaits, WaitPCs
  <2>8. PICK k \in 0..Len(stack) : k = n
    BY <1>1
  <2>9. Lower(k)
    <3>1. k <= Len(stack') /\ \A i \in 1..k : stack'[i] = stack[i]
      BY <2>5, <2>8
    <3>2. ASSUME NEW e \in Frame, NEW i \in 1..k, stack[i] = e PROVE FrameOK(e)'
      BY <2>6, <2>7, <2>8, <3>2
    <3>. QED  BY <3>1, <3>2 DEF Lower
  <2>10. Handled'
    <3>1. /\ Len(stack') \in Nat /\ k <= Len(stack') /\ (\A i \in 1..k : stack'[i] = stack[i])
          /\ \A i \in (k + 1)..Len(stack) : stack[i].pc # "upd"
      BY <1>1, <2>5, <2>8
    <3>. QED  BY <1>0, <1>2, <3>1, HandledSame DEF CallsInv
  <2>11. FrameOK(f)'
    BY <1>2, <1>6, <2>2 DEF FrameOK, WaitPCs
  <2>12. FrameOK(g)'
    <3>1. spc'[t] = "start"
      BY <1>0, <1>6
    <3>2. OfTask(t)' = {}
      BY <1>2, <1>3 DEF OfTask
    <3>3. StartupFirst(t)'
      BY <3>1, <3>2 DEF StartupFirst, First
    <3>4. Underway(a)'
      BY <2>1, <3>1 DEF Underway
    <3>5. Awaits(t, a)'
      BY <2>1, <3>1, <3>3, <3>4 DEF Awaits, Startup
    <3>. QED  BY <1>2, <1>6, <2>3, <3>5 DEF FrameOK, WaitPCs
  <2>13. ASSUME NEW i \in 1..n PROVE PairOK(stack[i], f) /\ PairOK(stack[i], g)
    <3>1. stack # <<>> /\ n > 0
      BY <1>1
    <3>2. Top.pc = "upd" /\ Top = stack[n] /\ Fits(n - 1, Top)
      BY <1>2, <1>4, <3>1
    <3>3. CASE i = n
      BY <2>2, <2>3, <2>7, <3>2, <3>3 DEF PairOK
    <3>4. CASE i # n
      <4>1. i \in 1..(n - 1)
        BY <3>1, <3>4
      <4>2. PairOK(stack[i], Top)
        BY <3>2, <4>1 DEF Fits
      <4>. QED  BY <2>2, <2>3, <2>7, <3>2, <4>2 DEF PairOK, WaitPCs
    <3>. QED  BY <3>3, <3>4
  <2>14. Fits(k, f) /\ Fits(k, g) /\ PairOK(f, g)
    BY <2>1, <2>2, <2>3, <2>8, <2>13 DEF Fits, PairOK, WaitPCs
  <2>15. Len(stack') = k + 2 /\ stack'[k + 1] = f /\ stack'[k + 2] = g
    BY <2>5, <2>8
  <2>. QED  BY <1>0, <2>9, <2>10, <2>11, <2>12, <2>14, <2>15, MoreCalls DEF CallsInv
<1>. QED  BY <1>5, <1>6 DEF Starttask

\* A task object is disposed of, at once or when its target returns.
LEMMA CallsDispose ==
  ASSUME TaskInv, AnswerInv, CallsInv, TypeOK', NEW t \in Tasks, Disposetask(t)
  PROVE  CallsInv'
<1>. USE DEF mainVars, flagVars, semaVars, subVars
<1>0. /\ stack \in Seq(Frame) /\ disposing \in [Tasks -> BOOLEAN]
      /\ mustdispose \in [Tasks -> BOOLEAN]
  BY DEF AnswerInv, TypeOK
<1>1. PICK n \in Nat : n = Len(stack)
  BY <1>0
<1>2. /\ ~disposing[t] /\ ~mustdispose[t] /\ tstate[t] # "freed"
      /\ stack = <<>> \/ (stack # <<>> /\ Top.pc = "upd" /\ Frees)
      /\ disposing' = [disposing EXCEPT ![t] = TRUE]
      /\ UNCHANGED <<spc, taskport, subport, held, processing, tstate>>
  <2>1. ~disposing[t] /\ tstate[t] # "freed" /\ disposing' = [disposing EXCEPT ![t] = TRUE]
        /\ UNCHANGED <<spc, taskport, subport, held, processing, tstate>>
    BY DEF Disposetask, Known
  <2>2. stack = <<>> \/ (stack # <<>> /\ Top.pc = "upd" /\ Frees)
    BY DEF Disposetask, Caller, AtTop, Frees
  <2>3. ~mustdispose[t]
    BY <2>1 DEF TaskInv, DisposeInv
  <2>. QED  BY <2>1, <2>2, <2>3
<1>3. \A u \in Tasks : disposing[u] => disposing'[u]
  BY <1>0, <1>2
<1>4. ASSUME NEW i \in 1..n
      PROVE  /\ stack[i] \in Frame /\ stack[i].task \in Tasks /\ FrameOK(stack[i])
             /\ Top.pc = "upd"
             /\ i # n => PairOK(stack[i], Top)
             /\ stack[i].pc \notin {"wfm", "wfmWait", "startK", "msgK"}
             /\ stack[i].task = t => stack[i].pc \in {"upd", "ptTail"}
  <2>1. stack # <<>> /\ n > 0
    BY <1>1
  <2>2. Top.pc = "upd" /\ Frees /\ Top = stack[n] /\ Fits(n - 1, Top)
    BY <1>0, <1>1, <1>2, <2>1, TopCall
  <2>3. stack[i] \in Frame /\ stack[i].task \in Tasks /\ FrameOK(stack[i]) /\ FrameInv(i)
    <3>1. i \in 1..Len(stack) /\ stack[i] \in Frame
      BY <1>0, <1>1
    <3>2. stack[i].task \in Tasks
      BY <3>1 DEF Frame
    <3>3. FrameOK(stack[i])
      BY <3>1 DEF CallsInv, FramesOK
    <3>4. FrameInv(i)
      BY <3>1 DEF TaskInv
    <3>. QED  BY <3>1, <3>2, <3>3, <3>4
  <2>4. i # n => PairOK(stack[i], Top)
    <3>1. i # n => i \in 1..(n - 1)
      BY <1>1
    <3>. QED  BY <2>2, <3>1 DEF Fits
  <2>5. stack[i].pc \notin {"wfm", "wfmWait", "startK", "msgK"}
    <3>1. CASE i = n
      BY <2>2, <3>1
    <3>2. CASE i # n
      BY <2>2, <2>3, <2>4, <3>2 DEF FrameOK, PairOK, Awaits, WaitPCs
    <3>. QED  BY <3>1, <3>2
  <2>6. stack[i].task = t => stack[i].pc \in {"upd", "ptTail"}
    <3>1. stack[i].task = t => stack[i].pc \notin {"dd", "ddPtr", "ddFree", "procure", "stWait", "ptr"}
      BY <1>2, <2>3 DEF FrameInv, FrameOK
    <3>2. stack[i].pc \in FramePCs
      BY <2>3 DEF Frame
    <3>. QED  BY <2>5, <3>1, <3>2 DEF FramePCs
  <2>. QED  BY <2>2, <2>3, <2>4, <2>5, <2>6
<1>5. CASE processing[t] /\ stack' = stack /\ mustdispose' = [mustdispose EXCEPT ![t] = TRUE]
  <2>1. ASSUME NEW f \in Frame, NEW i \in 1..Len(stack), stack[i] = f, FrameOK(f)
        PROVE  FrameOK(f)'
    <3>1. f.task \in Tasks /\ (f.task = t => f.pc \in {"upd", "ptTail"})
      BY <1>1, <1>4, <2>1
    <3>2. mustdispose'[f.task] => f.task = t \/ mustdispose[f.task]
      BY <1>0, <1>5, <3>1
    <3>3. mustdispose'[f.task] => f.pc \in {"upd", "ptTail", "dd"}
      BY <2>1, <3>1, <3>2 DEF FrameOK
    <3>4. f.pc = "ptr" => disposing'[f.task]
      BY <1>3, <2>1, <3>1 DEF FrameOK
    <3>. QED  BY <1>2, <2>1, <3>3, <3>4, FrameSame DEF FrameOK
  <2>. QED  BY <1>0, <1>2, <1>5, <2>1, SameCalls
<1>6. CASE ~processing[t] /\ stack' = Append(stack, F("dd", t, NoMsg)) /\ mustdispose' = mustdispose
  <2>1. PICK f \in Frame : f = F("dd", t, NoMsg) /\ f.pc = "dd" /\ f.task = t
    BY FrameIn DEF FramePCs
  <2>2. Len(stack') = n + 1 /\ stack'[n + 1] = f /\ \A i \in 1..n : stack'[i] = stack[i]
    BY <1>0, <1>1, <1>6, <2>1, PushedShape
  <2>3. PICK k \in 0..Len(stack) : k = n
    BY <1>1
  <2>4. Lower(k)
    <3>1. k <= Len(stack') /\ \A i \in 1..k : stack'[i] = stack[i]
      BY <2>2, <2>3
    <3>2. ASSUME NEW e \in Frame, NEW i \in 1..k, stack[i] = e PROVE FrameOK(e)'
      <4>1. FrameOK(e) /\ e.task \in Tasks
        BY <1>4, <2>3, <3>2
      <4>2. e.pc = "ptr" => disposing'[e.task]
        BY <1>3, <4>1 DEF FrameOK
      <4>. QED  BY <1>2, <1>6, <4>1, <4>2, FrameSame DEF FrameOK
    <3>. QED  BY <3>1, <3>2 DEF Lower
  <2>5. Handled'
    <3>1. /\ Len(stack') \in Nat /\ k <= Len(stack') /\ (\A i \in 1..k : stack'[i] = stack[i])
          /\ \A i \in (k + 1)..Len(stack) : stack[i].pc # "upd"
      BY <1>1, <2>2, <2>3
    <3>. QED  BY <1>0, <1>2, <3>1, HandledSame DEF CallsInv
  <2>6. FrameOK(f)'
    BY <1>2, <2>1 DEF FrameOK, WaitPCs
  <2>7. ASSUME NEW i \in 1..n PROVE PairOK(stack[i], f)
    <3>1. stack[i].task = t => stack[i].pc = "ptTail"
      BY <1>4, <1>6 DEF FrameOK
    <3>2. stack[i].pc \notin {"wfm", "wfmWait", "startK", "dd"}
      BY <1>1, <1>4, TopCall, <1>0 DEF PairOK
    <3>. QED  BY <2>1, <3>1, <3>2 DEF PairOK
  <2>8. Fits(k, f) /\ Len(stack') = k + 1 /\ stack'[k + 1] = f
    BY <2>2, <2>3, <2>7 DEF Fits
  <2>. QED  BY <1>0, <2>4, <2>5, <2>6, <2>8, OneCall DEF CallsInv
<1>. QED  BY <1>2, <1>5, <1>6 DEF Disposetask

\* From the event loop, a message is put into the port of a subtask.
LEMMA CallsPut ==
  ASSUME TaskInv, AnswerInv, CallsInv, TypeOK', stack = <<>>, NEW t \in Tasks, Known(t),
         NEW m \in Message, m.task = t, m.type # "startup", m.async \/ ~Frees,
         NEW there, Put(t, m, there), there => HasSubport(t),
         UNCHANGED <<spc, taskport, held, processing, disposing, mustdispose, tstate>>
  PROVE  CallsInv'
<1>0. /\ stack \in Seq(Frame) /\ Len(stack) = 0 /\ subport \in [Tasks -> Seq(Message)]
  BY DEF AnswerInv, TypeOK
<1>1. ~disposing[t] /\ ~mustdispose[t] /\ tstate[t] # "freed"
  BY DEF Known, AtTop, TaskInv, DisposeInv
<1>2. \A u \in Tasks : ~processing'[u]
  BY <1>0 DEF CallsInv, Handled, UpdateCalls
<1>3. Handled'
  BY <1>2 DEF Handled
<1>4. CASE stack' = stack
  BY <1>0, <1>3, <1>4 DEF CallsInv, FramesOK, PairsOK
<1>5. ASSUME there, ~m.async, subport' = [subport EXCEPT ![t] = Append(@, m)],
             stack' = stack \o <<F("msgK", t, m), F("wfm", t, m)>>
      PROVE  CallsInv'
  <2>1. PICK f \in Frame : f = F("msgK", t, m) /\ f.pc = "msgK" /\ f.task = t
    BY FrameIn DEF FramePCs
  <2>2. PICK g \in Frame : g = F("wfm", t, m) /\ g.pc = "wfm" /\ g.task = t /\ g.msg = m
    BY FrameIn DEF FramePCs
  <2>3. PICK k \in 0..Len(stack) : k = 0
    BY <1>0
  <2>4. Len(stack') = k + 2 /\ stack'[k + 1] = f /\ stack'[k + 2] = g
    <3>1. stack' = stack \o <<f, g>>
      BY <1>5, <2>1, <2>2
    <3>2. Len(stack') = Len(stack) + 2 /\ stack'[Len(stack) + 1] = f /\ stack'[Len(stack) + 2] = g
      BY <1>0, <3>1, PushedTwoShape
    <3>. QED  BY <1>0, <2>3, <3>2
  <2>5. Lower(k)
    BY <2>3, <2>4 DEF Lower
  <2>6. FrameOK(f)'
    BY <1>1, <1>5, <2>1 DEF FrameOK, WaitPCs
  <2>7. FrameOK(g)'
    <3>1. spc[t] # "none"
      BY <1>5 DEF TaskInv, SubtaskInv
    <3>2. Contains(subport'[t], m)
      <4>1. PICK q \in Seq(Message) : q = subport[t]
        BY <1>0
      <4>2. subport'[t] = Append(q, m)
        BY <1>0, <1>5, <4>1
      <4>3. Len(subport'[t]) = Len(q) + 1 /\ subport'[t][Len(q) + 1] = m
        BY <4>1, <4>2, PushFacts
      <4>4. Len(q) + 1 \in 1..Len(subport'[t])
        BY <4>1, <4>3
      <4>. QED  BY <4>3, <4>4 DEF Contains
    <3>3. Awaits(t, m)'
      BY <1>5, <3>1, <3>2 DEF Awaits, Underway
    <3>. QED  BY <1>1, <2>2, <3>3 DEF FrameOK, WaitPCs
  <2>8. Fits(k, f) /\ Fits(k, g) /\ PairOK(f, g)
    BY <2>1, <2>2, <2>3 DEF Fits, PairOK
  <2>. QED  BY <1>0, <1>3, <2>4, <2>5, <2>6, <2>7, <2>8, MoreCalls DEF CallsInv
<1>. QED  BY <1>1, <1>4, <1>5 DEF Put, DisposeIfMust

LEMMA CallsClient ==
  ASSUME CarefulClients, TaskInv, AnswerInv, CallsInv, TypeOK', Client
  PROVE  CallsInv'
<1>. USE DEF mainVars, flagVars, semaVars, subVars
<1>. SUFFICES ASSUME NEW t \in Tasks,
                     \/ Starttask(t) \/ Stopasync(t) \/ Disposetask(t) \/ Asetattrsasync(t)
                     \/ \E async \in BOOLEAN :
                           Messagetask(t, async) \/ \E data \in BOOLEAN : Setsuspend(t, data, async)
              PROVE  CallsInv'
  BY DEF Client
<1>0. /\ stack \in Seq(Frame) /\ Len(stack) \in Nat /\ subport \in [Tasks -> Seq(Message)]
  BY DEF AnswerInv, TypeOK
<1>1. ASSUME UNCHANGED <<stack, spc, taskport, subport, held, processing, disposing, mustdispose, tstate>>
      PROVE  CallsInv'
  <2>1. ASSUME NEW f \in Frame, FrameOK(f) PROVE FrameOK(f)'
    BY <1>1, <2>1, FrameSame DEF FrameOK
  <2>. QED  BY <1>0, <1>1, <2>1, SameCalls
<1>2. CASE Starttask(t)
  BY <1>2, CallsStart
<1>3. CASE Stopasync(t)
  BY <1>1, <1>3 DEF Stopasync
<1>4. CASE Disposetask(t)
  BY <1>4, CallsDispose
<1>5. CASE Asetattrsasync(t)
  <2>1. PICK m \in Message : m = Msg("set", t, FALSE, 0)
    <3>1. "set" \in {"startup", "set"}
      OBVIOUS
    <3>. QED  BY <3>1, SomeSyncMsg
  <2>2. /\ UNCHANGED <<stack, spc, taskport, held, processing, disposing, mustdispose, tstate>>
        /\ subport' = subport \/ subport' = [subport EXCEPT ![t] = Append(@, m)]
    BY <1>5, <2>1 DEF Asetattrsasync
  <2>3. ASSUME NEW f \in Frame, FrameOK(f), FrameMsg(f) PROVE FrameOK(f)'
    <3>1. f.task \in Tasks
      BY DEF Frame
    <3>2. ASSUME f.pc \in WaitPCs PROVE Awaits(f.task, f.msg)'
      <4>1. Awaits(f.task, f.msg) /\ f.msg.task = f.task
        BY <2>3, <3>2 DEF FrameOK, FrameMsg, WaitPCs
      <4>. QED  BY <1>0, <2>2, <3>1, <4>1, AwaitsPut
    <3>. QED  BY <2>2, <2>3, <3>2 DEF FrameOK
  <2>. QED  BY <1>0, <2>2, <2>3, SameCalls
<1>6. \A async \in BOOLEAN : (IF async THEN 0 ELSE Len(stack) + 1) \in Nat
  BY <1>0
<1>7. ASSUME NEW async \in BOOLEAN, MayWait(async), Caller("message") \/ Caller("suspend")
      PROVE  stack = <<>> /\ (async \/ ~Frees)
  <2>1. stack = <<>>
    BY <1>7 DEF Caller, CarefulClients
  <2>. QED  BY <1>7, <2>1 DEF MayWait, Caller, AtTop, CarefulClients
<1>8. ASSUME NEW async \in BOOLEAN, Messagetask(t, async) PROVE CallsInv'
  <2>1. PICK m \in Message : /\ m = Msg("msg", t, async, IF async THEN 0 ELSE Len(stack) + 1)
                             /\ m.type = "msg" /\ m.task = t /\ m.async = async
    BY <1>6, MsgNames, SomeMsg
  <2>2. stack = <<>> /\ (m.async \/ ~Frees)
    BY <1>7, <1>8, <2>1 DEF Messagetask
  <2>3. /\ Known(t) /\ Put(t, m, HasSubport(t))
        /\ UNCHANGED <<spc, taskport, held, processing, disposing, mustdispose, tstate>>
    BY <1>8, <2>1 DEF Messagetask
  <2>4. PICK there : there = HasSubport(t)
    OBVIOUS
  <2>5. Put(t, m, there) /\ (there => HasSubport(t))
    BY <2>3, <2>4
  <2>. QED  BY <2>1, <2>2, <2>3, <2>5, CallsPut
<1>9. ASSUME NEW async \in BOOLEAN, NEW data \in BOOLEAN, Setsuspend(t, data, async)
      PROVE  CallsInv'
  <2>1. PICK m \in Message : /\ m = Msg("suspend", t, async, IF async THEN 0 ELSE Len(stack) + 1)
                             /\ m.type = "suspend" /\ m.task = t /\ m.async = async
    BY <1>6, MsgNames, SomeMsg
  <2>2. /\ Known(t)
        /\ UNCHANGED <<spc, taskport, held, processing, disposing, mustdispose, tstate>>
    BY <1>9 DEF Setsuspend
  <2>3. CASE data
    <3>1. stack = <<>> /\ (m.async \/ ~Frees)
      BY <1>7, <1>9, <2>1, <2>3 DEF Setsuspend
    <3>2. Put(t, m, tstate[t] = "run")
      BY <1>9, <2>1, <2>3 DEF Setsuspend
    <3>3. PICK there : there = (tstate[t] = "run")
      OBVIOUS
    <3>4. Put(t, m, there) /\ (there => HasSubport(t))
      BY <3>2, <3>3 DEF HasSubport
    <3>. QED  BY <2>1, <2>2, <3>1, <3>4, CallsPut
  <2>4. CASE ~data
    <3>1. UNCHANGED <<stack, subport>>
      BY <1>9, <2>4 DEF Setsuspend
    <3>. QED  BY <1>1, <2>2, <3>1
  <2>. QED  BY <2>3, <2>4
<1>. QED  BY <1>2, <1>3, <1>4, <1>5, <1>8, <1>9

-----------------------------------------------------------------------------
(* Steps of the subtasks. *)

\* The subtask of t puts ms to main's port, and gives no other message away.
Hands(t, ms) ==
  /\ Added(ms) /\ \A i \in 1..Len(ms) : ms[i].task = t
  /\ UNCHANGED <<stack, processing, disposing, mustdispose>>
  /\ \A u \in Tasks \ {t} : /\ spc'[u] = spc[u] /\ tstate'[u] = tstate[u]
                            /\ subport'[u] = subport[u] /\ held'[u] = held[u]
  /\ spc[t] # "none" /\ spc'[t] \notin {"none", "start"} /\ tstate'[t] # "freed"
  /\ spc[t] = "start" => ms = <<Startup(t)>> /\ t \in Quiet
  /\ \A m \in Message :
        Contains(subport[t], m) \/ held[t] = m =>
           Contains(subport'[t], m) \/ held'[t] = m \/ Contains(ms, m)

LEMMA ContainsAdded ==
  ASSUME taskport \in Seq(Message), NEW ms, Added(ms), NEW m,
         Contains(taskport, m) \/ Contains(ms, m)
  PROVE  Contains(taskport', m)
<1>1. Len(taskport) \in Nat /\ Len(ms) \in Nat /\ Len(taskport') = Len(taskport) + Len(ms)
  BY DEF Added
<1>2. CASE Contains(taskport, m)
  <2>1. PICK j \in 1..Len(taskport) : taskport[j] = m
    BY <1>2 DEF Contains
  <2>2. j \in 1..Len(taskport') /\ taskport'[j] = m
    BY <1>1, <2>1 DEF Added
  <2>. QED  BY <2>2 DEF Contains
<1>3. CASE Contains(ms, m)
  <2>1. PICK j \in 1..Len(ms) : ms[j] = m
    BY <1>3 DEF Contains
  <2>2. Len(taskport) + j \in 1..Len(taskport')
    BY <1>1, <2>1
  <2>3. taskport'[Len(taskport) + j] = m
    BY <2>1 DEF Added
  <2>. QED  BY <2>2, <2>3 DEF Contains
<1>. QED  BY <1>2, <1>3

\* The startup message of a subtask of which there was none.
LEMMA StartupSent ==
  ASSUME taskport \in Seq(Message), NEW t, NEW ms, Added(ms), ms = <<Startup(t)>>, t \in Quiet
  PROVE  StartupFirst(t)' /\ Contains(taskport', Startup(t))
<1>1. PICK n \in Nat : n = Len(taskport)
  OBVIOUS
<1>2. Len(ms) = 1 /\ ms[1] = Startup(t) /\ 1 \in 1..Len(ms) /\ Startup(t).task = t
  BY DEF Startup, Msg
<1>3. Len(taskport') = n + 1 /\ taskport'[n + 1] = Startup(t)
  BY <1>1, <1>2 DEF Added
<1>4. n + 1 \in 1..Len(taskport')
  BY <1>1, <1>3
<1>5. \A j \in 1..Len(taskport) : taskport[j].task # t
  BY OfTaskIndex DEF Quiet
<1>6. ASSUME NEW j \in OfTask(t)' PROVE j = n + 1
  <2>1. j \in 1..Len(taskport') /\ taskport'[j].task = t
    BY OfTaskIndex
  <2>2. j \notin 1..Len(taskport)
    <3>1. j \in 1..Len(taskport) => taskport'[j] = taskport[j]
      BY DEF Added
    <3>. QED  BY <1>5, <2>1, <3>1
  <2>. QED  BY <1>1, <1>3, <2>1, <2>2
<1>7. n + 1 \in OfTask(t)'
  BY <1>2, <1>3, <1>4, OfTaskIndex
<1>8. ASSUME NEW k \in First(OfTask(t))' PROVE taskport'[k] = Startup(t)
  <2>1. k \in OfTask(t)'
    BY DEF First
  <2>. QED  BY <1>3, <1>6, <2>1
<1>9. OfTask(t)' # {}
  BY <1>7
<1>10. StartupFirst(t)'
  BY <1>8, <1>9 DEF StartupFirst, Startup
<1>. QED  BY <1>3, <1>4, <1>10 DEF Contains

LEMMA AwaitsHands ==
  ASSUME TaskInv, NEW t \in Tasks, NEW ms, Hands(t, ms), NEW u \in Tasks,
         NEW a \in Message, a.task = u, Awaits(u, a)
  PROVE  Awaits(u, a)'
<1>0. taskport \in Seq(Message) /\ Added(ms) /\ \A i \in 1..Len(ms) : ms[i].task = t
  BY DEF TaskInv, TypeOK, Hands
<1>1. spc'[u] # "none"
  BY DEF Awaits, Hands
<1>2. CASE u = t /\ spc[t] = "start" /\ a.type = "startup"
  <2>1. ms = <<Startup(t)>> /\ t \in Quiet /\ a = Startup(t)
    BY <1>2 DEF Hands, Awaits
  <2>2. StartupFirst(t)' /\ Contains(taskport', Startup(t))
    BY <1>0, <2>1, StartupSent
  <2>. QED  BY <1>1, <1>2, <2>1, <2>2 DEF Awaits, Underway, Startup
<1>3. CASE ~(u = t /\ spc[t] = "start" /\ a.type = "startup")
  <2>1. Contains(taskport, a) \/ Contains(ms, a) => Contains(taskport', a)
    BY <1>0, ContainsAdded
  <2>2. Underway(a)'
    <3>1. CASE u = t
      BY <1>3, <2>1, <3>1 DEF Awaits, Underway, Hands
    <3>2. CASE u # t
      BY <2>1, <3>2 DEF Awaits, Underway, Hands
    <3>. QED  BY <3>1, <3>2
  <2>3. ASSUME a.type = "startup" PROVE StartupFirst(u)'
    <3>1. StartupFirst(u)
      BY <2>3 DEF Awaits
    <3>2. spc[u] = "start" => spc'[u] = "start" /\ u # t
      BY <1>3, <2>3 DEF Hands
    <3>. QED  BY <1>0, <3>1, <3>2, StartupAdded
  <2>. QED  BY <1>1, <2>2, <2>3 DEF Awaits, Startup
<1>. QED  BY <1>2, <1>3

LEMMA CallsHands ==
  ASSUME TaskInv, AnswerInv, CallsInv, NEW t \in Tasks, NEW ms, Hands(t, ms)
  PROVE  CallsInv'
<1>0. stack \in Seq(Frame)
  BY DEF TaskInv, TypeOK
<1>1. ASSUME NEW f \in Frame, FrameOK(f), FrameMsg(f) PROVE FrameOK(f)'
  <2>1. f.task \in Tasks
    BY DEF Frame
  <2>2. f.pc = "upd" => processing'[f.task] /\ spc'[f.task] \notin {"none", "start"}
    BY <1>1, <2>1 DEF FrameOK, Hands
  <2>3. ASSUME f.pc \in WaitPCs PROVE Awaits(f.task, f.msg)'
    <3>1. Awaits(f.task, f.msg) /\ f.msg \in Message /\ f.msg.task = f.task
      BY <1>1, <2>3 DEF FrameOK, FrameMsg, WaitPCs
    <3>. QED  BY <2>1, <3>1, AwaitsHands
  <2>4. tstate'[f.task] = "freed" => f.pc = "ptTail"
    BY <1>1, <2>1 DEF FrameOK, Hands
  <2>5. disposing' = disposing /\ mustdispose' = mustdispose
    BY DEF Hands
  <2>. QED  BY <1>1, <2>2, <2>3, <2>4, <2>5 DEF FrameOK
<1>. QED  BY <1>0, <1>1, SameCalls DEF Hands

LEMMA NothingAdded ==
  ASSUME taskport \in Seq(Message), taskport' = taskport
  PROVE  \E ms \in Seq(Message) : Added(ms) /\ Len(ms) = 0
<1>1. <<>> \in Seq(Message) /\ Len(<<>>) = 0
  OBVIOUS
<1>2. PICK ms \in Seq(Message) : Len(ms) = 0
  BY <1>1
<1>3. Len(taskport) \in Nat /\ Len(taskport') = Len(taskport) + Len(ms)
  BY <1>2
<1>4. Added(ms)
  BY <1>2, <1>3 DEF Added
<1>. QED  BY <1>2, <1>4

\* A message of a queue is its first one or one of the others.
LEMMA TailKeeps ==
  ASSUME NEW q \in Seq(Message), q # <<>>, NEW m, Contains(q, m)
  PROVE  m = Head(q) \/ Contains(Tail(q), m)
<1>1. Len(q) \in Nat /\ Len(Tail(q)) = Len(q) - 1 /\ Head(q) = q[1]
  OBVIOUS
<1>2. \A j \in 1..(Len(q) - 1) : Tail(q)[j] = q[j + 1]
  OBVIOUS
<1>3. PICK j \in 1..Len(q) : q[j] = m
  BY DEF Contains
<1>4. CASE j # 1
  <2>1. j - 1 \in 1..(Len(q) - 1) /\ (j - 1) + 1 = j
    BY <1>1, <1>3, <1>4
  <2>2. Tail(q)[j - 1] = q[(j - 1) + 1]
    BY <1>2, <2>1
  <2>. QED  BY <1>1, <1>3, <2>1, <2>2 DEF Contains
<1>. QED  BY <1>1, <1>3, <1>4

\* The same for one that is taken out of the middle.
LEMMA RemoveKeeps ==
  ASSUME NEW q \in Seq(Message), NEW i \in 1..Len(q), NEW m, Contains(q, m)
  PROVE  m = q[i] \/ Contains(RemoveAt(q, i), m)
<1>0. /\ Len(RemoveAt(q, i)) = Len(q) - 1
      /\ \A j \in 1..(Len(q) - 1) :
            RemoveAt(q, i)[j] = IF j < i THEN q[j] ELSE q[j + 1]
  BY RemoveAtFacts
<1>1. PICK r : r = RemoveAt(q, i)
  OBVIOUS
<1>2. /\ Len(q) \in Nat /\ Len(r) = Len(q) - 1
      /\ \A j \in 1..(Len(q) - 1) : r[j] = IF j < i THEN q[j] ELSE q[j + 1]
  BY <1>0, <1>1
<1>3. PICK j \in 1..Len(q) : q[j] = m
  BY DEF Contains
<1>4. CASE j < i
  <2>1. j \in 1..(Len(q) - 1)
    BY <1>2, <1>3, <1>4
  <2>2. r[j] = q[j]
    BY <1>2, <1>4, <2>1
  <2>. QED  BY <1>1, <1>2, <1>3, <2>1, <2>2 DEF Contains
<1>5. CASE j > i
  <2>1. j - 1 \in 1..(Len(q) - 1) /\ ~(j - 1 < i) /\ (j - 1) + 1 = j
    BY <1>2, <1>3, <1>5
  <2>2. r[j - 1] = q[(j - 1) + 1]
    BY <1>2, <2>1
  <2>. QED  BY <1>1, <1>2, <1>3, <2>1, <2>2 DEF Contains
<1>. QED  BY <1>2, <1>3, <1>4, <1>5

\* One message goes from the subtask to main's port.
LEMMA OneSent ==
  ASSUME taskport \in Seq(Message), NEW t, NEW m \in Message, m.task = t, ToMain(<<m>>)
  PROVE  \E ms \in Seq(Message) :
            /\ ms = <<m>> /\ Added(ms) /\ Contains(ms, m)
            /\ \A i \in 1..Len(ms) : ms[i].task = t
<1>1. PICK ms \in Seq(Message) : ms = <<m>> /\ \A i \in 1..Len(ms) : ms[i].task = t
  BY OneMessage
<1>2. Len(ms) = 1 /\ ms[1] = m
  BY <1>1
<1>3. Contains(ms, m)
  BY <1>2 DEF Contains
<1>4. Added(ms)
  BY <1>1, ToMainAdds
<1>. QED  BY <1>1, <1>3, <1>4

LEMMA CallsGet ==
  ASSUME TaskInv, AnswerInv, CallsInv, TypeOK', NEW t \in Tasks,
         Gettaskmsg(t) \/ GettaskmsgSuspended(t)
  PROVE  CallsInv'
<1>. USE DEF mainVars, flagVars, semaVars, subVars
<1>0. /\ taskport \in Seq(Message) /\ subport \in [Tasks -> Seq(Message)]
      /\ held \in [Tasks -> Message \cup {NoMsg}] /\ NoMsg \notin Message
      /\ spc \in [Tasks -> {"none", "start", "run", "suspended", "exit", "ended", "failed"}]
      /\ tstate \in [Tasks -> {"new", "run", "suspend", "dead", "freed"}]
  BY TaskAssumption DEF TaskInv, TypeOK
<1>1. /\ spc[t] \in {"run", "suspended"} /\ tstate[t] # "freed"
      /\ UNCHANGED <<stack, processing, disposing, mustdispose>>
  BY SubtaskFacts DEF Gettaskmsg, GettaskmsgSuspended
<1>2. PICK q \in Seq(Message) : q = subport[t]
  BY <1>0
<1>3. \A i \in 1..Len(q) : q[i] \in Message /\ q[i].task = t
  BY <1>2 DEF TaskInv, SubtaskInv
<1>4. held[t] = NoMsg
  BY <1>1 DEF TaskInv, SubtaskInv, Gettaskmsg, GettaskmsgSuspended
<1>5. CASE /\ q # <<>> /\ held' = [held EXCEPT ![t] = Head(subport[t])]
           /\ subport' = [subport EXCEPT ![t] = Tail(@)]
           /\ UNCHANGED <<taskport, tstate, spc>>
  <2>1. PICK ms \in Seq(Message) : Added(ms) /\ Len(ms) = 0
    BY <1>0, <1>5, NothingAdded
  <2>2. /\ held'[t] = Head(q) /\ subport'[t] = Tail(q)
        /\ \A u \in Tasks \ {t} : subport'[u] = subport[u] /\ held'[u] = held[u]
    BY <1>0, <1>2, <1>5
  <2>3. ASSUME NEW m \in Message, Contains(subport[t], m) \/ held[t] = m
        PROVE  Contains(subport'[t], m) \/ held'[t] = m
    BY <1>0, <1>2, <1>4, <1>5, <2>2, <2>3, TailKeeps
  <2>4. Hands(t, ms)
    BY <1>1, <1>5, <2>1, <2>2, <2>3 DEF Hands
  <2>. QED  BY <2>4, CallsHands
<1>6. ASSUME NEW i \in 1..Len(subport[t]), ToMain(<<subport[t][i]>>), held' = held,
             subport' = [subport EXCEPT ![t] = RemoveAt(@, i)],
             NEW a \in {"run", "suspend"}, tstate' = [tstate EXCEPT ![t] = a],
             NEW b \in {"run", "suspended"}, spc' = [spc EXCEPT ![t] = b]
      PROVE  CallsInv'
  <2>1. i \in 1..Len(q) /\ q[i] \in Message /\ q[i].task = t /\ ToMain(<<q[i]>>)
    BY <1>2, <1>3, <1>6
  <2>2. PICK ms \in Seq(Message) : /\ Added(ms) /\ Contains(ms, q[i])
                                   /\ \A j \in 1..Len(ms) : ms[j].task = t
    <3>1. PICK m \in Message : m = q[i] /\ m.task = t /\ ToMain(<<m>>)
      BY <2>1
    <3>2. taskport \in Seq(Message)
      BY <1>0
    <3>3. \E ms \in Seq(Message) : /\ ms = <<m>> /\ Added(ms) /\ Contains(ms, m)
                                   /\ \A j \in 1..Len(ms) : ms[j].task = t
      BY ONLY <3>1, <3>2, OneSent
    <3>. QED  BY <3>1, <3>3
  <2>3. /\ spc'[t] = b /\ tstate'[t] = a /\ subport'[t] = RemoveAt(q, i)
        /\ \A u \in Tasks \ {t} : /\ subport'[u] = subport[u] /\ held'[u] = held[u]
                                  /\ spc'[u] = spc[u] /\ tstate'[u] = tstate[u]
    BY <1>0, <1>2, <1>6
  <2>4. ASSUME NEW m \in Message, Contains(subport[t], m) \/ held[t] = m
        PROVE  Contains(subport'[t], m) \/ Contains(ms, m)
    <3>1. Contains(q, m)
      BY <1>0, <1>2, <1>4, <2>4
    <3>2. m = q[i] \/ Contains(RemoveAt(q, i), m)
      BY <2>1, <3>1, RemoveKeeps
    <3>. QED  BY <2>2, <2>3, <3>2
  <2>5. Hands(t, ms)
    BY <1>1, <2>2, <2>3, <2>4 DEF Hands
  <2>. QED  BY <2>5, CallsHands
<1>7. CASE Gettaskmsg(t)
  <2>1. ASSUME NEW i \in First(Special(t)), ToMain(<<subport[t][i]>>), held' = held,
               subport' = [subport EXCEPT ![t] = RemoveAt(@, i)],
               NEW a \in {"run", "suspend"}, tstate' = [tstate EXCEPT ![t] = a],
               NEW b \in {"run", "suspended"}, spc' = [spc EXCEPT ![t] = b]
        PROVE  CallsInv'
    <3>1. i \in 1..Len(subport[t])
      BY DEF First, Special
    <3>. QED  BY <1>6, <2>1, <3>1
  <2>. QED  BY <1>2, <1>5, <1>7, <2>1 DEF Gettaskmsg
<1>8. CASE GettaskmsgSuspended(t)
  <2>1. PICK i \in First(Urgent(t)) :
           /\ ToMain(<<subport[t][i]>>)
           /\ subport' = [subport EXCEPT ![t] = RemoveAt(@, i)]
           /\ tstate' = [tstate EXCEPT ![t] = IF subport[t][i].type = "release" THEN "run" ELSE "suspend"]
           /\ spc' = [spc EXCEPT ![t] = IF subport[t][i].type = "release" THEN "run" ELSE "suspended"]
    BY <1>8 DEF GettaskmsgSuspended
  <2>2. i \in 1..Len(subport[t]) /\ held' = held
    BY <1>8 DEF First, Urgent, Special, GettaskmsgSuspended
  <2>. QED  BY <1>6, <2>1, <2>2
<1>. QED  BY <1>7, <1>8

LEMMA CallsSubtask ==
  ASSUME TaskInv, AnswerInv, CallsInv, TypeOK', NEW t \in Tasks, SubtaskStep(t) \/ SubtaskWork(t)
  PROVE  CallsInv'
<1>. USE DEF mainVars, flagVars, semaVars, subVars
<1>0. /\ taskport \in Seq(Message) /\ subport \in [Tasks -> Seq(Message)]
      /\ held \in [Tasks -> Message \cup {NoMsg}] /\ NoMsg \notin Message
      /\ spc \in [Tasks -> {"none", "start", "run", "suspended", "exit", "ended", "failed"}]
      /\ tstate \in [Tasks -> {"new", "run", "suspend", "dead", "freed"}]
  BY TaskAssumption DEF TaskInv, TypeOK
<1>1. taskport \in Seq(Message)
  BY <1>0
<1>2. CASE SubtaskStarts(t)
  <2>1. PICK m \in Message : m = Startup(t) /\ m.task = t
    <3>1. "startup" \in {"startup", "set"}
      OBVIOUS
    <3>. QED  BY <3>1, SomeSyncMsg DEF Startup
  <2>2. ToMain(<<m>>)
    BY <1>2, <2>1 DEF SubtaskStarts, Startup
  <2>3. PICK ms \in Seq(Message) : /\ ms = <<m>> /\ Added(ms)
                                   /\ \A j \in 1..Len(ms) : ms[j].task = t
    <3>1. \E ms \in Seq(Message) : /\ ms = <<m>> /\ Added(ms) /\ Contains(ms, m)
                                   /\ \A j \in 1..Len(ms) : ms[j].task = t
      BY ONLY <1>1, <2>1, <2>2, OneSent
    <3>. QED  BY <3>1
  <2>4. /\ spc[t] = "start" /\ t \in Quiet
        /\ UNCHANGED <<stack, processing, disposing, mustdispose, subport, held>>
    BY <1>2 DEF SubtaskStarts, TaskInv, SubtaskInv
  <2>5. /\ spc'[t] \in {"failed", "run"} /\ tstate'[t] \in {"dead", "run"}
        /\ \A u \in Tasks \ {t} : spc'[u] = spc[u] /\ tstate'[u] = tstate[u]
    BY <1>0, <1>2 DEF SubtaskStarts
  <2>6. Hands(t, ms)
    BY <2>1, <2>3, <2>4, <2>5 DEF Hands
  <2>. QED  BY <2>6, CallsHands
<1>3. CASE Gettaskmsg(t) \/ GettaskmsgSuspended(t)
  BY <1>3, CallsGet
<1>4. CASE Replytaskmsg(t)
  <2>1. held[t] # NoMsg /\ spc[t] = "run" /\ ToMain(<<held[t]>>)
    BY <1>4 DEF Replytaskmsg
  <2>2. PICK m \in Message : m = held[t] /\ m.task = t /\ ToMain(<<m>>)
    <3>1. held[t].task = t
      BY <2>1 DEF TaskInv, SubtaskInv
    <3>2. held[t] \in Message
      BY <1>0, <2>1
    <3>. QED  BY <2>1, <3>1, <3>2
  <2>3. PICK ms \in Seq(Message) : /\ Added(ms) /\ Contains(ms, m)
                                   /\ \A j \in 1..Len(ms) : ms[j].task = t
    <3>1. \E ms \in Seq(Message) : /\ ms = <<m>> /\ Added(ms) /\ Contains(ms, m)
                                   /\ \A j \in 1..Len(ms) : ms[j].task = t
      BY ONLY <1>1, <2>2, OneSent
    <3>. QED  BY <3>1
  <2>4. /\ UNCHANGED <<stack, processing, disposing, mustdispose, subport, tstate, spc>>
        /\ \A u \in Tasks \ {t} : held'[u] = held[u]
    BY <1>0, <1>4 DEF Replytaskmsg
  <2>5. tstate[t] # "freed"
    BY <2>1, SubtaskFacts
  <2>6. Hands(t, ms)
    BY <2>1, <2>2, <2>3, <2>4, <2>5 DEF Hands
  <2>. QED  BY <2>6, CallsHands
<1>5. CASE SubtaskStops(t) \/ SubtaskReleases(t) \/ SubtaskDone(t)
  <2>1. PICK ms \in Seq(Message) : Added(ms) /\ Len(ms) = 0
    <3>1. taskport' = taskport
      BY <1>5 DEF SubtaskStops, SubtaskReleases, SubtaskDone
    <3>. QED  BY <1>1, <3>1, NothingAdded
  <2>2. /\ UNCHANGED <<stack, processing, disposing, mustdispose, subport, held, tstate>>
        /\ spc[t] \notin {"none", "start"} /\ spc'[t] \notin {"none", "start"}
        /\ \A u \in Tasks \ {t} : spc'[u] = spc[u]
    BY <1>0, <1>5 DEF SubtaskStops, SubtaskReleases, SubtaskDone
  <2>3. tstate[t] # "freed"
    BY <1>5, SubtaskFacts DEF SubtaskStops, SubtaskReleases, SubtaskDone
  <2>4. Hands(t, ms)
    BY <2>1, <2>2, <2>3 DEF Hands
  <2>. QED  BY <2>4, CallsHands
<1>6. CASE SubtaskEnds(t)
  <2>1. PICK ms \in Seq(Message) : ms = subport[t]
    BY <1>0
  <2>2. ToMain(ms) /\ UNCHANGED <<stack, processing, disposing, mustdispose, held>>
    BY <1>6, <2>1 DEF SubtaskEnds
  <2>3. Added(ms)
    BY <1>1, <2>2, ToMainAdds
  <2>4. \A i \in 1..Len(ms) : ms[i].task = t
    BY <2>1 DEF TaskInv, SubtaskInv
  <2>5. /\ spc[t] = "exit" /\ spc'[t] = "ended" /\ tstate'[t] = "dead"
        /\ \A u \in Tasks \ {t} : /\ subport'[u] = subport[u]
                                  /\ spc'[u] = spc[u] /\ tstate'[u] = tstate[u]
    BY <1>0, <1>6 DEF SubtaskEnds
  <2>6. Hands(t, ms)
    BY <2>1, <2>2, <2>3, <2>4, <2>5 DEF Hands
  <2>. QED  BY <2>6, CallsHands
<1>7. ASSUME NEW async \in BOOLEAN, Updatetaskattrs(t, async)
      PROVE  CallsInv'
  <2>1. PICK m \in Message : m = Msg("update", t, async, 0) /\ m.task = t
    BY MsgNames, SomeMsg
  <2>2. ToMain(<<m>>)
    BY <1>7, <2>1 DEF Updatetaskattrs
  <2>3. PICK ms \in Seq(Message) : Added(ms) /\ \A j \in 1..Len(ms) : ms[j].task = t
    <3>1. \E ms \in Seq(Message) : /\ ms = <<m>> /\ Added(ms) /\ Contains(ms, m)
                                   /\ \A j \in 1..Len(ms) : ms[j].task = t
      BY ONLY <1>1, <2>1, <2>2, OneSent
    <3>. QED  BY <3>1
  <2>4. /\ UNCHANGED <<stack, processing, disposing, mustdispose, subport, held, tstate, spc>>
        /\ spc[t] \in {"run", "exit"}
    BY <1>7 DEF Updatetaskattrs, Running
  <2>5. tstate[t] # "freed"
    BY <2>4, SubtaskFacts
  <2>6. Hands(t, ms)
    BY <2>3, <2>4, <2>5 DEF Hands
  <2>. QED  BY <2>6, CallsHands
<1>. QED
  BY <1>2, <1>3, <1>4, <1>5, <1>6, <1>7 DEF SubtaskStep, SubtaskWork

-----------------------------------------------------------------------------
(* The theorems. *)

LEMMA CallsInit ==
  ASSUME Init
  PROVE  CallsInv
<1>1. Len(stack) = 0 /\ \A t \in Tasks : ~processing[t]
  BY DEF Init
<1>2. 1..Len(stack) = {}
  BY <1>1
<1>. QED  BY <1>1, <1>2 DEF CallsInv, FramesOK, PairsOK, Handled

LEMMA CallsNext ==
  ASSUME CarefulClients, TaskInv, AnswerInv, CallsInv, [Next]_vars
  PROVE  CallsInv'
<1>1. TypeOK'
  BY TypeNext DEF TaskInv
<1>2. CASE MainStep
  BY <1>1, <1>2, CallsMain
<1>3. CASE Client
  BY <1>1, <1>3, CallsClient
<1>4. ASSUME NEW t \in Tasks, SubtaskStep(t) \/ SubtaskWork(t) PROVE CallsInv'
  BY <1>1, <1>4, CallsSubtask
<1>5. CASE UNCHANGED vars
  <2>1. UNCHANGED <<stack, spc, taskport, subport, held, processing, disposing, mustdispose, tstate>>
    BY <1>5 DEF vars, mainVars, flagVars, semaVars, subVars
  <2>2. ASSUME NEW f \in Frame, FrameOK(f) PROVE FrameOK(f)'
    BY <2>1, <2>2, FrameSame DEF FrameOK
  <2>3. stack \in Seq(Frame)
    BY DEF TaskInv, TypeOK
  <2>. QED  BY <2>1, <2>2, <2>3, SameCalls
<1>. QED  BY <1>2, <1>3, <1>4, <1>5 DEF Next

\* With clients that keep to the rules, main's nested calls stay in order.
THEOREM CallsInvariant ==
  ASSUME CarefulClients
  PROVE  Spec => [](TaskInv /\ AnswerInv /\ CallsInv)
<1>1. Init => TaskInv /\ AnswerInv /\ CallsInv
  BY TaskInit, AnswerInit, CallsInit
<1>2. (TaskInv /\ AnswerInv /\ CallsInv) /\ [Next]_vars => (TaskInv /\ AnswerInv /\ CallsInv)'
  BY TaskNext, AnswerNext, CallsNext
<1>. QED  BY <1>1, <1>2, PTL DEF Spec

\* A target is called for its task only when no such call is still running:
\* TSKF_PROCESSING is set exactly while there is one.
THEOREM OneUpdate ==
  ASSUME CarefulClients
  PROVE  Spec => []OneUpdateAtATime
<1>1. ASSUME TaskInv, CallsInv PROVE OneUpdateAtATime
  <2>. SUFFICES ASSUME NEW t \in Tasks
                PROVE  Cardinality(UpdateCalls(t)) = IF processing[t] THEN 1 ELSE 0
    BY DEF OneUpdateAtATime
  <2>0. stack \in Seq(Frame) /\ Len(stack) \in Nat /\ processing[t] \in BOOLEAN
    BY <1>1 DEF TaskInv, TypeOK
  <2>1. ASSUME NEW i \in UpdateCalls(t)
        PROVE  i \in 1..Len(stack) /\ stack[i].pc = "upd" /\ stack[i].task = t /\ processing[t]
    <3>1. i \in 1..Len(stack) /\ stack[i].pc = "upd" /\ stack[i].task = t
      BY DEF UpdateCalls
    <3>. QED  BY <1>1, <3>1 DEF CallsInv, FramesOK, FrameOK
  <2>2. ASSUME NEW i \in UpdateCalls(t), NEW j \in UpdateCalls(t), i < j PROVE FALSE
    <3>1. j \in 1..Len(stack) /\ i \in 1..(j - 1)
      BY <2>0, <2>1, <2>2
    <3>2. PairOK(stack[i], stack[j])
      BY <1>1, <3>1 DEF CallsInv, PairsOK
    <3>. QED  BY <2>1, <3>2 DEF PairOK
  <2>3. \A i, j \in UpdateCalls(t) : i = j
    BY <2>0, <2>1, <2>2
  <2>4. CASE processing[t]
    <3>1. PICK i : i \in UpdateCalls(t)
      BY <1>1, <2>4 DEF CallsInv, Handled
    <3>2. UpdateCalls(t) = {i}
      BY <2>3, <3>1
    <3>. QED  BY <2>4, <3>2, FS_Singleton
  <2>5. CASE ~processing[t]
    <3>1. UpdateCalls(t) = {}
      BY <2>1, <2>5
    <3>. QED  BY <2>5, <3>1, FS_EmptySet
  <2>. QED  BY <2>0, <2>4, <2>5
<1>2. TaskInv /\ AnswerInv /\ CallsInv => OneUpdateAtATime
  BY <1>1
<1>. QED  BY <1>2, CallsInvariant, PTL

\* No call of main goes on to read a task object that Dodisposetask() freed
\* in a call made inside it.
THEOREM CallsOnLive ==
  ASSUME CarefulClients
  PROVE  Spec => []NoCallOnFreed
<1>1. TaskInv /\ AnswerInv /\ CallsInv => NoCallOnFreed
  BY DEF CallsInv, FramesOK, FrameOK, NoCallOnFreed, Frames
<1>. QED  BY <1>1, CallsInvariant, PTL

\* A message that Waitformsg() waits for, in whatever call of main, is with
\* the subtask, in main's port or to be sent by a subtask that starts.
THEOREM AwaitedUnderway ==
  ASSUME CarefulClients
  PROVE  Spec => []AwaitedIsUnderway
<1>1. ASSUME CallsInv, NEW m \in Awaited PROVE Underway(m)
  <2>1. PICK i \in 1..Len(stack) : stack[i].pc \in WaitPCs /\ stack[i].msg = m
    BY DEF Awaited, Frames, WaitPCs
  <2>2. FrameOK(stack[i])
    BY <1>1 DEF CallsInv, FramesOK
  <2>. QED  BY <2>1, <2>2 DEF FrameOK, Awaits
<1>2. TaskInv /\ AnswerInv /\ CallsInv => AwaitedIsUnderway
  BY <1>1 DEF AwaitedIsUnderway, Underway
<1>. QED  BY <1>2, CallsInvariant, PTL

-----------------------------------------------------------------------------
(* Stopping a subtask. *)

Stops == {"procure", "stWait"}

\* Inside Stoptask() main processes messages of that task, and their target may
\* start other tasks.  It goes back to Stoptask() from Processtaskreply() only.
StopPair(f, g) ==
  f.pc \in Stops =>
     \/ g.pc \in {"ptr", "upd"} /\ g.task = f.task
     \/ g.pc = "startK"
     \/ g.pc \in WaitPCs /\ g.msg.type = "startup"

NextPair(f, g) == f.pc \in Stops => g.pc = "ptr"

StopsOK ==
  \A j \in 1..Len(stack) : \A i \in 1..(j - 1) :
     StopPair(stack[i], stack[j]) /\ (i = j - 1 => NextPair(stack[i], stack[j]))

\* Main has asked for the runsema of t and not yet seen the answer.
Stopping(t) == \E i \in 1..Len(stack) : stack[i].pc = "stWait" /\ stack[i].task = t

\* The request is queued while the subtask runs, or its answer is in semaport.
SemaInv ==
  \A t \in Tasks :
     /\ Stopping(t) => \/ procured[t] /\ runsema[t] = "sub" /\ semaport = <<>>
                       \/ ~procured[t] /\ semaport = <<t>> /\ ssig
     /\ ~Stopping(t) => ~procured[t] /\ ~InSemaport(t) /\ runsema[t] # "main"

\* Main waits only when it has seen all messages that are not announced.
AsleepInv ==
  stack # <<>> /\ Top.pc \in Stops \cup {"wfmWait"} /\ ~tsig => OfTask(Top.task) = {}

StopInv == StopsOK /\ SemaInv /\ AsleepInv

\* The k outermost calls stay.
Stays(k) ==
  k \in 0..Len(stack) /\ k <= Len(stack') /\ \A i \in 1..k : stack'[i] = stack[i]

LEMMA StopsKept ==
  ASSUME stack \in Seq(Frame), StopsOK, NEW k, Stays(k),
         \A j \in (k + 1)..Len(stack') : \A i \in 1..(j - 1) :
            StopPair(stack'[i], stack'[j]) /\ (i = j - 1 => NextPair(stack'[i], stack'[j]))
  PROVE  StopsOK'
<1>1. ASSUME NEW j \in 1..Len(stack'), NEW i \in 1..(j - 1)
      PROVE  StopPair(stack'[i], stack'[j]) /\ (i = j - 1 => NextPair(stack'[i], stack'[j]))
  <2>1. CASE j \in 1..k
    <3>1. j \in 1..Len(stack) /\ i \in 1..k /\ stack'[i] = stack[i] /\ stack'[j] = stack[j]
      BY <2>1 DEF Stays
    <3>. QED  BY <3>1 DEF StopsOK
  <2>2. CASE j \in (k + 1)..Len(stack')
    BY <2>2
  <2>. QED  BY <2>1, <2>2 DEF Stays
<1>. QED  BY <1>1 DEF StopsOK, StopPair, NextPair

\* One call after the k outermost, and two or three of them.
LEMMA StopsOne ==
  ASSUME stack \in Seq(Frame), StopsOK, NEW k, Stays(k), NEW f,
         Len(stack') = k + 1, stack'[k + 1] = f,
         \A i \in 1..k : StopPair(stack[i], f), k > 0 => NextPair(stack[k], f)
  PROVE  StopsOK'
<1>1. k \in Nat
  BY DEF Stays
<1>2. ASSUME NEW j \in (k + 1)..Len(stack'), NEW i \in 1..(j - 1)
      PROVE  StopPair(stack'[i], stack'[j]) /\ (i = j - 1 => NextPair(stack'[i], stack'[j]))
  <2>1. j = k + 1 /\ i \in 1..k /\ (i = j - 1 => i = k /\ k > 0)
    BY <1>1
  <2>2. stack'[i] = stack[i] /\ stack'[j] = f
    BY <2>1 DEF Stays
  <2>. QED  BY <2>1, <2>2
<1>. QED  BY <1>2, StopsKept

LEMMA StopsMore ==
  ASSUME stack \in Seq(Frame), StopsOK, NEW k, Stays(k), NEW f, NEW g, NEW h,
         stack'[k + 1] = f, stack'[k + 2] = g,
         \/ Len(stack') = k + 2
         \/ /\ Len(stack') = k + 3 /\ stack'[k + 3] = h
            /\ StopPair(f, h) /\ StopPair(g, h) /\ NextPair(g, h)
            /\ \A i \in 1..k : StopPair(stack[i], h),
         \A i \in 1..k : StopPair(stack[i], f) /\ StopPair(stack[i], g),
         k > 0 => NextPair(stack[k], f), StopPair(f, g), NextPair(f, g)
  PROVE  StopsOK'
<1>1. k \in Nat
  BY DEF Stays
<1>2. ASSUME NEW j \in (k + 1)..Len(stack'), NEW i \in 1..(j - 1)
      PROVE  StopPair(stack'[i], stack'[j]) /\ (i = j - 1 => NextPair(stack'[i], stack'[j]))
  <2>1. \/ j = k + 1 /\ i \in 1..k /\ (i = j - 1 => i = k /\ k > 0)
        \/ j = k + 2 /\ i \in 1..k /\ i # j - 1
        \/ j = k + 2 /\ i = k + 1
        \/ j = k + 3 /\ Len(stack') = k + 3 /\ i \in 1..k /\ i # j - 1
        \/ j = k + 3 /\ Len(stack') = k + 3 /\ i = k + 1 /\ i # j - 1
        \/ j = k + 3 /\ Len(stack') = k + 3 /\ i = k + 2
    BY <1>1
  <2>2. \A l \in 1..k : stack'[l] = stack[l]
    BY DEF Stays
  <2>3. Len(stack') = k + 3 => /\ stack'[k + 3] = h /\ StopPair(f, h) /\ StopPair(g, h)
                               /\ NextPair(g, h) /\ \A l \in 1..k : StopPair(stack[l], h)
    BY <1>1
  <2>. QED  BY <2>1, <2>2, <2>3
<1>. QED  BY <1>2, StopsKept

\* What is below the innermost call.
LEMMA BelowTop ==
  ASSUME stack \in Seq(Frame), StopsOK, stack # <<>>, NEW n, n = Len(stack)
  PROVE  /\ n \in Nat /\ n > 0 /\ Top = stack[n] /\ Top \in Frame /\ Top.task \in Tasks
         /\ \A i \in 1..(n - 1) : StopPair(stack[i], Top) /\ (i = n - 1 => NextPair(stack[i], Top))
<1>1. n \in Nat /\ n > 0 /\ Top = stack[n] /\ Top \in Frame
  BY PopShape
<1>2. Top.task \in Tasks
  BY <1>1 DEF Frame
<1>3. n \in 1..Len(stack)
  BY <1>1
<1>. QED  BY <1>1, <1>2, <1>3 DEF StopsOK

\* No Stoptask() is on the stack below calls that cannot be inside one.
LEMMA NoStopBelow ==
  ASSUME stack \in Seq(Frame), StopsOK, stack # <<>>, NEW n, n = Len(stack),
         \/ Top.pc \in {"dd", "ddPtr", "ddFree", "procure", "stWait", "msgK", "ptTail"}
         \/ Top.pc \in WaitPCs /\ Top.msg.type # "startup"
  PROVE  \A i \in 1..(n - 1) : stack[i].pc \notin Stops
BY BelowTop DEF StopPair, WaitPCs

LEMMA StoppingSame ==
  ASSUME stack \in Seq(Frame), NEW k, Stays(k),
         \A j \in (k + 1)..Len(stack) : stack[j].pc # "stWait",
         \A j \in (k + 1)..Len(stack') : stack'[j].pc # "stWait"
  PROVE  \A t \in Tasks : Stopping(t)' <=> Stopping(t)
<1>1. k \in Nat /\ k <= Len(stack) /\ k <= Len(stack') /\ \A i \in 1..k : stack'[i] = stack[i]
  BY DEF Stays
<1>2. ASSUME NEW t \in Tasks, Stopping(t) PROVE Stopping(t)'
  <2>1. PICK i \in 1..Len(stack) : stack[i].pc = "stWait" /\ stack[i].task = t
    BY <1>2 DEF Stopping
  <2>2. i \in 1..k
    BY <1>1, <2>1
  <2>3. i \in 1..Len(stack') /\ stack'[i] = stack[i]
    BY <1>1, <2>2
  <2>. QED  BY <2>1, <2>3 DEF Stopping
<1>3. ASSUME NEW t \in Tasks, Stopping(t)' PROVE Stopping(t)
  <2>1. PICK i \in 1..Len(stack') : stack'[i].pc = "stWait" /\ stack'[i].task = t
    BY <1>3 DEF Stopping
  <2>2. i \in 1..k
    BY <1>1, <2>1
  <2>3. i \in 1..Len(stack) /\ stack'[i] = stack[i]
    BY <1>1, <2>2
  <2>. QED  BY <2>1, <2>3 DEF Stopping
<1>. QED  BY <1>2, <1>3

LEMMA SemaSame ==
  ASSUME SemaInv, \A t \in Tasks : Stopping(t)' <=> Stopping(t),
         UNCHANGED <<semaport, procured, runsema, ssig>>
  PROVE  SemaInv'
<1>1. ASSUME NEW t \in Tasks
      PROVE  /\ Stopping(t)' => \/ procured'[t] /\ runsema'[t] = "sub" /\ semaport' = <<>>
                                \/ ~procured'[t] /\ semaport' = <<t>> /\ ssig'
             /\ ~Stopping(t)' => ~procured'[t] /\ ~InSemaport(t)' /\ runsema'[t] # "main"
  BY DEF SemaInv, InSemaport
<1>. QED  BY <1>1 DEF SemaInv

\* The innermost call is one that does not wait.
LEMMA AsleepNot ==
  ASSUME stack' \in Seq(Frame), NEW p, p = Len(stack'), p > 0,
         stack'[p].pc \notin Stops \cup {"wfmWait"}
  PROVE  AsleepInv'
<1>1. stack' # <<>> => Top' = stack'[p]
  <2>1. PICK s \in Seq(Frame) : s = stack'
    OBVIOUS
  <2>2. s # <<>> => Last(s) = s[Len(s)]
    BY FrontLastFacts
  <2>. QED  BY <2>1, <2>2 DEF Top
<1>. QED  BY <1>1 DEF AsleepInv, Stops

\* Main returns from the innermost call.
LEMMA StopReturn ==
  ASSUME stack \in Seq(Frame), stack' \in Seq(Frame), CallsInv, AnswerInv, StopInv, stack # <<>>,
         stack' = Pop, Top.pc # "stWait", UNCHANGED <<semaport, procured, runsema, ssig>>,
         Top.pc = "ptr" => OfTask(Top.task) = {} /\ taskport' = taskport
  PROVE  StopInv'
<1>1. PICK n : n = Len(stack)
  OBVIOUS
<1>2. /\ n \in Nat /\ n > 0 /\ Top = stack[n]
      /\ \A i \in 1..(n - 1) : StopPair(stack[i], Top) /\ (i = n - 1 => NextPair(stack[i], Top))
  BY <1>1, BelowTop DEF StopInv
<1>3. Len(stack') = n - 1 /\ \A i \in 1..(n - 1) : stack'[i] = stack[i]
  BY <1>1, PopShape
<1>4. PICK k \in 0..Len(stack) : k = n - 1
  <2>1. n - 1 \in 0..Len(stack)
    BY <1>1, <1>2
  <2>. QED  BY <2>1
<1>5. Stays(k) /\ Len(stack') = k
  BY <1>3, <1>4 DEF Stays
<1>6. StopsOK'
  <2>1. (k + 1)..Len(stack') = {}
    BY <1>5
  <2>. QED  BY <1>5, <2>1, StopsKept DEF StopInv
<1>7. SemaInv'
  <2>1. \A j \in (k + 1)..Len(stack) : j = n
    BY <1>1, <1>2, <1>4
  <2>2. /\ \A j \in (k + 1)..Len(stack) : stack[j].pc # "stWait"
        /\ \A j \in (k + 1)..Len(stack') : stack'[j].pc # "stWait"
    BY <1>2, <1>5, <2>1
  <2>3. \A t \in Tasks : Stopping(t)' <=> Stopping(t)
    BY <1>5, <2>2, StoppingSame
  <2>. QED  BY <2>3, SemaSame DEF StopInv
<1>8. AsleepInv'
  <2>1. CASE n = 1
    <3>1. stack' = <<>>
      BY <1>3, <2>1
    <3>. QED  BY <3>1 DEF AsleepInv
  <2>2. CASE n > 1
    <3>1. n - 1 \in 1..(n - 1) /\ n - 1 \in 1..Len(stack) /\ n \in 1..Len(stack)
      BY <1>1, <1>2, <2>2
    <3>2. PICK f \in Frame : f = stack[n - 1]
      BY <3>1
    <3>3. StopPair(f, Top) /\ NextPair(f, Top) /\ PairOK(f, Top)
      <4>1. PairOK(stack[n - 1], stack[n])
        BY <3>1 DEF CallsInv, PairsOK
      <4>. QED  BY <1>2, <3>1, <3>2, <4>1
    <3>4. f.pc # "wfmWait"
      BY <3>3 DEF PairOK
    <3>5. PICK p : p = n - 1
      OBVIOUS
    <3>6. p = Len(stack') /\ p > 0 /\ stack'[p] = f
      BY <1>2, <1>3, <2>2, <3>1, <3>2, <3>5
    <3>7. CASE f.pc \notin Stops
      BY <3>4, <3>6, <3>7, AsleepNot
    <3>8. CASE f.pc \in Stops
      <4>1. Top.pc = "ptr" /\ f.task = Top.task /\ OfTask(f.task) = {} /\ taskport' = taskport
        BY <3>3, <3>8 DEF StopPair, NextPair, WaitPCs
      <4>2. Top' = f
        <5>1. PICK s \in Seq(Frame) : s = stack'
          OBVIOUS
        <5>2. s # <<>> /\ s[Len(s)] = f
          BY <3>6, <5>1
        <5>3. Last(s) = f
          BY <5>2, FrontLastFacts
        <5>. QED  BY <5>1, <5>3 DEF Top
      <4>3. OfTask(f.task)' = {}
        BY <4>1 DEF OfTask
      <4>. QED  BY <4>2, <4>3 DEF AsleepInv, OfTask
    <3>. QED  BY <3>7, <3>8
  <2>. QED  BY <1>2, <2>1, <2>2
<1>. QED  BY <1>6, <1>7, <1>8 DEF StopInv

\* Main's calls stay.
LEMMA StopStill ==
  ASSUME StopInv, stack' = stack, UNCHANGED <<semaport, procured, runsema, ssig>>, AsleepInv'
  PROVE  StopInv'
<1>1. StopsOK'
  BY DEF StopInv, StopsOK, StopPair, NextPair, WaitPCs
<1>2. \A t \in Tasks : Stopping(t)' <=> Stopping(t)
  BY DEF Stopping
<1>. QED  BY <1>1, <1>2, SemaSame DEF StopInv

\* Main makes a call after the k outermost ones.
LEMMA StopCall ==
  ASSUME stack \in Seq(Frame), stack' \in Seq(Frame), StopInv, NEW k, Stays(k),
         \A j \in (k + 1)..Len(stack) : stack[j].pc # "stWait",
         NEW f, f.pc # "stWait", Len(stack') = k + 1, stack'[k + 1] = f,
         \A i \in 1..k : StopPair(stack[i], f), k > 0 => NextPair(stack[k], f),
         UNCHANGED <<semaport, procured, runsema, ssig>>,
         AsleepInv' \/ f.pc \notin Stops \cup {"wfmWait"}
  PROVE  StopInv'
<1>1. k \in Nat
  BY DEF Stays
<1>2. StopsOK'
  BY StopsOne DEF StopInv
<1>3. SemaInv'
  <2>1. \A j \in (k + 1)..Len(stack') : stack'[j].pc # "stWait"
    BY <1>1
  <2>2. \A t \in Tasks : Stopping(t)' <=> Stopping(t)
    BY <2>1, StoppingSame
  <2>. QED  BY <2>2, SemaSame DEF StopInv
<1>4. AsleepInv'
  <2>1. CASE f.pc \notin Stops \cup {"wfmWait"}
    <3>1. PICK p : p = k + 1
      OBVIOUS
    <3>2. p = Len(stack') /\ p > 0 /\ stack'[p].pc \notin Stops \cup {"wfmWait"}
      BY <1>1, <2>1, <3>1
    <3>. QED  BY <3>2, AsleepNot
  <2>. QED  BY <2>1
<1>. QED  BY <1>2, <1>3, <1>4 DEF StopInv

\* Main makes two or three calls at once.
LEMMA StopCalls ==
  ASSUME stack \in Seq(Frame), stack' \in Seq(Frame), StopInv, NEW k, Stays(k),
         \A j \in (k + 1)..Len(stack) : stack[j].pc # "stWait",
         NEW f, NEW g, NEW h, f.pc # "stWait", g.pc # "stWait", h.pc # "stWait",
         stack'[k + 1] = f, stack'[k + 2] = g,
         \/ Len(stack') = k + 2 /\ g.pc \notin Stops \cup {"wfmWait"}
         \/ /\ Len(stack') = k + 3 /\ stack'[k + 3] = h
            /\ StopPair(f, h) /\ StopPair(g, h) /\ NextPair(g, h)
            /\ \A i \in 1..k : StopPair(stack[i], h)
            /\ h.pc \notin Stops \cup {"wfmWait"},
         \A i \in 1..k : StopPair(stack[i], f) /\ StopPair(stack[i], g),
         k > 0 => NextPair(stack[k], f), StopPair(f, g), NextPair(f, g),
         UNCHANGED <<semaport, procured, runsema, ssig>>
  PROVE  StopInv'
<1>1. k \in Nat
  BY DEF Stays
<1>2. StopsOK'
  BY StopsMore DEF StopInv
<1>3. SemaInv'
  <2>1. ASSUME NEW j \in (k + 1)..Len(stack') PROVE stack'[j].pc # "stWait"
    <3>1. j = k + 1 \/ j = k + 2 \/ (j = k + 3 /\ stack'[k + 3] = h)
      BY <1>1
    <3>. QED  BY <3>1
  <2>2. \A t \in Tasks : Stopping(t)' <=> Stopping(t)
    BY <2>1, StoppingSame
  <2>. QED  BY <2>2, SemaSame DEF StopInv
<1>4. AsleepInv'
  <2>1. PICK p : p = Len(stack')
    OBVIOUS
  <2>2. p = Len(stack') /\ p > 0 /\ stack'[p].pc \notin Stops \cup {"wfmWait"}
    BY <1>1, <2>1
  <2>. QED  BY <2>2, AsleepNot
<1>. QED  BY <1>2, <1>3, <1>4 DEF StopInv

\* Main processes a message from inside Processtaskreply() or Waitformsg().
LEMMA StopReply ==
  ASSUME TaskInv, AnswerInv, CallsInv, StopInv, TypeOK', stack # <<>>, Top.pc \in {"ptr", "wfm"},
         NEW m \in Message, Processreply(stack, m), m.task = Top.task,
         Top.pc = "wfm" => Top.msg.type # "startup",
         UNCHANGED <<semaport, procured, runsema, ssig>>
  PROVE  StopInv'
<1>0. stack \in Seq(Frame) /\ stack' \in Seq(Frame)
  BY DEF TaskInv, TypeOK
<1>1. PICK n : n = Len(stack)
  OBVIOUS
<1>2. /\ n \in Nat /\ n > 0 /\ Top = stack[n] /\ Top.task \in Tasks /\ FrameOK(Top)
      /\ \A i \in 1..(n - 1) : StopPair(stack[i], Top)
  BY <1>0, <1>1, BelowTop, TopCall DEF StopInv
<1>3. PICK t \in Tasks : t = Top.task
  BY <1>2
<1>4. ~mustdispose[t]
  BY <1>2, <1>3 DEF FrameOK
<1>5. CASE stack' = stack
  <2>1. stack'[n].pc \notin Stops \cup {"wfmWait"} /\ n = Len(stack') /\ n > 0
    BY <1>1, <1>2, <1>5 DEF Stops
  <2>2. AsleepInv'
    BY <1>0, <2>1, AsleepNot
  <2>. QED  BY <1>5, <2>2, StopStill
<1>6. CASE stack' = Append(stack, F("upd", t, m))
  <2>1. PICK f \in Frame : f = F("upd", t, m) /\ f.pc = "upd" /\ f.task = t
    BY FrameIn DEF FramePCs
  <2>2. Len(stack') = n + 1 /\ (\A i \in 1..n : stack'[i] = stack[i]) /\ stack'[n + 1] = f
    BY <1>0, <1>1, <1>6, <2>1, PushedShape
  <2>3. PICK k \in 0..Len(stack) : k = n
    BY <1>1, <1>2
  <2>4. Stays(k) /\ Len(stack') = k + 1 /\ stack'[k + 1] = f
    BY <1>2, <2>2, <2>3 DEF Stays
  <2>5. ASSUME NEW i \in 1..k PROVE StopPair(stack[i], f)
    <3>1. CASE i = n
      BY <1>2, <3>1 DEF StopPair, Stops
    <3>2. CASE i # n
      <4>1. i \in 1..(n - 1)
        BY <1>2, <2>3, <3>2
      <4>2. StopPair(stack[i], Top)
        BY <1>2, <4>1
      <4>. QED  BY <1>3, <2>1, <4>2 DEF StopPair, WaitPCs
    <3>. QED  BY <3>1, <3>2
  <2>6. NextPair(stack[k], f)
    BY <1>2, <2>3 DEF NextPair, Stops
  <2>7. \A j \in (k + 1)..Len(stack) : stack[j].pc # "stWait"
    BY <1>1, <1>2, <2>3
  <2>8. f.pc # "stWait" /\ f.pc \notin Stops \cup {"wfmWait"}
    BY <2>1 DEF Stops
  <2>. QED  BY <1>0, <2>4, <2>5, <2>6, <2>7, <2>8, StopCall
<1>. QED  BY <1>3, <1>4, <1>5, <1>6 DEF Processreply, DisposeIfMust

LEMMA StopProcesstask ==
  ASSUME TaskInv, CallsInv, StopInv, TypeOK', Processtask
  PROVE  StopInv'
<1>. USE DEF mainVars, flagVars, semaVars, subVars
<1>0. /\ stack \in Seq(Frame) /\ stack' \in Seq(Frame) /\ taskport \in Seq(Message)
      /\ stack = <<>> /\ Len(stack) = 0
      /\ UNCHANGED <<semaport, procured, runsema, ssig>>
  BY DEF TaskInv, TypeOK, Processtask
<1>1. Stays(0) /\ \A j \in (0 + 1)..Len(stack) : stack[j].pc # "stWait"
  BY <1>0 DEF Stays
<1>2. PICK k : k = 0 /\ Stays(k) /\ \A j \in (k + 1)..Len(stack) : stack[j].pc # "stWait"
  BY <1>1
<1>3. CASE taskport = <<>>
  <2>1. stack' = stack
    BY <1>0, <1>3 DEF Processtask
  <2>. QED  BY <1>0, <2>1, StopStill DEF AsleepInv
<1>4. CASE taskport # <<>>
  <2>1. PICK m \in Message : m = Head(taskport)
    BY <1>0, <1>4
  <2>2. PICK t \in Tasks : t = m.task
    BY DEF Message
  <2>3. PICK e \in Frame : e = F("ptTail", t, NoMsg) /\ e.pc = "ptTail" /\ e.task = t
    BY FrameIn DEF FramePCs
  <2>4. PICK s \in Seq(Frame) : s = <<e>> /\ Len(s) = 1 /\ s[1] = e
    <3>1. <<e>> \in Seq(Frame) /\ Len(<<e>>) = 1 /\ <<e>>[1] = e
      OBVIOUS
    <3>. QED  BY <3>1
  <2>5. Processreply(s, m)
    BY <1>4, <2>1, <2>2, <2>3, <2>4 DEF Processtask
  <2>6. ASSUME NEW f \in Frame, f.pc \in {"upd", "dd"}, stack' = Append(s, f) PROVE StopInv'
    <3>1. Len(stack') = Len(s) + 1 /\ (\A i \in 1..Len(s) : stack'[i] = s[i]) /\ stack'[Len(s) + 1] = f
      BY <2>4, <2>6, PushedShape
    <3>2. stack'[k + 1] = e /\ stack'[k + 2] = f /\ Len(stack') = k + 2
      BY <1>2, <2>4, <3>1
    <3>3. StopPair(e, f) /\ NextPair(e, f) /\ e.pc # "stWait" /\ f.pc # "stWait"
          /\ f.pc \notin Stops \cup {"wfmWait"}
      BY <2>3, <2>6 DEF StopPair, NextPair, Stops
    <3>4. (\A i \in 1..k : StopPair(stack[i], e) /\ StopPair(stack[i], f))
          /\ (k > 0 => NextPair(stack[k], e))
      BY <1>2
    <3>5. PICK h : h = f
      OBVIOUS
    <3>. QED  BY <1>0, <1>2, <3>2, <3>3, <3>4, <3>5, StopCalls
  <2>7. CASE stack' = s
    <3>1. Len(stack') = k + 1 /\ stack'[k + 1] = e
      BY <1>2, <2>4, <2>7
    <3>2. e.pc # "stWait" /\ e.pc \notin Stops \cup {"wfmWait"}
      BY <2>3 DEF Stops
    <3>3. (\A i \in 1..k : StopPair(stack[i], e)) /\ (k > 0 => NextPair(stack[k], e))
      BY <1>2
    <3>. QED  BY <1>0, <1>2, <3>1, <3>2, <3>3, StopCall
  <2>8. PICK f \in Frame : f = F("upd", t, m) /\ f.pc = "upd"
    BY FrameIn DEF FramePCs
  <2>9. PICK g \in Frame : g = F("dd", t, NoMsg) /\ g.pc = "dd"
    BY FrameIn DEF FramePCs
  <2>10. stack' = Append(s, f) \/ stack' = s \/ stack' = Append(s, g)
    BY <2>2, <2>5, <2>8, <2>9 DEF Processreply, DisposeIfMust
  <2>. QED  BY <2>6, <2>7, <2>8, <2>9, <2>10
<1>. QED  BY <1>3, <1>4

LEMMA StopUpdateReturns ==
  ASSUME TaskInv, AnswerInv, CallsInv, StopInv, TypeOK', UpdateReturns
  PROVE  StopInv'
<1>. USE DEF mainVars, flagVars, semaVars, subVars
<1>0. /\ stack \in Seq(Frame) /\ stack' \in Seq(Frame) /\ stack # <<>> /\ Top.pc = "upd"
      /\ UNCHANGED <<semaport, procured, runsema, ssig>>
      /\ stack' = DisposeIfMust(Pop, Top.task)
  BY DEF TaskInv, TypeOK, UpdateReturns, AtTop
<1>1. PICK n : n = Len(stack)
  OBVIOUS
<1>2. /\ n \in Nat /\ n > 0 /\ Top = stack[n] /\ Top.task \in Tasks /\ FrameOK(Top)
      /\ \A i \in 1..(n - 1) : StopPair(stack[i], Top)
  BY <1>0, <1>1, BelowTop, TopCall DEF StopInv
<1>3. PICK t \in Tasks : t = Top.task
  BY <1>2
<1>4. PICK s : s = Pop
  OBVIOUS
<1>5. s \in Seq(Frame) /\ Len(s) = n - 1 /\ \A i \in 1..(n - 1) : s[i] = stack[i]
  BY <1>0, <1>1, <1>4, PopShape
<1>6. CASE ~mustdispose[t]
  <2>1. stack' = Pop
    BY <1>0, <1>3, <1>6 DEF DisposeIfMust
  <2>. QED  BY <1>0, <2>1, StopReturn
<1>7. CASE mustdispose[t]
  <2>1. PICK f \in Frame : f = F("dd", t, NoMsg) /\ f.pc = "dd"
    BY FrameIn DEF FramePCs
  <2>2. stack' = Append(s, f)
    BY <1>0, <1>3, <1>4, <1>7, <2>1 DEF DisposeIfMust
  <2>3. Len(stack') = Len(s) + 1 /\ (\A i \in 1..Len(s) : stack'[i] = s[i]) /\ stack'[Len(s) + 1] = f
    BY <1>5, <2>2, PushedShape
  <2>4. PICK k \in 0..Len(stack) : k = n - 1
    <3>1. n - 1 \in 0..Len(stack)
      BY <1>1, <1>2
    <3>. QED  BY <3>1
  <2>5. Stays(k) /\ Len(stack') = k + 1 /\ stack'[k + 1] = f
    BY <1>2, <1>5, <2>3, <2>4 DEF Stays
  <2>6. ASSUME NEW i \in 1..k PROVE stack[i].pc \notin Stops
    <3>1. i \in 1..Len(stack) /\ i \in 1..(n - 1)
      BY <1>1, <1>2, <2>4
    <3>2. FrameOK(stack[i]) /\ StopPair(stack[i], Top)
      BY <1>2, <3>1 DEF CallsInv, FramesOK
    <3>. QED  BY <1>0, <1>3, <1>7, <3>2 DEF FrameOK, StopPair, WaitPCs, Stops
  <2>7. (\A i \in 1..k : StopPair(stack[i], f)) /\ (k > 0 => NextPair(stack[k], f))
    <3>1. k > 0 => k \in 1..k
      OBVIOUS
    <3>. QED  BY <2>6, <3>1 DEF StopPair, NextPair
  <2>8. \A j \in (k + 1)..Len(stack) : stack[j].pc # "stWait"
    <3>1. \A j \in (k + 1)..Len(stack) : j = n
      BY <1>1, <1>2, <2>4
    <3>. QED  BY <1>0, <1>2, <3>1
  <2>9. f.pc # "stWait" /\ f.pc \notin Stops \cup {"wfmWait"}
    BY <2>1 DEF Stops
  <2>. QED  BY <1>0, <2>5, <2>7, <2>8, <2>9, StopCall
<1>. QED  BY <1>6, <1>7

\* The request for runsema: nobody else has one underway.
LEMMA StopProcure ==
  ASSUME TaskInv, AnswerInv, CallsInv, StopInv, TypeOK', Procure
  PROVE  StopInv'
<1>. USE DEF mainVars, flagVars, semaVars, subVars
<1>0. /\ stack \in Seq(Frame) /\ stack' \in Seq(Frame) /\ stack # <<>> /\ Top.pc = "procure"
      /\ semaport \in Seq(Tasks) /\ procured \in [Tasks -> BOOLEAN]
      /\ runsema \in [Tasks -> {"free", "sub", "main"}]
      /\ UNCHANGED <<tsig, taskport>> /\ stack' = Goto(F("stWait", Top.task, NoMsg))
  BY DEF TaskInv, TypeOK, Procure, AtTop
<1>1. PICK n : n = Len(stack)
  OBVIOUS
<1>2. n \in Nat /\ n > 0 /\ Top = stack[n] /\ Top.task \in Tasks
  BY <1>0, <1>1, BelowTop DEF StopInv
<1>3. \A i \in 1..(n - 1) : stack[i].pc \notin Stops
  BY <1>0, <1>1, NoStopBelow DEF StopInv
<1>4. PICK t \in Tasks : t = Top.task
  BY <1>2
<1>5. PICK f \in Frame : f = F("stWait", t, NoMsg) /\ f.pc = "stWait" /\ f.task = t
  BY FrameIn DEF FramePCs
<1>6. Len(stack') = n /\ (\A i \in 1..(n - 1) : stack'[i] = stack[i]) /\ stack'[n] = f
  <2>1. stack \in Seq(Frame) /\ stack # <<>> /\ stack' = Goto(f)
    BY <1>0, <1>4, <1>5
  <2>2. PICK s : s = stack'
    OBVIOUS
  <2>3. /\ Len(s) = Len(stack) /\ (\A i \in 1..(Len(stack) - 1) : s[i] = stack[i])
        /\ s[Len(stack)] = f
    BY <2>1, <2>2, GoonShape
  <2>. QED  BY <1>1, <2>2, <2>3
<1>7. PICK k \in 0..Len(stack) : k = n - 1
  <2>1. n - 1 \in 0..Len(stack)
    BY <1>1, <1>2
  <2>. QED  BY <2>1
<1>8. StopsOK'
  <2>1. Stays(k) /\ Len(stack') = k + 1 /\ stack'[k + 1] = f
    BY <1>2, <1>6, <1>7 DEF Stays
  <2>2. (\A i \in 1..k : StopPair(stack[i], f)) /\ (k > 0 => NextPair(stack[k], f))
    <3>1. k > 0 => k \in 1..k
      OBVIOUS
    <3>. QED  BY <1>3, <1>7, <3>1 DEF StopPair, NextPair
  <2>. QED  BY <1>0, <2>1, <2>2, StopsOne DEF StopInv
<1>9. \A u \in Tasks : ~Stopping(u)
  <2>1. \A i \in 1..Len(stack) : i \in 1..(n - 1) \/ i = n
    BY <1>1, <1>2
  <2>. QED  BY <1>0, <1>2, <1>3, <2>1 DEF Stopping, Stops
<1>10. semaport = <<>> /\ \A u \in Tasks : ~procured[u] /\ runsema[u] # "main"
  <2>1. \A u \in Tasks : ~procured[u] /\ ~InSemaport(u) /\ runsema[u] # "main"
    BY <1>9 DEF StopInv, SemaInv
  <2>2. semaport # <<>> => 1 \in 1..Len(semaport) /\ semaport[1] \in Tasks
    BY <1>0
  <2>. QED  BY <2>1, <2>2 DEF InSemaport
<1>11. Stopping(t)' /\ \A u \in Tasks \ {t} : ~Stopping(u)'
  <2>1. n \in 1..Len(stack') /\ \A i \in 1..Len(stack') : i \in 1..(n - 1) \/ i = n
    BY <1>2, <1>6
  <2>2. Stopping(t)'
    BY <1>5, <1>6, <2>1 DEF Stopping
  <2>3. ASSUME NEW u \in Tasks \ {t}, NEW i \in 1..Len(stack'),
               stack'[i].pc = "stWait", stack'[i].task = u
        PROVE  FALSE
    BY <1>3, <1>5, <1>6, <2>1, <2>3 DEF Stops
  <2>. QED  BY <2>2, <2>3 DEF Stopping
<1>12. SemaInv'
  <2>1. CASE runsema[t] = "free"
    <3>1. runsema' = [runsema EXCEPT ![t] = "main"] /\ semaport' = Append(semaport, t) /\ ssig' = TRUE
          /\ procured' = procured
      BY <1>4, <2>1 DEF Procure
    <3>2. semaport' = <<t>> /\ \A u \in Tasks \ {t} : ~InSemaport(u)'
      <4>1. semaport' = <<t>>
        BY <1>10, <3>1
      <4>2. Len(semaport') = 1 /\ semaport'[1] = t
        BY <4>1
      <4>3. \A i \in 1..Len(semaport') : i = 1
        BY <4>2
      <4>. QED  BY <4>1, <4>2, <4>3 DEF InSemaport
    <3>3. \A u \in Tasks \ {t} : runsema'[u] = runsema[u]
      BY <1>0, <3>1
    <3>. QED  BY <1>10, <1>11, <3>1, <3>2, <3>3 DEF SemaInv
  <2>2. CASE runsema[t] # "free"
    <3>1. procured' = [procured EXCEPT ![t] = TRUE] /\ UNCHANGED <<runsema, semaport, ssig>>
      BY <1>4, <2>2 DEF Procure
    <3>2. runsema[t] = "sub" /\ semaport' = <<>> /\ procured'[t]
          /\ \A u \in Tasks \ {t} : procured'[u] = procured[u]
      BY <1>0, <1>10, <2>2, <3>1
    <3>3. \A u \in Tasks : ~InSemaport(u)'
      <4>1. Len(semaport') = 0
        BY <3>2
      <4>2. 1..Len(semaport') = {}
        BY <4>1
      <4>. QED  BY <4>2 DEF InSemaport
    <3>. QED  BY <1>10, <1>11, <3>1, <3>2, <3>3 DEF SemaInv
  <2>. QED  BY <2>1, <2>2
<1>13. AsleepInv'
  <2>1. Top' = f
    <3>1. PICK s \in Seq(Frame) : s = stack'
      BY <1>0
    <3>2. s # <<>> /\ s[Len(s)] = f
      BY <1>2, <1>6, <3>1
    <3>3. Last(s) = f
      BY <3>2, FrontLastFacts
    <3>. QED  BY <3>1, <3>3 DEF Top
  <2>2. ~tsig => OfTask(t) = {}
    BY <1>0, <1>4 DEF StopInv, AsleepInv, Stops
  <2>3. OfTask(t)' = OfTask(t)
    BY <1>0 DEF OfTask
  <2>. QED  BY <1>0, <1>5, <2>1, <2>2, <2>3 DEF AsleepInv, OfTask
<1>. QED  BY <1>8, <1>12, <1>13 DEF StopInv

\* The answer is taken, or messages of the task are looked at meanwhile.
LEMMA StopWakes ==
  ASSUME TaskInv, AnswerInv, CallsInv, StopInv, TypeOK', StoptaskWakes
  PROVE  StopInv'
<1>. USE DEF mainVars, flagVars, semaVars, subVars
<1>0. /\ stack \in Seq(Frame) /\ stack' \in Seq(Frame) /\ stack # <<>> /\ Top.pc = "stWait"
      /\ semaport \in Seq(Tasks) /\ runsema \in [Tasks -> {"free", "sub", "main"}]
      /\ UNCHANGED <<procured, taskport>>
  BY DEF TaskInv, TypeOK, StoptaskWakes, AtTop
<1>1. PICK n : n = Len(stack)
  OBVIOUS
<1>2. n \in Nat /\ n > 0 /\ Top = stack[n] /\ Top.task \in Tasks
  BY <1>0, <1>1, BelowTop DEF StopInv
<1>3. \A i \in 1..(n - 1) : stack[i].pc \notin Stops
  BY <1>0, <1>1, NoStopBelow DEF StopInv
<1>4. PICK t \in Tasks : t = Top.task
  BY <1>2
<1>5. Stopping(t) /\ \A u \in Tasks \ {t} : ~Stopping(u)
  <2>1. n \in 1..Len(stack) /\ \A i \in 1..Len(stack) : i \in 1..(n - 1) \/ i = n
    BY <1>1, <1>2
  <2>2. Stopping(t)
    BY <1>0, <1>2, <1>4, <2>1 DEF Stopping
  <2>3. ASSUME NEW u \in Tasks \ {t}, NEW i \in 1..Len(stack),
               stack[i].pc = "stWait", stack[i].task = u
        PROVE  FALSE
    BY <1>2, <1>3, <1>4, <2>1, <2>3 DEF Stops
  <2>. QED  BY <2>2, <2>3 DEF Stopping
<1>6. CASE ssig /\ semaport # <<>> /\ Head(semaport) = t
  <2>1. /\ semaport' = Tail(semaport) /\ runsema' = [runsema EXCEPT ![t] = "free"]
        /\ stack' = Pop /\ tsig' = TRUE
    BY <1>4, <1>6 DEF StoptaskWakes
  <2>2. ~procured[t] /\ semaport = <<t>>
    BY <1>5, <1>6 DEF StopInv, SemaInv
  <2>3. \A u \in Tasks : ~InSemaport(u)'
    <3>1. Len(semaport') = 0
      BY <2>1, <2>2
    <3>2. 1..Len(semaport') = {}
      BY <3>1
    <3>. QED  BY <3>2 DEF InSemaport
  <2>4. Len(stack') = n - 1 /\ \A i \in 1..(n - 1) : stack'[i] = stack[i]
    BY <1>0, <1>1, <2>1, PopShape
  <2>5. \A i \in 1..Len(stack') : stack'[i].pc \notin Stops
    BY <1>3, <2>4
  <2>6. \A u \in Tasks : ~Stopping(u)'
    BY <2>5 DEF Stopping, Stops
  <2>7. \A u \in Tasks : ~procured'[u] /\ runsema'[u] # "main"
    <3>1. ASSUME NEW u \in Tasks PROVE runsema'[u] # "main" /\ ~procured[u]
      <4>1. CASE u = t
        BY <1>0, <2>1, <2>2, <4>1
      <4>2. CASE u # t
        BY <1>0, <1>5, <2>1, <4>2 DEF StopInv, SemaInv
      <4>. QED  BY <4>1, <4>2
    <3>. QED  BY <1>0, <3>1
  <2>8. SemaInv'
    BY <2>3, <2>6, <2>7 DEF SemaInv
  <2>9. StopsOK'
    BY <2>5 DEF StopsOK, StopPair, NextPair, Stops
  <2>10. AsleepInv'
    BY <2>1 DEF AsleepInv
  <2>. QED  BY <2>8, <2>9, <2>10 DEF StopInv
<1>7. CASE ~(ssig /\ semaport # <<>> /\ Head(semaport) = t)
  <2>1. /\ ssig' = FALSE /\ UNCHANGED runsema
        /\ semaport' = (IF ssig /\ semaport # <<>> THEN Tail(semaport) ELSE semaport)
        /\ tsig' = FALSE
        /\ stack' = IF tsig THEN Append(stack, F("ptr", t, NoMsg)) ELSE stack
    BY <1>4, <1>7 DEF StoptaskWakes
  <2>2. procured[t] /\ runsema[t] = "sub" /\ semaport = <<>>
    <3>1. semaport = <<t>> => semaport # <<>> /\ Head(semaport) = t
      OBVIOUS
    <3>. QED  BY <1>5, <1>7, <3>1 DEF StopInv, SemaInv
  <2>3. semaport' = <<>>
    BY <2>1, <2>2
  <2>4. \A u \in Tasks : ~InSemaport(u)'
    <3>1. Len(semaport') = 0
      BY <2>3
    <3>2. 1..Len(semaport') = {}
      BY <3>1
    <3>. QED  BY <3>2 DEF InSemaport
  <2>5. ASSUME \A u \in Tasks : Stopping(u)' <=> Stopping(u) PROVE SemaInv'
    <3>1. ASSUME NEW u \in Tasks, u # t PROVE ~Stopping(u)' /\ ~procured[u] /\ runsema[u] # "main"
      BY <1>5, <2>5, <3>1 DEF StopInv, SemaInv
    <3>2. procured'[t] /\ runsema'[t] = "sub" /\ Stopping(t)'
      BY <1>0, <1>5, <2>1, <2>2, <2>5
    <3>. QED  BY <1>0, <2>1, <2>3, <2>4, <3>1, <3>2 DEF SemaInv
  <2>6. CASE ~tsig
    <3>1. stack' = stack
      BY <2>1, <2>6
    <3>2. StopsOK' /\ \A u \in Tasks : Stopping(u)' <=> Stopping(u)
      BY <3>1 DEF StopInv, StopsOK, StopPair, NextPair, WaitPCs, Stopping
    <3>3. OfTask(t) = {}
      BY <1>0, <1>4, <2>6 DEF StopInv, AsleepInv, Stops
    <3>4. AsleepInv'
      BY <1>0, <1>4, <3>1, <3>3 DEF AsleepInv, OfTask, Top
    <3>. QED  BY <2>5, <3>2, <3>4 DEF StopInv
  <2>7. CASE tsig
    <3>1. PICK f \in Frame : f = F("ptr", t, NoMsg) /\ f.pc = "ptr" /\ f.task = t
      BY FrameIn DEF FramePCs
    <3>2. stack' = Append(stack, f)
      BY <2>1, <2>7, <3>1
    <3>3. Len(stack') = n + 1 /\ (\A i \in 1..n : stack'[i] = stack[i]) /\ stack'[n + 1] = f
      BY <1>0, <1>1, <3>1, <3>2, PushedShape
    <3>4. PICK k \in 0..Len(stack) : k = n
      BY <1>1, <1>2
    <3>5. Stays(k) /\ Len(stack') = k + 1 /\ stack'[k + 1] = f
      BY <1>2, <3>3, <3>4 DEF Stays
    <3>6. ASSUME NEW i \in 1..k PROVE StopPair(stack[i], f)
      <4>1. CASE i = n
        BY <1>2, <1>4, <3>1, <4>1 DEF StopPair
      <4>2. CASE i # n
        <5>1. i \in 1..(n - 1)
          BY <1>2, <3>4, <4>2
        <5>. QED  BY <1>3, <5>1 DEF StopPair
      <4>. QED  BY <4>1, <4>2
    <3>7. NextPair(stack[k], f)
      BY <3>1 DEF NextPair
    <3>8. StopsOK'
      BY <1>0, <3>5, <3>6, <3>7, StopsOne DEF StopInv
    <3>9. \A u \in Tasks : Stopping(u)' <=> Stopping(u)
      <4>1. /\ \A j \in (k + 1)..Len(stack) : stack[j].pc # "stWait"
            /\ \A j \in (k + 1)..Len(stack') : j = k + 1
        BY <1>1, <1>2, <3>4, <3>5
      <4>2. \A j \in (k + 1)..Len(stack') : stack'[j].pc # "stWait"
        BY <3>1, <3>5, <4>1
      <4>. QED  BY <1>0, <3>5, <4>1, <4>2, StoppingSame
    <3>10. AsleepInv'
      <4>1. PICK p : p = n + 1
        OBVIOUS
      <4>2. p = Len(stack') /\ p > 0 /\ stack'[p].pc \notin Stops \cup {"wfmWait"}
        BY <1>2, <3>1, <3>3, <4>1 DEF Stops
      <4>. QED  BY <1>0, <4>2, AsleepNot
    <3>. QED  BY <2>5, <3>8, <3>9, <3>10 DEF StopInv
  <2>. QED  BY <2>6, <2>7
<1>. QED  BY <1>6, <1>7

\* Waitformsg() goes to sleep when it finds no message of its task, and wakes.
LEMMA StopGoes ==
  ASSUME stack \in Seq(Frame), stack' \in Seq(Frame), StopInv, stack # <<>>,
         Top.pc \in WaitPCs, NEW f \in Frame, f.pc \in WaitPCs, f.task = Top.task, f.msg = Top.msg,
         stack' = Goto(f), UNCHANGED <<semaport, procured, runsema, ssig, taskport>>,
         f.pc = "wfmWait" => OfTask(f.task) = {}
  PROVE  StopInv'
<1>1. PICK n : n = Len(stack)
  OBVIOUS
<1>2. /\ n \in Nat /\ n > 0 /\ Top = stack[n]
      /\ \A i \in 1..(n - 1) : StopPair(stack[i], Top) /\ (i = n - 1 => NextPair(stack[i], Top))
  BY <1>1, BelowTop DEF StopInv
<1>3. Len(stack') = n /\ (\A i \in 1..(n - 1) : stack'[i] = stack[i]) /\ stack'[n] = f
  <2>1. stack \in Seq(Frame) /\ stack # <<>> /\ stack' = Goto(f)
    OBVIOUS
  <2>2. PICK s : s = stack'
    OBVIOUS
  <2>3. /\ Len(s) = Len(stack) /\ (\A i \in 1..(Len(stack) - 1) : s[i] = stack[i])
        /\ s[Len(stack)] = f
    BY <2>1, <2>2, GoonShape
  <2>. QED  BY <1>1, <2>2, <2>3
<1>4. PICK k \in 0..Len(stack) : k = n - 1
  <2>1. n - 1 \in 0..Len(stack)
    BY <1>1, <1>2
  <2>. QED  BY <2>1
<1>5. Stays(k) /\ Len(stack') = k + 1 /\ stack'[k + 1] = f
  BY <1>2, <1>3, <1>4 DEF Stays
<1>6. ASSUME NEW i \in 1..k PROVE StopPair(stack[i], f) /\ (i = k => NextPair(stack[i], f))
  <2>1. StopPair(stack[i], Top) /\ (i = k => NextPair(stack[i], Top))
    BY <1>2, <1>4
  <2>. QED  BY <2>1 DEF StopPair, NextPair, WaitPCs
<1>7. (\A i \in 1..k : StopPair(stack[i], f)) /\ (k > 0 => NextPair(stack[k], f))
  <2>1. k > 0 => k \in 1..k
    OBVIOUS
  <2>. QED  BY <1>6, <2>1
<1>8. \A j \in (k + 1)..Len(stack) : stack[j].pc # "stWait"
  <2>1. \A j \in (k + 1)..Len(stack) : j = n
    BY <1>1, <1>2, <1>4
  <2>. QED  BY <1>2, <2>1 DEF WaitPCs
<1>9. AsleepInv'
  <2>1. Top' = f
    <3>1. PICK s \in Seq(Frame) : s = stack'
      OBVIOUS
    <3>2. s # <<>> /\ s[Len(s)] = f
      BY <1>2, <1>3, <3>1
    <3>3. Last(s) = f
      BY <3>2, FrontLastFacts
    <3>. QED  BY <3>1, <3>3 DEF Top
  <2>2. OfTask(f.task)' = OfTask(f.task)
    BY DEF OfTask
  <2>3. f.pc \in Stops \cup {"wfmWait"} => OfTask(f.task) = {}
    BY DEF Stops, WaitPCs
  <2>. QED  BY <2>1, <2>2, <2>3 DEF AsleepInv, OfTask
<1>10. f.pc # "stWait"
  BY DEF WaitPCs
<1>. QED  BY <1>5, <1>7, <1>8, <1>9, <1>10, StopCall

\* The calls that Dodisposetask() makes, in place of the innermost one.
LEMMA StopDispose ==
  ASSUME stack \in Seq(Frame), stack' \in Seq(Frame), StopInv, stack # <<>>, NEW n, n = Len(stack),
         Top.pc \in {"dd", "ddPtr"}, NEW f \in Frame, NEW g \in Frame, NEW h \in Frame,
         f.pc \in {"ddPtr", "ddFree"}, h.pc = "ptr",
         stack'[n] = f, stack'[n + 1] = g, \A i \in 1..(n - 1) : stack'[i] = stack[i],
         \/ Len(stack') = n + 1 /\ g.pc = "ptr"
         \/ Len(stack') = n + 2 /\ stack'[n + 2] = h /\ g.pc = "procure" /\ g.task = h.task,
         UNCHANGED <<semaport, procured, runsema, ssig>>
  PROVE  StopInv'
<1>1. n \in Nat /\ n > 0 /\ Top = stack[n]
  BY BelowTop DEF StopInv
<1>2. \A i \in 1..(n - 1) : stack[i].pc \notin Stops
  BY NoStopBelow DEF StopInv
<1>3. PICK k \in 0..Len(stack) : k = n - 1
  <2>1. n - 1 \in 0..Len(stack)
    BY <1>1
  <2>. QED  BY <2>1
<1>4. Stays(k) /\ stack'[k + 1] = f /\ stack'[k + 2] = g
  BY <1>1, <1>3 DEF Stays
<1>5. /\ \A i \in 1..k : StopPair(stack[i], f) /\ StopPair(stack[i], g)
      /\ \A i \in 1..k : StopPair(stack[i], h)
      /\ k > 0 => NextPair(stack[k], f)
  <2>1. k > 0 => k \in 1..k
    OBVIOUS
  <2>. QED  BY <1>2, <1>3, <2>1 DEF StopPair, NextPair
<1>6. StopPair(f, g) /\ NextPair(f, g) /\ StopPair(f, h)
  BY DEF StopPair, NextPair, Stops
<1>7. \A j \in (k + 1)..Len(stack) : stack[j].pc # "stWait"
  <2>1. \A j \in (k + 1)..Len(stack) : j = n
    BY <1>1, <1>3
  <2>. QED  BY <1>1, <2>1
<1>8. f.pc # "stWait" /\ g.pc # "stWait" /\ h.pc # "stWait"
  OBVIOUS
<1>9. \/ Len(stack') = k + 2 /\ g.pc \notin Stops \cup {"wfmWait"}
      \/ /\ Len(stack') = k + 3 /\ stack'[k + 3] = h
         /\ StopPair(f, h) /\ StopPair(g, h) /\ NextPair(g, h)
         /\ \A i \in 1..k : StopPair(stack[i], h)
         /\ h.pc \notin Stops \cup {"wfmWait"}
  <2>1. CASE Len(stack') = n + 1 /\ g.pc = "ptr"
    BY <1>1, <1>3, <2>1 DEF Stops
  <2>2. CASE Len(stack') = n + 2 /\ stack'[n + 2] = h /\ g.pc = "procure" /\ g.task = h.task
    <3>1. Len(stack') = k + 3 /\ stack'[k + 3] = h
      BY <1>1, <1>3, <2>2
    <3>2. StopPair(g, h) /\ NextPair(g, h)
      BY <2>2 DEF StopPair, NextPair
    <3>3. h.pc \notin Stops \cup {"wfmWait"}
      BY DEF Stops
    <3>. QED  BY <1>5, <1>6, <3>1, <3>2, <3>3
  <2>. QED  BY <2>1, <2>2
<1>. QED  BY <1>4, <1>5, <1>6, <1>7, <1>8, <1>9, StopCalls

LEMMA StopMain ==
  ASSUME TaskInv, AnswerInv, CallsInv, StopInv, TypeOK', MainStep
  PROVE  StopInv'
<1>. USE DEF mainVars, flagVars, semaVars, subVars
<1>0. stack \in Seq(Frame) /\ stack' \in Seq(Frame) /\ taskport \in Seq(Message)
  BY DEF TaskInv, TypeOK
<1>1. PICK n \in Nat : n = Len(stack)
  BY <1>0
<1>2. ASSUME stack # <<>>
      PROVE  /\ n > 0 /\ Top = stack[n] /\ Top \in Frame /\ Top.task \in Tasks
             /\ FrameOK(Top) /\ FrameMsg(Top) /\ n \in 1..Len(stack)
  BY <1>0, <1>1, <1>2, TopCall
<1>3. CASE EventWait
  <2>1. stack = <<>> /\ stack' = stack /\ UNCHANGED <<semaport, procured, runsema, ssig>>
    BY <1>3 DEF EventWait
  <2>. QED  BY <2>1, StopStill DEF AsleepInv
<1>4. CASE Processtask
  BY <1>4, StopProcesstask
<1>5. CASE UpdateReturns
  BY <1>5, StopUpdateReturns
<1>6. ASSUME stack # <<>>, Top.pc \notin {"stWait", "ptr"}, stack' = Pop,
             UNCHANGED <<semaport, procured, runsema, ssig>>
      PROVE  StopInv'
  BY <1>0, <1>6, StopReturn
<1>7. CASE ProcesstaskReturns
  BY <1>6, <1>7 DEF ProcesstaskReturns, AtTop
<1>8. CASE StarttaskReturns
  BY <1>6, <1>8 DEF StarttaskReturns, AtTop
<1>9. CASE MessageReturns
  <2>1. stack # <<>> /\ Top.pc = "msgK" /\ stack' = DisposeIfMust(Pop, Top.task)
        /\ UNCHANGED <<semaport, procured, runsema, ssig>>
    BY <1>9 DEF MessageReturns, AtTop
  <2>2. stack' = Pop
    BY <1>2, <2>1 DEF FrameOK, DisposeIfMust
  <2>. QED  BY <1>6, <2>1, <2>2
<1>10. CASE DodisposetaskFrees
  BY <1>6, <1>10 DEF DodisposetaskFrees, AtTop
<1>11. ASSUME NEW i \in First(OfTask(Top.task)), stack # <<>>, Top.pc \in {"ptr", "wfm"},
              Processreply(stack, taskport[i]), Top.pc = "wfm" => Top.msg.type # "startup",
              UNCHANGED <<semaport, procured, runsema, ssig>>
       PROVE  StopInv'
  <2>1. i \in 1..Len(taskport) /\ taskport[i].task = Top.task
    BY DEF First, OfTask
  <2>2. PICK m \in Message : m = taskport[i]
    BY <1>0, <2>1
  <2>3. Processreply(stack, m) /\ m.task = Top.task
    BY <1>11, <2>1, <2>2
  <2>. QED  BY <1>11, <2>3, StopReply
<1>12. CASE Processtaskreply
  <2>1. stack # <<>> /\ Top.pc = "ptr" /\ UNCHANGED <<semaport, procured, runsema, ssig>>
    BY <1>12 DEF Processtaskreply, AtTop
  <2>2. CASE OfTask(Top.task) = {} /\ stack' = Pop /\ taskport' = taskport
    BY <1>0, <2>1, <2>2, StopReturn
  <2>3. ASSUME NEW i \in First(OfTask(Top.task)), Processreply(stack, taskport[i])
        PROVE  StopInv'
    BY <1>11, <2>1, <2>3
  <2>. QED  BY <1>12, <2>2, <2>3 DEF Processtaskreply
<1>13. CASE WaitformsgScan
  <2>1. stack # <<>> /\ Top.pc = "wfm" /\ UNCHANGED <<semaport, procured, runsema, ssig>>
    BY <1>13 DEF WaitformsgScan, AtTop
  <2>2. CASE OfTask(Top.task) = {} /\ stack' = Goto(F("wfmWait", Top.task, Top.msg)) /\ taskport' = taskport
    <3>1. Top.msg \in Message
      BY <1>2, <2>1 DEF FrameMsg
    <3>2. PICK f \in Frame : /\ f = F("wfmWait", Top.task, Top.msg) /\ f.pc = "wfmWait"
                             /\ f.task = Top.task /\ f.msg = Top.msg
      BY <1>2, <2>1, <3>1, FrameIn DEF FramePCs
    <3>3. stack' = Goto(f) /\ f.pc \in WaitPCs /\ Top.pc \in WaitPCs /\ OfTask(f.task) = {}
      BY <2>1, <2>2, <3>2 DEF WaitPCs
    <3>. QED  BY <1>0, <2>1, <2>2, <3>2, <3>3, StopGoes
  <2>3. ASSUME NEW i \in First(OfTask(Top.task)), taskport[i] = Top.msg, stack' = Pop
        PROVE  StopInv'
    BY <1>6, <2>1, <2>3
  <2>4. ASSUME NEW i \in First(OfTask(Top.task)), taskport[i] # Top.msg, Processreply(stack, taskport[i])
        PROVE  StopInv'
    <3>1. Awaits(Top.task, Top.msg)
      BY <1>2, <2>1 DEF FrameOK, WaitPCs
    <3>2. Top.msg.type # "startup"
      BY <2>4, <3>1 DEF Awaits, StartupFirst
    <3>. QED  BY <1>11, <2>1, <2>4, <3>2
  <2>5. \/ OfTask(Top.task) = {} /\ stack' = Goto(F("wfmWait", Top.task, Top.msg)) /\ taskport' = taskport
        \/ \E i \in First(OfTask(Top.task)) : \/ taskport[i] = Top.msg /\ stack' = Pop
                                              \/ taskport[i] # Top.msg /\ Processreply(stack, taskport[i])
    BY <1>13 DEF WaitformsgScan
  <2>. QED  BY <2>2, <2>3, <2>4, <2>5
<1>14. CASE WaitformsgWakes
  <2>1. stack # <<>> /\ Top.pc = "wfmWait" /\ stack' = Goto(F("wfm", Top.task, Top.msg))
        /\ UNCHANGED <<semaport, procured, runsema, ssig, taskport>>
    BY <1>14 DEF WaitformsgWakes, AtTop
  <2>2. Top.msg \in Message
    BY <1>2, <2>1 DEF FrameMsg
  <2>3. PICK f \in Frame : /\ f = F("wfm", Top.task, Top.msg) /\ f.pc = "wfm"
                           /\ f.task = Top.task /\ f.msg = Top.msg
    BY <1>2, <2>1, <2>2, FrameIn DEF FramePCs
  <2>4. stack' = Goto(f) /\ f.pc \in WaitPCs /\ Top.pc \in WaitPCs
    BY <2>1, <2>3 DEF WaitPCs
  <2>. QED  BY <1>0, <2>1, <2>3, <2>4, StopGoes
<1>15. ASSUME NEW f \in Frame, NEW g \in Frame, NEW h \in Frame, stack # <<>>,
              stack' = Goto(f) \o <<g, h>> \/ stack' = Goto(f) \o <<g>>
       PROVE  /\ stack' = Goto(f) \o <<g, h>> => Len(stack') = n + 2 /\ stack'[n + 2] = h
              /\ stack' = Goto(f) \o <<g>> => Len(stack') = n + 1
              /\ stack'[n] = f /\ stack'[n + 1] = g /\ \A i \in 1..(n - 1) : stack'[i] = stack[i]
  <2>1. PICK r : r = Goto(f)
    OBVIOUS
  <2>2. /\ r \in Seq(Frame) /\ Len(r) = n /\ r[n] = f
        /\ \A i \in 1..(n - 1) : r[i] = stack[i]
    <3>1. stack \in Seq(Frame) /\ stack # <<>> /\ f \in Frame
      BY <1>0, <1>15
    <3>. QED  BY <1>1, <2>1, <3>1, GoonShape
  <2>3. n \in 1..n /\ \A i \in 1..(n - 1) : i \in 1..n
    BY <1>2, <1>15
  <2>4. CASE stack' = r \o <<g, h>>
    <3>1. /\ Len(stack') = Len(r) + 2 /\ (\A i \in 1..Len(r) : stack'[i] = r[i])
          /\ stack'[Len(r) + 1] = g /\ stack'[Len(r) + 2] = h
      <4>1. r \in Seq(Frame) /\ g \in Frame /\ h \in Frame
        BY <1>15, <2>2
      <4>. QED  BY <2>4, <4>1, PushedTwoShape
    <3>2. stack' # r \o <<g>>
      <4>1. Len(r \o <<g>>) = Len(r) + 1 /\ Len(r) \in Nat
        BY <2>2
      <4>. QED  BY <3>1, <4>1
    <3>. QED  BY <2>1, <2>2, <2>3, <3>1, <3>2
  <2>5. CASE stack' = r \o <<g>>
    <3>1. /\ Len(stack') = Len(r) + 1 /\ (\A i \in 1..Len(r) : stack'[i] = r[i])
          /\ stack'[Len(r) + 1] = g
      <4>1. r \in Seq(Frame) /\ g \in Frame
        BY <1>15, <2>2
      <4>. QED  BY <2>5, <4>1, PushedOneShape
    <3>2. stack' # r \o <<g, h>>
      <4>1. Len(r \o <<g, h>>) = Len(r) + 2 /\ Len(r) \in Nat
        BY <2>2
      <4>. QED  BY <3>1, <4>1
    <3>. QED  BY <2>1, <2>2, <2>3, <3>1, <3>2
  <2>. QED  BY <1>15, <2>1, <2>4, <2>5
<1>16. CASE Dodisposetask
  <2>1. stack # <<>> /\ Top.pc = "dd" /\ UNCHANGED <<semaport, procured, runsema, ssig>>
        /\ stack' = Goto(F("ddPtr", Top.task, NoMsg))
                    \o <<F("procure", Top.task, NoMsg), F("ptr", Top.task, NoMsg)>>
    BY <1>16 DEF Dodisposetask, AtTop
  <2>2. PICK t \in Tasks : t = Top.task
    BY <1>2, <2>1
  <2>3. PICK f \in Frame : f = F("ddPtr", t, NoMsg) /\ f.pc = "ddPtr"
    BY FrameIn DEF FramePCs
  <2>4. PICK g \in Frame : g = F("procure", t, NoMsg) /\ g.pc = "procure" /\ g.task = t
    BY FrameIn DEF FramePCs
  <2>5. PICK h \in Frame : h = F("ptr", t, NoMsg) /\ h.pc = "ptr" /\ h.task = t
    BY FrameIn DEF FramePCs
  <2>6. stack' = Goto(f) \o <<g, h>>
    BY <2>1, <2>2, <2>3, <2>4, <2>5
  <2>7. Len(stack') = n + 2 /\ stack'[n + 2] = h
        /\ stack'[n] = f /\ stack'[n + 1] = g /\ \A i \in 1..(n - 1) : stack'[i] = stack[i]
    BY <1>15, <2>1, <2>6
  <2>8. g.task = h.task
    BY <2>4, <2>5
  <2>. QED  BY <1>0, <1>1, <2>1, <2>3, <2>4, <2>5, <2>7, <2>8, StopDispose
<1>17. CASE Procure
  BY <1>17, StopProcure
<1>18. CASE StoptaskWakes
  BY <1>18, StopWakes
<1>19. CASE DodisposetaskDrains
  <2>1. stack # <<>> /\ Top.pc = "ddPtr" /\ UNCHANGED <<semaport, procured, runsema, ssig>>
        /\ stack' = Goto(F("ddFree", Top.task, NoMsg)) \o <<F("ptr", Top.task, NoMsg)>>
    BY <1>19 DEF DodisposetaskDrains, AtTop
  <2>2. PICK t \in Tasks : t = Top.task
    BY <1>2, <2>1
  <2>3. PICK f \in Frame : f = F("ddFree", t, NoMsg) /\ f.pc = "ddFree"
    BY FrameIn DEF FramePCs
  <2>4. PICK g \in Frame : g = F("ptr", t, NoMsg) /\ g.pc = "ptr"
    BY FrameIn DEF FramePCs
  <2>5. PICK h \in Frame : h = g
    OBVIOUS
  <2>6. stack' = Goto(f) \o <<g>>
    BY <2>1, <2>2, <2>3, <2>4
  <2>7. Len(stack') = n + 1
        /\ stack'[n] = f /\ stack'[n + 1] = g /\ \A i \in 1..(n - 1) : stack'[i] = stack[i]
    BY <1>15, <2>1, <2>6
  <2>8. h.pc = "ptr"
    BY <2>4, <2>5
  <2>. QED  BY <1>0, <1>1, <2>1, <2>3, <2>4, <2>7, <2>8, StopDispose
<1>. QED
  BY <1>3, <1>4, <1>5, <1>7, <1>8, <1>9, <1>10, <1>12, <1>13, <1>14, <1>16, <1>17, <1>18, <1>19
     DEF MainStep

-----------------------------------------------------------------------------
(* Steps of the clients and of the subtasks. *)

LEMMA StopSame ==
  ASSUME StopInv, UNCHANGED <<stack, taskport, tsig, semaport, procured, runsema, ssig>>
  PROVE  StopInv'
<1>1. AsleepInv'
  BY DEF StopInv, AsleepInv, OfTask, Top
<1>. QED  BY <1>1, StopStill

LEMMA StopStart ==
  ASSUME TaskInv, AnswerInv, CallsInv, StopInv, TypeOK', NEW t \in Tasks, Starttask(t)
  PROVE  StopInv'
<1>. USE DEF mainVars, flagVars, semaVars, subVars
<1>0. /\ stack \in Seq(Frame) /\ stack' \in Seq(Frame)
      /\ stack = <<>> \/ (stack # <<>> /\ Top.pc = "upd")
      /\ UNCHANGED <<taskport, tsig, semaport, procured, runsema, ssig>>
  BY DEF TaskInv, TypeOK, Starttask, MayStart, Caller, AtTop
<1>1. PICK n \in Nat : n = Len(stack)
  BY <1>0
<1>2. CASE stack' = stack
  BY <1>0, <1>2, StopSame
<1>3. CASE stack' = stack \o <<F("startK", t, NoMsg), F("wfm", t, Msg("startup", t, FALSE, 0))>>
  <2>1. PICK a \in Message : a = Startup(t) /\ a.type = "startup"
    <3>1. "startup" \in {"startup", "set"}
      OBVIOUS
    <3>. QED  BY <3>1, SomeSyncMsg DEF Startup
  <2>2. PICK f \in Frame : f = F("startK", t, NoMsg) /\ f.pc = "startK"
    BY FrameIn DEF FramePCs
  <2>3. PICK g \in Frame : g = F("wfm", t, a) /\ g.pc = "wfm" /\ g.msg = a
    BY FrameIn DEF FramePCs
  <2>4. stack' = stack \o <<f, g>>
    BY <1>3, <2>1, <2>2, <2>3 DEF Startup
  <2>5. /\ Len(stack') = n + 2 /\ (\A i \in 1..n : stack'[i] = stack[i])
        /\ stack'[n + 1] = f /\ stack'[n + 2] = g
    BY <1>0, <1>1, <2>4, PushedTwoShape
  <2>6. PICK k \in 0..Len(stack) : k = n
    BY <1>1
  <2>7. Stays(k) /\ Len(stack') = k + 2 /\ stack'[k + 1] = f /\ stack'[k + 2] = g
    BY <2>5, <2>6 DEF Stays
  <2>8. \A i \in 1..k : StopPair(stack[i], f) /\ StopPair(stack[i], g)
    BY <2>1, <2>2, <2>3 DEF StopPair, WaitPCs
  <2>9. k > 0 => NextPair(stack[k], f)
    <3>1. ASSUME k > 0 PROVE stack[k].pc = "upd"
      <4>1. stack # <<>> /\ k = Len(stack)
        BY <1>1, <2>6, <3>1
      <4>. QED  BY <1>0, <4>1, BelowTop DEF StopInv
    <3>. QED  BY <3>1 DEF NextPair, Stops
  <2>10. StopPair(f, g) /\ NextPair(f, g) /\ f.pc # "stWait" /\ g.pc # "stWait"
         /\ g.pc \notin Stops \cup {"wfmWait"}
    BY <2>2, <2>3 DEF StopPair, NextPair, Stops
  <2>11. \A j \in (k + 1)..Len(stack) : stack[j].pc # "stWait"
    BY <1>1, <2>6
  <2>12. PICK h : h = g
    OBVIOUS
  <2>13. Len(stack') = k + 2 /\ h.pc # "stWait" /\ stack' \in Seq(Frame) /\ stack \in Seq(Frame)
         /\ UNCHANGED <<semaport, procured, runsema, ssig>>
    BY <1>0, <2>7, <2>10, <2>12
  <2>. QED  BY ONLY StopInv, <2>7, <2>8, <2>9, <2>10, <2>11, <2>13, StopCalls
<1>. QED  BY <1>2, <1>3 DEF Starttask

\* A call of the event loop on a task object, that is not inside another.
LEMMA StopFirst ==
  ASSUME StopInv, stack \in Seq(Frame), stack' \in Seq(Frame), stack = <<>>, NEW t \in Tasks,
         NEW m \in Message,
         \/ stack' = stack \o <<F("msgK", t, m), F("wfm", t, m)>>
         \/ stack' = Append(stack, F("dd", t, NoMsg)),
         UNCHANGED <<semaport, procured, runsema, ssig>>
  PROVE  StopInv'
<1>1. Len(stack) = 0
  OBVIOUS
<1>2. PICK k \in 0..Len(stack) : k = 0
  BY <1>1
<1>3. /\ \A j \in (k + 1)..Len(stack) : stack[j].pc # "stWait"
      /\ \A e : (\A i \in 1..k : StopPair(stack[i], e)) /\ (k > 0 => NextPair(stack[k], e))
  BY <1>1, <1>2
<1>4. CASE stack' = stack \o <<F("msgK", t, m), F("wfm", t, m)>>
  <2>1. PICK f \in Frame : f = F("msgK", t, m) /\ f.pc = "msgK"
    BY FrameIn DEF FramePCs
  <2>2. PICK g \in Frame : g = F("wfm", t, m) /\ g.pc = "wfm"
    BY FrameIn DEF FramePCs
  <2>3. stack' = stack \o <<f, g>>
    BY <1>4, <2>1, <2>2
  <2>4. Len(stack') = Len(stack) + 2 /\ stack'[Len(stack) + 1] = f /\ stack'[Len(stack) + 2] = g
    BY <2>3, PushedTwoShape
  <2>5. Stays(k) /\ Len(stack') = k + 2 /\ stack'[k + 1] = f /\ stack'[k + 2] = g
    BY <1>1, <1>2, <2>4 DEF Stays
  <2>6. StopPair(f, g) /\ NextPair(f, g) /\ f.pc # "stWait" /\ g.pc # "stWait"
        /\ g.pc \notin Stops \cup {"wfmWait"}
    BY <2>1, <2>2 DEF StopPair, NextPair, Stops
  <2>7. /\ \A i \in 1..k : StopPair(stack[i], f) /\ StopPair(stack[i], g)
        /\ k > 0 => NextPair(stack[k], f)
    BY <1>3
  <2>8. PICK h : h = g
    OBVIOUS
  <2>. QED  BY <1>3, <2>5, <2>6, <2>7, <2>8, StopCalls
<1>5. CASE stack' = Append(stack, F("dd", t, NoMsg))
  <2>1. PICK f \in Frame : f = F("dd", t, NoMsg) /\ f.pc = "dd"
    BY FrameIn DEF FramePCs
  <2>2. stack' = Append(stack, f)
    BY <1>5, <2>1
  <2>3. Len(stack') = Len(stack) + 1 /\ stack'[Len(stack) + 1] = f
    BY <2>2, PushedShape
  <2>4. Stays(k) /\ Len(stack') = k + 1 /\ stack'[k + 1] = f
    BY <1>1, <1>2, <2>3 DEF Stays
  <2>5. f.pc # "stWait" /\ f.pc \notin Stops \cup {"wfmWait"}
    BY <2>1 DEF Stops
  <2>6. (\A i \in 1..k : StopPair(stack[i], f)) /\ (k > 0 => NextPair(stack[k], f))
    BY <1>3
  <2>. QED  BY <1>3, <2>4, <2>5, <2>6, StopCall
<1>. QED  BY <1>4, <1>5

LEMMA StopClient ==
  ASSUME CarefulClients, "disposeother" \notin HandlerOps,
         TaskInv, AnswerInv, CallsInv, StopInv, TypeOK', Client
  PROVE  StopInv'
<1>. USE DEF mainVars, flagVars, semaVars, subVars
<1>. SUFFICES ASSUME NEW t \in Tasks,
                     \/ Starttask(t) \/ Stopasync(t) \/ Disposetask(t) \/ Asetattrsasync(t)
                     \/ \E async \in BOOLEAN :
                           Messagetask(t, async) \/ \E data \in BOOLEAN : Setsuspend(t, data, async)
              PROVE  StopInv'
  BY DEF Client
<1>0. stack \in Seq(Frame) /\ stack' \in Seq(Frame) /\ Len(stack) \in Nat
  BY DEF TaskInv, TypeOK
<1>1. CASE Starttask(t)
  BY <1>1, StopStart
<1>2. CASE Stopasync(t)
  BY <1>2, StopSame DEF Stopasync
<1>3. CASE Asetattrsasync(t)
  BY <1>3, StopSame DEF Asetattrsasync
<1>4. CASE Disposetask(t)
  <2>1. UNCHANGED <<taskport, tsig, semaport, procured, runsema, ssig>>
    BY <1>4 DEF Disposetask
  <2>2. CASE processing[t]
    <3>1. stack' = stack
      BY <1>4, <2>2 DEF Disposetask
    <3>. QED  BY <2>1, <3>1, StopSame
  <2>3. CASE ~processing[t]
    <3>1. stack' = Append(stack, F("dd", t, NoMsg))
      BY <1>4, <2>3 DEF Disposetask
    <3>2. stack = <<>>
      <4>1. SUFFICES ASSUME stack # <<>> PROVE FALSE
        OBVIOUS
      <4>2. Top.pc = "upd" /\ Top.task = t
        BY <1>4, <4>1 DEF Disposetask, Caller, AtTop
      <4>3. FrameOK(Top)
        BY <1>0, <4>1, TopCall
      <4>. QED  BY <2>3, <4>2, <4>3 DEF FrameOK
    <3>3. PICK m \in Message : TRUE
      <4>1. "set" \in {"startup", "set"}
        OBVIOUS
      <4>. QED  BY <4>1, SomeSyncMsg
    <3>. QED  BY <1>0, <2>1, <3>1, <3>2, <3>3, StopFirst
  <2>. QED  BY <2>2, <2>3
<1>5. ASSUME stack = <<>>, NEW m \in Message, NEW there, Put(t, m, there), Known(t),
             UNCHANGED <<taskport, tsig, semaport, procured, runsema, ssig>>
      PROVE  StopInv'
  <2>1. ~mustdispose[t]
    BY <1>5 DEF Known, AtTop, TaskInv, DisposeInv
  <2>2. CASE stack' = stack
    BY <1>5, <2>2, StopSame
  <2>3. CASE stack' = stack \o <<F("msgK", t, m), F("wfm", t, m)>>
    BY <1>0, <1>5, <2>3, StopFirst
  <2>. QED  BY <1>5, <2>1, <2>2, <2>3 DEF Put, DisposeIfMust
<1>6. \A async \in BOOLEAN : (IF async THEN 0 ELSE Len(stack) + 1) \in Nat
  BY <1>0
<1>7. Caller("message") \/ Caller("suspend") => stack = <<>>
  BY DEF Caller, CarefulClients
<1>8. ASSUME NEW async \in BOOLEAN, Messagetask(t, async) PROVE StopInv'
  <2>1. PICK m \in Message : m = Msg("msg", t, async, IF async THEN 0 ELSE Len(stack) + 1)
    BY <1>6, MsgNames, SomeMsg
  <2>2. /\ Known(t) /\ Put(t, m, HasSubport(t)) /\ stack = <<>>
        /\ UNCHANGED <<taskport, tsig, semaport, procured, runsema, ssig>>
    BY <1>7, <1>8, <2>1 DEF Messagetask
  <2>3. PICK there : there = HasSubport(t)
    OBVIOUS
  <2>4. Put(t, m, there)
    BY <2>2, <2>3
  <2>. QED  BY <1>5, <2>2, <2>4
<1>9. ASSUME NEW async \in BOOLEAN, NEW data \in BOOLEAN, Setsuspend(t, data, async)
      PROVE  StopInv'
  <2>1. PICK m \in Message : m = Msg("suspend", t, async, IF async THEN 0 ELSE Len(stack) + 1)
    BY <1>6, MsgNames, SomeMsg
  <2>2. Known(t) /\ UNCHANGED <<taskport, tsig, semaport, procured, runsema, ssig>>
    BY <1>9 DEF Setsuspend
  <2>3. CASE data
    <3>1. stack = <<>> /\ Put(t, m, tstate[t] = "run")
      BY <1>7, <1>9, <2>1, <2>3 DEF Setsuspend
    <3>2. PICK there : there = (tstate[t] = "run")
      OBVIOUS
    <3>3. Put(t, m, there)
      BY <3>1, <3>2
    <3>. QED  BY <1>5, <2>2, <3>1, <3>3
  <2>4. CASE ~data
    <3>1. stack' = stack
      BY <1>9, <2>4 DEF Setsuspend
    <3>. QED  BY <2>2, <3>1, StopSame
  <2>. QED  BY <2>3, <2>4
<1>. QED  BY <1>1, <1>2, <1>3, <1>4, <1>8, <1>9

\* A subtask that puts a message to main's port wakes main.
LEMMA StopToMain ==
  ASSUME StopInv, taskport \in Seq(Message), NEW ms \in Seq(Message), ToMain(ms),
         UNCHANGED <<stack, semaport, procured, runsema, ssig>>
  PROVE  StopInv'
<1>1. AsleepInv'
  <2>1. CASE ms = <<>>
    <3>1. taskport' = taskport /\ (tsig' = (tsig \/ FALSE))
      BY <2>1 DEF ToMain
    <3>. QED  BY <3>1 DEF StopInv, AsleepInv, OfTask, Top
  <2>2. CASE ms # <<>>
    BY <2>2 DEF ToMain, AsleepInv
  <2>. QED  BY <2>1, <2>2
<1>. QED  BY <1>1, StopStill

\* Main asks for one runsema at a time.
LEMMA OneStops ==
  ASSUME stack \in Seq(Frame), StopsOK, NEW t \in Tasks, NEW u \in Tasks, Stopping(t), Stopping(u)
  PROVE  t = u
<1>1. PICK i \in 1..Len(stack) : stack[i].pc = "stWait" /\ stack[i].task = t
  BY DEF Stopping
<1>2. PICK j \in 1..Len(stack) : stack[j].pc = "stWait" /\ stack[j].task = u
  BY DEF Stopping
<1>3. ASSUME NEW k \in 1..Len(stack), NEW l \in 1..(k - 1), stack[k].pc = "stWait", stack[l].pc = "stWait"
      PROVE  FALSE
  BY <1>3 DEF StopsOK, StopPair, Stops, WaitPCs
<1>4. i = j
  <2>1. i = j \/ i \in 1..(j - 1) \/ j \in 1..(i - 1)
    OBVIOUS
  <2>. QED  BY <1>1, <1>2, <1>3, <2>1
<1>. QED  BY <1>1, <1>2, <1>4

LEMMA StopSubtask ==
  ASSUME TaskInv, StopInv, TypeOK', NEW t \in Tasks, SubtaskStep(t) \/ SubtaskWork(t)
  PROVE  StopInv'
<1>. USE DEF mainVars, flagVars, semaVars, subVars
<1>0. /\ stack \in Seq(Frame) /\ taskport \in Seq(Message) /\ subport \in [Tasks -> Seq(Message)]
      /\ held \in [Tasks -> Message \cup {NoMsg}] /\ semaport \in Seq(Tasks)
      /\ runsema \in [Tasks -> {"free", "sub", "main"}] /\ procured \in [Tasks -> BOOLEAN]
  BY DEF TaskInv, TypeOK
<1>1. ASSUME NEW m \in Message, ToMain(<<m>>),
             UNCHANGED <<stack, semaport, procured, runsema, ssig>>
      PROVE  StopInv'
  <2>1. <<m>> \in Seq(Message)
    OBVIOUS
  <2>2. PICK ms \in Seq(Message) : ms = <<m>>
    BY <2>1
  <2>. QED  BY <1>0, <1>1, <2>2, StopToMain
<1>2. CASE SubtaskStarts(t)
  <2>1. /\ runsema' = [runsema EXCEPT ![t] = "sub"] /\ ToMain(<<Msg("startup", t, FALSE, 0)>>)
        /\ UNCHANGED <<stack, semaport, procured, ssig>>
    BY <1>2 DEF SubtaskStarts
  <2>2. StopsOK'
    BY <2>1 DEF StopInv, StopsOK, StopPair, NextPair, WaitPCs
  <2>3. AsleepInv'
    BY <2>1 DEF ToMain, AsleepInv
  <2>4. SemaInv'
    <3>1. ASSUME NEW u \in Tasks
          PROVE  /\ Stopping(u)' => \/ procured'[u] /\ runsema'[u] = "sub" /\ semaport' = <<>>
                                    \/ ~procured'[u] /\ semaport' = <<u>> /\ ssig'
                 /\ ~Stopping(u)' => ~procured'[u] /\ ~InSemaport(u)' /\ runsema'[u] # "main"
      <4>1. runsema'[u] = runsema[u] \/ runsema'[u] = "sub"
        BY <1>0, <2>1
      <4>2. (Stopping(u)' <=> Stopping(u)) /\ (InSemaport(u)' <=> InSemaport(u))
        BY <2>1 DEF Stopping, InSemaport
      <4>. QED  BY <2>1, <4>1, <4>2 DEF StopInv, SemaInv
    <3>. QED  BY <3>1 DEF SemaInv
  <2>. QED  BY <2>2, <2>3, <2>4 DEF StopInv
<1>3. CASE SubtaskReleases(t)
  <2>1. UNCHANGED <<stack, tsig, taskport>> /\ runsema[t] = "sub"
    BY <1>3 DEF SubtaskReleases
  <2>2. StopsOK' /\ AsleepInv'
    BY <2>1 DEF StopInv, StopsOK, StopPair, NextPair, WaitPCs, AsleepInv, OfTask, Top
  <2>3. \A u \in Tasks : Stopping(u)' <=> Stopping(u)
    BY <2>1 DEF Stopping
  <2>4. CASE procured[t]
    <3>1. /\ runsema' = [runsema EXCEPT ![t] = "main"] /\ procured' = [procured EXCEPT ![t] = FALSE]
          /\ semaport' = Append(semaport, t) /\ ssig' = TRUE
      BY <1>3, <2>4 DEF SubtaskReleases
    <3>2. Stopping(t) /\ semaport = <<>>
      BY <2>4 DEF StopInv, SemaInv
    <3>3. semaport' = <<t>> /\ \A u \in Tasks \ {t} : ~InSemaport(u)'
      <4>1. semaport' = <<t>>
        BY <3>1, <3>2
      <4>2. Len(semaport') = 1 /\ semaport'[1] = t
        BY <4>1
      <4>3. \A i \in 1..Len(semaport') : i = 1
        BY <4>2
      <4>. QED  BY <4>1, <4>2, <4>3 DEF InSemaport
    <3>4. ASSUME NEW u \in Tasks \ {t} PROVE ~Stopping(u)' /\ ~procured'[u] /\ runsema'[u] # "main"
      <4>1. ~Stopping(u)
        BY <1>0, <3>2, OneStops DEF StopInv
      <4>. QED  BY <1>0, <2>3, <3>1, <4>1 DEF StopInv, SemaInv
    <3>5. Stopping(t)' /\ ~procured'[t] /\ ssig'
      BY <1>0, <2>3, <3>1, <3>2
    <3>6. SemaInv'
      BY <3>3, <3>4, <3>5 DEF SemaInv
    <3>. QED  BY <2>2, <3>6 DEF StopInv
  <2>5. CASE ~procured[t]
    <3>1. runsema' = [runsema EXCEPT ![t] = "free"] /\ UNCHANGED <<procured, semaport, ssig>>
      BY <1>3, <2>5 DEF SubtaskReleases
    <3>2. ASSUME NEW u \in Tasks
          PROVE  /\ Stopping(u)' => \/ procured'[u] /\ runsema'[u] = "sub" /\ semaport' = <<>>
                                    \/ ~procured'[u] /\ semaport' = <<u>> /\ ssig'
                 /\ ~Stopping(u)' => ~procured'[u] /\ ~InSemaport(u)' /\ runsema'[u] # "main"
      <4>1. (u = t /\ runsema'[u] = "free") \/ (u # t /\ runsema'[u] = runsema[u])
        BY <1>0, <3>1
      <4>2. InSemaport(u)' <=> InSemaport(u)
        BY <3>1 DEF InSemaport
      <4>. QED  BY <2>3, <2>5, <3>1, <4>1, <4>2 DEF StopInv, SemaInv
    <3>3. SemaInv'
      BY <3>2 DEF SemaInv
    <3>. QED  BY <2>2, <3>3 DEF StopInv
  <2>. QED  BY <2>4, <2>5
<1>4. CASE Gettaskmsg(t) \/ GettaskmsgSuspended(t)
  <2>1. UNCHANGED <<stack, semaport, procured, runsema, ssig>>
    BY <1>4 DEF Gettaskmsg, GettaskmsgSuspended
  <2>2. CASE UNCHANGED <<taskport, tsig>>
    BY <2>1, <2>2, StopSame
  <2>3. ASSUME NEW i \in 1..Len(subport[t]), ToMain(<<subport[t][i]>>) PROVE StopInv'
    <3>1. PICK m \in Message : m = subport[t][i]
      BY <1>0
    <3>2. ToMain(<<m>>)
      BY <2>3, <3>1
    <3>. QED  BY <1>1, <2>1, <3>2
  <2>4. UNCHANGED <<taskport, tsig>> \/ \E i \in 1..Len(subport[t]) : ToMain(<<subport[t][i]>>)
    BY <1>4 DEF Gettaskmsg, GettaskmsgSuspended, First, Special, Urgent
  <2>. QED  BY <2>2, <2>3, <2>4
<1>5. CASE Replytaskmsg(t)
  <2>1. PICK m \in Message : m = held[t]
    BY <1>0, <1>5 DEF Replytaskmsg
  <2>2. ToMain(<<m>>) /\ UNCHANGED <<stack, semaport, procured, runsema, ssig>>
    BY <1>5, <2>1 DEF Replytaskmsg
  <2>. QED  BY <1>1, <2>2
<1>6. CASE SubtaskStops(t) \/ SubtaskDone(t)
  BY <1>6, StopSame DEF SubtaskStops, SubtaskDone
<1>7. CASE SubtaskEnds(t)
  <2>1. PICK ms \in Seq(Message) : ms = subport[t]
    BY <1>0
  <2>2. ToMain(ms) /\ UNCHANGED <<stack, semaport, procured, runsema, ssig>>
    BY <1>7, <2>1 DEF SubtaskEnds
  <2>. QED  BY <1>0, <2>1, <2>2, StopToMain
<1>8. ASSUME NEW async \in BOOLEAN, Updatetaskattrs(t, async) PROVE StopInv'
  <2>1. PICK m \in Message : m = Msg("update", t, async, 0)
    BY MsgNames, SomeMsg
  <2>2. ToMain(<<m>>) /\ UNCHANGED <<stack, semaport, procured, runsema, ssig>>
    BY <1>8, <2>1 DEF Updatetaskattrs
  <2>. QED  BY <1>1, <2>2
<1>. QED
  BY <1>2, <1>3, <1>4, <1>5, <1>6, <1>7, <1>8 DEF SubtaskStep, SubtaskWork

-----------------------------------------------------------------------------
(* The theorems. *)

LEMMA StopInit ==
  ASSUME Init
  PROVE  StopInv
<1>1. stack = <<>> /\ Len(stack) = 0 /\ Len(semaport) = 0
  BY DEF Init
<1>2. 1..Len(stack) = {} /\ 1..Len(semaport) = {}
  BY <1>1
<1>3. \A t \in Tasks : ~Stopping(t) /\ ~InSemaport(t)
  BY <1>2 DEF Stopping, InSemaport
<1>4. SemaInv
  BY <1>3 DEF SemaInv, Init
<1>. QED  BY <1>1, <1>2, <1>4 DEF StopInv, StopsOK, AsleepInv

LEMMA StopNext ==
  ASSUME CarefulClients, "disposeother" \notin HandlerOps,
         TaskInv, AnswerInv, CallsInv, StopInv, [Next]_vars
  PROVE  StopInv'
<1>1. TypeOK'
  BY TypeNext DEF TaskInv
<1>2. CASE MainStep
  BY <1>1, <1>2, StopMain
<1>3. CASE Client
  BY <1>1, <1>3, StopClient
<1>4. ASSUME NEW t \in Tasks, SubtaskStep(t) \/ SubtaskWork(t) PROVE StopInv'
  BY <1>1, <1>4, StopSubtask
<1>5. CASE UNCHANGED vars
  BY <1>5, StopSame DEF vars, mainVars, semaVars
<1>. QED  BY <1>2, <1>3, <1>4, <1>5 DEF Next

\* When no target disposes of the task object of another, Stoptask() never
\* takes the answer to the request of a Stoptask() that is further out.
THEOREM StopInvariant ==
  ASSUME CarefulClients, "disposeother" \notin HandlerOps
  PROVE  Spec => [](TaskInv /\ AnswerInv /\ CallsInv /\ StopInv)
<1>1. Init => TaskInv /\ AnswerInv /\ CallsInv /\ StopInv
  BY TaskInit, AnswerInit, CallsInit, StopInit
<1>2. (TaskInv /\ AnswerInv /\ CallsInv /\ StopInv) /\ [Next]_vars
      => (TaskInv /\ AnswerInv /\ CallsInv /\ StopInv)'
  BY TaskNext, AnswerNext, CallsNext, StopNext
<1>. QED  BY <1>1, <1>2, PTL DEF Spec

LEMMA NobodyInVain ==
  ASSUME TaskInv, AnswerInv, CallsInv, StopInv
  PROVE  NeverWaitInVain
<1>. SUFFICES ASSUME NEW t \in Tasks, MainAsleepOn(t)
              PROVE  ~waiting[t] /\ ~Gone(t) /\ OfTask(t) = {}
  BY DEF NeverWaitInVain
<1>0. /\ stack \in Seq(Frame) /\ stack # <<>> /\ Top.task = t
      /\ \/ Top.pc = "wfmWait" /\ ~tsig
         \/ Top.pc = "stWait" /\ ~tsig /\ ~ssig
      /\ subport \in [Tasks -> Seq(Message)] /\ taskport \in Seq(Message)
      /\ waiting \in [Tasks -> BOOLEAN] /\ NoMsg \notin Message
  BY TaskAssumption DEF MainAsleepOn, TaskInv, TypeOK
<1>1. PICK n \in Nat : n = Len(stack)
  BY <1>0
<1>2. /\ n > 0 /\ Top = stack[n] /\ FrameOK(Top) /\ FrameMsg(Top) /\ n \in 1..Len(stack)
  BY <1>0, <1>1, TopCall
<1>3. OfTask(t) = {}
  BY <1>0 DEF StopInv, AsleepInv, Stops
<1>4. ~waiting[t]
  <2>1. UpdatesOf(t) = {}
    BY <1>3 DEF UpdatesOf
  <2>2. ASSUME NEW i \in Handling(t) PROVE FALSE
    <3>1. i \in 1..Len(stack) /\ stack[i].pc = "upd" /\ stack[i].task = t
      BY DEF Handling, UpdateCalls
    <3>2. i \in 1..(n - 1)
      BY <1>0, <1>1, <1>2, <3>1
    <3>3. PairOK(stack[i], stack[n])
      BY <1>2, <3>2 DEF CallsInv, PairsOK
    <3>. QED  BY <1>0, <1>2, <3>1, <3>3 DEF PairOK
  <2>3. Handling(t) = {}
    BY <2>2
  <2>. QED  BY <2>1, <2>3 DEF AnswerInv, Served
<1>5. ~Gone(t)
  <2>1. CASE Top.pc = "stWait"
    <3>1. Stopping(t)
      BY <1>0, <1>2, <2>1 DEF Stopping
    <3>. QED  BY <1>0, <2>1, <3>1 DEF StopInv, SemaInv, Gone
  <2>2. CASE Top.pc = "wfmWait"
    <3>1. Awaits(t, Top.msg) /\ Top.msg \in Message /\ Top.msg.task = t
      BY <1>0, <1>2, <2>2 DEF FrameOK, FrameMsg, WaitPCs
    <3>2. PICK m \in Message : m = Top.msg
      BY <3>1
    <3>3. Awaits(t, m) /\ m.task = t
      BY <3>1, <3>2
    <3>4. CASE m.type = "startup"
      BY <1>3, <3>3, <3>4 DEF Awaits, StartupFirst, Gone
    <3>5. CASE m.type # "startup"
      <4>1. ~Contains(taskport, m)
        BY <1>3, <3>3 DEF Contains, OfTask
      <4>2. Contains(subport[t], m) => subport[t] # <<>>
        BY DEF Contains
      <4>3. held[t] = m => held[t] # NoMsg
        BY <1>0
      <4>4. SubtaskInv(t)
        BY DEF TaskInv
      <4>. QED  BY <3>3, <3>5, <4>1, <4>2, <4>3, <4>4 DEF Awaits, Underway, SubtaskInv, Gone
    <3>. QED  BY <3>4, <3>5
  <2>. QED  BY <1>0, <2>1, <2>2
<1>. QED  BY <1>3, <1>4, <1>5

\* Where main waits, the subtask will act: it is not waiting for main itself,
\* it has not left, and all its messages so far are announced.
THEOREM WaitsForSomething ==
  ASSUME CarefulClients, "disposeother" \notin HandlerOps
  PROVE  Spec => []NeverWaitInVain
<1>1. TaskInv /\ AnswerInv /\ CallsInv /\ StopInv => NeverWaitInVain
  BY NobodyInVain
<1>. QED  BY <1>1, StopInvariant, PTL
=============================================================================
