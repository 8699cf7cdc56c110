-------------------------------- MODULE Task --------------------------------
(***************************************************************************)
(* The AOTP_TASK object of task.c: one main process, which runs AWeb's     *)
(* event loop, and the subtasks it starts.  A subtask owns a message port  *)
(* (subport), main owns one reply port for all of them (taskport), and     *)
(* four protocols run over these ports: start, message, update and stop.   *)
(*                                                                         *)
(* Main is one thread, but it is re-entrant: while it waits for a reply it *)
(* processes other messages of the same task, and the update method of the *)
(* target may use tasks again.  Its C call stack is the variable stack, a  *)
(* sequence of frames with the innermost call last; a frame's pc says      *)
(* where that call will continue.  Between two steps of main any subtask   *)
(* may run.                                                                *)
(***************************************************************************)
EXTENDS Integers, Sequences, FiniteSets, SequencesExt

CONSTANTS
  Tasks,        \* the task objects
  NoMsg,        \* "no message"
  ClientOps,    \* what AWeb does with a task object from its event loop
  HandlerOps,   \* what the target of an update does while it handles it
  Failures,     \* which allocations may fail: process, subport, updport
  MaxUpdates,   \* bound: optional updates one subtask sends
  MaxOps        \* bound: client operations in one behaviour

OpNames == {"stop", "dispose", "set", "message", "suspend", "resume", "sync"}

MsgTypes == {"startup", "update", "set", "msg", "suspend", "release"}

\* struct Ataskmsg.  async is TSMF_ASYNC, id tells apart the synchronous
\* messages that nested calls of main have outstanding.
Message == [type : MsgTypes, task : Tasks, async : BOOLEAN, id : Nat]

ASSUME TaskAssumption ==
  /\ IsFiniteSet(Tasks)
  /\ NoMsg \notin Message
  /\ ClientOps \subseteq OpNames
  /\ HandlerOps \subseteq OpNames \cup {"start", "disposeother"}
  /\ Failures \subseteq {"process", "subport", "updport"}
  /\ MaxUpdates \in Nat
  /\ MaxOps \in Nat

VARIABLES
  stack,        \* main's calls, innermost last; <<>> is the event loop
  got,          \* getmask of the event loop still holds taskport's signal
  tsig, ssig,   \* signal bits of taskport and semaport
  taskport,     \* main's reply port
  semaport,     \* granted Procure() requests of main, by task
  subport,      \* the port of each subtask
  tstate,       \* task->state, and "freed" once the object is gone
  target,       \* task->target is not NULL
  processing,   \* TSKF_PROCESSING
  mustdispose,  \* TSKF_MUSTDISPOSE
  disposing,    \* TSKF_DISPOSING
  started,      \* TSKF_STARTED
  runsema,      \* owner of task->runsema
  procured,     \* a Procure() of main is queued on runsema
  spc,          \* where the subtask is
  waiting,      \* the subtask waits for the reply of a synchronous update
  held,         \* the message Gettaskmsg() gave it and it has not replied
  brk,          \* its SIGBREAKF_CTRL_C, which is never lost once set
  updport,      \* task->updport exists
  resume,       \* AOTSK_Suspend was last set to FALSE
  sent, ops     \* counters for the bounds

mainVars == <<stack, got, tsig, ssig, semaport>>
flagVars == <<target, processing, mustdispose, disposing, started, resume>>
semaVars == <<runsema, procured>>
subVars == <<spc, waiting, held, brk, updport, sent>>
vars == <<mainVars, taskport, subport, tstate, flagVars, semaVars, subVars, ops>>

-----------------------------------------------------------------------------
(* Frames of main's call stack. *)

\* upd: Processreply() inside Aupdateattrs();  ptTail: Processtask() after
\* Processreply();  ptr: Processtaskreply();  wfm, wfmWait: Waitformsg();
\* startK: Starttask() after Waitformsg();  msgK: Messagetask() or
\* Suspendtask() after Waitformsg();  procure, stWait: Stoptask();
\* dd, ddPtr, ddFree: Dodisposetask().
FramePCs == {"upd", "ptTail", "ptr", "wfm", "wfmWait", "startK", "msgK",
             "procure", "stWait", "dd", "ddPtr", "ddFree"}

Frame == [pc : FramePCs, task : Tasks, msg : Message \cup {NoMsg}]

F(pc, t, m) == [pc |-> pc, task |-> t, msg |-> m]

Top == Last(stack)

Pop == Front(stack)

\* The running call goes on to f.
Goto(f) == [stack EXCEPT ![Len(stack)] = f]

AtTop(pc) == stack # <<>> /\ Top.pc = pc

Msg(type, t, async, id) ==
  [type |-> type, task |-> t, async |-> async, id |-> id]

HasSubport(t) == tstate[t] \in {"run", "suspend"}

\* PutMsg() or ReplyMsg() to main's port, in the sequence ms.
ToMain(ms) ==
  /\ taskport' = taskport \o ms
  /\ tsig' = (tsig \/ ms # <<>>)

\* The least index of I, as a set that is empty when I is.
First(I) == {i \in I : \A j \in I : i <= j}

-----------------------------------------------------------------------------
Init ==
  /\ stack = <<>>
  /\ got = FALSE /\ tsig = FALSE /\ ssig = FALSE
  /\ taskport = <<>> /\ semaport = <<>>
  /\ subport = [t \in Tasks |-> <<>>]
  /\ tstate = [t \in Tasks |-> "new"]
  /\ target = [t \in Tasks |-> TRUE]
  /\ processing = [t \in Tasks |-> FALSE]
  /\ mustdispose = [t \in Tasks |-> FALSE]
  /\ disposing = [t \in Tasks |-> FALSE]
  /\ started = [t \in Tasks |-> FALSE]
  /\ resume = [t \in Tasks |-> FALSE]
  /\ runsema = [t \in Tasks |-> "free"]
  /\ procured = [t \in Tasks |-> FALSE]
  /\ spc = [t \in Tasks |-> "none"]
  /\ waiting = [t \in Tasks |-> FALSE]
  /\ held = [t \in Tasks |-> NoMsg]
  /\ brk = [t \in Tasks |-> FALSE]
  /\ updport = [t \in Tasks |-> FALSE]
  /\ sent = [t \in Tasks |-> 0]
  /\ ops = 0

-----------------------------------------------------------------------------
(* Main: processing a message. *)

\* Dodisposetask() follows when the object was disposed of meanwhile.
DisposeIfMust(s, t) ==
  IF mustdispose[t] THEN Append(s, F("dd", t, NoMsg)) ELSE s

\* A synchronous update is replied, which lets its sender go on; every
\* other message is freed.
Answer(m) ==
  waiting' = IF m.type = "update" /\ ~m.async
             THEN [waiting EXCEPT ![m.task] = FALSE] ELSE waiting

\* Mutant: an update is dropped when its task is being disposed of.
ProcessreplyDropped(s, m) ==
  IF m.type = "update" /\ target[m.task] /\ ~disposing[m.task]
  THEN /\ stack' = Append(s, F("upd", m.task, m))
       /\ processing' = [processing EXCEPT ![m.task] = TRUE]
       /\ UNCHANGED waiting
  ELSE /\ stack' = DisposeIfMust(s, m.task)
       /\ waiting' = IF m.type = "update" /\ ~m.async /\ ~disposing[m.task]
                     THEN [waiting EXCEPT ![m.task] = FALSE] ELSE waiting
       /\ UNCHANGED processing

\* Processreply(m), called by the innermost frame of s.
Processreply(s, m) ==
  IF m.type = "update" /\ target[m.task]
  THEN /\ stack' = Append(s, F("upd", m.task, m))
       /\ processing' = [processing EXCEPT ![m.task] = TRUE]
       /\ UNCHANGED waiting
  ELSE /\ stack' = DisposeIfMust(s, m.task)
       /\ Answer(m)
       /\ UNCHANGED processing

\* Aupdateattrs() returns to Processreply().
UpdateReturns ==
  /\ AtTop("upd")
  /\ processing' = [processing EXCEPT ![Top.task] = FALSE]
  /\ Answer(Top.msg)
  /\ stack' = DisposeIfMust(Pop, Top.task)
  /\ UNCHANGED <<got, tsig, ssig, semaport, taskport, subport, tstate, target,
                 mustdispose, disposing, started, resume, semaVars, spc, held, brk,
                 updport, sent, ops>>

\* The event loop's Wait() returns: the signal is remembered and cleared.
\* While queued attributes are left it only looks: the signal stays.
EventWait ==
  /\ stack = <<>> /\ tsig
  /\ got' = TRUE /\ tsig' \in BOOLEAN
  /\ UNCHANGED <<stack, ssig, semaport, taskport, subport, tstate, flagVars,
                 semaVars, subVars, ops>>

\* Processtask(): one message, and the signal again if there are more.
Processtask ==
  /\ stack = <<>> /\ got
  /\ got' = FALSE
  /\ IF taskport = <<>>
     THEN UNCHANGED <<stack, processing, waiting, taskport>>
     ELSE /\ Processreply(<<F("ptTail", Head(taskport).task, NoMsg)>>, Head(taskport))
          /\ taskport' = Tail(taskport)
  /\ UNCHANGED <<tsig, ssig, semaport, subport, tstate, target, mustdispose,
                 disposing, started, resume, semaVars, spc, held, brk, updport, sent, ops>>

\* Mutant: the signal is not set again for the other messages.
ProcesstaskReturnsQuietly ==
  /\ AtTop("ptTail")
  /\ stack' = Pop
  /\ UNCHANGED <<got, tsig, ssig, semaport, taskport, subport, tstate, flagVars,
                 semaVars, subVars, ops>>

ProcesstaskReturns ==
  /\ AtTop("ptTail")
  /\ tsig' = (tsig \/ taskport # <<>>)
  /\ stack' = Pop
  /\ UNCHANGED <<got, ssig, semaport, taskport, subport, tstate, flagVars,
                 semaVars, subVars, ops>>

OfTask(t) == {i \in 1..Len(taskport) : taskport[i].task = t}

\* Processtaskreply(task): all messages of this task, oldest first.
Processtaskreply ==
  /\ AtTop("ptr")
  /\ \/ /\ OfTask(Top.task) = {}
        /\ stack' = Pop
        /\ UNCHANGED <<processing, waiting, taskport>>
     \/ \E i \in First(OfTask(Top.task)) :
           /\ Processreply(stack, taskport[i])
           /\ taskport' = RemoveAt(taskport, i)
  /\ UNCHANGED <<got, tsig, ssig, semaport, subport, tstate, target, mustdispose,
                 disposing, started, resume, semaVars, spc, held, brk, updport, sent, ops>>

\* Waitformsg(msg): one pass over the port.  It takes the first message that
\* is msg or is of the same task; there is none: Wait().
WaitformsgScan ==
  /\ AtTop("wfm")
  /\ \/ /\ OfTask(Top.task) = {}
        /\ stack' = Goto(F("wfmWait", Top.task, Top.msg))
        /\ UNCHANGED <<tsig, taskport, processing, waiting>>
     \/ \E i \in First(OfTask(Top.task)) :
           /\ taskport' = RemoveAt(taskport, i)
           /\ IF taskport[i] = Top.msg
              THEN /\ tsig' = TRUE
                   /\ stack' = Pop
                   /\ UNCHANGED <<processing, waiting>>
              ELSE Processreply(stack, taskport[i]) /\ UNCHANGED tsig
  /\ UNCHANGED <<got, ssig, semaport, subport, tstate, target, mustdispose,
                 disposing, started, resume, semaVars, spc, held, brk, updport, sent, ops>>

WaitformsgWakes ==
  /\ AtTop("wfmWait") /\ tsig
  /\ tsig' = FALSE
  /\ stack' = Goto(F("wfm", Top.task, Top.msg))
  /\ UNCHANGED <<got, ssig, semaport, taskport, subport, tstate, flagVars,
                 semaVars, subVars, ops>>

-----------------------------------------------------------------------------
(* Main: what AWeb asks of a task object. *)

\* A call of main on an object: from the event loop, or from the target's
\* update method.  The call it makes is pushed on the stack.
Caller(op) ==
  \/ stack = <<>> /\ op \in ClientOps
  \/ AtTop("upd") /\ op \in HandlerOps

\* From the event loop AWeb no longer refers to an object it disposed of; in
\* its update method a target refers to its own task object.
Known(t) ==
  /\ tstate[t] # "freed"
  /\ \/ ~disposing[t]
     \/ AtTop("upd") /\ Top.task = t

\* A call without AOTSK_Async,TRUE makes main wait.
MayWait(async) == async \/ Caller("sync")

Counted == ops < MaxOps /\ ops' = ops + 1

\* The event loop starts any task object, an update method those of others.
MayStart(t) ==
  /\ tstate[t] = "new" /\ ~disposing[t]
  /\ stack = <<>> \/ Caller("start")

\* Starttask(): the subtask's process is created, main waits for the startup
\* message.
Starttask(t) ==
  /\ MayStart(t)
  /\ \/ /\ "process" \in Failures
        /\ tstate' = [tstate EXCEPT ![t] = "dead"]
        /\ UNCHANGED <<stack, spc>>
     \/ /\ spc' = [spc EXCEPT ![t] = "start"]
        /\ stack' = stack \o <<F("startK", t, NoMsg),
                               F("wfm", t, Msg("startup", t, FALSE, 0))>>
        /\ UNCHANGED tstate
  /\ UNCHANGED <<got, tsig, ssig, semaport, taskport, subport, flagVars, semaVars,
                 waiting, held, brk, updport, sent, ops>>

StarttaskReturns ==
  /\ AtTop("startK")
  /\ started' = [started EXCEPT ![Top.task] = TRUE]
  /\ stack' = Pop
  /\ UNCHANGED <<got, tsig, ssig, semaport, taskport, subport, tstate, target,
                 processing, mustdispose, disposing, resume, semaVars, subVars, ops>>

\* Signal() under task->sema.
Break(t) ==
  brk' = IF tstate[t] \in {"run", "suspend"} THEN [brk EXCEPT ![t] = TRUE] ELSE brk

\* Stoptask(task,TRUE)
Stopasync(t) ==
  /\ Caller("stop") /\ Known(t) /\ Counted
  /\ Break(t)
  /\ UNCHANGED <<mainVars, taskport, subport, tstate, flagVars, semaVars, spc,
                 waiting, held, updport, sent>>

\* Mutant: TSKF_PROCESSING is not looked at.
DisposetaskAtOnce(t) ==
  /\ Known(t) /\ ~disposing[t] /\ Counted
  /\ Caller(IF AtTop("upd") /\ Top.task # t THEN "disposeother" ELSE "dispose")
  /\ disposing' = [disposing EXCEPT ![t] = TRUE]
  /\ stack' = Append(stack, F("dd", t, NoMsg))
  /\ UNCHANGED <<got, tsig, ssig, semaport, taskport, subport, tstate, target,
                 processing, mustdispose, started, resume, semaVars, subVars>>

\* Disposetask(): once, and not while a message of the task is processed.
Disposetask(t) ==
  /\ Known(t) /\ ~disposing[t] /\ Counted
  /\ Caller(IF AtTop("upd") /\ Top.task # t THEN "disposeother" ELSE "dispose")
  /\ disposing' = [disposing EXCEPT ![t] = TRUE]
  /\ IF processing[t]
     THEN /\ mustdispose' = [mustdispose EXCEPT ![t] = TRUE]
          /\ target' = [target EXCEPT ![t] = FALSE]
          /\ UNCHANGED stack
     ELSE /\ stack' = Append(stack, F("dd", t, NoMsg))
          /\ UNCHANGED <<mustdispose, target>>
  /\ UNCHANGED <<got, tsig, ssig, semaport, taskport, subport, tstate, processing,
                 started, resume, semaVars, subVars>>

\* Mutant: the message does not point to its task.
AsetattrsasyncNoTask(t) ==
  /\ Caller("set") /\ Known(t) /\ Counted
  /\ subport' = IF HasSubport(t)
                THEN [subport EXCEPT ![t] = Append(@, Msg("set", NoMsg, FALSE, 0))]
                ELSE subport
  /\ UNCHANGED <<mainVars, taskport, tstate, flagVars, semaVars, subVars>>

\* AsetattrsasyncA(): a copy of the tags, freed when it is replied.  Its only
\* flag is TSMF_VANILLASET.
Asetattrsasync(t) ==
  /\ Caller("set") /\ Known(t) /\ Counted
  /\ subport' = IF HasSubport(t)
                THEN [subport EXCEPT ![t] = Append(@, Msg("set", t, FALSE, 0))]
                ELSE subport
  /\ UNCHANGED <<mainVars, taskport, tstate, flagVars, semaVars, subVars>>

\* Messagetask() and Suspendtask(): a message for the subtask that main waits
\* for unless it is asynchronous.  It is not put when the subtask is gone.
Put(t, m, there) ==
  IF there
  THEN /\ subport' = [subport EXCEPT ![t] = Append(@, m)]
       /\ stack' = IF m.async THEN stack
                   ELSE stack \o <<F("msgK", t, m), F("wfm", t, m)>>
  ELSE /\ stack' = DisposeIfMust(stack, t)
       /\ UNCHANGED subport

Messagetask(t, async) ==
  /\ Caller("message") /\ MayWait(async) /\ Known(t) /\ Counted
  /\ Put(t, Msg("msg", t, async, IF async THEN 0 ELSE Len(stack) + 1), HasSubport(t))
  /\ UNCHANGED <<got, tsig, ssig, semaport, taskport, tstate, flagVars, semaVars,
                 subVars>>

\* Settask() with AOTSK_Suspend, data: both branches test the same data.
Setsuspend(t, data, async) ==
  LET suspend == data
      release == ~data /\ data
      id == IF async THEN 0 ELSE Len(stack) + 1
  IN /\ Caller(IF data THEN "suspend" ELSE "resume") /\ MayWait(async)
     /\ Known(t) /\ Counted
     /\ resume' = [resume EXCEPT ![t] = ~data]
     /\ IF suspend THEN Put(t, Msg("suspend", t, async, id), tstate[t] = "run")
        ELSE IF release /\ tstate[t] = "suspend"
        THEN Put(t, Msg("release", t, TRUE, 0), TRUE)
        ELSE UNCHANGED <<stack, subport>>
     /\ UNCHANGED <<got, tsig, ssig, semaport, taskport, tstate, target, processing,
                    mustdispose, disposing, started, semaVars, subVars>>

\* The Processreply() of both after the message was replied; it is no update,
\* so it is freed.
MessageReturns ==
  /\ AtTop("msgK")
  /\ stack' = DisposeIfMust(Pop, Top.task)
  /\ UNCHANGED <<got, tsig, ssig, semaport, taskport, subport, tstate, flagVars,
                 semaVars, subVars, ops>>

-----------------------------------------------------------------------------
(* Main: Stoptask(task,FALSE) and Dodisposetask(). *)

\* Mutant: Stoptask(task,TRUE), that does not wait for the subtask.
DodisposetaskAsync ==
  /\ AtTop("dd")
  /\ mustdispose' = [mustdispose EXCEPT ![Top.task] = FALSE]
  /\ Break(Top.task)
  /\ stack' = Goto(F("ddPtr", Top.task, NoMsg))
  /\ UNCHANGED <<got, tsig, ssig, semaport, taskport, subport, tstate, target,
                 processing, disposing, started, resume, semaVars, spc, waiting,
                 held, updport, sent, ops>>

\* Mutant: it goes to wait without a look at the port first.
DodisposetaskWaits ==
  /\ AtTop("dd")
  /\ LET t == Top.task
     IN /\ mustdispose' = [mustdispose EXCEPT ![t] = FALSE]
        /\ Break(t)
        /\ stack' = Goto(F("ddPtr", t, NoMsg)) \o <<F("procure", t, NoMsg)>>
  /\ UNCHANGED <<got, tsig, ssig, semaport, taskport, subport, tstate, target,
                 processing, disposing, started, resume, semaVars, spc, waiting,
                 held, updport, sent, ops>>

\* Dodisposetask() calls Stoptask(), which breaks the subtask and processes
\* the messages that are in the port already.
Dodisposetask ==
  /\ AtTop("dd")
  /\ LET t == Top.task
     IN /\ mustdispose' = [mustdispose EXCEPT ![t] = FALSE]
        /\ Break(t)
        /\ stack' = Goto(F("ddPtr", t, NoMsg))
                    \o <<F("procure", t, NoMsg), F("ptr", t, NoMsg)>>
  /\ UNCHANGED <<got, tsig, ssig, semaport, taskport, subport, tstate, target,
                 processing, disposing, started, resume, semaVars, spc, waiting,
                 held, updport, sent, ops>>

\* Procure(): granted at once, or by the ReleaseSemaphore() of the subtask.
Procure ==
  /\ AtTop("procure")
  /\ LET t == Top.task
     IN /\ stack' = Goto(F("stWait", t, NoMsg))
        /\ IF runsema[t] = "free"
           THEN /\ runsema' = [runsema EXCEPT ![t] = "main"]
                /\ semaport' = Append(semaport, t) /\ ssig' = TRUE
                /\ UNCHANGED procured
           ELSE /\ procured' = [procured EXCEPT ![t] = TRUE]
                /\ UNCHANGED <<runsema, semaport, ssig>>
  /\ UNCHANGED <<got, tsig, taskport, subport, tstate, flagVars, subVars, ops>>

\* The Wait() of Stoptask() returns with one signal or both.  One message is
\* taken from semaport: that of this task ends the loop.
StoptaskWakes ==
  /\ AtTop("stWait") /\ (tsig \/ ssig)
  /\ LET t == Top.task
         mine == ssig /\ semaport # <<>> /\ Head(semaport) = t
     IN /\ ssig' = FALSE
        /\ semaport' = IF ssig /\ semaport # <<>> THEN Tail(semaport) ELSE semaport
        /\ IF mine
           THEN /\ runsema' = [runsema EXCEPT ![t] = "free"]
                /\ tsig' = TRUE
                /\ stack' = Pop
           ELSE /\ tsig' = FALSE
                /\ stack' = IF tsig THEN Append(stack, F("ptr", t, NoMsg)) ELSE stack
                /\ UNCHANGED runsema
  /\ UNCHANGED <<got, taskport, subport, tstate, flagVars, procured, subVars, ops>>

\* Stoptask() has returned: the messages that came after its last pass.
DodisposetaskDrains ==
  /\ AtTop("ddPtr")
  /\ stack' = Goto(F("ddFree", Top.task, NoMsg)) \o <<F("ptr", Top.task, NoMsg)>>
  /\ UNCHANGED <<got, tsig, ssig, semaport, taskport, subport, tstate, flagVars,
                 semaVars, subVars, ops>>

DodisposetaskFrees ==
  /\ AtTop("ddFree")
  /\ tstate' = [tstate EXCEPT ![Top.task] = "freed"]
  /\ stack' = Pop
  /\ UNCHANGED <<got, tsig, ssig, semaport, taskport, subport, flagVars, semaVars,
                 subVars, ops>>

-----------------------------------------------------------------------------
(* The subtask. *)

\* Subtask(): it occupies runsema, then makes its ports and runs the entry.
SubtaskStarts(t) ==
  /\ spc[t] = "start"
  /\ runsema' = [runsema EXCEPT ![t] = "sub"]
  /\ ToMain(<<Msg("startup", t, FALSE, 0)>>)
  /\ \/ /\ "subport" \in Failures
        /\ tstate' = [tstate EXCEPT ![t] = "dead"]
        /\ spc' = [spc EXCEPT ![t] = "failed"]
        /\ UNCHANGED updport
     \/ /\ tstate' = [tstate EXCEPT ![t] = "run"]
        /\ spc' = [spc EXCEPT ![t] = "run"]
        /\ \E ok \in {TRUE} \cup (IF "updport" \in Failures THEN {FALSE} ELSE {}) :
             updport' = [updport EXCEPT ![t] = ok]
  /\ UNCHANGED <<stack, got, ssig, semaport, subport, flagVars, procured, waiting,
                 held, brk, sent, ops>>

Running(t) == spc[t] \in {"run", "exit"} /\ ~waiting[t]

\* Updatetask() and UpdatetaskattrsA(): without a port for the reply they do
\* nothing; a synchronous sender waits.
Updatetaskattrs(t, async) ==
  /\ Running(t) /\ updport[t] /\ sent[t] < MaxUpdates
  /\ sent' = [sent EXCEPT ![t] = @ + 1]
  /\ ToMain(<<Msg("update", t, async, 0)>>)
  /\ waiting' = [waiting EXCEPT ![t] = ~async]
  /\ UNCHANGED <<stack, got, ssig, semaport, subport, tstate, flagVars, semaVars,
                 spc, held, brk, updport, ops>>

Special(t) == {i \in 1..Len(subport[t]) : subport[t][i].type \in {"suspend", "release"}}

\* Gettaskmsg() in a running subtask: a suspend message first, wherever it is
\* in the queue, or else the oldest message.
Gettaskmsg(t) ==
  /\ spc[t] = "run" /\ ~waiting[t] /\ held[t] = NoMsg /\ ~brk[t]
  /\ subport[t] # <<>>
  /\ \/ /\ Special(t) = {}
        /\ held' = [held EXCEPT ![t] = Head(subport[t])]
        /\ subport' = [subport EXCEPT ![t] = Tail(@)]
        /\ UNCHANGED <<taskport, tsig, tstate, spc>>
     \/ \E i \in First(Special(t)) :
          LET suspend == subport[t][i].type = "suspend"
          IN /\ ToMain(<<subport[t][i]>>)
             /\ subport' = [subport EXCEPT ![t] = RemoveAt(@, i)]
             /\ tstate' = [tstate EXCEPT ![t] = IF suspend THEN "suspend" ELSE "run"]
             /\ spc' = [spc EXCEPT ![t] = IF suspend THEN "suspended" ELSE "run"]
             /\ UNCHANGED held
  /\ UNCHANGED <<stack, got, ssig, semaport, flagVars, semaVars, waiting, brk,
                 updport, sent, ops>>

\* Mutant: Wait() in the suspended subtask does not include the break.
SubtaskStopsRunning(t) ==
  /\ spc[t] = "run" /\ ~waiting[t] /\ held[t] = NoMsg /\ brk[t]
  /\ spc' = [spc EXCEPT ![t] = "exit"]
  /\ UNCHANGED <<mainVars, taskport, subport, tstate, flagVars, semaVars, waiting,
                 held, brk, updport, sent, ops>>

\* Gettaskmsg() in a suspended subtask: it replies what is not TSMF_ASYNC at
\* once, and goes on when it is released.
Urgent(t) == Special(t) \cup {i \in 1..Len(subport[t]) : ~subport[t][i].async}

\* Mutant: a suspended subtask leaves synchronous messages in its queue.
GettaskmsgSuspendedDeaf(t) ==
  /\ spc[t] = "suspended"
  /\ \E i \in First(Special(t)) :
     LET release == subport[t][i].type = "release"
     IN /\ ToMain(<<subport[t][i]>>)
        /\ subport' = [subport EXCEPT ![t] = RemoveAt(@, i)]
        /\ tstate' = [tstate EXCEPT ![t] = IF release THEN "run" ELSE "suspend"]
        /\ spc' = [spc EXCEPT ![t] = IF release THEN "run" ELSE "suspended"]
  /\ UNCHANGED <<stack, got, ssig, semaport, flagVars, semaVars, waiting, held,
                 brk, updport, sent, ops>>

GettaskmsgSuspended(t) ==
  /\ spc[t] = "suspended"
  /\ \E i \in First(Urgent(t)) :
     LET release == subport[t][i].type = "release"
     IN /\ ToMain(<<subport[t][i]>>)
        /\ subport' = [subport EXCEPT ![t] = RemoveAt(@, i)]
        /\ tstate' = [tstate EXCEPT ![t] = IF release THEN "run" ELSE "suspend"]
        /\ spc' = [spc EXCEPT ![t] = IF release THEN "run" ELSE "suspended"]
  /\ UNCHANGED <<stack, got, ssig, semaport, flagVars, semaVars, waiting, held,
                 brk, updport, sent, ops>>

Replytaskmsg(t) ==
  /\ spc[t] = "run" /\ ~waiting[t] /\ held[t] # NoMsg
  /\ ToMain(<<held[t]>>)
  /\ held' = [held EXCEPT ![t] = NoMsg]
  /\ UNCHANGED <<stack, got, ssig, semaport, subport, tstate, flagVars, semaVars,
                 spc, waiting, brk, updport, sent, ops>>

\* The subtask sees the break, from Gettaskmsg() or Checktaskbreak(), and
\* stops; or it is done of itself.  It may still send updates.
SubtaskStops(t) ==
  /\ spc[t] \in {"run", "suspended"} /\ ~waiting[t] /\ held[t] = NoMsg /\ brk[t]
  /\ spc' = [spc EXCEPT ![t] = "exit"]
  /\ UNCHANGED <<mainVars, taskport, subport, tstate, flagVars, semaVars, waiting,
                 held, brk, updport, sent, ops>>

SubtaskDone(t) ==
  /\ spc[t] = "run" /\ ~waiting[t] /\ held[t] = NoMsg /\ ~brk[t]
  /\ spc' = [spc EXCEPT ![t] = "exit"]
  /\ UNCHANGED <<mainVars, taskport, subport, tstate, flagVars, semaVars, waiting,
                 held, brk, updport, sent, ops>>

\* Subtask() after the entry returned: under task->sema it replies what is
\* left and takes the port away.
\* Mutant: the messages that are left are not replied.
SubtaskEndsSilently(t) ==
  /\ spc[t] = "exit" /\ ~waiting[t]
  /\ subport' = [subport EXCEPT ![t] = <<>>]
  /\ tstate' = [tstate EXCEPT ![t] = "dead"]
  /\ spc' = [spc EXCEPT ![t] = "ended"]
  /\ UNCHANGED <<mainVars, taskport, flagVars, semaVars, waiting, held, brk,
                 updport, sent, ops>>

SubtaskEnds(t) ==
  /\ spc[t] = "exit" /\ ~waiting[t]
  /\ ToMain(subport[t])
  /\ subport' = [subport EXCEPT ![t] = <<>>]
  /\ tstate' = [tstate EXCEPT ![t] = "dead"]
  /\ spc' = [spc EXCEPT ![t] = "ended"]
  /\ UNCHANGED <<stack, got, ssig, semaport, flagVars, semaVars, waiting, held, brk,
                 updport, sent, ops>>

\* ReleaseSemaphore(): a Procure() that is queued is granted.
SubtaskReleases(t) ==
  /\ spc[t] \in {"ended", "failed"} /\ runsema[t] = "sub"
  /\ IF procured[t]
     THEN /\ runsema' = [runsema EXCEPT ![t] = "main"]
          /\ procured' = [procured EXCEPT ![t] = FALSE]
          /\ semaport' = Append(semaport, t) /\ ssig' = TRUE
     ELSE /\ runsema' = [runsema EXCEPT ![t] = "free"]
          /\ UNCHANGED <<procured, semaport, ssig>>
  /\ UNCHANGED <<stack, got, tsig, taskport, subport, tstate, flagVars, subVars, ops>>

-----------------------------------------------------------------------------
\* The steps main takes of itself.
MainStep ==
  \/ EventWait \/ Processtask \/ ProcesstaskReturns \/ UpdateReturns
  \/ Processtaskreply \/ WaitformsgScan \/ WaitformsgWakes
  \/ StarttaskReturns \/ MessageReturns
  \/ Dodisposetask \/ Procure \/ StoptaskWakes
  \/ DodisposetaskDrains \/ DodisposetaskFrees

\* What the user, or a target, decides to do.
Client ==
  \E t \in Tasks :
     \/ Starttask(t) \/ Stopasync(t) \/ Disposetask(t) \/ Asetattrsasync(t)
     \/ \E async \in BOOLEAN :
           Messagetask(t, async) \/ \E data \in BOOLEAN : Setsuspend(t, data, async)

\* The steps a subtask takes of itself, once it has begun.
SubtaskStep(t) ==
  \/ SubtaskStarts(t) \/ Gettaskmsg(t) \/ GettaskmsgSuspended(t) \/ Replytaskmsg(t)
  \/ SubtaskStops(t) \/ SubtaskEnds(t) \/ SubtaskReleases(t)

\* What its work leads to.
SubtaskWork(t) ==
  SubtaskDone(t) \/ \E async \in BOOLEAN : Updatetaskattrs(t, async)

Next ==
  \/ MainStep
  \/ Client
  \/ \E t \in Tasks : SubtaskStep(t) \/ SubtaskWork(t)

Spec == Init /\ [][Next]_vars

\* Main never stays in a call for ever, and a subtask is scheduled: exec runs
\* every process that is ready, and task.h asks every entry to call
\* Gettaskmsg() regularly and to return when it is stopped.
Fairness == WF_vars(MainStep) /\ \A t \in Tasks : WF_vars(SubtaskStep(t))

FairSpec == Spec /\ Fairness

-----------------------------------------------------------------------------
(* Properties. *)

\* Every variable has a value of its type.
TypeOK ==
  /\ stack \in Seq(Frame)
  /\ got \in BOOLEAN /\ tsig \in BOOLEAN /\ ssig \in BOOLEAN
  /\ taskport \in Seq(Message)
  /\ semaport \in Seq(Tasks)
  /\ subport \in [Tasks -> Seq(Message)]
  /\ tstate \in [Tasks -> {"new", "run", "suspend", "dead", "freed"}]
  /\ target \in [Tasks -> BOOLEAN]
  /\ processing \in [Tasks -> BOOLEAN]
  /\ mustdispose \in [Tasks -> BOOLEAN]
  /\ disposing \in [Tasks -> BOOLEAN]
  /\ started \in [Tasks -> BOOLEAN]
  /\ resume \in [Tasks -> BOOLEAN]
  /\ runsema \in [Tasks -> {"free", "sub", "main"}]
  /\ procured \in [Tasks -> BOOLEAN]
  /\ spc \in [Tasks -> {"none", "start", "run", "suspended", "exit", "ended", "failed"}]
  /\ waiting \in [Tasks -> BOOLEAN]
  /\ held \in [Tasks -> Message \cup {NoMsg}]
  /\ brk \in [Tasks -> BOOLEAN]
  /\ updport \in [Tasks -> BOOLEAN]
  /\ sent \in [Tasks -> 0..MaxUpdates]
  /\ ops \in 0..MaxOps

\* The subtask of t will not run any more.
Gone(t) == spc[t] \in {"none", "ended", "failed"} /\ runsema[t] # "sub"

Frames == {stack[i] : i \in 1..Len(stack)}

\* A task object is freed only when its subtask has left the wrapper, and no
\* message that points to it is in a port.
FreedIsQuiet ==
  \A t \in Tasks : tstate[t] = "freed" =>
     /\ Gone(t)
     /\ OfTask(t) = {} /\ subport[t] = <<>> /\ held[t] = NoMsg

\* No call of main is still at work on a task object that is gone: it would
\* go on to read the freed structure.
NoCallOnFreed == \A f \in Frames : tstate[f.task] # "freed" \/ f.pc = "ptTail"

\* The calls of main that are inside the target's update method.
UpdateCalls(t) == {i \in 1..Len(stack) : stack[i].pc = "upd" /\ stack[i].task = t}

\* A target is never called for its task in the middle of such a call:
\* TSKF_PROCESSING, a flag and not a counter, then says whether there is one.
OneUpdateAtATime ==
  \A t \in Tasks : Cardinality(UpdateCalls(t)) = IF processing[t] THEN 1 ELSE 0

\* Main's event loop never sleeps on messages: what is in the reply port is
\* announced by the signal, or the call that runs announces it when it returns.
NoLostSignal == stack = <<>> /\ taskport # <<>> => tsig \/ got

\* When main waits inside a call for the subtask of t, that subtask is not
\* waiting for main, has not ended, and its messages are announced.
MainAsleepOn(t) ==
  /\ stack # <<>> /\ Top.task = t
  /\ \/ Top.pc = "wfmWait" /\ ~tsig
     \/ Top.pc = "stWait" /\ ~tsig /\ ~ssig

NeverWaitInVain ==
  \A t \in Tasks : MainAsleepOn(t) => ~waiting[t] /\ ~Gone(t) /\ OfTask(t) = {}

\* The messages main's calls wait for, and where those messages may be.
Awaited == {f.msg : f \in {g \in Frames : g.pc \in {"wfm", "wfmWait"}}}

\* A message main waits for is not lost: it is with the subtask, in main's
\* port, or still to be sent by a subtask that starts.
AwaitedIsUnderway ==
  \A m \in Awaited :
     \/ Contains(taskport, m) \/ Contains(subport[m.task], m) \/ held[m.task] = m
     \/ m.type = "startup" /\ spc[m.task] = "start"

\* The update a subtask waits on is in main's port or being processed, once.
UpdatesOf(t) ==
  {i \in OfTask(t) : taskport[i].type = "update" /\ ~taskport[i].async}

Handling(t) == {i \in UpdateCalls(t) : ~stack[i].msg.async}

WaitingIsServed ==
  \A t \in Tasks :
     Cardinality(UpdatesOf(t)) + Cardinality(Handling(t)) = IF waiting[t] THEN 1 ELSE 0

\* Stopping a subtask ends it.
StopEnds == \A t \in Tasks : brk[t] ~> Gone(t)

\* Main always comes back to its event loop.
MainReturns == []<>(stack = <<>>)

\* Every synchronous update is answered.
UpdateAnswered == \A t \in Tasks : waiting[t] ~> ~waiting[t]

\* Setting AOTSK_Suspend to FALSE restarts the subtask.
ResumeRestarts ==
  \A t \in Tasks : resume[t] /\ tstate[t] = "suspend" ~> tstate[t] # "suspend"

=============================================================================
