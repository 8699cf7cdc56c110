------------------------------- MODULE Events -------------------------------
(* What main does on its own account between the events of the user and the *)
(* network: the timer objects of timer.c, with the timeouts of scripts and  *)
(* the client pull that use them, and the queued messages of aweb.c that    *)
(* put off what must not be done in the middle of something else.  One      *)
(* window: a top frame and the subframes its documents may contain.         *)
EXTENDS Integers, Sequences, SequencesExt, FiniteSets, Nodelists

CONSTANTS
  Timers,      \* timer objects; one that is disposed of may be allocated again
  Top,         \* the window's top frame
  Kids,        \* subframes
  Copies,      \* the copies that represent the documents of the top frame
  Nobody,      \* no copy, no timer, no frame
  MaxQueue,    \* bound: the most messages queued at a time
  MaxCalls     \* bound: how deep scripts and loads are nested

ASSUME EventsAssumption ==
  /\ Top \notin Kids /\ Nobody \notin Timers \cup Kids \cup Copies \cup {Top}
  /\ (Kids \cup {Top}) \cap Copies = {} /\ Copies \cap {"spare", "none"} = {}
  /\ MaxCalls \in Nat \ {0}

Frames == Kids \cup {Top}

VARIABLES
  timers,      \* the live timers, those with TIMF_IO, and where the requests are
  port,        \* timerport: the timers whose request came back
  list,        \* the local list of Processtimer()
  timeouts,    \* fr->timeouts, as the timers of the timeouts
  pulltimer,   \* the top frame's fr->pulltimer
  pullurl,     \* whether its fr->pullurl is set
  jdscope,     \* the frames with a script scope of their document
  copy,        \* the top frame's fr->copy
  within,      \* the copy a subframe's document belongs to, "spare" or "none"
  queue,       \* setmsgqueue
  main,        \* where the main loop is
  calls        \* the scripts and loads main is in, the outermost first: the frame of
               \* a script, the timeout it is of, and the copy both belong to

eventVars == <<timers, port, list, timeouts, pulltimer, pullurl, jdscope, copy,
               within, queue, main, calls>>
timerVars == <<timers, port, list>>

Bound == {k \in Kids : copy # Nobody /\ within[k] = copy}
Live == {Top} \cup {k \in Kids : within[k] # "none"}
Deferred == {queue[i].object : i \in DOMAIN queue} \cap Copies
Present == UNION {timeouts[f] : f \in Frames}

\* A script, or a load that reads a document from memory and runs its scripts.
Script(f, t) == [frame |-> f, timeout |-> t, doc |-> copy]
Loading(c) == [frame |-> Nobody, timeout |-> Nobody, doc |-> c]
Call == Last(calls)
Scripting == calls # <<>> /\ Call.frame # Nobody
Parsing == calls # <<>> /\ Call.frame = Nobody
Waiting == main = "wait" /\ calls = <<>>

\* A window that was just opened.
EventsInit ==
  /\ timers = [live |-> {}, io |-> {}, device |-> {}] /\ port = <<>> /\ list = <<>>
  /\ timeouts = [f \in Frames |-> {}] /\ pulltimer = Nobody /\ pullurl = FALSE
  /\ jdscope = {} /\ copy = Nobody /\ within = [k \in Kids |-> "none"]
  /\ queue = <<>> /\ main = "wait" /\ calls = <<>>

------------------------------------------------------------------------------
(* Timer objects.                                                           *)

\* The timers ts leave a list.
Less(s, ts) == Removed(s, {i \in DOMAIN s : s[i] \in ts})

\* The mutant waits for a reply in the port only.
AbortInPort(ts) ==
  /\ port' = Less(port, ts \cap timers.io) /\ list' = list

\* AbortIO() and WaitIO() of the timers ts: the request is taken back from the
\* device, or removed from whatever list its reply is in.
Abort(ts) ==
  /\ port' = Less(port, ts \cap timers.io)
  /\ list' = Less(list, ts \cap timers.io)

\* Disposetimer(), for each of ts.
Disposetimers(ts) ==
  /\ timers' = [live |-> timers.live \ ts, io |-> timers.io \ ts,
                device |-> timers.device \ (ts \cap timers.io)]
  /\ Abort(ts)

\* Newtimer() and Settimer() with a time to wait; SendIO() after the old request.
Settimer(t) ==
  /\ timers' = [live |-> timers.live \cup {t}, io |-> timers.io \cup {t},
                device |-> timers.device \cup {t}]
  /\ Abort({t})

\* Timer.device: the time has passed.
Expire(t) ==
  /\ t \in timers.device
  /\ timers' = [timers EXCEPT !.device = @ \ {t}] /\ port' = Append(port, t)
  /\ UNCHANGED <<list, timeouts, pulltimer, pullurl, jdscope, copy, within, queue,
                 main, calls>>

------------------------------------------------------------------------------
(* Documents and frames.                                                    *)

Message(object, id) == [object |-> object, id |-> id, selected |-> FALSE]

\* The mutant disposes of the copy at once.
DisposeAtOnce(q, c) == q

\* AOCPY_Deferdispose, set on the old copy.
Deferdispose(q, c) == IF c = Nobody THEN q ELSE Append(q, Message(c, "deferdispose"))

\* Newdisplay(): copy c becomes the top frame's copy, with the subframes kept of
\* an earlier display.  The old document loses its frame, its subframes theirs,
\* and each frame its timeouts; the old copy is disposed of later.
Newdisplay(c, kept) ==
  LET F == {Top} \cup Bound
  IN /\ Len(queue) < MaxQueue /\ c \notin Deferred \cup {copy}
     /\ kept \subseteq {k \in Kids : within[k] = "spare"}
     /\ Disposetimers(UNION {timeouts[f] : f \in F})
     /\ timeouts' = [f \in Frames |-> IF f \in F THEN {} ELSE timeouts[f]]
     /\ within' = [k \in Kids |-> IF k \in kept THEN c ELSE within[k]]
     /\ copy' = c /\ queue' = Deferdispose(queue, copy)

\* Queuesetmsg(object,0) for each of the objects.
Unqueue(q, objects) == Removed(q, {i \in DOMAIN q : q[i].object \in objects})

\* The mutant does not dispose of the timeouts.
DisposeframesOnly(gone, q) ==
  /\ UNCHANGED <<timerVars, timeouts>>
  /\ queue' = Unqueue(q, gone)

\* The mutant leaves the messages of the frames.
DisposeframesQueued(gone, q) ==
  /\ Disposetimers(UNION {timeouts[k] : k \in gone})
  /\ timeouts' = [f \in Frames |-> IF f \in gone THEN {} ELSE timeouts[f]]
  /\ queue' = q

\* Disposeframe() of the subframes gone, each with Freejframe() and
\* Queuesetmsg(fr,0).
Disposeframes(gone, q) ==
  /\ Disposetimers(UNION {timeouts[k] : k \in gone})
  /\ timeouts' = [f \in Frames |-> IF f \in gone THEN {} ELSE timeouts[f]]
  /\ queue' = Unqueue(q, gone)

\* The document of frame f is replaced.  (Documents of subframes are no copies.)
Replacedoc(f) ==
  \/ /\ f = Top /\ \E c \in Copies, kept \in SUBSET Kids : Newdisplay(c, kept)
     /\ jdscope' = jdscope \ (Bound \cup {Top})
  \/ /\ f \in Bound
     /\ Disposetimers(timeouts[f]) /\ timeouts' = [timeouts EXCEPT ![f] = {}]
     /\ jdscope' = jdscope \ {f} /\ UNCHANGED <<within, copy, queue>>

\* Inputwindoc() of frame f.  A new document forgets the client pull, not its
\* timer.  It does no more than start a fetch, or finds the document in memory:
\* then that is displayed and read at once.
Inputwindoc(f) ==
  \/ /\ pullurl' \in {pullurl, pullurl /\ f # Top}
     /\ UNCHANGED <<timerVars, timeouts, jdscope, copy, within, queue, calls>>
  \/ /\ Len(calls) < MaxCalls /\ Replacedoc(f)
     /\ pullurl' = (pullurl /\ f # Top) /\ calls' = Append(calls, Loading(copy'))

------------------------------------------------------------------------------
(* The user and the network, while main waits.                              *)

\* The document of a fetch is displayed.
Displayed ==
  /\ Waiting /\ \E f \in Bound \cup {Top} : Replacedoc(f)
  /\ UNCHANGED <<pulltimer, pullurl, main, calls>>

\* A link, a button, the window history.
Followed ==
  /\ Waiting /\ \E f \in Bound \cup {Top} : Inputwindoc(f)
  /\ UNCHANGED <<pulltimer, main>>

\* The parser finds a subframe.
Newframe(k) ==
  /\ within[k] = "none"
  /\ \/ Waiting /\ copy # Nobody /\ within' = [within EXCEPT ![k] = copy]
     \/ Parsing /\ within' = [within EXCEPT ![k] = Call.doc]
  /\ UNCHANGED <<timerVars, timeouts, pulltimer, pullurl, jdscope, copy, queue, main,
                 calls>>

\* What a document does that has its frame still.
HasFrame == copy # Nobody /\ (Waiting \/ (Parsing /\ Call.doc = copy))

\* A script of the document or of an event runs, and sets up the scopes.
Runjavascript(f) ==
  /\ HasFrame /\ f \in Bound \cup {Top} /\ Len(calls) < MaxCalls
  /\ jdscope' = jdscope \cup {f}
  /\ calls' = Append(calls, Script(f, Nobody))
  /\ UNCHANGED <<timerVars, timeouts, pulltimer, pullurl, copy, within, queue, main>>

\* Setclientpull() of the document's end.
Setclientpull ==
  /\ HasFrame
  /\ \E t \in (IF pulltimer = Nobody THEN Timers \ timers.live ELSE {pulltimer}) :
       Settimer(t) /\ pulltimer' = t
  /\ pullurl' = TRUE
  /\ UNCHANGED <<timeouts, jdscope, copy, within, queue, main, calls>>

\* Reloaddocument(): the body goes with its frames; the timeouts stay.
Reloaddocument ==
  /\ Waiting /\ copy # Nobody
  /\ Disposeframes(Bound, queue)
  /\ within' = [k \in Kids |-> IF k \in Bound THEN "none" ELSE within[k]]
  /\ jdscope' = jdscope \ (Bound \cup {Top})
  /\ UNCHANGED <<pulltimer, pullurl, copy, main, calls>>

\* AOBJ_Jscancel: Cleartimeouts() of the frame and those below it.
Jscancel ==
  /\ Waiting /\ Disposetimers(UNION {timeouts[f] : f \in {Top} \cup Bound})
  /\ timeouts' = [f \in Frames |-> IF f \in {Top} \cup Bound THEN {} ELSE timeouts[f]]
  /\ UNCHANGED <<pulltimer, pullurl, jdscope, copy, within, queue, main, calls>>

\* A source that is flushed takes its spare document along.
Flushspare ==
  /\ Waiting \/ Parsing
  /\ LET gone == {k \in Kids : within[k] = "spare"}
     IN /\ gone # {} /\ Disposeframes(gone, queue)
        /\ within' = [k \in Kids |-> IF k \in gone THEN "none" ELSE within[k]]
  /\ UNCHANGED <<pulltimer, pullurl, jdscope, copy, main, calls>>

------------------------------------------------------------------------------
(* What a running script does.                                              *)

\* The frames whose methods it can call: those of the window, and those of the
\* scripts under way, bound or not.
Reachable == Bound \cup {Top} \cup ({calls[i].frame : i \in DOMAIN calls} \ {Nobody})

Methodsettimeout ==
  /\ Scripting
  /\ \E f \in Reachable, t \in Timers \ timers.live :
       Settimer(t) /\ timeouts' = [timeouts EXCEPT ![f] = @ \cup {t}]
  /\ UNCHANGED <<pulltimer, pullurl, jdscope, copy, within, queue, main, calls>>

\* The id is looked up in the list of the frame.
Methodcleartimeout ==
  /\ Scripting
  /\ \E f \in Reachable : \E t \in timeouts[f] :
       Disposetimers({t}) /\ timeouts' = [timeouts EXCEPT ![f] = @ \ {t}]
  /\ UNCHANGED <<pulltimer, pullurl, jdscope, copy, within, queue, main, calls>>

\* The location of a frame is set, a document generated, or the history gone back.
Queueinputwindoc ==
  /\ Scripting /\ Len(queue) < MaxQueue
  /\ \E f \in Reachable : queue' = Append(queue, Message(f, "inputwindoc"))
  /\ UNCHANGED <<timerVars, timeouts, pulltimer, pullurl, jdscope, copy, within, main,
                 calls>>

\* window.open() of a frame there is, location.replace() and form.submit() load at
\* once, also into the frame of the script itself.
Methodopen ==
  /\ Scripting /\ (\E f \in Bound \cup {Top} : Inputwindoc(f))
  /\ UNCHANGED <<pulltimer, main>>

\* The script returns; of a timeout, Triggertimeout() disposes of it.
ScriptEnds ==
  /\ Scripting /\ calls' = Front(calls)
  /\ Disposetimers({Call.timeout} \ {Nobody})
  /\ UNCHANGED <<timeouts, pulltimer, pullurl, jdscope, copy, within, queue, main>>

\* The document that was in memory is read to its end.
LoadEnds ==
  /\ Parsing /\ calls' = Front(calls)
  /\ UNCHANGED <<timerVars, timeouts, pulltimer, pullurl, jdscope, copy, within, queue,
                 main>>

------------------------------------------------------------------------------
(* The main loop: Processtimer() when the timer port has signalled, then    *)
(* Setmsgqueue().                                                           *)

Processtimer ==
  /\ Waiting /\ port # <<>>
  /\ list' = list \o port /\ port' = <<>> /\ main' = "timers"
  /\ UNCHANGED <<timers, timeouts, pulltimer, pullurl, jdscope, copy, within, queue,
                 calls>>

\* A taken request: its flag is cleared and its target, if it has one to
\* update, told.
Replied(t) ==
  /\ timers' = [timers EXCEPT !.io = @ \ {t}] /\ list' = Tail(list) /\ port' = port

\* Triggertimeout()
TimeoutReady ==
  /\ main = "timers" /\ calls = <<>> /\ list # <<>>
  /\ LET t == Head(list)
     IN \E f \in Frames :
          /\ t \in timeouts[f] /\ Replied(t)
          /\ IF f \in jdscope
             THEN /\ timeouts' = [timeouts EXCEPT ![f] = @ \ {t}]
                  /\ calls' = <<Script(f, t)>>
             ELSE UNCHANGED <<timeouts, calls>>
  /\ UNCHANGED <<pulltimer, pullurl, jdscope, copy, within, queue, main>>

\* Doclientpull(), when the url is still wanted.
PullReady ==
  /\ main = "timers" /\ calls = <<>> /\ list # <<>> /\ Head(list) = pulltimer
  /\ Replied(pulltimer) /\ pullurl' = FALSE
  /\ main' = IF pullurl THEN "pull" ELSE "timers"
  /\ UNCHANGED <<timeouts, pulltimer, jdscope, copy, within, queue, calls>>

PullLoads ==
  /\ main = "pull" /\ Inputwindoc(Top) /\ main' = "timers"
  /\ UNCHANGED pulltimer

\* Setmsgqueue() sets the selected flag on all present nodes.
Select ==
  /\ \/ Waiting /\ port = <<>> /\ queue # <<>>
     \/ main = "timers" /\ calls = <<>> /\ list = <<>>
  /\ queue' = [i \in DOMAIN queue |-> [queue[i] EXCEPT !.selected = TRUE]]
  /\ main' = "messages"
  /\ UNCHANGED <<timerVars, timeouts, pulltimer, pullurl, jdscope, copy, within, calls>>

\* The mutant goes on until the queue is empty.
AnyMessage == queue # <<>>

NextMessage == queue # <<>> /\ Head(queue).selected

\* A queued load of a document.
SetInputwindoc ==
  /\ main = "messages" /\ calls = <<>> /\ NextMessage /\ Head(queue).id = "inputwindoc"
  /\ queue' = Tail(queue) /\ main' = "inputwindoc"
  /\ UNCHANGED <<timerVars, timeouts, pulltimer, pullurl, jdscope, copy, within, calls>>

SetInputwindocLoads ==
  /\ main = "inputwindoc" /\ (\E f \in Bound \cup {Top} : Inputwindoc(f))
  /\ main' = "messages"
  /\ UNCHANGED pulltimer

\* A copy is disposed of: its document and the subframes go too, or are kept as
\* the source's spare document.
SetDeferdispose ==
  /\ main = "messages" /\ calls = <<>> /\ NextMessage /\ Head(queue).id = "deferdispose"
  /\ LET frames == {k \in Kids : within[k] = Head(queue).object}
     IN \/ /\ Disposeframes(frames, Tail(queue))
           /\ within' = [k \in Kids |-> IF k \in frames THEN "none" ELSE within[k]]
        \/ /\ within' = [k \in Kids |-> IF k \in frames THEN "spare" ELSE within[k]]
           /\ queue' = Tail(queue) /\ UNCHANGED <<timerVars, timeouts>>
  /\ UNCHANGED <<pulltimer, pullurl, jdscope, copy, main, calls>>

RoundEnds ==
  /\ main = "messages" /\ calls = <<>> /\ ~NextMessage /\ main' = "wait"
  /\ UNCHANGED <<timerVars, timeouts, pulltimer, pullurl, jdscope, copy, within, queue,
                 calls>>

------------------------------------------------------------------------------

MainLoop ==
  \/ Processtimer \/ TimeoutReady \/ PullReady \/ PullLoads
  \/ Select \/ SetInputwindoc \/ SetInputwindocLoads \/ SetDeferdispose \/ RoundEnds

EventsNext ==
  \/ \E t \in Timers : Expire(t)
  \/ Displayed \/ Followed \/ Setclientpull \/ Reloaddocument \/ Jscancel \/ Flushspare
  \/ \E k \in Kids : Newframe(k)
  \/ \E f \in Frames : Runjavascript(f)
  \/ Methodsettimeout \/ Methodcleartimeout \/ Queueinputwindoc \/ Methodopen
  \/ ScriptEnds \/ LoadEnds
  \/ MainLoop

\* The scripts and loads that main is in come to their end, whatever they call in
\* between, and main to its loop, however often the user runs scripts: each pass
\* serves every port that has signalled, then the messages.
EventsFairness == SF_eventVars(MainLoop) /\ []<>(calls = <<>>)

EventsSpec == EventsInit /\ [][EventsNext]_eventVars /\ EventsFairness

------------------------------------------------------------------------------
(* Properties.                                                              *)

EventsTypeOK ==
  /\ timers \in [live : SUBSET Timers, io : SUBSET Timers, device : SUBSET Timers]
  /\ port \in Seq(Timers) /\ list \in Seq(Timers)
  /\ timeouts \in [Frames -> SUBSET Timers]
  /\ pulltimer \in Timers \cup {Nobody} /\ pullurl \in BOOLEAN
  /\ jdscope \subseteq Frames /\ copy \in Copies \cup {Nobody}
  /\ within \in [Kids -> Copies \cup {"spare", "none"}]
  /\ queue \in Seq([object : Frames \cup Copies, id : {"inputwindoc", "deferdispose"},
                    selected : BOOLEAN])
  /\ main \in {"wait", "timers", "pull", "messages", "inputwindoc"}
  /\ calls \in Seq([frame : Frames \cup {Nobody}, timeout : Timers \cup {Nobody},
                    doc : Copies \cup {Nobody}])
  /\ Len(calls) <= MaxCalls

\* A timer's flag tells exactly whether its one request is out, at the device,
\* in the port or among those being processed, so that every AbortIO() and
\* WaitIO() finds one; and no reply is left of a timer that is gone
\* (timer.c 52-71, 95-104, 149-156).
RequestsAccounted ==
  /\ timers.io \subseteq timers.live
  /\ timers.device \cup ToSet(port \o list) = timers.io
  /\ timers.device \cap ToSet(port \o list) = {}
  /\ IsInjective(port \o list)

\* Every timer belongs to the client pull, to a timeout of one frame that is there,
\* or to a script that runs: none outlives its frame or is lost, also when a
\* script loads another document into its own frame, or a document that goes on
\* after that (framejs.c 289-296, frame.c 755-806).
Running == {calls[i].timeout : i \in DOMAIN calls} \ {Nobody}

TimersOwned ==
  /\ timers.live = Present \cup Running \cup ({pulltimer} \ {Nobody})
  /\ \A f \in Frames : timeouts[f] # {} => f \in Live
  /\ \A f, g \in Frames : f # g => timeouts[f] \cap timeouts[g] = {}
  /\ Running \cap Present = {}
  /\ pulltimer # Nobody => pulltimer \notin Present \cup Running

\* A script that loads another document, and a document that runs such a script
\* while it is read, keep their frame, copy and document until main is back in
\* its loop (frame.c 762-767).
ScriptsSurvive ==
  \A i \in DOMAIN calls :
    /\ calls[i].frame \in Live \cup {Nobody}
    /\ calls[i].doc \in {copy} \cup Deferred

\* Every queued message is for an object that is there when it is handled, and
\* a copy is disposed of once (aweb.c 838-857, frame.c 2254, copy.c 1780).
MessagesForLive ==
  \A i \in DOMAIN queue :
    /\ queue[i].object \in Live \cup (Copies \ {copy})
    /\ \A j \in DOMAIN queue :
         i # j => ~(queue[i].object = queue[j].object /\ queue[j].object \in Copies)

\* A timer that has come back is told to its target or taken back, and each
\* round of messages ends, whatever the messages queue in turn (aweb.c 863-878).
MainLoopServes ==
  /\ \A t \in Timers : []<>(t \notin ToSet(port \o list))
  /\ []<>(main = "wait")

=============================================================================
