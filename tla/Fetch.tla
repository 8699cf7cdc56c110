------------------------------- MODULE Fetch -------------------------------
(***************************************************************************)
(* Fetch objects (fetch.c), the connection slots and queues they share, and *)
(* the three pointers by which a url object (url.c) knows its fetches:      *)
(* fetch, a new load; rfetch, a reload from the cache; vfetch, a            *)
(* verification that runs beside them.                                      *)
(*                                                                          *)
(* A fetch runs its driver in a task object (module Task): here a driver    *)
(* only sends updates, the last of them AOURL_Terminate, at any time until  *)
(* it is gone.  Main handles one event at a time, but its handlers call     *)
(* each other: an update of a fetch is forwarded to its url, which may      *)
(* start and dispose of fetches, and these calls touch the fetch whose      *)
(* handler is still at work.  todo is the sequence of calls main still has  *)
(* to make before it can take the next event.                               *)
(***************************************************************************)
EXTENDS Integers, Sequences, FiniteSets, SequencesExt

CONSTANTS
  Fetches,       \* the fetch objects memory has room for
  Urls,
  NoFetch, NoUrl,
  Maxconnect,    \* prefs.maxconnect
  Maxdiskread,   \* prefs.maxdiskread
  Fastresponse,  \* the values prefs.fastresponse may have, as the user sets it
  Slots,         \* the slots a name may need: subset of {"NETSLOT", "LOCALSLOT", "none"}
  Traits,        \* what a load may be: subset of {"IMAGE", "POST"}
  MaxWaits,      \* bound: WAIT commands at the same time
  Updates,       \* what drivers send, besides AOURL_Terminate
  Events         \* what the user does: subset of {"cancel", "reload", "requester"}

UpdateNames == {"Data", "Error", "Moved", "Notmodified", "Postnogood"}

Tags == {"Data", "Error", "Moved", "Terminate", "Reload"}

Flags == {"RUNNING", "CANCELLED", "NOTMODIFIED", "DISPOSED", "INCOMPLETE",
          "LOCALSLOT", "NETSLOT", "QUEUED", "USESLOT", "POSTNOGOOD", "IMAGE",
          "POST", "VALIDATE"}

ASSUME FetchAssumption ==
  /\ Fetches \subseteq Nat /\ IsFiniteSet(Fetches)
  /\ NoFetch \notin Fetches /\ NoUrl \notin Urls
  /\ Maxconnect \in Nat \ {0} /\ Maxdiskread \in Nat \ {0}
  /\ Fastresponse \subseteq BOOLEAN
  /\ Slots \subseteq {"NETSLOT", "LOCALSLOT", "none"}
  /\ Traits \subseteq {"IMAGE", "POST"}
  /\ MaxWaits \in Nat
  /\ Updates \subseteq UpdateNames
  /\ Events \subseteq {"cancel", "reload", "requester"}

VARIABLES
  todo,          \* the calls main still makes for this event, next one first
  life,          \* of each fetch object: "new", "live" or "freed"
  flags,         \* fch->flags; POST is fch->postmsg or fch->mpd, VALIDATE fch->validate
  url,           \* fch->url
  task,          \* fch->task is not NULL
  stop,          \* the driver was told to stop
  netqueue, localqueue,
  nrnet, nrlocal,
  fetch, rfetch, vfetch,   \* the pointers of each url
  movedto,       \* url->movedto
  waitrequests   \* ARexx WAIT commands: a url, or NoUrl for every fetch

urlVars == <<fetch, rfetch, vfetch, movedto>>
queueVars == <<netqueue, localqueue, nrnet, nrlocal>>
fetchVars == <<life, flags, url, task, stop>>
vars == <<todo, fetchVars, queueVars, urlVars, waitrequests>>

-----------------------------------------------------------------------------
(* The calls of main. *)

\* load: Loadurl();  newfetch, newrfetch, newvfetch: Anewobject(AOTP_FETCH)
\* for that pointer;  cancel: Setfetch(AOFCH_Cancel) by that pointer;
\* netqueue, localqueue: the two loops of Checkqueues();  forward: the end of
\* Updatefetch();  srcupdate: Asrcupdatetags();  retry: the try without a
\* post message;  end: RUNNING is cleared and the fetch disposed of;
\* discard, resume: Incompletereturn() after its Asrcupdatetags();
\* dispose: Disposefetch().
OfUrl == {"load", "newfetch", "newrfetch", "newvfetch",
          "cancelfetch", "cancelrfetch", "cancelvfetch"}

OfFetch == {"forward", "srcupdate", "retry", "end", "discard", "resume", "dispose"}

OfQueues == {"netqueue", "localqueue"}

Call == [op : OfUrl \cup OfFetch \cup OfQueues, u : Urls \cup {NoUrl},
         f : Fetches \cup {NoFetch}, tags : (SUBSET Tags) \cup {{"history"}, {"reload"}}]

CallU(op, u, how) == [op |-> op, u |-> u, f |-> NoFetch, tags |-> how]

CallF(op, f, tags) == [op |-> op, u |-> NoUrl, f |-> f, tags |-> tags]

Checkqueues == <<CallF("netqueue", NoFetch, {}), CallF("localqueue", NoFetch, {})>>

Idle == todo = <<>>

At(op) == todo # <<>> /\ Head(todo).op = op

F == Head(todo).f
U == Head(todo).u

\* The call that runs is followed by these.
Do(calls) == todo' = calls \o Tail(todo)

\* Main takes an event, whose handler makes these calls.
Event(calls) == Idle /\ todo' = calls

Has(f, flag) == flag \in flags[f]

Without(f, fs) == [flags EXCEPT ![f] = @ \ fs]
With(f, fs) == [flags EXCEPT ![f] = @ \cup fs]

Live == {f \in Fetches : life[f] = "live"}

-----------------------------------------------------------------------------
Init ==
  /\ todo = <<>>
  /\ life = [f \in Fetches |-> "new"]
  /\ flags = [f \in Fetches |-> {}]
  /\ url = [f \in Fetches |-> NoUrl]
  /\ task = [f \in Fetches |-> FALSE]
  /\ stop = [f \in Fetches |-> FALSE]
  /\ netqueue = <<>> /\ localqueue = <<>>
  /\ nrnet = 0 /\ nrlocal = 0
  /\ fetch = [u \in Urls |-> NoFetch]
  /\ rfetch = [u \in Urls |-> NoFetch]
  /\ vfetch = [u \in Urls |-> NoFetch]
  /\ movedto = [u \in Urls |-> NoUrl]
  /\ waitrequests = {}

-----------------------------------------------------------------------------
(* Starting a driver. *)

\* Dostartdriver() of f, whose flags are fs, when its task starts.
Dostartdriver(f, fs) ==
  /\ flags' = [flags EXCEPT ![f] = fs \cup {"RUNNING", "USESLOT"}]
  /\ task' = [task EXCEPT ![f] = TRUE]
  /\ stop' = [stop EXCEPT ![f] = FALSE]
  /\ nrlocal' = IF "LOCALSLOT" \in fs THEN nrlocal + 1 ELSE nrlocal
  /\ nrnet' = IF "NETSLOT" \in fs /\ "LOCALSLOT" \notin fs THEN nrnet + 1 ELSE nrnet

\* Addtoqueue(): what is no image goes before the first image.
Images(queue) == {i \in 1..Len(queue) : Has(queue[i], "IMAGE")}

Addtoqueue(queue, f, image) ==
  IF image \/ Images(queue) = {}
  THEN Append(queue, f)
  ELSE InsertAt(queue, CHOOSE i \in Images(queue) : \A j \in Images(queue) : i <= j, f)

\* Mutant: a second fetch may start when the connections are in use.
StartdriverOverLimit(f, fs) ==
  IF \/ "LOCALSLOT" \in fs /\ nrlocal > Maxdiskread
     \/ "NETSLOT" \in fs /\ nrnet > Maxconnect
  THEN /\ flags' = [flags EXCEPT ![f] = fs \cup {"QUEUED"}]
       /\ IF "LOCALSLOT" \in fs /\ nrlocal > Maxdiskread
          THEN /\ localqueue' = Addtoqueue(localqueue, f, "IMAGE" \in fs)
               /\ UNCHANGED netqueue
          ELSE /\ netqueue' = Addtoqueue(netqueue, f, "IMAGE" \in fs)
               /\ UNCHANGED localqueue
       /\ UNCHANGED <<task, stop, nrnet, nrlocal>>
  ELSE Dostartdriver(f, fs) /\ UNCHANGED <<netqueue, localqueue>>

\* Startdriver() of f, whose flags are fs, when it succeeds.
Startdriver(f, fs) ==
  IF \/ "LOCALSLOT" \in fs /\ nrlocal >= Maxdiskread
     \/ "NETSLOT" \in fs /\ nrnet >= Maxconnect
  THEN /\ flags' = [flags EXCEPT ![f] = fs \cup {"QUEUED"}]
       /\ IF "LOCALSLOT" \in fs /\ nrlocal >= Maxdiskread
          THEN /\ localqueue' = Addtoqueue(localqueue, f, "IMAGE" \in fs)
               /\ UNCHANGED netqueue
          ELSE /\ netqueue' = Addtoqueue(netqueue, f, "IMAGE" \in fs)
               /\ UNCHANGED localqueue
       /\ UNCHANGED <<task, stop, nrnet, nrlocal>>
  ELSE Dostartdriver(f, fs) /\ UNCHANGED <<netqueue, localqueue>>

\* The flags a new fetch may get from Setfetch() and Driverfunction().
NewFlags(op) ==
  {{slot} \cup traits \cup (IF op = "newvfetch" THEN {"VALIDATE"} ELSE {}) :
     slot \in IF op = "newrfetch" THEN {"LOCALSLOT"} ELSE Slots,
     traits \in SUBSET (Traits \ (IF op = "newfetch" THEN {} ELSE {"POST"}))}

\* Anewobject(AOTP_FETCH): the pointer, that was NULL, gets the new object.
\* Without memory, a driver or a process it stays NULL, and what there was of
\* the object is freed.
Newfetch(op) ==
  /\ At(op) /\ Do(<<>>)
  /\ \/ UNCHANGED <<fetchVars, queueVars, fetch, rfetch, vfetch>>
     \/ \E f \in Fetches : \E fs \in NewFlags(op) :
          /\ life[f] = "new" /\ \A g \in Fetches : life[g] = "new" => f <= g
          /\ life' = [life EXCEPT ![f] = "live"]
          /\ url' = [url EXCEPT ![f] = U]
          /\ Startdriver(f, fs \ {"none"})
          /\ fetch' = IF op = "newfetch" THEN [fetch EXCEPT ![U] = f] ELSE fetch
          /\ rfetch' = IF op = "newrfetch" THEN [rfetch EXCEPT ![U] = f] ELSE rfetch
          /\ vfetch' = IF op = "newvfetch" THEN [vfetch EXCEPT ![U] = f] ELSE vfetch
  /\ UNCHANGED <<movedto, waitrequests>>

\* One round of a loop of Checkqueues(): the first of the queue gets a slot.
\* When its driver does not start its url is told, and it is disposed of.
NextOf(queue) ==
  \/ /\ Dostartdriver(Head(queue), flags[Head(queue)] \ {"QUEUED"})
     /\ UNCHANGED todo
  \/ /\ flags' = Without(Head(queue), {"QUEUED"})
     /\ Do(<<CallF("srcupdate", Head(queue), {"Terminate"}),
             CallF("dispose", Head(queue), {}), Head(todo)>>)
     /\ UNCHANGED <<task, stop, nrnet, nrlocal>>

\* Mutant: one fetch is tried for the slot that is free.
ChecknetqueueOnce ==
  /\ At("netqueue")
  /\ \/ /\ nrnet < Maxconnect /\ netqueue # <<>>
        /\ Dostartdriver(Head(netqueue), flags[Head(netqueue)] \ {"QUEUED"})
        /\ Do(<<>>)
        /\ netqueue' = Tail(netqueue)
     \/ /\ nrnet < Maxconnect /\ netqueue # <<>>
        /\ flags' = Without(Head(netqueue), {"QUEUED"})
        /\ Do(<<CallF("srcupdate", Head(netqueue), {"Terminate"}),
                CallF("dispose", Head(netqueue), {})>>)
        /\ netqueue' = Tail(netqueue)
        /\ UNCHANGED <<task, stop, nrnet, nrlocal>>
     \/ /\ nrnet >= Maxconnect \/ netqueue = <<>>
        /\ Do(<<>>)
        /\ UNCHANGED <<flags, task, stop, nrnet, nrlocal, netqueue>>
  /\ UNCHANGED <<life, url, localqueue, urlVars, waitrequests>>

Checknetqueue ==
  /\ At("netqueue")
  /\ IF nrnet < Maxconnect /\ netqueue # <<>>
     THEN NextOf(netqueue) /\ netqueue' = Tail(netqueue)
     ELSE Do(<<>>) /\ UNCHANGED <<flags, task, stop, nrnet, nrlocal, netqueue>>
  /\ UNCHANGED <<life, url, localqueue, urlVars, waitrequests>>

Checklocalqueue ==
  /\ At("localqueue")
  /\ IF nrlocal < Maxdiskread /\ localqueue # <<>>
     THEN NextOf(localqueue) /\ localqueue' = Tail(localqueue)
     ELSE Do(<<>>) /\ UNCHANGED <<flags, task, stop, nrnet, nrlocal, localqueue>>
  /\ UNCHANGED <<life, url, netqueue, urlVars, waitrequests>>

-----------------------------------------------------------------------------
(* Disposing of a fetch. *)

\* A WAIT command still waits for a fetch of the set fs.
Waits(w, fs) == \E f \in fs : w = NoUrl \/ url[f] = w

\* Checkwaitrequests(), when these fetches are left.
Checkwaitrequests(fs) == {w \in waitrequests : Waits(w, fs)}

\* REMOVE(fch), if it is in this queue.
Places(queue, f) == {i \in 1..Len(queue) : queue[i] = f}

Unlink(queue, f) ==
  IF Places(queue, f) = {} THEN queue
  ELSE RemoveAt(queue, CHOOSE i \in Places(queue, f) : TRUE)

\* Mutant: WAIT commands are not looked at.
FreeUnchecked(f) ==
  /\ life' = [life EXCEPT ![f] = "freed"]
  /\ flags' = [flags EXCEPT ![f] = {}]
  /\ stop' = [stop EXCEPT ![f] = FALSE]
  /\ netqueue' = Unlink(netqueue, f)
  /\ localqueue' = Unlink(localqueue, f)
  /\ UNCHANGED waitrequests

\* The object is freed; what was in it is gone.
Free(f) ==
  /\ life' = [life EXCEPT ![f] = "freed"]
  /\ flags' = [flags EXCEPT ![f] = {}]
  /\ stop' = [stop EXCEPT ![f] = FALSE]
  /\ netqueue' = Unlink(netqueue, f)
  /\ localqueue' = Unlink(localqueue, f)
  /\ waitrequests' = Checkwaitrequests(Live \ {f})

\* Mutant: an open requester does not keep the object.
DisposefetchAtOnce ==
  /\ At("dispose")
  /\ Do(<<>>)
  /\ \/ /\ F = NoFetch
        /\ UNCHANGED <<life, flags, stop, netqueue, localqueue, waitrequests>>
     \/ /\ F # NoFetch /\ Has(F, "RUNNING")
        /\ flags' = With(F, {"DISPOSED"})
        /\ stop' = [stop EXCEPT ![F] = TRUE]
        /\ UNCHANGED <<life, netqueue, localqueue, waitrequests>>
     \/ F # NoFetch /\ ~Has(F, "RUNNING") /\ Free(F)
  /\ UNCHANGED <<url, task, nrnet, nrlocal, urlVars>>

\* Disposefetch(): while its driver runs or its requester is open it is only
\* marked.
Disposefetch ==
  /\ At("dispose")
  /\ Do(<<>>)
  /\ \/ /\ F = NoFetch
        /\ UNCHANGED <<life, flags, stop, netqueue, localqueue, waitrequests>>
     \/ /\ F # NoFetch /\ (Has(F, "RUNNING") \/ Has(F, "INCOMPLETE"))
        /\ flags' = With(F, {"DISPOSED"})
        /\ stop' = [stop EXCEPT ![F] = @ \/ Has(F, "RUNNING")]
        /\ UNCHANGED <<life, netqueue, localqueue, waitrequests>>
     \/ F # NoFetch /\ ~Has(F, "RUNNING") /\ ~Has(F, "INCOMPLETE") /\ Free(F)
  /\ UNCHANGED <<url, task, nrnet, nrlocal, urlVars>>

-----------------------------------------------------------------------------
(* Updatefetch(): what a driver sends. *)

\* The driver of f sends an update.
Updatefetch(f, name) ==
  Idle /\ life[f] = "live" /\ task[f] /\ name \in Updates \cup {"Terminate"}

\* If we are already disposed, or should retry, nothing is forwarded.
Forward(f, tags) ==
  IF flags[f] \cap {"DISPOSED", "POSTNOGOOD"} = {}
  THEN Event(<<CallF("srcupdate", f, tags)>>) ELSE Event(<<>>)

Stop(f) == stop' = [stop EXCEPT ![f] = TRUE]

\* AOURL_Data: stops the driver if the object is not modified.
UpdateData(f) ==
  /\ Updatefetch(f, "Data")
  /\ IF Has(f, "NOTMODIFIED") THEN Stop(f) /\ Event(<<>>)
                              ELSE Forward(f, {"Data"}) /\ UNCHANGED stop
  /\ UNCHANGED <<life, flags, url, task, queueVars, urlVars, waitrequests>>

UpdateError(f) ==
  /\ Updatefetch(f, "Error")
  /\ Forward(f, {"Error"})
  /\ UNCHANGED <<fetchVars, queueVars, urlVars, waitrequests>>

\* AOURL_Movedto, AOURL_Tempmovedto, AOURL_Seeother
UpdateMoved(f) ==
  /\ Updatefetch(f, "Moved") /\ ~Has(f, "LOCALSLOT")
  /\ Forward(f, {"Moved"})
  /\ UNCHANGED <<life, flags, url, task, stop, queueVars, urlVars, waitrequests>>

UpdateNotmodified(f) ==
  /\ Updatefetch(f, "Notmodified") /\ Has(f, "VALIDATE")
  /\ flags' = With(f, {"NOTMODIFIED"})
  /\ Event(<<>>)
  /\ UNCHANGED <<life, url, task, stop, queueVars, urlVars, waitrequests>>

\* AOURL_Postnogood: the server refused a POST.
UpdatePostnogood(f) ==
  /\ Updatefetch(f, "Postnogood") /\ Has(f, "POST")
  /\ flags' = With(f, {"POSTNOGOOD"})
  /\ Stop(f) /\ Event(<<>>)
  /\ UNCHANGED <<life, url, task, queueVars, urlVars, waitrequests>>

\* Mutant: the flag is cleared and the counter is not.
ReleaseUncounted(f, fs) ==
  /\ flags' = [flags EXCEPT ![f] = fs \ {"USESLOT"}]
  /\ UNCHANGED <<nrnet, nrlocal>>

\* Checkqueues() gives the slot of f back.
Release(f, fs) ==
  /\ nrnet' = IF Has(f, "USESLOT") /\ Has(f, "NETSLOT") THEN nrnet - 1 ELSE nrnet
  /\ nrlocal' = IF Has(f, "USESLOT") /\ Has(f, "LOCALSLOT") THEN nrlocal - 1 ELSE nrlocal
  /\ flags' = [flags EXCEPT ![f] = fs \ {"USESLOT"}]

\* AOURL_Terminate, when all the data that were announced have come or not
\* (fch->sofar<fch->total): after Checkqueues() the fetch is tried again without its
\* POST, or waits for the answer to the requester, or is disposed of.
UpdateTerminate(f) ==
  /\ Updatefetch(f, "Terminate")
  /\ task' = [task EXCEPT ![f] = FALSE]
  /\ LET ask == flags[f] \cap {"POSTNOGOOD", "CANCELLED", "NOTMODIFIED", "DISPOSED"} = {}
     IN \/ /\ Has(f, "POSTNOGOOD")
           /\ Release(f, flags[f])
           /\ Event(Checkqueues \o <<CallF("retry", f, {})>>)
        \/ /\ ask
           /\ Release(f, (flags[f] \ {"RUNNING"}) \cup {"INCOMPLETE"})
           /\ Event(Checkqueues)
        \/ /\ ~Has(f, "POSTNOGOOD")
           /\ Release(f, flags[f])
           /\ \E error \in {{}} \cup (IF "Error" \in Updates THEN {{"Error"}} ELSE {}) :
                Event(Checkqueues \o <<CallF("forward", f, {"Terminate"} \cup error),
                                       CallF("end", f, {})>>)
  /\ UNCHANGED <<life, url, stop, netqueue, localqueue, urlVars, waitrequests>>

\* The end of Updatefetch(), after Checkqueues().
ForwardTerminate ==
  /\ At("forward")
  /\ Do(IF flags[F] \cap {"DISPOSED", "POSTNOGOOD"} = {}
        THEN <<CallF("srcupdate", F, Head(todo).tags)>> ELSE <<>>)
  /\ UNCHANGED <<fetchVars, queueVars, urlVars, waitrequests>>

\* Mutant: FCHF_RUNNING is left.
EndRunning ==
  /\ At("end")
  /\ Do(<<CallF("dispose", F, {})>>)
  /\ UNCHANGED <<fetchVars, queueVars, urlVars, waitrequests>>

End ==
  /\ At("end")
  /\ flags' = Without(F, {"RUNNING"})
  /\ Do(<<CallF("dispose", F, {})>>)
  /\ UNCHANGED <<life, url, task, stop, queueVars, urlVars, waitrequests>>

\* The same fetch again with GET.
Retry ==
  /\ At("retry")
  /\ LET fs == flags[F] \ {"RUNNING", "POSTNOGOOD", "POST"}
     IN \/ Startdriver(F, fs) /\ Do(<<>>)
        \/ /\ flags' = [flags EXCEPT ![F] = fs]
           /\ Do(<<CallF("srcupdate", F, {"Terminate"})>> \o Checkqueues
                 \o <<CallF("dispose", F, {})>>)
           /\ UNCHANGED <<task, stop, queueVars>>
  /\ UNCHANGED <<life, url, urlVars, waitrequests>>

-----------------------------------------------------------------------------
(* The 'incomplete' requester, and cancelling. *)

\* Incompletereturn(): cancel, ok, or retry.
Incompletereturn(f) ==
  /\ "requester" \in Events /\ life[f] = "live" /\ Has(f, "INCOMPLETE")
  /\ \/ \E tags \in {{"Error", "Terminate"}, {"Terminate"}} :
           /\ Event(<<CallF("srcupdate", f, tags), CallF("discard", f, {})>>)
           /\ UNCHANGED <<flags, task, stop, queueVars>>
     \/ /\ Event(<<CallF("srcupdate", f, {"Reload"}), CallF("resume", f, {})>>)
        /\ Startdriver(f, flags[f])
  /\ UNCHANGED <<life, url, urlVars, waitrequests>>

Discard ==
  /\ At("discard")
  /\ flags' = [flags EXCEPT ![F] = (@ \ {"INCOMPLETE"}) \cup {"DISPOSED"}]
  /\ Do(<<CallF("dispose", F, {})>>)
  /\ UNCHANGED <<life, url, task, stop, queueVars, urlVars, waitrequests>>

\* Mutant: the requester still counts as open.
ResumeOpen ==
  /\ At("resume")
  /\ Do(IF Has(F, "DISPOSED") THEN <<CallF("dispose", F, {})>> ELSE <<>>)
  /\ UNCHANGED <<fetchVars, queueVars, urlVars, waitrequests>>

Resume ==
  /\ At("resume")
  /\ flags' = Without(F, {"INCOMPLETE"})
  /\ Do(IF Has(F, "DISPOSED") THEN <<CallF("dispose", F, {})>> ELSE <<>>)
  /\ UNCHANGED <<life, url, task, stop, queueVars, urlVars, waitrequests>>

\* Setfetch() with AOFCH_Cancel, before the calls that follow.
Cancel(f, calls) ==
  /\ flags' = With(f, {"CANCELLED"})
  /\ stop' = [stop EXCEPT ![f] = @ \/ Has(f, "RUNNING")]
  /\ todo' = (IF Has(f, "RUNNING") THEN <<CallF("srcupdate", f, {"Error"})>>
              ELSE IF Has(f, "QUEUED")
              THEN <<CallF("srcupdate", f, {"Terminate"}), CallF("dispose", f, {})>>
              ELSE <<>>) \o calls

\* From the network status window, that shows every fetch.
Cancelnetstat(f) ==
  /\ Idle /\ "cancel" \in Events /\ life[f] = "live"
  /\ Cancel(f, <<>>)
  /\ UNCHANGED <<life, url, task, queueVars, urlVars, waitrequests>>

-----------------------------------------------------------------------------
(* The url: what its fetches tell it. *)

Is(pointer) == F # NoFetch /\ pointer[url[F]] = F

Set(pointer, u, f) == [pointer EXCEPT ![u] = f]

\* Mutant: the reload from the cache goes on.
PromoteBeside ==
  /\ At("srcupdate") /\ Is(vfetch) /\ Head(todo).tags \cap {"Data", "Moved"} # {}
  /\ LET u == url[F]
     IN /\ fetch' = Set(fetch, u, F)
        /\ vfetch' = Set(vfetch, u, NoFetch)
        /\ Do(<<Head(todo)>>)
  /\ UNCHANGED <<fetchVars, queueVars, rfetch, movedto, waitrequests>>

\* Moved data on a verification: the vfetch becomes the fetch, and hears of
\* the update once more as such; a reload from the cache is killed.
Promote ==
  /\ At("srcupdate") /\ Is(vfetch) /\ Head(todo).tags \cap {"Data", "Moved"} # {}
  /\ LET u == url[F]
     IN /\ fetch' = Set(fetch, u, F)
        /\ vfetch' = Set(vfetch, u, NoFetch)
        /\ rfetch' = Set(rfetch, u, NoFetch)
        /\ Do(<<CallF("dispose", rfetch[u], {}), Head(todo)>>)
  /\ UNCHANGED <<fetchVars, queueVars, movedto, waitrequests>>

\* The verification is over: not modified, or an error.  It is loaded after
\* all when it had waited for this.
Verified ==
  /\ At("srcupdate") /\ Is(vfetch) /\ Head(todo).tags \cap {"Error", "Terminate"} # {}
  /\ LET u == url[F]
         error == "Error" \in Head(todo).tags
     IN /\ vfetch' = Set(vfetch, u, NoFetch)
        /\ \E fast \in Fastresponse :
             Do((IF error THEN <<CallF("dispose", F, {})>> ELSE <<>>)
                \o (IF fast THEN <<>> ELSE <<CallU("load", u, {"history"})>>))
  /\ UNCHANGED <<fetchVars, queueVars, fetch, rfetch, movedto, waitrequests>>

\* The moves that movedto, or another function mv, records.
Moves(mv) == {<<v, mv[v]>> : v \in {w \in Urls : mv[w] # NoUrl}}

\* The urls these moves lead to from u.
Reach(mv, u) ==
  {v \in Urls : \E p \in UNION {[1..n -> Urls] : n \in 1..Cardinality(Urls)} :
      /\ p[1] = u /\ p[Len(p)] = v
      /\ \A i \in 1..(Len(p) - 1) : <<p[i], p[i + 1]>> \in Moves(mv)}

\* The moves lead back to u.
Movedtoloop(mv, u) == \E v \in Reach(mv, u) : mv[v] = u

\* Srcupdatefetch() with AOURL_Movedto: Moveurl().
Moveurl ==
  /\ At("srcupdate") /\ (Is(fetch) \/ Is(rfetch)) /\ "Moved" \in Head(todo).tags
  /\ \E v \in Urls :
       /\ movedto' = Set(movedto, url[F], v)
       /\ IF Movedtoloop(movedto', url[F])
          THEN Do(<<>>)
          ELSE \E how \in {{}} \cup (IF "reload" \in Events THEN {{"reload"}} ELSE {}) :
                 Do(<<CallU("load", v, how)>>)
  /\ UNCHANGED <<fetchVars, queueVars, fetch, rfetch, vfetch, waitrequests>>

\* Srcupdatefetch() otherwise.  An image that is in a file already cancels a
\* local fetch when its data come.
Srcupdatefetch ==
  /\ At("srcupdate") /\ (Is(fetch) \/ Is(rfetch)) /\ "Moved" \notin Head(todo).tags
  /\ Do(<<>>)
  /\ IF "Terminate" \in Head(todo).tags
     THEN /\ fetch' = Set(fetch, url[F], NoFetch)
          /\ rfetch' = Set(rfetch, url[F], NoFetch)
     ELSE UNCHANGED <<fetch, rfetch>>
  /\ \/ UNCHANGED <<flags, stop>>
     \/ /\ "Data" \in Head(todo).tags /\ Has(F, "LOCALSLOT")
        /\ flags' = With(F, {"CANCELLED"})
        /\ Stop(F)
  /\ UNCHANGED <<life, url, task, queueVars, vfetch, movedto, waitrequests>>

\* A fetch its url does not know any more, or tags that change nothing here.
SrcupdateIgnored ==
  /\ At("srcupdate") /\ ~Is(fetch) /\ ~Is(rfetch)
  /\ ~Is(vfetch) \/ Head(todo).tags \cap {"Data", "Moved", "Error", "Terminate"} = {}
  /\ Do(<<>>)
  /\ UNCHANGED <<fetchVars, queueVars, urlVars, waitrequests>>

-----------------------------------------------------------------------------
(* The url: what AWeb asks of it. *)

\* Urls Finalurl(u) may be, as what is cached decides.
Finalurls(u) == Reach(movedto, u)

Loading(u) == {fetch[u], rfetch[u], vfetch[u]} # {NoFetch}

\* The fetches Loadurl() may start, by its table of conditions.
Plans(history) ==
  {<<>>, <<"newfetch">>, <<"newrfetch">>}
  \cup IF history THEN {}
       ELSE {<<"newvfetch">>} \cup (IF TRUE \in Fastresponse
                                   THEN {<<"newrfetch", "newvfetch">>} ELSE {})

CallsU(ops, u) == [i \in 1..Len(ops) |-> CallU(ops[i], u, {})]

Loadurl ==
  /\ At("load") /\ Head(todo).tags # {"reload"}
  /\ \E u \in Finalurls(U) :
       IF Loading(u) THEN Do(<<>>)
       ELSE \E plan \in Plans(Head(todo).tags = {"history"}) : Do(CallsU(plan, u))
  /\ UNCHANGED <<fetchVars, queueVars, urlVars, waitrequests>>

\* A reload breaks any ongoing fetches.
Reload ==
  /\ At("load") /\ Head(todo).tags = {"reload"}
  /\ Do(<<CallF("dispose", fetch[U], {}), CallF("dispose", rfetch[U], {}),
          CallF("dispose", vfetch[U], {}), CallU("newfetch", U, {})>>)
  /\ fetch' = Set(fetch, U, NoFetch)
  /\ rfetch' = Set(rfetch, U, NoFetch)
  /\ vfetch' = Set(vfetch, U, NoFetch)
  /\ movedto' = Set(movedto, U, NoUrl)
  /\ UNCHANGED <<fetchVars, queueVars, waitrequests>>

\* The user follows a link, or reloads.
Auload(u) ==
  /\ \E how \in {{}} \cup (IF "reload" \in Events THEN {{"reload"}} ELSE {}) :
       Event(<<CallU("load", u, how)>>)
  /\ UNCHANGED <<fetchVars, queueVars, urlVars, waitrequests>>

\* Specialurl(AUMST_CANCELFETCH): each pointer is read when its turn comes.
Cancelfetch(u) ==
  /\ "cancel" \in Events
  /\ \E v \in Finalurls(u) : Event(CallsU(<<"cancelfetch", "cancelrfetch", "cancelvfetch">>, v))
  /\ UNCHANGED <<fetchVars, queueVars, urlVars, waitrequests>>

Cancelpointer(op, pointer) ==
  /\ At(op)
  /\ IF pointer[U] = NoFetch THEN Do(<<>>) /\ UNCHANGED <<flags, stop>>
                             ELSE Cancel(pointer[U], Tail(todo))
  /\ UNCHANGED <<life, url, task, queueVars, urlVars, waitrequests>>

\* Addwaitrequest(): replied at once when there is nothing to wait for.
Addwaitrequest(w) ==
  /\ Idle /\ Cardinality(waitrequests) < MaxWaits
  /\ waitrequests' = waitrequests \cup (IF Waits(w, Live) THEN {w} ELSE {})
  /\ UNCHANGED <<todo, fetchVars, queueVars, urlVars>>

-----------------------------------------------------------------------------
\* The calls main still has to make.
MainStep ==
  \/ Newfetch("newfetch") \/ Newfetch("newrfetch") \/ Newfetch("newvfetch")
  \/ Checknetqueue \/ Checklocalqueue
  \/ Disposefetch \/ ForwardTerminate \/ End \/ Retry \/ Discard \/ Resume
  \/ Promote \/ Verified \/ Moveurl \/ Srcupdatefetch \/ SrcupdateIgnored
  \/ Loadurl \/ Reload
  \/ Cancelpointer("cancelfetch", fetch) \/ Cancelpointer("cancelrfetch", rfetch)
  \/ Cancelpointer("cancelvfetch", vfetch)

\* What a driver sends while it works.
DriverUpdate(f) ==
  \/ UpdateData(f) \/ UpdateError(f) \/ UpdateMoved(f)
  \/ UpdateNotmodified(f) \/ UpdatePostnogood(f)

User ==
  \/ \E u \in Urls : Auload(u) \/ Cancelfetch(u)
  \/ \E f \in Fetches : Cancelnetstat(f) \/ Incompletereturn(f)
  \/ \E w \in Urls \cup {NoUrl} : Addwaitrequest(w)

Next ==
  \/ MainStep
  \/ User
  \/ \E f \in Fetches : DriverUpdate(f) \/ UpdateTerminate(f)

Spec == Init /\ [][Next]_vars

\* Main finishes its handlers, and a driver that was told to stop ends: every
\* driver looks at Checktaskbreak() while it reads, and a broken read fails.
Fairness ==
  /\ WF_vars(MainStep)
  /\ \A f \in Fetches : SF_vars(stop[f] /\ UpdateTerminate(f))

FairSpec == Spec /\ Fairness

-----------------------------------------------------------------------------
(* Properties. *)

\* Every variable has a value of its type.
TypeOK ==
  /\ todo \in Seq(Call)
  /\ life \in [Fetches -> {"new", "live", "freed"}]
  /\ flags \in [Fetches -> SUBSET Flags]
  /\ url \in [Fetches -> Urls \cup {NoUrl}]
  /\ task \in [Fetches -> BOOLEAN]
  /\ stop \in [Fetches -> BOOLEAN]
  /\ netqueue \in Seq(Fetches) /\ localqueue \in Seq(Fetches)
  /\ nrnet \in 0..Maxconnect /\ nrlocal \in 0..Maxdiskread
  /\ fetch \in [Urls -> Fetches \cup {NoFetch}]
  /\ rfetch \in [Urls -> Fetches \cup {NoFetch}]
  /\ vfetch \in [Urls -> Fetches \cup {NoFetch}]
  /\ movedto \in [Urls -> Urls \cup {NoUrl}]
  /\ waitrequests \subseteq Urls \cup {NoUrl}

\* Those that occupy a slot of this kind.
Occupying(slot) == {f \in Fetches : {"USESLOT", slot} \subseteq flags[f]}

\* The two counters are the numbers of connections and files in use, however
\* fetches end: none leaks and none is given back twice.
SlotsCounted ==
  /\ nrnet = Cardinality(Occupying("NETSLOT"))
  /\ nrlocal = Cardinality(Occupying("LOCALSLOT"))

\* Between two events nothing is queued while there is a slot for it:
\* Checkqueues() is the only one who would start it.
QueuedNeedsSlot ==
  Idle => /\ netqueue # <<>> => nrnet >= Maxconnect
          /\ localqueue # <<>> => nrlocal >= Maxdiskread

\* An image never stands before something that is not an image.
DocumentsFirst ==
  \A queue \in {netqueue, localqueue} : \A i, j \in 1..Len(queue) :
     i < j /\ Has(queue[i], "IMAGE") => Has(queue[j], "IMAGE")

\* The fetches that a call of main, a driver, a queue or a url still uses.
Used ==
  {todo[i].f : i \in 1..Len(todo)} \cup {f \in Fetches : task[f]}
  \cup {netqueue[i] : i \in 1..Len(netqueue)}
  \cup {localqueue[i] : i \in 1..Len(localqueue)}
  \cup UNION {{fetch[u], rfetch[u], vfetch[u]} : u \in Urls}

\* No fetch is used after it is freed, by the handler that freed it, by its
\* driver, or by its url.
NoUseAfterFree == \A f \in Used \ {NoFetch} : life[f] = "live"

\* Between two events a fetch that is not disposed of is known to its url by
\* exactly one pointer: its updates would be dropped otherwise, and the user
\* could not cancel it.
Pointers(u, f) == {p \in {<<"f", fetch[u]>>, <<"r", rfetch[u]>>, <<"v", vfetch[u]>>} : p[2] = f}

KnownToUrl ==
  Idle => \A f \in Live : Has(f, "DISPOSED") \/ Cardinality(Pointers(url[f], f)) = 1

\* Between two events a fetch is in exactly one of its states, and it has a
\* driver when it says so.
OneState ==
  Idle => \A f \in Live :
            /\ Cardinality(flags[f] \cap {"RUNNING", "QUEUED", "INCOMPLETE"}) = 1
            /\ task[f] = Has(f, "RUNNING")

\* No WAIT command is left waiting when there is nothing to wait for.
WaitersHaveFetch == \A w \in waitrequests : Waits(w, Live)

\* A fetch whose driver was told to stop is gone in the end, unless the user
\* has still to answer a requester.
StoppedIsFreed ==
  \A f \in Fetches : stop[f] /\ task[f] ~> life[f] = "freed" \/ Has(f, "INCOMPLETE")

\* A queue moves when what holds its slots is stopped: no fetch stays queued
\* for ever unless some driver never ends.
QueueMoves ==
  \A f \in Fetches :
     <>[](life[f] = "live" /\ Has(f, "QUEUED"))
       => []<>(\E g \in Fetches : task[g] /\ ~stop[g])

\* A fetch that was cancelled while its driver ran is disposed of when the
\* driver returns.
DisposedWhenTaskReturns ==
  [][\A f \in Fetches :
       task[f] /\ ~task'[f] /\ Has(f, "CANCELLED")
         => CallF("end", f, {}) \in {todo'[i] : i \in 1..Len(todo')}]_vars

=============================================================================
