# A verification of AWeb's core

AWeb is a web browser for AmigaOS.  Its main process runs the event loop, owns
all objects, and never blocks for long; everything slow (a connection, a file,
a window with a life of its own) runs in a *subtask*, a process of its own.
This directory models the parts of AWeb in which processes, callbacks and
queues meet, checks them with TLC on small instances, and proves the central
results with TLAPS for instances of any size.  Paths are relative to
`src/Source/AWebAPL/` unless they say otherwise.

## Inventory

| Component | State | Operations | Talks to |
|---|---|---|---|
| Task objects, `task.c`, `task.h` | per task: state, flags, `runsema`, the subtask's port `subport`, its reply port `updport`; main: the reply port `taskport`, `semaport` | start, stop, suspend, message with and without waiting, update with and without waiting, dispose | every component with a subtask |
| Fetches, `fetch.c` | flags of each fetch; the lists `running`, `netqueue`, `localqueue`, `channels`; `nrnet`, `nrlocal`; WAIT commands | new, update from the driver, cancel, dispose, retry, the 'incomplete' requester | Task (driver), Url, the network status window, ARexx |
| Urls, `url.c` | three fetch pointers, cache, source, `movedto`, flags | load, reload, verify, move, cancel | Fetch, Cache, Source, windows |
| Disk cache, `cache.c` | LRU list, files, registration logs AWCR and AWCU | register, touch, flush, dispose, read the logs at startup | Url, the file system |
| Asynchronous files, `asyncio.c` | two buffers, one packet under way, offset | open, read, write, close, retry of an error | the file handler; saving and reading of sources |
| Sources and copies, `source.c`, `imgsource.c`, `copy.c` | the driver, the data and the count of displayed copies of a source; the driver of each copy | load, data, end, reload, verify, move, flush; a copy joins, leaves, gets a window | Url, Cache, frames and documents |
| Timers and queued messages, `timer.c`, `aweb.c`, `framejs.c` | timer requests at the device or in the port; the timeouts of each frame; `setmsgqueue` | set, clear, trigger; queue, select, deliver | frames, scripts, copies |
| Window history, `winhis.c`, `whiswin.c`, parts of `frame.c`, `event.c` | one list of entries with flags; the entry each frame shows and loads | new entry, back, forward, choose, reload | frames, Url |
| Framesets, `frameset.c` | sizes, minima, the border being moved | lay out, move a border | frames |
| Tables, `table.c`, `body.c` | rows, cells, columns, what is measured and laid out | add rows and cells, measure, lay out, change a child | the parser, the body above it, images |
| Hotlist, `hotlist.c`, `hotviewer.c`, `hotmanager.c` | the tree of entries under `hotsema` | add, move, delete, save, restore; two windows, each a subtask | Task |
| Name servers, cookies, authorization | one list each, under a semaphore | look up, add, expire | drivers |
| Documents, other layout, JavaScript, preferences, drivers | large, but of one thread each | | |

Behaviours that are hard to get right and hard to test, by component:

* **Task.** Main is one thread but it is re-entrant: while it waits for one
  reply it processes other messages of the same task, and the method it calls
  for them may stop, dispose of, or start tasks again.  Two ports share two
  signal bits, which are cleared by whoever waits.  The subtask ends at any
  time, and messages to it, from it and about it are then still under way.
* **Fetch and Url.** Handlers call each other in a circle: a fetch tells its url
  about data, the url disposes of that fetch and starts another one, which
  takes a slot while the first handler is still counting slots.  A fetch has
  three lives at once (driver, requester, url), and each may end first.
* **Cache.** A crash between the deletion of a file and the line in the log that
  says so; a log that is compacted while objects are incomplete; a running total
  kept at five places; a list that changes while it is flushed.
* **Asynchronous files.** Caller and file system work on the two buffers at the
  same time; the error path resends a buffer, in another mode than the one it
  was written for.
* **Sources and copies.** A source, its data, its copies, their windows and the
  screen come and go in any order, and each is the last thing the others wait
  for once; urls move while others load.
* **Timers and messages.** A timer's target may dispose of other timers whose
  replies were taken from the port with it; a queued message holds a plain
  pointer; a handler may queue the message it handles again.
* **Window history.** The line along which the buttons walk is kept in flags
  that change when a page is shown, not when it is asked for.
* **Framesets and tables.** Widths are divided in integers in several passes; a
  table is shown before it is complete, row by row, as long as its columns
  keep their widths.
* **Hotlist.** A semaphore held by the window's subtask while it waits for main,
  and taken by main.

`PROJECT.json` lists every component, modelled or not, and every hazard with its
line and the properties that would notice it.

## Modules

| Module | Models | Proved in |
|---|---|---|
| `Task` | task objects, main's call stack, the subtasks | `Task_proofs` |
| `Fetch` | fetches, slots, queues and the fetch pointers of urls | `Fetch_proofs` |
| `PlainFile`, `AsyncIO` | a plain file; the double buffer that implements it | `AsyncIO_proofs` |
| `Cache` | cache objects, files, registration logs, crashes | `Cache_proofs` |
| `Nodelists` | what removing nodes leaves of a list, for `Cache` and `Events` | |
| `Events` | timers, timeouts of scripts, client pull, queued messages | `Events_proofs` |
| `Sources` | sources and their copies while urls load, move and are replaced | `Sources_proofs` |
| `HistoryLine`, `WinHis` | what the manual promises of the history; the flags that implement it | `WinHis_proofs` |
| `Frameset` | the division of a window among its frames | |
| `Table` | the incremental display of a table | |
| `SeqLemmas` | facts on sequences for the proofs | itself |
| `MCTask`, `MCFetch`, `MCTable`, `MCParts` | constants and compositions for TLC | |

How they fit together: `Task` says how updates of drivers reach main and how
tasks end; `Fetch` takes from it that a driver sends updates between two events
and that a stopped one terminates.  `Sources` and `Cache` see the same loads,
reloads, verifications and moves of urls as `Fetch`, each from the side of the
state it owns.  `Events` runs what `Sources`, `Fetch` and scripts put off.
`WinHis` sees a load only as a copy that has something to show, or not.

Modules that are proved about have constants with named assumptions, one action
per operation, and no recursive operators.  `Frameset` and `Table` use recursive
operators for their divisions and are for TLC only.

Left to do, in order: the hotlist, as a composition of main, two windows and
`hotsema` with the synchronous part of `Task`; the objects and roots of the
garbage collector of the JavaScript engine.

## Task

`Task.tla` models the life of a task object in `task.c`, from its start to its
disposal.  A message is a record of its type, its task, whether it is
asynchronous, and a number that tells nested synchronous messages apart; ports
are sequences.  Left out: `Obtaintasksemaphore()` (`task.c:215-241`), with which
subtasks of the image sources and of the news driver wait for a semaphore among
themselves or for a break; `AOTSK_Stop` with `AOTSK_Async,FALSE` outside a
disposal, which no client sends; a change of a task's target or map after it was
made (`task.c:654-659`).

**Main.** The C call stack of main is the variable `stack`.  A frame says where
its call goes on: `upd` is `Processreply()` inside the target's update method,
`ptr` is `Processtaskreply()`, `wfm` and `wfmWait` are the two points of
`Waitformsg()`, `procure` and `stWait` those of `Stoptask()`, `dd`, `ddPtr` and
`ddFree` those of `Dodisposetask()`, and `startK`, `msgK`, `ptTail` are what
`Starttask()`, `Messagetask()` and `Processtask()` do after the call they made.
Between two steps of main any subtask may run.  The signals of the two ports
are `tsig` and `ssig`; `got` is the bit of `getmask` in the event loop of
`aweb.c`, which is looked at after it has been cleared.

**Subtask.** `spc` says where it is: created (`start`), in its entry (`run`),
inside `Gettaskmsg()` while suspended, after the break (`exit`), and past the
last lines of the wrapper (`ended`, or `failed` when it had no port).
`SubtaskWork` is what the entry decides, `SubtaskStep` what it is bound to do.

| Action | Code |
|---|---|
| `EventWait`, `Processtask`, `ProcesstaskReturns` | the event loop, `Processtask()` |
| `UpdateReturns`, `Processtaskreply`, `WaitformsgScan`, `WaitformsgWakes` | `Processreply()`, `Processtaskreply()`, `Waitformsg()` |
| `Starttask`, `StarttaskReturns` | `Starttask()` and `AOTSK_Started` |
| `Messagetask`, `Setsuspend`, `Asetattrsasync`, `Stopasync`, `MessageReturns` | `Messagetask()`, `Suspendtask()`, `AsetattrsasyncA()`, `Stoptask(,TRUE)` |
| `Disposetask`, `Dodisposetask`, `Procure`, `StoptaskWakes`, `DodisposetaskDrains`, `DodisposetaskFrees` | `Disposetask()`, `Dodisposetask()`, `Stoptask(,FALSE)` |
| `SubtaskStarts` ... `SubtaskReleases` | `Subtask()` from its first to its last line |
| `Updatetaskattrs`, `Gettaskmsg`, `GettaskmsgSuspended`, `Replytaskmsg` | the functions of the same names |

`ClientOps` and `HandlerOps` say what AWeb does with task objects, from its
event loop and from an update method.  No client uses every operation in every
place, and some mixtures do go wrong; the configurations follow the clients in
the source:

* `MCTask.cfg`, two tasks.  Fetches, editors, channels and background image
  decoding: asynchronous stops and tags, disposal in an update of the task itself
  or of another one, starts inside an update.
  Every allocation may fail.
* `MCTaskSync.cfg`, two tasks.  Windows that get synchronous messages and
  suspends, disposed of from the event loop.
* `MCTaskLive.cfg`, one task, under fairness.

Excluded, and listed as a hazard: a disposal from the event loop, inside whose
`Stoptask()` an update disposes of a *second* task.  The inner `Stoptask()`
takes the message of the outer one from the shared `semaport`, and main then
waits for ever.  No client does both.

### Runs

| Run | Shows |
|---|---|
| `task` | types; a freed task object is in no message, and its subtask is out of the wrapper (`FreedIsQuiet`); no call of main is still at work on it (`NoCallOnFreed`); a target is not called in the middle of its update (`OneUpdateAtATime`); the event loop never sleeps on a message (`NoLostSignal`) |
| `task_sync` | main never waits for something that cannot come (`NeverWaitInVain`); the message it waits for is somewhere (`AwaitedIsUnderway`); a synchronous update is answered exactly once (`WaitingIsServed`) |
| `task_live` | a stopped subtask ends, main comes back to the event loop, and every synchronous update is answered |
| `task_hotlist` | **a counterexample**: a target that disposes of its task while main waits for that task makes main wait for ever; `task.h:38-39` says waiting avoids deadlocks |
| `task_resume` | **a counterexample**: `AOTSK_Suspend,FALSE` does not restart a suspended subtask |

Bounds: `MaxUpdates` limits the updates each subtask sends, `MaxOps` the client
operations.  Two tasks are enough for every pairing of an outer and an inner
call, and one or two updates for a message that arrives before, in, and after
each wait.  The deadlock check is off where the bounds let the system stop.

Fairness: main continues a call it is in (`WF` of `MainStep`), and a subtask is
scheduled (`WF` of `SubtaskStep`): exec runs every ready process, and `task.h`
asks every entry to call `Gettaskmsg()` regularly and to return when it is told
to stop.  Nothing is assumed of the client, nor of the entry's own work.

### Differences between the code and what is said of it

`task_hotlist` and `task_resume` are counterexamples TLC finds.  The hotlist
windows are the only clients that meet the deadlock of the first.  For the
second: `Settask()` (`task.c:643`) tests the same value in both branches, so
`Releasetask()` is never called.

Others, read off the model:

* `AOTSK_Started` is TRUE for a subtask whose entry never ran: a subtask without
  a port (`task.c:122-126`) still replies its startup message, and
  `Starttask()` (`task.c:456`) looks only at the process.  `task.h:113` says it
  tells whether the subtask was started.  `Dostartdriver()` (`fetch.c:341`)
  relies on it, and the fetch then holds its slot for ever.
* `AsetattrsasyncA()` does not set `TSMF_ASYNC` (`task.c:789`), so a suspended
  subtask replies such tags unread; no client both suspends and sends them.
* The subtask's reply port and its signal are not given back when it ends
  (`task.c:120`).

## Fetch

`Fetch.tla` models fetch objects (`fetch.c`) together with the three pointers
of a url (`url.c`), because the two are one mechanism: `Updatefetch()` forwards
to `Srcupdateurl()`, which calls `Disposefetch()` and `Loadurl()`.  Main handles
one event at a time, so between two events only its completed effect matters,
but inside a handler the order of the calls does.  The variable `todo` is the
sequence of calls main still makes for the event; each action runs the first of
them and puts the calls it makes in its place.  Drivers run in subtasks, and
`Task` describes how their updates arrive; here a driver is one that may send
any update at any time between two events, until its `AOURL_Terminate`.

| Action | Code |
|---|---|
| `Newfetch`, `Startdriver`, `Dostartdriver`, `Addtoqueue` | `Newfetch()` and the functions of the same names |
| `Checknetqueue`, `Checklocalqueue`, `Release` | `Checkqueues()` |
| `UpdateData` ... `UpdatePostnogood`, `UpdateTerminate`, `ForwardTerminate`, `Retry`, `End` | `Updatefetch()`, from its tags to its last lines |
| `Incompletereturn`, `Discard`, `Resume` | `Incompletereturn()` |
| `Cancelnetstat`, `Cancelfetch`, `Cancelpointer` | `Setfetch(AOFCH_Cancel)` and its two callers |
| `Disposefetch`, `Free`, `Addwaitrequest` | the functions of these names, `Checkwaitrequests()` |
| `Promote`, `Verified` | `Srcupdatevfetch()` |
| `Moveurl`, `Srcupdatefetch`, `SrcupdateIgnored` | `Srcupdatefetch()`, `Srcupdateurl()` |
| `Loadurl`, `Reload`, `Auload` | `Loadurl()` |

What is data here: the name of a fetch is the slot it needs; whether all
announced data came is the driver's choice when it terminates; the cache, the
source and the history flag are a choice among the rows of the table in
`Loadurl()`; a fetch that cannot be started, for lack of memory, a driver or a
process, is a choice everywhere a fetch is started.  `prefs.fastresponse` may
differ each time it is read.  That the driver of a started task does run is
assumed; when it does not is said under *Differences* of Task.

| Run | Shows |
|---|---|
| `fetch` | types and limits; the counters are the slots in use (`SlotsCounted`); no fetch is used after it is freed by the handler that freed it, a driver, a queue or its url (`NoUseAfterFree`); a fetch at work is known to its url by exactly one pointer (`KnownToUrl`); it is running, queued or asking, and never two of these (`OneState`) |
| `fetch_queue` | nothing is queued while a slot is free (`QueuedNeedsSlot`); no WAIT command waits for nothing (`WaitersHaveFetch`) |
| `fetch_live` | a stopped fetch is freed, unless the user is still asked; a queue whose slots are held by stopped fetches moves |
| `fetch_post` | **a counterexample**: a fetch cancelled while its server refuses a POST is started again instead of being disposed of |

Bounds: three fetch objects and no reuse of their memory, so that a stale
pointer is seen; when there is no room left, `Anewobject()` returns NULL.  One
connection and one file slot make every second fetch queue.  Three fetches are a
reload from the cache, a verification beside it, and the fetch that replaces
both, or one that runs and two that are queued in either order.  `MaxWaits`
limits the pending WAIT commands.  `fetch_queue` has two urls, which are alike
(symmetry); `fetch_live` uses no symmetry.

Fairness: main finishes its handlers, and a driver that was told to stop ends.
That is a strong fairness condition because the user may keep main busy between
two events; main looks at the port of its tasks in every round of its event
loop, which is `UpdateAnswered` of `task_live`.  Drivers look at
`Checktaskbreak()` while they read.  A driver nobody stopped may run for ever.
`POST` is left out of `fetch_live` because `fetch_post` shows that a stopped
fetch may start again.

Not modelled: channel fetches, which use no slot; the `javascript:` scheme,
whose script runs inside `Startdriver()`; the table of urls and its duplicates;
preferences that change the limits while fetches are queued.

## Streams

`AsyncIO.tla` models one stream of `asyncio.c`, its caller and the file
system.  A byte is the number of its place in the file, so a lost, repeated or
misplaced byte shows.  `call` holds the call that waits in `WaitPacket()` with
the bytes it has still to copy; between two of its rounds the handler may
answer or fail.  `SeekAsync()` and `RequeuePacket()` have no caller in the
program, and `RecordSyncFailure()` only those, and are left out.

| Action | Code |
|---|---|
| `OpenAsync`, `ReadAsync`, `WriteAsync`, `CloseAsync` | the functions of the same names, up to their first wait |
| `ReadAsyncGoesOn`, `ReadAsyncEnds`, `WriteAsyncGoesOn`, `CloseAsyncEnds` | what they do with the packet |
| `CallFails`, `WaitPacketRetry` | `WaitPacket()` after an error: cancel, retry |
| `HandlerFills`, `HandlerWrites`, `HandlerFails` | the file system (external) |

`PlainFile.tla` is what a program expects of a file: what it writes is appended
in order, what it reads are the next bytes, the end is told when everything was
read, and a file reported as saved holds everything.  `StreamIsPlainFile` is the
refinement: the contents of the plain file are the disk, the packet that is not
written yet, and the used part of the current buffer.  `StreamCallReturns` says
that every call returns; its fairness is that the file system answers and that a
waiting call goes on.

The refinement holds as long as no error is answered with Retry before the
stream is closed.  With `Retry = TRUE` the run `stream_retry` finds **a
counterexample**: `WaitPacket()` sends `af_Buffers[af_CurrentBuf]` again
(`asyncio.c:111`), but both callers have changed `af_CurrentBuf` since they sent
the packet, so another buffer is written twice or read into.  When a reading
stream is closed the retry does no harm, and the model always allows it there.
A retry also leaves `af_PacketPending` set with the packet taken.

Without such retries the refinement is proved for every size of buffers, calls
and files (`AsyncIO_proofs.tla`, below).

## Cache

`Cache.tla` models `cache.c` together with the operations of urls on their cache
objects (`url.c`).  `memory` is lost in a crash; `files`, `AWCR` and `AWCU` are
not.  `todo` is the sequence of accesses to the disk an operation has still to
make, one `DiskStep` each, and `Crash` may come between any two of them or in
the middle of an entry (`Torn`).  Everything an operation does in memory is one
step, because main does not look at other events before it has finished.

| Action | Code |
|---|---|
| `Initcache`, `Exitcache` | `Initcache()` with `Readcachereg()`, `Exitcache()` |
| `Load`, `LoadHistory`, `Reload`, `Verify`, `VerifyModified`, `VerifyEnds` | what `Loadurl()` and `Srcupdatevfetch()` do with `cache`, `ocache` and `vcache` |
| `Data`, `Finish`, `FetchError`, `Touch` | `Srcupdatecache()`, also of an answer without data, `Srcupdatefetch()`, touching |
| `DeleteCache`, `Dupcheck`, `Flushexcess`, `Fixcache`, `FixEnds` | the functions of these names |
| `DiskStep`, `SaveFails`, `Crash`, `ExpiryPasses` | the disk, an error when AWCR is closed, the machine, the clock |

`SizeAccounted`: the running total is the size of the objects there are.
`KeepsRegistration` (an action property): what a restart would find is never
dropped while it is the cache of its url.  `RecoversWhatIsCached`: between two
operations a restart would find every complete object.  `FixSynchronizes`: a
repair leaves files and objects that belong to each other, twins excepted.

Twins are two objects with one number, and so with one file.  They come from a
compaction during a fetch, which registers an object before it is complete; when
it is, it is registered again, and a start after a crash reads it twice.  Of each
file `Fixcachedir()` takes only the first object of that name off its list
(`Foundfirst`, `cache.c:580-587`); the second counts as lost, `Fixcachereg()` has
its url delete its cache, the shared file with it, and the first stays
registered without a file.  The manual says of the command that it "synchronizes
the cache registration with the files actually found on disk"
(`AWebDocsAPL/Docs/menus.html:221`); of twins that is false, and TLC shows it when the
exception is taken out of `FixSynchronizes`.  The property therefore excepts the
objects that shared their number when the repair began (`Shared`), and no others.

Bounds: one url that may expire, two object numbers, a compaction after each
registration, a limit of one unit, one crash or failing save.  Two numbers are
an object and the one that replaces it; the log then holds an addition, its
deletion and the addition of the other in every order.

What the properties leave room for, because the code does it: twins, whose file
the check for duplicates deletes as well; a compaction during a reload drops the registration of the old copy; a
repair that finds an `ocache` without a file deletes the new cache of that url; a
load of an expired copy from the history leaves its object without a url;
`Flushexcess()` (`cache.c:383`) goes on along a pointer it saved before it
deleted.  Left out: a `Rename()` that fails for its own reasons, a corrupt
header, `AOURL_Nocache`, flushing by type and pattern, a repair that the user
stops, and what `Fixcachereg()` (`cache.c:623`) reads of a cache object that the
deletion for an earlier entry of its list has freed: the model deletes what was
registered when the repair began.

## Events

`Events.tla` models the timer objects (`timer.c`), the timeouts of scripts
(`framejs.c`), the client pull (`frame.c`) and the queue of messages that main
sends itself (`Queuesetmsg()`, `Setmsgqueue()` in `aweb.c`), for one window with
a top frame and subframes.  `list` is the local list of `Processtimer()`: the
replies it has taken from the port and works off one by one, while each may run
a script that sets, clears or triggers anything.

Scripts mostly queue the documents they load, since, as `framejs.c:357` says,
calling `Inputwindoc()` during JavaScript may cause loops.  But
`window.open()` of a frame there is (`framejs.c:289-296`), `location.replace()`
and `form.submit()` call it at once, and if the document is in memory it is
displayed and read before the script goes on: `Newdisplay()` takes the copy from
under the script, the scripts of the new document run inside, and may do the same.
`calls` is the stack of such scripts and loads, the outermost first.  A script
that has lost its document may still set timeouts in its frame, clear them, and
queue or make loads.

| Action | Code |
|---|---|
| `Processtimer`, `TimeoutReady`, `PullReady`, `PullLoads` | `Processtimer()` and the targets it updates, `Triggertimeout()`, `Doclientpull()` |
| `Select`, `SetInputwindoc`, `SetInputwindocLoads`, `SetDeferdispose`, `RoundEnds` | `Setmsgqueue()` |
| `Methodsettimeout`, `Methodcleartimeout`, `Queueinputwindoc`, `Methodopen`, `ScriptEnds` | what a running script does |
| `Displayed`, `Followed`, `Reloaddocument`, `Jscancel` | the user and the network |
| `Newframe`, `Runjavascript`, `Setclientpull`, `Flushspare`, `LoadEnds` | a document that is read as it arrives, or at once from memory |
| `Expire` | timer.device (external) |

`Replacedoc` is `Newdisplay()`, with the unbinding of the subframes; `Inputwindoc`
starts a fetch or displays at once.

`RequestsAccounted`: a timer's flag tells whether its one request is out, and the
request is in one place.  `TimersOwned`: every live timer is reachable from the
frame that will dispose of it, or runs, also when scripts lose their document.
`ScriptsSurvive`: what a script or load under way still uses is there until main is
back in its loop.  `MessagesForLive`: no queued message is for an object that is
gone.  `MainLoopServes`: main comes back to its loop, whatever the handlers queue.

Fairness: the scripts and loads that main is in come to an end (one that loops hangs
the browser; it is stated once for all depths, `[]<>(calls = <<>>)`), and the main loop is served: each pass looks at every port that has
signalled and then at the messages.  That is a strong fairness condition, because
the user may run scripts between any two passes.  Bounds: two timers, a top frame
with one subframe, two copies, two messages, and three nested calls: a timeout whose
script loads a document that runs a script of its own.  With three copies and four
calls the same holds.

Left out: nested `Processtimer()` while a screen is closed; other windows, that a
script opens or names; the copies of subframe documents, which are replaced like
that of the top frame; updates that arrive while main waits for the end of a
task in a disposal; the script of `onunload`, which `Newdisplay()` runs through
`AOBJ_Frame` of the old document (`document.c:411-416`) before it has changed the
frame: if that script loads a document at once, a second `Newdisplay()` runs
inside the first, which then goes on without an `inputcopy` (a hazard).  Read in
the code: the end of an old document may set `pullurl` after a new one has
cleared it (`frame.c:889`); `clearTimeout()` takes an address that another
timeout may have by then; `Reloaddocument()` leaves the timeouts of the old
document.

## Sources

`Sources.tla` models sources and copies as urls load, replace and move them.  A
url has at most one source, so `site` holds both: the driver of the source,
whether all data came, the decoding task, the count of displayed copies; and of
the url whether it loads, verifies, where it moved to, and whether that answer
is in the cache.  `cop` holds each copy: its source, its window, its load, its
driver.  Helpers map a state to a state (or, where a choice is made, to a set of
states), so an action reads like the calls of its handler.

| Action | Code |
|---|---|
| `Newcopy`, `Setwindow`, `Clearwindow`, `Disposecopy`, `Propertysrc` | `copy.c`, and `image.src` of a script |
| `Auload`, `Auloadreload` | `Loadurl()` |
| `Sourcedata`, `Eof`, `Flushsource`, `Setscreen` | `source.c`, `imgsource.c` |
| `Srcupdatereload`, `Verifydata`, `Verifysame`, `Moveurl`, `Forgetmoved` | `url.c` |

`DisplayCounted`, `DriversMatch`, `CopyGetsDriver` and `ImagesDecoded` relate the
count, the drivers and the task of a source to its copies, and are stated in the
module.  Bounds: two urls of which one may move, a copy in a frame and an
embedded image, the slow response (the setting in which a copy waits for a
verification).  The same properties hold with both settings and both urls
moving, and with three urls and one copy.

What the code does besides: a url that once moved, whose answer has left the
cache, is fetched with its old `movedto`, and data may go to the source of
another url (`url.c:926`, listed as a hazard); `Moveurl()` moves the copies before
it passes a reload on, so in a chain copies join a source that is reloaded
(`url.c:732-742`); a download of a displayed url that moves takes the displayed
copies along to a source nobody loads (`url.c:732`); changing "fast response"
during a verification leaves waiting copies without drivers (`url.c:810-819`);
`Displayed FALSE` cancels a server push by a pointer to a fetch that a reload
may have disposed of (`source.c:579`); an embedded copy that refuses a document
leaks its driver; the second loop of `Flushexcess()` (`source.c:440`) flushes
sources that still load.  Left out: a verification of a url that once moved,
redirections that close a circle, the count of memory, saving, downloads, images
that scripts make, plugins and filters.

## Window history

`WinHis.tla` models the one list of entries and its flags (`winhis.c`), the
entries a frame shows and loads (`frame.c`), the buttons (`event.c`) and the
history window (`whiswin.c`), for windows without subframes.

| Action | Code | Step of `HistoryLine` |
|---|---|---|
| `Inputwindocref` | a link, a bookmark, an address | `Ask`, `AskHere` |
| `UpdatewhiswindowCopies` | an entry of another window | `Borrow`, `BorrowHere` |
| `Back`, `Forward`, `Updatewhiswindow` | the buttons, the history window | `Recall`, `Show` |
| `Displaycopy` | `Newdisplay()` | `Show` |
| `Cancelcopy`, `Reloadframe` | a download, a reload | `Recall` |

`HistoryLine.tla` is what the manual promises: a line of pages along which the
buttons walk, and a link in the middle of the line replaces what comes after.
`KeepsMainline` is the refinement, `LoadsOwnEntry` says that a frame shows a copy
under an entry of its own window; both are proved.  The runs use two windows and
three entries; two windows with four and one with five hold too.

Known and outside the model: a link to a place in the present document leaves
the copy that was loading, which is then shown under the entry of that link
(`frame.c:868`, a hazard); choosing again the entry whose load was cancelled does
nothing; from a page beside the mainline the first new page stays beside it and
the next one joins.  Left out: subframes, `location.replace()`, `history.go()`,
iconified windows, titles and positions.

## Framesets

`Frameset.tla` models how `frameset.c` divides a window among its frames, in one
direction, and how the user moves the borders.  `Layoutframeset` is a layout (the
three passes are `Layoutmagic`), `Prepreset` a reset; `Goactive`, `Mousemove`,
`Doresizechilds` and `Goinactive` are the four messages of a border.
`FramesetDivided`: the frames fill the window, or have their minima where these
need more; every layout shares the room by what the frames ask for, up to
rounding.  Bounds: up to three frames of five kinds, two sizes of the window, two
places of the mouse beyond its ends; three frames are a percentage below its
minimum, one above, and a relative one.

The property allows one exception, since the code has it: the combined minimum of
the relative frames is tested once (`frameset.c:430`), before frames in percents
are given their minima, so with relative frames and several in percents the
frames may pass the edge of the window (room 100; 25% but at least 54; 50%; `*`
at least 20: they take 105).  The comments there say that it fits.  Also: a layout
between the press and the release of a border makes the saved limits stale
(`frameset.c:224`), and a frame may then get less than its minimum.

## Tables

`Table.tla` models the incremental display of a table (`table.c`): rows and cells
arrive in portions, each followed by a measurement and a layout of what is new,
until a row brings more columns.  `Measuretable` and `Layouttable` are the
functions of those names, `Dividecols` the division of the width.
`Startrow`, `Startcell` and `Endtable` are the parser, `Srcupdatedocument` and
`Updatecopy` the begin and the end of an event of main, `Changedchild` an image
that got its size, `Resizeframe` the window.  `OneTable`: rows laid out long ago
agree with the present columns, the columns fit their cells and the window, and
a table that has ended shows all of its rows.

Bounds: two rows and columns of four kinds of cells and two windows; the same
holds with five kinds, and with three rows and columns of two kinds.  The run
`table_columns` has three rows and columns and finds **a counterexample**:
columns that had no width yet do not count when the old and the new widths are
compared (`table.c:1718`), so `cols[].x` keeps its old values and columns lie
over each other.

Read off the model: cells added to an open row raise `nrcols` without flagging
the body; a resize of the window then lays out (`frame.c:953`) without measuring,
over `nrcols` columns of an array that has `colssize` (`table.c:45`).  What
follows is undefined, so the model ends there (`overrun`).  Left out: cells that
span, captions, borders and spacing, `COL`, the table's own width, `TFOOT`,
heights, nested tables, changing the preference underway.

## The run of the parts

`MCParts.tla` checks the components of the last seven sections in one run.  They
share no variable; `part` says which of them a behaviour is about, and the others
stay as they started.  A violation of any of their properties is a behaviour of
one part, so nothing is lost, and each part is explored completely.  The deadlock
check is off, because a closed stream may stay closed, a cache full or exited,
and the entries of the history used up.

| Run | Shows |
|---|---|
| `parts` | all properties named in the sections above |
| `stream_retry` | **a counterexample** to `StreamIsPlainFile` when errors are answered with Retry |
| `table_columns` | **a counterexample** to `ColumnsApart` |

## Proofs

`Task_proofs.tla` extends `Task`; `SeqLemmas.tla` holds what is needed of
sequences (removing an element, the last and the front of a sequence).  The
only assumption is `TaskAssumption`.  Proved for any set of tasks, any bounds
and any client:

* `TypeCorrect`: `Spec => []TypeOK`.
* `SignalNeverLost`: `Spec => []NoLostSignal`.  `NoLostSignal` is not inductive:
  inside a nested wait the signal is cleared with messages still in the port.
  The invariant `SignalInv` says that then some frame on the stack will set the
  signal before main is back in the event loop: `Processtask()` sets it when it
  returns, `Waitformsg()` and `Stoptask()` set it when they end, and a disposal
  ends with `Stoptask()`.  The proof shows that each action keeps such a frame
  on the stack or sets the signal.
* `DisposeInvariant`: `Spec => []TaskInv`, for any client, those included that
  make main wait for ever.  `FreedIsQuiet` is not inductive: it says nothing of a
  disposal that is underway.  `SubtaskInv` says who owns
  `runsema`, that a subtask's port and the message it holds are its own, and that
  only the call of main that sleeps on the startup message knows a subtask that has
  not begun.  `DisposeInv` says that `Procure()` is asked only for an object that is
  being disposed of and granted only when its subtask has released.  `FrameInv` says
  what each frame of `Dodisposetask()` may rely on when main comes back to it: after
  `Stoptask()` the subtask is gone, after `Processtaskreply()` no message is left,
  whatever nested calls of other tasks ran in between.
* `FreedStaysQuiet`: `Spec => []FreedIsQuiet`.

The frames are treated once for all actions (`FramesCall`: main calls and the
frames below stay; `FramesReturn`: it returns from the innermost), and so are the
task objects an action leaves alone (`TaskSame`); `Kept` connects the two: for an
object that is being disposed of, being gone and being quiet last.

The second part of the module extends that to the nesting of main's calls.  All of
it is for any number of tasks, any depth of nesting and any bounds.

* `AnswerInvariant`: `Spec => []AnswerInv`, and from it `WaitingServed`:
  `Spec => []WaitingIsServed`, for any client.  A synchronous update is in one
  place: `Served` says that a subtask that waits has one in the port and none is
  processed, or the other way round; `FrameMsg` and `NoUpdates`, that it is nowhere
  else.
* `CallsInvariant`: `CarefulClients` implies `Spec => []CallsInv`, together with
  the invariants before.  `FramesOK` says what a call of main relies on: the object
  is not freed and not to be disposed of, a target in its update method has its
  `processing` set, and the message a call waits for is somewhere (`Awaits`; for
  a startup message, it is the first of its task that main will find).  `PairsOK`
  says which calls can be inside which: inside an update no call for the same task,
  `Dodisposetask()` for a task only outside all other calls for it, inside
  `Waitformsg()` only updates for its task.  Each conjunct depends on the others,
  as whether the object of an outer call survives depends on what an inner one may
  dispose of.
* `CallsOnLive`: `Spec => []NoCallOnFreed`, `OneUpdate`:
  `Spec => []OneUpdateAtATime`, and `AwaitedUnderway`: `Spec => []AwaitedIsUnderway`,
  from `CarefulClients`.
* `StopInvariant` and `WaitsForSomething`: `Spec => []NeverWaitInVain`, from
  `CarefulClients` and `"disposeother" \notin HandlerOps`.  `StopsOK` says that
  inside `Stoptask()` there is no other `Stoptask()`; `SemaInv`, that the request of the
  one that is there is queued while the subtask runs, or its answer is alone in
  `semaport` and announced; `AsleepInv`, that main goes to sleep on a subtask only
  when every message of it that is not announced has been seen.

`CarefulClients` says that a target sends its subtask no message from its update
method, and that a program whose event loop waits for replies has no target that
disposes of task objects.  It is needed: with the first half alone
`NoCallOnFreed`, `AwaitedIsUnderway` and `NeverWaitInVain` are false, as TLC finds
for event loop operations `message` and `sync` and targets that `dispose`; with the
second half alone `OneUpdateAtATime` is, for targets that `message` and `sync`.
`WaitsForSomething` is false without its second hypothesis (see "Excluded" under
`Task`).  In the source the first half holds for every client.  The second holds
for every client but the windows of the hotlist, and the counterexample of
`task_hotlist` is what follows there.  The configurations of `task` and `task_sync`
satisfy `CarefulClients`; that of `task_sync`, where `NeverWaitInVain` is checked,
satisfies both.  Of clients that dispose of task objects of others, as the fetches
do, the last theorem says nothing.

`Fetch_proofs.tla` extends `Fetch`.  The only assumption is `FetchAssumption`:
the fetch objects are a finite set of numbers (their order is that in which
memory is given out), the limits are at least one, and the choices of a
configuration are among those the code makes.  Proved for any numbers of
fetches, urls and WAIT commands, any limits, and any choice of updates and
events:

* `FetchTypeCorrect`: `Spec => []TypeOK`; `TypeOK` says that `nrnet` and
  `nrlocal` stay within their limits, so this needs the next theorem's invariant.
* `SlotsNeverLeak`: `Spec => []SlotsCounted`.

`SlotsCounted` alone is not inductive: a fetch that is freed, or queued again,
would take its slot with it if it still had one.  `SlotsInvariant` proves the
strengthening `SlotsInv`, whose parts are named for what they say:

* `Known`: the calls in `todo` and the pointers of the urls are about objects
  that were made, and a call that ends, retries or resumes a fetch (`end`,
  `retry`, `resume`) is the last of its event, as it is the last statement of
  its handler.
* `SlotRuns`: a fetch that occupies a slot has `RUNNING`, so `Disposefetch()`
  will not free it; while `end` or `retry` is still to come it has `RUNNING` but
  neither a slot nor a driver.
* `WaitsApart`: a fetch in a queue or with an open requester does not run,
  except that after the answer "retry" the requester is closed by the very last
  call, `resume`, when the driver may already run.  Without that exception the
  invariant is false, and without the rest a queued fetch could take two slots.
* `QueuesApart`: a fetch stands once in the queue of its kind of slot, so that
  `REMOVE()` leaves no second place behind.

The proof has three layers: facts on sequences of calls (`EarlyCall`,
`LateCall`, `PlainThenLate`) and on queues (`UnlinkFacts`, `AddtoqueueFacts`);
two frame lemmas, `QuietStep` for steps that touch no slot and `FetchStep` for
steps that change one fetch and count its slot; and one lemma for each action.
That `Addtoqueue()` inserts before the *first* image needs a least element of a
set of positions, which `SmallestIn` of `SeqLemmas` gets from
`WellFoundedInduction`.  `SlotsInv` itself was checked by TLC on the
configurations of `fetch` and `fetch_queue` before it was proved.

The second part of the module is about the queues and the calls that are still to
come.  Under the same assumption:

* `QueueInvariant`: `Spec => [](SlotsInv /\ QueueInv)`.  Both queues are
  `Sorted`; `QueuesChecked` says that beside a free slot and a queue that is not
  empty the loop of `Checkqueues()` for it is among the calls of `todo`, wherever
  the slot came from.  `CallsIn` and `Before` say which calls a sequence holds and
  in which order, without positions.
* `QueuedOnlyWithoutSlot`: `Spec => []QueuedNeedsSlot`.
* `DocumentsStayFirst`: `Spec => []DocumentsFirst`; no run checks it besides.
* `NoWaitInVain`: `Spec => []WaitersHaveFetch`.

The third part adds the pointers of the urls.  `NoUseAfterFree`,
`KnownToUrl` and `OneState` are not inductive: each depends on what the
handlers of an event that is underway have still to do.  `UrlInvariant`:
`Spec => [](SlotsInv /\ UrlInv)` says it:

* `Orderly(todo)` is about pairs of calls.  Of two calls about one fetch, the
  earlier and the later one are among the pairs of `MayFollow` (a url is told of the
  end of a fetch before the fetch is disposed of, never after); data, a move and a
  reload are followed by nothing, so that what they do to pointers finds no call that
  was made for an older state; and a call that tells a url of the end of a fetch is
  followed by one that disposes of it.
* `PointersApart`: a pointer is to a live fetch of that url that is not disposed of,
  and beside a new load there is neither a reload nor a verification.  `NewCalls`: a
  pointer for which a fetch will be made is empty, so none is overwritten.
* `FetchOk(f)`, for each fetch: the calls about it fit its flags (`CallsFit`); it
  waits in no queue while `Checkqueues()` and a call about it are both to come
  (`OutOfQueues`), so the queue cannot start what another call is about to free; its
  url has forgotten it before it is disposed of (`Forgotten`), and forgets it only
  then (`Remembered`); and it has a driver, a place in a queue, an open requester or an
  end to come (`Stated`).

From it follow `NeverUsedAfterFree`: `Spec => []NoUseAfterFree`,
`AlwaysKnownToUrl`: `Spec => []KnownToUrl`, and `AlwaysOneState`:
`Spec => []OneState`.  TLC checked the invariant on the configurations of
`fetch`, `fetch_post` and `fetch_queue`.  Each action has a
lemma; what it leaves alone is settled by `OthersOk` (fetches the step is not
about), `KeptInv` and `PointersFewer`, and the calls it adds by `AddOne` to
`AddFour`.

`WinHis_proofs.tla` extends `WinHis`; the only assumption is `WinHisAssumption`.
Proved for any set of windows and any number of entries:

* `WinHisInvariant`: the inductive invariant `WInv`, which is the types,
  `LoadsOwnEntry`, and two facts that the refinement needs: a window whose frame
  shows nothing has no mainline yet (`EmptyLine`), and an entry that loads because
  it was asked for is newer than all others of its window (`NewestLoads`).
* `FramesLoadOwnEntry`: `WinHisSpec => []LoadsOwnEntry`.
* `FlagsKeepMainline`: `WinHisSpec => KeepsMainline`, step by step as in the table
  above.  It says that the changes of three flags, made at different times by
  six callers, amount to the line the manual describes.

`Events_proofs.tla` extends `Events`; the only assumption is `EventsAssumption`
(frames, copies, timers and `Nobody` are told apart, and at least one script can
run).  Proved for any numbers of timers, subframes and copies, any length of the
queue and any depth of nested scripts and loads:

* `EventsInvariant`: `EventsSpec => []EventsInv`.  `RequestsInv` is
  `RequestsAccounted` for the port and the local list by themselves.  `CallsInv` says
  of each call main is in that its frame is the top frame or belongs to a copy, that
  the copy of its document is displayed or has a message that disposes of it, and that
  only the outermost is of a timeout.  `ScriptsSurvive` follows, and what `TimersOwned` needs
  when a script whose document was replaced calls `setTimeout()`: its frame is still
  the window's, or one of a copy whose disposal is still a message, so the new timer
  has a frame that will dispose of it.  `MessagesInv` adds to `MessagesForLive` that
  the messages for copies are those that dispose of them, so that what
  `Setmsgqueue()` disposes of is never the copy displayed.
* `RequestsStayAccounted`, `TimersStayOwned`, `ScriptsStayAlive`, `MessagesStayLive`:
  `EventsSpec` implies `[]RequestsAccounted`, `[]TimersOwned`, `[]ScriptsSurvive` and
  `[]MessagesForLive`.

Taking nodes out of a list, `Removed()` of `Nodelists`, is a recursive function.  What it returns
(`RemovedFacts`: the elements of the places that are left, each once) is shown by
taking the shortest prefix for which it would be wrong; that the function exists is
shown in the same way.  The actions use only what follows for the sets of elements.

`Sources_proofs.tla` extends `Sources`; the only assumption is `SourcesAssumption`
(copies are finitely many, as their number is counted, and `NoSite` is no url).
Proved for any number of urls, of which any may move and move again, any number of
copies, and both settings of "fast response":

* `SourcesInvariant`: `SourcesSpec => []SourcesInv`.  The four properties are not
  inductive one by one: `Matched` adds to `DriversMatch` that a copy the source knows
  is without a driver only because it refused it; `Settled`, `Gone` and `Homed` say when
  a url may have a driver, all its data, or a verification, and where a copy may be
  displayed.  `Acyclic` says that the `movedto` of all urls, also those the cache has
  forgotten, descend along some numbering of the urls: without it `Finalurl()` need
  not end, and a move could hand the copies of a url back to itself.
* `SourcesTypes`, `DisplaysCounted`, `DriversOfSources`, `CopiesServed`,
  `DisplayedDecoded`: `SourcesSpec` implies `[]SourcesTypeOK`, `[]DisplayCounted`,
  `[]DriversMatch`, `[]CopyGetsDriver` and `[]ImagesDecoded`.

A handler is a composition of helpers on states, so the proof is too: a lemma for
each helper says what it keeps for any state, in the middle of a handler as well
(`Sound` without some part, `ServedAt` for all urls but one), and the lemma of an
action puts them together.  Loops over copies are folds over a set; what one leaves
(`FoldFacts`, `MoveFacts`) is shown for subsets of the copies by
taking one of least cardinality for which it would be wrong.  That `Finalurl()` and
the search for a circle are functions at all, and the only ones (`ChainExists`,
`ChainUnique`), follows from the numbering in the same way.  TLC checked the invariant
with two urls that both move, before it was proved.

`Cache_proofs.tla` extends `Cache`; the only assumption is `CacheAssumption`.
Proved for any number of urls and object numbers, any limits and any number of
crashes and failing saves:

* `CacheInvariant`: `CacheSpec => []CacheInv`.  `Accounted`: objects of one number
  are told apart (`twin`), and their roles fit together (`Sound`: one of each role
  per url, a `vcache` and an `ocache` only while the url is fetched, and an object read
  from AWCR or AWCU never beside an older one of its url).  `Registers`: a compaction
  that has begun is finished by the accesses in `todo` in the order open, write,
  delete, rename (`Saving`); AWCU is missing only before that `rename` or during a
  start; and when it is about to be deleted, AWCR lists every registered object.
  `Repairing`: while the last access of
  `Dofixcache()` is to come, the objects and the files that will be there when it is
  due belong to each other, whatever `todo` removes before, but for the numbers that
  several objects had when the repair began, which that last access names.
* `CacheTypesHold`, `SizeStaysAccounted`, `RepairSynchronizes`: `CacheSpec` implies
  `[]CacheTypeOK`, `[]SizeAccounted` and `[]FixSynchronizes`.
* `RegistrationKept`: `CacheSpec => KeepsRegistration`, from the invariant and one
  lemma for the accesses to the disk (`StepKeeps`): an appended entry, a torn one, a
  compaction at each of its accesses and a restart leave what is recovered, except
  for an object whose deletion is that very entry.
* `CachedIsRecovered`: `CacheSpec => []RecoversWhatIsCached`.  `CacheInv` does not say
  what the accesses still in `todo` will do for an object, so a second invariant,
  `Recorded`, is proved with it.  `Complete`: an object whose file is there, or will be
  when `todo` is done, is recovered already, or `todo` will append its entry, or save
  the whole registration; and what is recovered stays so when the expiry dates pass.
  `Intact`: behind a torn entry the registration is always saved before anything is
  appended.  `Begun`, `Ordered`, `Deleted`: a file that is being written belongs to
  one object only and is in no way to be removed, and an entry that deletes is written
  when its file is gone or going.  `Plain`: AWCR holds no deletion and no torn entry.
  Each access of `todo` keeps this (`DiskStepRecorded`), and each operation begins with
  it (`OperationRecorded` and a lemma per action).  TLC checked `Recorded` as an
  invariant, with up to three object numbers, before it was proved.

The code folds lists: `Readcachereg()` over the lines of a log, a disposal over
objects, `cadisksize` as a sum.  `FoldTable` turns a fold into a table of the results
for all prefixes, and `Inducts` proves of the table what holds at the start and is
kept by one element, by taking the shortest prefix for which it would be wrong.  So
each helper (`Readentry`, `Addregentry`, `Deletecache`) has a lemma about one call,
and each fold one about the whole list.

`AsyncIO_proofs.tla` extends `AsyncIO`; the assumptions are `AsyncIOAssumption`
(a buffer has at least one byte) and, in the theorems, `~Retry`.  Proved for
buffers, calls and files of any size and any number of errors:

* `StreamInvariant`: `StreamSpec => []StreamInv`.  Besides the types, `CallInv`
  says how the packet, `af_PacketPending`, the mode and the call that waits agree;
  `ReadInv`, that the bytes the reader has, those left in its buffer and those of
  a packet that came back are consecutive bytes of the file, up to the position
  of the file handle; and `WriteInv`, that the buffer in the packet is not the one
  being filled.  TLC checked it before it was proved; with `Retry = TRUE` it is
  false.
* `StreamsArePlainFiles`: `StreamSpec => StreamIsPlainFile`.  `NextKeeps` proves
  the invariant and `NextIsPlain` the step of the plain file, each with a lemma
  per action.  A write of several rounds is several steps of `Write`, or none when
  only buffers change places; the steps of the file system and a packet sent
  again by `CloseAsync()` are stutters.

## Only model-checked

Liveness needs fairness and `ENABLED`, which the provers do not handle:
`StopEnds`, `MainReturns`, `UpdateAnswered`, `StoppedIsFreed`, `QueueMoves`,
`StreamCallReturns`, `MainLoopServes`.  `FramesetDivided`
and `OneTable` are about what recursive operators compute, for which the provers have
no definition.
`PartsTypeOK` is the conjunction of the types of the parts, five of which are
theorems.

## Not modelled

Components without a module are in `PROJECT.json` with the reason.  In short:
the drivers of protocols only send what `Task` and `Fetch` take as input; the
parser, the layout of text and forms and the image decoders are large
computations of one thread over data; preferences, requesters, printing and the
settings program are user interface.

Three that would be worth a module, with what reading them shows:

* The hotlist: both windows can show items that were freed, and main can wait for
  `hotsema` while its holder waits for main (`hotviewer.c:541`, a hazard).
* The garbage collector of the JavaScript engine (`jdata.c:517-575`): a model needs
  every root that `jexe.c` keeps.
* Cookies (`cookie.c`): the running size is changed by the wrong node, the limit
  is never applied, a crash while the file is rewritten loses all cookies, an
  expired cookie is read after it was freed, and two requesters for one cookie
  let "once" undo "accept".
