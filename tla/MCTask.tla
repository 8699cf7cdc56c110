------------------------------- MODULE MCTask -------------------------------
(* Two task objects, or one, for TLC. *)
EXTENDS Task, TLC

CONSTANTS t1, t2

OneTask == {t1}
TwoTasks == {t1, t2}

\* Fetch and editor tasks are stopped asynchronously and disposed of in the
\* middle of an update; a channel fetch is sent tags.  That update may start
\* the next fetch, and reloading an image disposes of its decoding task.
FetchOps == {"stop", "set"}
FetchHandlerOps == {"stop", "dispose", "disposeother", "start"}

\* The interface of task.h with synchronous messages, where targets do not
\* dispose of their task in the middle of an update.
SyncOps == {"dispose", "message", "sync", "suspend"}
SyncHandlerOps == {"stop", "start"}

\* The hotlist windows: synchronous messages, and a target that disposes of
\* its task when the subtask says that it closed its window.
HotlistOps == {"message", "sync"}
HotlistHandlerOps == {"dispose"}

LiveOps == {"stop", "dispose", "message", "sync", "suspend"}
LiveHandlerOps == {"start"}

SuspendOps == {"suspend", "resume"}
NoOps == {}

NoFailures == {}
AllFailures == {"process", "subport", "updport"}

Symmetry == Permutations(TwoTasks)
=============================================================================
