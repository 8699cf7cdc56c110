\* Synchronous messages, suspending, and disposing from the event loop.
SPECIFICATION Spec
CONSTANTS
  t1 = t1
  t2 = t2
  NoMsg = NoMsg
  Tasks <- TwoTasks
  ClientOps <- SyncOps
  HandlerOps <- SyncHandlerOps
  Failures <- NoFailures
  MaxUpdates = 1
  MaxOps = 2
SYMMETRY Symmetry
CHECK_DEADLOCK FALSE
INVARIANTS
  NeverWaitInVain
  AwaitedIsUnderway
  WaitingIsServed
