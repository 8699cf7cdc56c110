\* Fetches: asynchronous stops, the target disposes of its task in an update.
SPECIFICATION Spec
CONSTANTS
  t1 = t1
  t2 = t2
  NoMsg = NoMsg
  Tasks <- TwoTasks
  ClientOps <- FetchOps
  HandlerOps <- FetchHandlerOps
  Failures <- AllFailures
  MaxUpdates = 2
  MaxOps = 2
SYMMETRY Symmetry
CHECK_DEADLOCK FALSE
INVARIANTS
  TypeOK
  FreedIsQuiet
  NoCallOnFreed
  OneUpdateAtATime
  NoLostSignal
