\* The hotlist windows, whose target disposes of its task while main waits.
SPECIFICATION Spec
CONSTANTS
  t1 = t1
  t2 = t2
  NoMsg = NoMsg
  Tasks <- OneTask
  ClientOps <- HotlistOps
  HandlerOps <- HotlistHandlerOps
  Failures <- NoFailures
  MaxUpdates = 1
  MaxOps = 3
CHECK_DEADLOCK FALSE
INVARIANT NeverWaitInVain
