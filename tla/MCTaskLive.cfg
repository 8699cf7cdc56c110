\* One task object, every operation.
SPECIFICATION FairSpec
CONSTANTS
  t1 = t1
  t2 = t2
  NoMsg = NoMsg
  Tasks <- OneTask
  ClientOps <- LiveOps
  HandlerOps <- LiveHandlerOps
  Failures <- NoFailures
  MaxUpdates = 2
  MaxOps = 3
CHECK_DEADLOCK FALSE
PROPERTIES
  StopEnds
  MainReturns
  UpdateAnswered
