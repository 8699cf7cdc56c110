\* A suspended subtask is let go again.
SPECIFICATION FairSpec
CONSTANTS
  t1 = t1
  t2 = t2
  NoMsg = NoMsg
  Tasks <- OneTask
  ClientOps <- SuspendOps
  HandlerOps <- NoOps
  Failures <- NoFailures
  MaxUpdates = 0
  MaxOps = 3
CHECK_DEADLOCK FALSE
PROPERTY ResumeRestarts
