SPECIFICATION FairSpec
CONSTANTS
  NrTasks = 2
  Timed = {}
  MaxPriority = 2
  MaxTimeout = 1
  MaxInterval = 0
  MaxDelay = 1
  Never = 1000
PROPERTY TasksRun
