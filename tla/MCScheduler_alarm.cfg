SPECIFICATION Spec
CONSTANTS
  NrTasks = 2
  Timed = {1}
  MaxPriority = 2
  MaxTimeout = 0
  MaxInterval = 2
  MaxDelay = 1
  Never = 1000
INVARIANTS AlarmExact AlarmPrompt
PROPERTY AlarmNotLost
