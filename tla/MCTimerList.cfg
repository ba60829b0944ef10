SPECIFICATION FairTimerSpec
CONSTANTS
  Timers = {t1, t2, t3}
  NoTimer = NoTimer
  Slots = 1
  MaxExpires = 2
PROPERTIES ImplementsAlarms DueIsCalled
