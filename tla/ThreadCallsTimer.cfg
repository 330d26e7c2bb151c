CONSTANTS
  t1 = t1
  t2 = t2
  t3 = t3
  Thread = {t1, t2, t3}
  Idle = Idle
  None = None
  Boot <- MCBoot
  SleepTicks <- MCSleepTicks
SPECIFICATION Spec
INVARIANT
  TimerReturns
