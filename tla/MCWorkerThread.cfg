\* Two pthreads, the owner and the producers; no symmetry, because of liveness.
CONSTANTS
  t1 = t1
  t2 = t2
  Threads = {t1, t2}
  MaxItems = 5
  MaxStarts = 4
  ClearOnStart = TRUE
SPECIFICATION FairSpec
INVARIANTS OneLoopThread QuietWhenOff NoLostWakeUp
PROPERTIES OnlyThisSession ImplementsFifo StopTerminates Drains
