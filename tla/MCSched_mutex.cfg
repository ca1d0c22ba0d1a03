SPECIFICATION Spec
CONSTANTS
  idle = idle
  shell = shell
  a = a
  b = b
  l1 = l1
  l2 = l2
  s1 = s1
  Task <- Four
  Idle = idle
  Shell = shell
  NoTask = noTask
  Lock = {l1, l2}
  Sem = {}
  NoLock = noLock
  Ready = ready
  Sleeping = sleeping
  Exited = exited
  MaxLocks = 2
  SleepTimes = {}
  Discipline <- Promises
SYMMETRY Alike
INVARIANTS
  LocksHeld
  MutualExclusion
PROPERTIES
  MutexFifo
