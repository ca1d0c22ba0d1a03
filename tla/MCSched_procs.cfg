SPECIFICATION FairSpec
CONSTANTS
  idle = idle
  shell = shell
  a = a
  b = b
  l1 = l1
  l2 = l2
  s1 = s1
  Task <- Four
  Idle = idle
  Shell = shell
  NoTask = noTask
  Lock = {}
  Sem = {s1}
  NoLock = noLock
  Ready = ready
  Sleeping = sleeping
  Exited = exited
  MaxLocks = 1
  SleepTimes = {1, 2}
  Discipline <- Waiting
INVARIANTS
  EverybodyPlaced
  NobodyWaitsInVain
PROPERTIES
  DeadForever
  ReadyRuns
  SleepersWake
