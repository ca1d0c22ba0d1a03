SPECIFICATION FairPartsSpec
CONSTANTS
  Task = {t1, t2, t3, t4}
  Idle = idle
  Object = {bar, lock, full, empty}
  Bar = bar
  Goal = 4
  MaxRounds = 3
  Pcb = {p1, p2, p3}
  QueueT = {q1, q2}
  Null = null
  Slot = {boot, shell, s1, s2}
  Boot = boot
  Shell = shell
  ReadyQueue = readyQueue
  BlockQueue = blockQueue
  ExitQueue = exitQueue
  SleepTimes = {0, 1, 2}
  Discipline = {"fresh", "naps", "others", "idle"}
  Mutex = lock
  Full = full
  Empty = empty
  Senders = {t1}
  Receivers = {t2}
  Capacity = 2
  Message = {m, n}
  NoMessage = none
  NumBox = 3
  Name = {x, y, z}
  NoName = noName
  User = {u, v}
  MaxOpens = 2
  NetTask = {t1, t2}
  Receiver = t1
  PNUM = 2
  Interval = 2
INVARIANTS
  Together
  NothingTwice
  RegistersKept
  ReturnsFrames
PROPERTIES
  ImplementsFifo
  ImplementsSched
  DeliversEachOnce
  CallsReturn
