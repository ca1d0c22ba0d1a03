SPECIFICATION MailboxSpec
CONSTANTS
  Task = {a, b, c}
  Senders = {a}
  Receivers = {b, c}
  Idle = idle
  Object = {mutex, full, empty}
  Mutex = mutex
  Cond = {full, empty}
  Full = full
  Empty = empty
  Capacity = 2
  Message = {m, n}
  NoMessage = none
INVARIANT
  NeverUnderflows
