SPECIFICATION IpcSpec
SYMMETRY MCSymmetry
CONSTANTS
  idle = idle
  t1 = t1
  t2 = t2
  e1 = e1
  q1 = q1
  z1 = z1
  y1 = y1
  f1 = f1
  f2 = f2
  a = a
  b = b
  NoTask = NoTask
  NoObj = NoObj
  Task <- MCTask
  Idle = idle
  PrioMax = 3
  Obj = {e1, q1, z1, y1}
  FifoObj = {}
  Mutex = {}
  Policy <- MCPolicy
  Ceiling <- MCCeiling
  TimeTotal = 1
  TickMod = 2
  InitPrio <- MCInitPrio
  InitSlice <- MCInitSlice
  AutoStart = {t1, t2}
  BootTask = {t1, t2}
  BootObj = {}
  Delays = {}
  Suspendable = {}
  Deletable = {t1}
  Abortable = {}
  NewPrio = {}
  NewSlice = {}
  NewSchedWay = {}
  NewTime = {}
  MaxLock = 0
  MaxNest = 1
  SuspendLimit = 2
  ByteMod = 3
  Redelete = FALSE
  SystemTask = {idle}
  Timeouts = {1}
  Event = {e1}
  Flag = {f1, f2}
  InitFlags <- MCInitFlags
  SetFlags <- MCSetFlags
  KeepFlags <- MCKeepFlags
  Request <- MCRequest
  Msg = {a, b}
  NoMsg = NoMsg
  QSize <- MCQSize
  Queue = {q1}
  SizeQueue = {z1}
  Null = Null
  BufQueue = {y1}
  Uses <- MCUses
  BufSize <- MCBufSize
  MaxMsgSize = 3
  HeaderSz = 2
  MsgSize = {1, 3, 4}
INVARIANTS
  ObjectsOK
PROPERTIES
  ImplementsAbsEvent
  ImplementsAbsQueue
  ImplementsAbsQueueSize
  ImplementsAbsQueueBuffer
