SPECIFICATION MutexSpec
CONSTANTS
  idle = idle
  t1 = t1
  t2 = t2
  t3 = t3
  m1 = m1
  m2 = m2
  NoTask = NoTask
  NoObj = NoObj
  Task <- MCTask
  Idle = idle
  PrioMax = 4
  Obj = {m1, m2}
  FifoObj = {}
  Mutex = {m1, m2}
  Policy <- CePolicy
  Ceiling <- CeCeiling
  TimeTotal = 1
  TickMod = 2
  InitPrio <- MCInitPrio
  InitSlice <- MCInitSlice
  AutoStart = {t1, t2, t3}
  BootTask = {t1, t2, t3}
  BootObj = {m1, m2}
  Delays = {}
  Suspendable = {}
  Deletable = {t1}
  Abortable = {t3}
  NewPrio <- CeNewPrio
  NewSlice = {}
  NewSchedWay = {}
  NewTime = {}
  MaxLock = 0
  MaxNest = 0
  SuspendLimit = 2
  ByteMod = 3
  Redelete = FALSE
  SystemTask = {idle}
  MaxNested = 2
  Timeouts = {0}
  Removable = {}
PROPERTIES
  NestedBySameTask
CHECK_DEADLOCK FALSE
