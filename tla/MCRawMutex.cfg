SPECIFICATION MutexSpec
CONSTANTS
  idle = idle
  t1 = t1
  t2 = t2
  t3 = t3
  m1 = m1
  m2 = m2
  NoTask = NoTask
  NoObj = NoObj
  Task <- MCTask
  Idle = idle
  PrioMax = 4
  Obj = {m1, m2}
  FifoObj = {}
  Mutex = {m1, m2}
  Policy <- MCPolicy
  Ceiling <- MCCeiling
  TimeTotal = 1
  TickMod = 2
  InitPrio <- MCInitPrio
  InitSlice <- MCInitSlice
  AutoStart = {t1, t2, t3}
  BootTask = {t1, t2, t3}
  BootObj = {m1, m2}
  Delays = {1}
  Suspendable = {}
  Deletable = {t1}
  Abortable = {}
  NewPrio = {}
  NewSlice = {}
  NewSchedWay = {}
  NewTime = {}
  MaxLock = 0
  MaxNest = 1
  SuspendLimit = 2
  ByteMod = 3
  Redelete = FALSE
  SystemTask = {idle}
  MaxNested = 1
  Timeouts = {1}
  Removable = {}
INVARIANTS
  NoFault
  OwnershipOK
  PriorityInheritance
  BlockListSorted
PROPERTIES
  ImplementsAbsMutex
