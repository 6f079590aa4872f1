SPECIFICATION SemSpec
CONSTANTS
  idle = idle
  t1 = t1
  t2 = t2
  t3 = t3
  s1 = s1
  NoTask = NoTask
  NoObj = NoObj
  Task <- MCTask
  Idle = idle
  PrioMax = 3
  Obj = {s1}
  FifoObj = {}
  Mutex = {}
  Policy <- MCPolicy
  Ceiling <- MCCeiling
  TimeTotal = 1
  TickMod = 2
  InitPrio <- MCInitPrio
  InitSlice <- MCInitSlice
  AutoStart = {t1, t2, t3}
  BootTask = {t1, t2, t3}
  BootObj = {}
  Delays = {}
  Suspendable = {t1}
  Deletable = {t1}
  Abortable = {t1}
  NewPrio <- MCNewPrio
  NewSlice = {}
  NewSchedWay = {}
  NewTime = {}
  MaxLock = 0
  MaxNest = 1
  SuspendLimit = 2
  ByteMod = 3
  Redelete = FALSE
  SystemTask = {idle}
  Sem = {s1}
  SemMax = 1
  InitCount = {0}
  SetCount = {1}
  Timeouts = {0, 1}
INVARIANTS
  ListsOK
PROPERTIES
  SuspensionHolds
  ImplementsAbsSem
