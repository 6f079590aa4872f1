SPECIFICATION TaskSpec
CONSTANTS
  idle = idle
  t1 = t1
  t2 = t2
  t3 = t3
  NoTask = NoTask
  NoObj = NoObj
  Task <- MCTask
  Idle = idle
  PrioMax = 3
  Obj = {}
  FifoObj = {}
  Mutex = {}
  Policy <- MCPolicy
  Ceiling <- MCCeiling
  TimeTotal = 2
  TickMod = 3
  InitPrio <- MCInitPrio
  InitSlice <- MCInitSlice
  AutoStart = {t1, t2}
  BootTask = {t1, t2}
  BootObj = {}
  Delays = {0, 1, 2}
  Timeouts = {}
  Suspendable = {t1}
  Deletable = {t2}
  Abortable = {t1}
  NewPrio <- MCNewPrio
  NewSlice <- MCNewSlice
  NewSchedWay = {t1}
  NewTime = {}
  MaxLock = 1
  MaxNest = 1
  SuspendLimit = 3
  ByteMod = 4
  Redelete = FALSE
  SystemTask = {idle}
INVARIANTS
  TaskInv
  DispatchOK
  NoMissedTick
  FreshStatus
PROPERTIES
  LockHolds
