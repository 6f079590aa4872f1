SPECIFICATION FairTaskSpec
CONSTANTS
  idle = idle
  t1 = t1
  t2 = t2
  t3 = t3
  NoTask = NoTask
  NoObj = NoObj
  Task <- FewTasks
  Idle = idle
  PrioMax = 3
  Obj = {}
  FifoObj = {}
  Mutex = {}
  Policy <- MCPolicy
  Ceiling <- MCCeiling
  TimeTotal = 2
  TickMod = 3
  InitPrio <- FewInitPrio
  InitSlice <- MCInitSlice
  AutoStart = {t1, t2}
  BootTask = {t1}
  BootObj = {}
  Delays = {1, 2}
  Timeouts = {}
  Suspendable = {t2}
  Deletable = {t2}
  Abortable = {t1}
  NewPrio = {}
  NewSlice = {}
  NewSchedWay = {}
  NewTime = {}
  MaxLock = 1
  MaxNest = 2
  SuspendLimit = 2
  ByteMod = 3
  Redelete = FALSE
  SystemTask = {idle}
PROPERTIES
  TimedWaitEnds
  Preemption
