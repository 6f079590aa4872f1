SPECIFICATION FairTickSpec
CONSTANTS
  idle = idle
  tick = tick
  t1 = t1
  t2 = t2
  s1 = s1
  NoTask = NoTask
  NoObj = NoObj
  Task <- MCTask
  Idle = idle
  PrioMax = 4
  Obj = {s1}
  FifoObj = {}
  Mutex = {}
  Policy <- MCPolicy
  Ceiling <- MCCeiling
  TimeTotal = 1
  TickMod = 4
  InitPrio <- MCInitPrio
  InitSlice <- MCInitSlice
  AutoStart = {tick, t1, t2}
  BootTask = {tick, t1, t2}
  BootObj = {s1}
  Delays = {1, 2}
  Suspendable = {}
  Deletable = {}
  Abortable = {}
  NewPrio = {}
  NewSlice = {}
  NewSchedWay = {}
  NewTime = {}
  MaxLock = 1
  MaxNest = 1
  SuspendLimit = 2
  ByteMod = 3
  Redelete = FALSE
  SystemTask = {idle, tick}
  Sem = {s1}
  SemMax = 3
  InitCount = {0}
  SetCount = {}
  Timeouts = {0}
  TickTask = tick
  TickSem = s1
INVARIANTS
  NoTickLost
  DispatchExceptTick
PROPERTIES
  TimedWaitEndsUnlocked
