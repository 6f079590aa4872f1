SPECIFICATION ExtSpec
CHECK_DEADLOCK FALSE
CONSTANTS
  p1 = p1
  p2 = p2
  p3 = p3
  t1 = t1
  t2 = t2
  u1 = u1
  u2 = u2
  o1 = o1
  o2 = o2
  c1 = c1
  e1 = e1
  v1 = v1
  w1 = w1
  w2 = w2
  q1 = q1
  q2 = q2
  d1 = d1
  d2 = d2
  d3 = d3
  IdleMax = 4
  IdleWidth = 2
  IdleEnd = 2
  IdleSig = {"ask"}
  TimeoutSig = "timeout"
  NoIdleEvent = NoIdleEvent
  IdlePosted = {0, 2}
  IdleTicks = {1, 2}
  StmState <- MCStmState
  HsmTop = "top"
  Father <- MCFather
  InitTran <- MCInitTran
  NoState = NoState
  StmMaxNest = 6
  BlockUser = {u1, u2}
  PoolSize = {16, 20, 22, 28}
  BlockSize = {4, 8, 12}
  WordSize = 4
  ByteTask = {t1, t2}
  PoolWords = 18
  BlockMin = 5
  Request = {2, 5}
  MergeStart = FALSE
  MaxPage = 8
  PageRequest = {1, 2, 3, 4}
  PageSz = 12
  Pages = 2
  MallocSize = {1, 3, 11}
  MallocHeld = 3
  FifoSize = 4
  FifoWrap = 8
  FifoByte = {1, 2}
  FifoUser = {u1}
  FifoLen = {1, 3}
  Nobody = Nobody
  WorkQueue = {q1, q2}
  Scheduler = {t1, t2}
  Work = {w1, w2}
  Descriptor = {d1, d2, d3}
  WorkQSize = 1
  NoWork = NoWork
  Proc = {p1, p2}
  Null = Null
  Sig = {"ask"}
  NumEvents = 2
  Receiver = {p1, Null}
  ProcNest = 3
  IntPosts = FALSE
  Careful = TRUE
  EtOwner = {p1, p2}
  NoOwner = NoOwner
  Etimer = {t1, t2}
  Interval = {1, 2}
  AdjustBy = {1}
  AdjustBack = {}
  ClockWrap = 16
  ClockMax = 3
  Actor = {o1, o2}
  Client = {c1}
  PoolEvent = {e1}
  TimeEvent = {v1}
  ActorQSize = 1
  Deferrable = {v1}
  Reposted = {}
  Timed = {o1}
  NoEvent = NoEvent
  Pthread = {p1, p2, p3}
  NoPthread = NoPthread
  CondCount = 2
INVARIANTS
  ActiveStatesOK
  CommonStateUntouched
  BlockPoolOK
  BytePoolOK
  HeapsOK
  DescriptorsOK
  ProcessesOK
  NoExpiryMissed
  EventRefsOK
  NoSignalLost
PROPERTIES
  ServesMostUrgent
  FifoOrder
