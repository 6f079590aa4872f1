SPECIFICATION FairTimerSpec
CONSTANTS
  c1 = c1
  c2 = c2
  a = a
  b = b
  d = d
  Timer = {a, b, d}
  Client = {c1, c2}
  Head = Head
  NoTimer = NoTimer
  Uses <- MCUses
  Params <- MCParams
  CountMod = 4
  Rate = 1
  MaxPending = 1
INVARIANT
  TimerListOK
PROPERTIES
  ImplementsAbsTimer
  TimerExpires
