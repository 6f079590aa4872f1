SPECIFICATION TimerSpec
CONSTANTS
  c1 = c1
  c2 = c2
  a = a
  b = b
  d = d
  Timer = {a}
  Client = {c1, c2}
  Head = Head
  NoTimer = NoTimer
  Uses <- MCShared
  Params <- MCSharedParams
  CountMod = 4
  Rate = 1
  MaxPending = 1
PROPERTY
  ActivateRefusesActive
