\* One connection, a callback, every way to stop it, under fairness.
SPECIFICATION FairSpec
CONSTANTS
  c1 = c1
  s1 = s1
  s2 = s2
  im = im
  sub = sub
  Conns <- OneConn
  Types = {im}
  Wants <- WantsAll
  Subs = {sub}
  SubOf <- SameSub
  Callbacks = {s1}
  Run = Run
  Rpc = Rpc
  NoOne = NoOne
  Who = c1
  Buf = 1
  MaxEvents = 1
CHECK_DEADLOCK FALSE
INVARIANTS
  StopJumpsQueue
PROPERTIES
  DeliverReturns
  StopIsServed
  ShutdownDrains
