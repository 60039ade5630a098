\* Single flights with leaders that fail or are cancelled; runs that fail; a burst of turns;
\* connectors that crash; late and lost ticks.
SPECIFICATION Scenes
CONSTANTS
  t1 = t1
  t2 = t2
  t3 = t3
  p1 = p1
  p2 = p2
  r1 = r1
  r2 = r2
  s1 = s1
  s2 = s2
  ticker = ticker
  x = x
  y = y
  m1 = m1
  m2 = m2
  m3 = m3
  m4 = m4
  w1 = w1
  w2 = w2
  w3 = w3
  u1 = u1
  q1 = q1
  None = None
  Unheld = Unheld
  Threads = {t1, t2, t3}
  ProcessOf <- TwoAndOne
  Does <- Refreshing
  Faults = {"network", "preflight", "cancel", "lock", "crash"}
  MaxPair = 2
  MaxCalls = 4
CHECK_DEADLOCK FALSE
PROPERTIES
  CallsReturn
  BacklogDrains
  EveryTurnProcessed
  AlwaysOnRecovers
  IdleStop
