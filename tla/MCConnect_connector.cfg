\* Two requests and two answers of the owner; two or three connectors, one or two supervisors
\* and stops; two conversations with an agent's sessions, and three turns on one child.
SPECIFICATION Scenes
CONSTANTS
  r1 = r1
  r2 = r2
  s1 = s1
  s2 = s2
  tick = tick
  x = x
  y = y
  m1 = m1
  m2 = m2
  m3 = m3
  f = f
  w1 = w1
  w2 = w2
  u1 = u1
  u2 = u2
  q1 = q1
  q2 = q2
  None = None
  Foregrounds = {f}
  Workers = {w1, w2}
  Supervisors = {u1, u2}
  Stops = {q1, q2}
  AlwaysOn = TRUE
  MaxFast = 2
  MaxMishaps = 2
  Ticker = tick
  Requests = {r1, r2}
  Own = {}
  Replies = {s1, s2}
  TextMode = TRUE
  Policy = "manual"
  MaxTaps = 3
  MaxCrashes = 1
  MaxFaults = 1
  MaxFailures = 1
  Convs = {x, y}
  Absent = None
  MaxIds = 3
  MaxFailedTurns = 1
  MaxForgets = 1
  MaxCommands = 1
  MaxUnsaved = 1
  MaxRestarts = 1
  Turns = {m1, m2, m3}
  Nobody = None
  MaxDeaths = 2
  MaxStreamFaults = 2
CHECK_DEADLOCK FALSE
INVARIANTS
  ConsentHolds
  ProcessesAreTracked
  SessionsHold
  StreamHolds
