\* Two connectors are started by hand, and one under a supervisor; nothing crashes.
SPECIFICATION DaemonSpec
CONSTANTS
  f = f
  g = g
  w = w
  u = u
  None = None
  Foregrounds = {f, g}
  Workers = {w}
  Supervisors = {u}
  Stops = {}
  AlwaysOn = TRUE
  MaxFast = 2
  MaxMishaps = 0
CHECK_DEADLOCK FALSE
INVARIANTS
  OneConnectorPerRobot
