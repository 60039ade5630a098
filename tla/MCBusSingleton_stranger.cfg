\* A stale PID that now belongs to a stranger, and two stop commands.
SPECIFICATION Spec
CONSTANTS
  Buses = {b1, b2}
  Clients = {d1}
  Stoppers = {k1, k2}
  Pids = {p1, p2}
  Stranger = Stranger
  None = None
  Reuse = TRUE
  MayLeave = FALSE
  MaxFaults = 1
SYMMETRY Symmetry
CHECK_DEADLOCK FALSE
INVARIANTS
  NoStrangerSignalled
