\* Two starts, a stop command, crashes and failed starts, shutdowns and reused PIDs; two
\* writers, three days and torn writes; two commands that download a file in
\* three parts, told versions or not, from a file that changes once.
SPECIFICATION Scenes
CONSTANTS
  w1 = w1
  w2 = w2
  Buses = {b1, b2}
  Clients = {d1, d2}
  Stoppers = {k1}
  Pids = {p1, p2}
  Stranger = Stranger
  None = None
  Reuse = TRUE
  MayLeave = TRUE
  MaxFaults = 2
  Writers = {w1, w2}
  Nobody = Nobody
  Days = {1, 2, 4}
  Retention = 1
  MaxEvents = 5
  Torn = {"partial", "no_newline"}
  N = 3
  Reported = TRUE
  Workers = {w1, w2}
  Faults = {"network", "kill", "save", "others"}
  MaxVersion = 2
  MaxRuns = 2
  MaxFetched = 2
SYMMETRY Symmetry
CHECK_DEADLOCK FALSE
INVARIANTS
  ServingIsReachable
  StopMeansGone
  DiscoverConnects
  AuditSafe
  DownloadSafe
