\* Refresh, forced refresh, login and logout across two processes; a batch of two and a single,
\* with a delay longer than the reset; two skills; a directory of two entries.
SPECIFICATION Scenes
CONSTANTS
  t1 = t1
  t2 = t2
  t3 = t3
  l1 = l1
  l2 = l2
  u1 = u1
  u2 = u2
  print1 = print1
  print2 = print2
  entry1 = entry1
  entry2 = entry2
  other = other
  Unheld = Unheld
  Threads = {t1, t2, t3}
  ProcessOf <- TwoAndOne
  Does <- Everything
  Faults = {"lost_answer", "save", "crash", "lock", "expiry", "cancel", "revoked"}
  MaxPair = 3
  Procs = {u1, u2}
  Prints = {print1, print2}
  Plan <- BatchAndSingle
  Lease = 1
  Backoff <- ShortThenLong
  CreationFaults <- OnDemand
  TerminalHold = 2
  Reset = 2
  LockWait = 1
  MaxTime = 4
  MaxClaims = 2
  MaxCalls = 4
  N = 2
  Keep = 3
  Earlier = {1, 2}
  FirstSecond = 5
  LastSecond = 6
  MaxOthers = 2
  SwitchFaults = {"move", "publish", "confirm", "rollback", "restore", "crash"}
  Names = {entry1, entry2}
  OtherNames = {other}
  ReplaceEmpty = TRUE
  MaxForeign = 3
  ClaimFaults = {"entry", "remove", "shell", "chmod", "back", "rmdir"}
CHECK_DEADLOCK FALSE
INVARIANTS
  RefreshIsSerial
  SwitchSafe
  ClaimSafe
PROPERTIES
  OnlyLoginGoesBack
  AttemptsSafe
