\* Ctrl+C during the download of two parts by two workers, the same command again.
SPECIFICATION DownloadSpec
CONSTANTS
  w1 = w1
  w2 = w2
  N = 2
  Reported = TRUE
  Workers = {w1, w2}
  Faults = {"cancel"}
  MaxVersion = 1
  MaxRuns = 2
  MaxFetched = 1
SYMMETRY Symmetry
CHECK_DEADLOCK FALSE
INVARIANTS
  PublishedIsWhole
