\* Two releases of one escrow overlap.
SPECIFICATION Spec
CONSTANTS
  Requests = {r1, r2}
  Workers = {w1}
  NoWorker = NoWorker
  Totals <- OneAmount
  MaxReleases = 2
INVARIANTS
  RecordedOnce
