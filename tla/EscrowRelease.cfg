\* Two releases overlap and the contract changes hands between two workers.
SPECIFICATION Spec
CONSTANTS
  Requests = {r1, r2}
  Workers = {w1, w2}
  NoWorker = NoWorker
  Totals <- Amounts
  MaxReleases = 2
SYMMETRY Symmetry
INVARIANTS
  TypeOK
  LedgerNamesPayee
  ReleasedIsPaidAndRecorded
  SplitIsSound
PROPERTIES
  PaysOnce
