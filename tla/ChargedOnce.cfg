\* Two createEscrow calls for one contract.
SPECIFICATION Spec
CONSTANTS
  Requests = {r1, r2}
  Workers = {w1, w2}
  NoWorker = NoWorker
  Removable = {}
  MaxPhases = 0
  MaxContracts = 1
  MaxIntents = 2
SYMMETRY Symmetry
INVARIANTS
  ChargedOnce
\* A closed project whose bounds are used up has nothing left to do.
CHECK_DEADLOCK FALSE
