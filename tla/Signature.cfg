\* A reassignment between the two awaits of a signature.
SPECIFICATION Spec
CONSTANTS
  Requests = {r1, r2}
  Workers = {w1, w2}
  NoWorker = NoWorker
  Removable = {}
  MaxPhases = 0
  MaxContracts = 1
  MaxIntents = 1
SYMMETRY Symmetry
INVARIANTS
  SignedByAssignedWorker
\* A closed project whose bounds are used up has nothing left to do.
CHECK_DEADLOCK FALSE
