\* Two handlers interleave on a project of at most one phase, two contracts, one intent.
SPECIFICATION Spec
CONSTANTS
  Requests = {r1, r2}
  Workers = {w1, w2}
  NoWorker = NoWorker
  Removable = {w1, w2}
  MaxPhases = 1
  MaxContracts = 2
  MaxIntents = 1
SYMMETRY Symmetry
INVARIANTS
  TypeOK
  HeldMoneyKeepsContract
  EscrowIsPaid
  ExecutionIsFunded
  AnsweredIsHeld
PROPERTIES
  IllegalStatusWritesAreStale
  FinishedClosesUnlessCut
\* A closed project whose bounds are used up has nothing left to do.
CHECK_DEADLOCK FALSE
