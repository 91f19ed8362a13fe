\* Phases play no part in how a payment becomes an escrow.
SPECIFICATION FairSpec
CONSTANTS
  Requests = {r1, r2}
  Workers = {w1, w2}
  NoWorker = NoWorker
  Removable = {w1}
  MaxPhases = 0
  MaxContracts = 1
  MaxIntents = 1
PROPERTIES
  PaidIsHeld
\* A closed project whose bounds are used up has nothing left to do.
CHECK_DEADLOCK FALSE
