\* A payment arrives between the two awaits of a cancellation.
SPECIFICATION Spec
CONSTANTS
  Requests = {r1, r2}
  Totals = {50}
  MaxOffers = 1
  MaxEvents = 1
PROPERTIES
  PaidIsFinal
\* A cancelled invoice whose bounds are used up has nothing left to do.
CHECK_DEADLOCK FALSE
