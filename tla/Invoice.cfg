\* Two handlers interleave on one invoice with two links or intents, whose webhooks may be
\* lost, fail and be repeated.
SPECIFICATION MCSpec
CONSTANTS
  Requests = {r1, r2}
  Totals = {50, 60}
  MaxOffers = 2
  MaxEvents = 1
INVARIANTS
  TypeOK
  PaidIsSettled
  AnsweredIsRecorded
  LinkAsksTotal
PROPERTIES
  PaidLeftByStaleWrites
  PaymentIsRecorded
\* A cancelled invoice whose bounds are used up has nothing left to do.
CHECK_DEADLOCK FALSE
