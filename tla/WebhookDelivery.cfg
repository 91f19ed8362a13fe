\* One event for two endpoints, two workers, two attempts and one fault.
SPECIFICATION FairSpec
CONSTANTS
  Workers = {w1, w2}
  Events = {e1}
  Endpoints = {a, b}
  NoDelivery = NoDelivery
  MaxAttempts = 2
  MaxFaults = 1
INVARIANTS
  TypeOK
  OneCarrier
  AttemptsCountPosts
  DeliveredIsAccepted
PROPERTIES
  DeliveryEnds
\* Once every delivery is settled nothing is left to do.
CHECK_DEADLOCK FALSE
