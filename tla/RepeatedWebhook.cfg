\* One request at a time: no interleaving is needed.
SPECIFICATION Spec
CONSTANTS
  Requests = {r1}
  Workers = {w1, w2}
  NoWorker = NoWorker
  Removable = {}
  MaxPhases = 2
  MaxContracts = 1
  MaxIntents = 1
PROPERTIES
  RepeatedWebhookStartsNothing
\* A closed project whose bounds are used up has nothing left to do.
CHECK_DEADLOCK FALSE
