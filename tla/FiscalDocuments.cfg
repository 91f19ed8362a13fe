\* The flows of sent and paid overlap while one handler works on the invoice.
SPECIFICATION MCFairFiscalSpec
CONSTANTS
  Requests = {r1}
  Totals = {50}
  MaxOffers = 1
  MaxEvents = 1
  Flows = {f1, f2}
  MaxDocs = 2
  AtCredentials = TRUE
INVARIANTS
  FiscalTypeOK
  ColumnsAgree
  SecondDocumentIsExcused
PROPERTIES
  FlowsEnd
\* A cancelled invoice whose bounds are used up has nothing left to do.
CHECK_DEADLOCK FALSE
