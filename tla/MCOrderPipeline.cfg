\* Two executions of one order, started together, twice or by a retry, each
\* node tried twice.  Nobody overrides the status.  When both executions have
\* ended nothing is left to do.
CONSTANTS
  Runs = {r1, r2}
  MaxTries = 2
  Redelivered = TRUE
  Overridable = {}
SPECIFICATION Spec
SYMMETRY Interchangeable
INVARIANTS
  TypeOK
  SuccessIsComplete
  OneSuccess
  FailureIsExplained
  NotifiedOnce
  ShipmentsBounded
PROPERTY LedgerSpec
CHECK_DEADLOCK FALSE
