\* One execution with the workflow's own number of tries, and every override.
CONSTANTS
  Runs = {r1}
  MaxTries = 3
  Redelivered = FALSE
  Overridable = {"FULFILLED", "NOTIFIED", "COMPLETED", "CANCELED"}
SPECIFICATION Spec
INVARIANT ShopifyMatchesOrder
PROPERTIES
  AloneIsForward
  ExecutionSettles
