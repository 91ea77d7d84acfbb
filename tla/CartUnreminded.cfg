\* Two executions for one cart, the workflow's three tries.
CONSTANTS
  Runs = {r1, r2}
  MaxTries = 3
SPECIFICATION Spec
INVARIANT UnboughtIsReminded
