\* One request at a time, after one connect.
SPECIFICATION Spec
CONSTANTS
  q1 = q1
  q2 = q2
  Connectable <- MCConnectable
  Requests = {q1}
  None = None
  Lines = {1}
  MaxGrants = 1
  MaxWindow = 2
PROPERTY LapsedIsRefreshed
CHECK_DEADLOCK FALSE
