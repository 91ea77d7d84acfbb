SPECIFICATION Spec
CONSTANTS
  q1 = q1
  q2 = q2
  Connectable <- MCConnectable
  Requests <- MCRequests
  None = None
  Lines = {0, 1}
  MaxGrants = 2
  MaxWindow = 2
INVARIANTS
  TypeOK
  CredentialOfItsRow
PROPERTIES
  TokenStaysFresh
  RequestsAnswered
  AlwaysAccepts
CHECK_DEADLOCK FALSE
