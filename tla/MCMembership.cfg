SPECIFICATION Spec
CONSTANTS
  creator = creator
  other = other
  q1 = q1
  None = None
  Users <- MCUsers
  Creator = creator
  Offered <- MCOffered
  Requests <- MCRequests
  MaxEvents = 3
  MaxUpsets = 1
INVARIANTS
  TypeOK
  OnlyGrantedRoles
  InOrderAgrees
  ShownIsServed
  CreatedIsRecorded
PROPERTIES
  CanceledForGood
  NoResurrection
CHECK_DEADLOCK FALSE
