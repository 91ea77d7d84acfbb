\* One tenant with its store, its Zoho and its Odoo; two connects, and two
\* requests at a time.
CONSTANTS
  Stores = {acme}
  OAuths = {zoho}
  Keys = {odoo}
  Shops = {s1, s2}
  None = None
  Requests = {q1, q2}
  MaxAttempts = 2
SPECIFICATION Spec
SYMMETRY Interchangeable
INVARIANTS
  TypeOK
  LiveHasCredential
  ActiveIsHooked
PROPERTY AnsweredIsNotPending
CHECK_DEADLOCK FALSE
