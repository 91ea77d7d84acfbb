\* Two tenants connect one Shopify store, one request at a time.
CONSTANTS
  Stores = {acme, bolt}
  OAuths = {}
  Keys = {}
  Shops = {s1}
  None = None
  Requests = {q1}
  MaxAttempts = 2
SPECIFICATION Spec
INVARIANT OneTenantPerShop
CHECK_DEADLOCK FALSE
