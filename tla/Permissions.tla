---------------------------- MODULE Permissions ----------------------------
(***************************************************************************)
(* Who may do what: the permissions seeded for the system roles (seed.ts), *)
(* which the guards of the backend consult, and the minimum roles by which *)
(* the console shows its buttons (roles.ts).                               *)
(***************************************************************************)
EXTENDS Naturals

Role == {"Owner", "Admin", "Operator", "Viewer"}

(* SYSTEM_ROLES, from the least to the most.                               *)
ViewerMay   == {"members:read", "integrations:read", "orders:read"}
OperatorMay == ViewerMay \union {"integrations:test", "orders:write"}
AdminMay    == OperatorMay \union {"tenant:read", "members:manage", "integrations:manage",
                                   "billing:read", "audit:read"}
OwnerMay    == AdminMay \union {"tenant:manage", "billing:manage"}

Permissions == [Owner |-> OwnerMay, Admin |-> AdminMay, Operator |-> OperatorMay, Viewer |-> ViewerMay]

(* PermissionsGuard: the role of an active membership holds the permission *)
(* the route requires.                                                     *)
Permits(row, permission) == row.status = "ACTIVE" /\ permission \in Permissions[row.role]
-----------------------------------------------------------------------------
(* The console ranks the roles and takes the user's from his Clerk role,   *)
(* which is none of these for org:member.                                  *)
ROLE_RANK == [viewer |-> 0, operator |-> 1, admin |-> 2, owner |-> 3]

toWorkspaceRole(role) ==
  LET stripped == IF role = "org:admin" THEN "admin" ELSE "member" IN
  IF stripped \in DOMAIN ROLE_RANK THEN stripped ELSE "undefined"

(* Mutant: an admin is offered the owner's settings.                       *)
ACTION_MIN_ROLE_Loose ==
  [integration_test   |-> "operator", workflow_retry |-> "operator", order_override   |-> "operator",
   integration_manage |-> "admin",    member_manage  |-> "admin",    audit_read       |-> "admin",
   workspace_delete   |-> "owner",    tenant_manage  |-> "admin",    billing_manage   |-> "owner"]

ACTION_MIN_ROLE ==
  [integration_test   |-> "operator", workflow_retry |-> "operator", order_override   |-> "operator",
   integration_manage |-> "admin",    member_manage  |-> "admin",    audit_read       |-> "admin",
   workspace_delete   |-> "owner",    tenant_manage  |-> "owner",    billing_manage   |-> "owner"]

canPerform(role, action) ==
  role \in DOMAIN ROLE_RANK /\ ROLE_RANK[role] >= ROLE_RANK[ACTION_MIN_ROLE[action]]

(* What the routes behind each action require; nothing deletes a workspace *)
(* and no billing route exists.                                            *)
Required ==
  [integration_test   |-> "integrations:test",   workflow_retry |-> "orders:write",
   order_override     |-> "orders:write",        integration_manage |-> "integrations:manage",
   member_manage      |-> "members:manage",      audit_read |-> "audit:read",
   tenant_manage      |-> "tenant:manage"]
=============================================================================
