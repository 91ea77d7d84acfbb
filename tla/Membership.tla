----------------------------- MODULE Membership -----------------------------
(***************************************************************************)
(* The members of one workspace, kept twice: in Clerk, and as rows of the  *)
(* database.  Clerk's webhooks (clerk-webhook.service.ts) bring its changes *)
(* to the rows in whatever order they arrive, if they do: one that failed  *)
(* may be delivered again, one cut short is not; the members endpoints (members.service.ts) change Clerk and then  *)
(* the row; sync-clerk.ts copies Clerk over the rows.  The guards admit a  *)
(* request by what the rows say.                                           *)
(*                                                                         *)
(* Every await at which the rows or Clerk can change meanwhile is a step.  *)
(* Rows of the tenant and of the users are never deleted, so a handler's   *)
(* reads of them are taken at once.                                        *)
(***************************************************************************)
EXTENDS Naturals, Permissions

CONSTANTS
  Users,       \* Clerk accounts
  Creator,     \* the one who created the organization
  Offered,     \* the roles the members page gives out in this instance
  Requests,    \* requests to the members endpoints served at a time
  None,        \* no hint, no invitation, nobody
  MaxEvents,   \* membership events Clerk sends
  MaxUpsets    \* statements and calls that fail, and runs of the sync script

Assignable == {"Admin", "Operator", "Viewer"}
Sent       == 1 .. MaxEvents

ASSUME MembershipAssumption ==
  /\ Creator \in Users
  /\ Offered \subseteq Assignable
  /\ None \notin Users /\ None \notin Role
  /\ MaxEvents \in Nat \ {0} /\ MaxUpsets \in Nat

VARIABLES
  org,       \* the organization exists in Clerk
  orgEvents, \* events about the organization still to be processed
  tenant,    \* status of the tenant row
  known,     \* users that have a row
  clerk,     \* Clerk's membership of each user
  invited,   \* the role of the invitation each user holds
  row,       \* the membership row of each user
  events,    \* the membership events, in the order Clerk sent them
  sent,      \* how many there are
  req,       \* the request each slot serves
  sync,      \* the sync script
  upsets,    \* failures and runs of the script so far
  granted,   \* history: the roles each user was ever given by anybody
  clean      \* history: users nothing overtook (see InOrderAgrees)

vars == <<org, orgEvents, tenant, known, clerk, invited, row, events, sent,
          req, sync, upsets, granted, clean>>

Hint   == Role \union {None}
Absent == [in |-> FALSE, role |-> "org:member", hint |-> None]
Member == [in : BOOLEAN, role : {"org:admin", "org:member"}, hint : Hint]
NoRow  == [status |-> "none", role |-> "Viewer"]
Row    == [status : {"ACTIVE", "REMOVED"}, role : Role] \union {NoRow}

(* stage is where the delivery of an event stands: created stops once      *)
(* between its count and its upsert, and keeps whether the count was zero. *)
(* An event whose delivery was cut short stays PROCESSING.                 *)
NoEvent == [kind |-> "none", user |-> None, role |-> "org:member", hint |-> None, stage |-> "unsent"]
Event   == [kind : {"created", "updated", "deleted"}, user : Users,
            role : {"org:admin", "org:member"}, hint : Hint,
            stage : {"sent", "first", "later", "FAILED", "PROCESSED", "PROCESSING"}]

NoRequest == [at |-> "idle", on |-> None, role |-> "Viewer"]
Request   == [at : {"metadata", "role", "local", "delete", "mark"}, on : Users, role : Assignable]

(* list is the memberships the script fetched, todo the users it has left. *)
Asleep == [at |-> "idle", list |-> [u \in Users |-> Absent], todo |-> {}]
Sync   == [at : {"idle", "orgs", "list", "members"},
           list : [Users -> Member], todo : SUBSET Users]

TypeOK ==
  /\ org \in BOOLEAN /\ orgEvents \subseteq {"created", "deleted"}
  /\ tenant \in {"none", "ACTIVE", "CANCELED"} /\ known \subseteq Users
  /\ clerk \in [Users -> Member] /\ invited \in [Users -> Assignable \union {None}]
  /\ row \in [Users -> Row]
  /\ events \in [Sent -> Event \union {NoEvent}] /\ sent \in 0 .. MaxEvents
  /\ req \in [Requests -> Request \union {NoRequest}]
  /\ sync \in Sync /\ upsets \in 0 .. MaxUpsets
  /\ granted \in [Users -> SUBSET Role] /\ clean \in [Users -> BOOLEAN]

(* What Clerk's coarse role may stand for here.                            *)
Coarse(role) == IF role = "org:admin" THEN {"Owner", "Admin"} ELSE {"Operator"}

(* The organization was just created: its events are on their way, with    *)
(* the membership of its creator among them.                               *)
Init ==
  /\ org = TRUE /\ orgEvents = {"created"} /\ tenant = "none" /\ known = {}
  /\ clerk = [u \in Users |-> IF u = Creator THEN [Absent EXCEPT !.in = TRUE, !.role = "org:admin"]
                                             ELSE Absent]
  /\ invited = [u \in Users |-> None]
  /\ row = [u \in Users |-> NoRow]
  /\ events = [i \in Sent |-> IF i = 1
                 THEN [kind |-> "created", user |-> Creator, role |-> "org:admin",
                       hint |-> None, stage |-> "sent"]
                 ELSE NoEvent]
  /\ sent = 1
  /\ req = [q \in Requests |-> NoRequest]
  /\ sync = Asleep /\ upsets = 0
  /\ granted = [u \in Users |-> IF u = Creator THEN Coarse("org:admin") ELSE {}]
  /\ clean = [u \in Users |-> TRUE]
-----------------------------------------------------------------------------
local  == <<tenant, known, row>>
remote == <<org, orgEvents, clerk, invited, events, sent>>

Upset == upsets < MaxUpsets /\ upsets' = upsets + 1

Grant(u, roles) == granted' = [granted EXCEPT ![u] = @ \union roles]
Doubt(u, doubt) == clean' = [clean EXCEPT ![u] = @ /\ ~doubt]

(* Clerk changes a membership and sends the event that tells of it.        *)
Emit(u, kind, m) ==
  /\ sent < MaxEvents
  /\ sent' = sent + 1
  /\ clerk' = [clerk EXCEPT ![u] = m]
  /\ events' = [events EXCEPT ![sent + 1] =
       [kind |-> kind, user |-> u, role |-> m.role, hint |-> m.hint, stage |-> "sent"]]

Serving(u) == {q \in Requests : req[q].on = u}
-----------------------------------------------------------------------------
(* Clerk's side: an invitation is accepted, or somebody is added, changed  *)
(* or removed on Clerk's own pages.                                        *)

(* Mutant: the app role is sent to Clerk as it is.                         *)
ClerkRoleUnmapped(role) == role

ClerkRole(role) == IF role = "Admin" THEN "org:admin" ELSE "org:member"

(* What a role change still under way will make of a membership that takes *)
(* the place of the one it was meant for.                                  *)
Outliving(u) == UNION {Coarse(ClerkRole(req[q].role)) : q \in Serving(u)}

Join(u, role, hint) ==
  /\ org /\ ~clerk[u].in
  /\ Emit(u, "created", [in |-> TRUE, role |-> role, hint |-> hint])
  /\ Grant(u, (IF hint = None THEN Coarse(role) ELSE {hint}) \union Outliving(u))
  /\ Doubt(u, Serving(u) # {})
  /\ UNCHANGED <<org, orgEvents, local, req, sync, upsets>>

Accept(u) ==
  /\ invited[u] # None
  /\ Join(u, ClerkRole(invited[u]), invited[u])
  /\ invited' = [invited EXCEPT ![u] = None]

AddInClerk(u, role) == Join(u, role, None) /\ UNCHANGED invited

ChangeInClerk(u, role) ==
  /\ org /\ clerk[u].in /\ clerk[u].role # role
  /\ Emit(u, "updated", [clerk[u] EXCEPT !.role = role])
  /\ Grant(u, IF clerk[u].hint = None THEN Coarse(role) ELSE {})
  /\ UNCHANGED <<org, orgEvents, invited, local, req, sync, upsets, clean>>

Leave(u) ==
  /\ org /\ clerk[u].in
  /\ Emit(u, "deleted", Absent)
  /\ UNCHANGED <<org, orgEvents, invited, local, req, sync, upsets, granted, clean>>

DeleteOrg ==
  /\ org /\ org' = FALSE
  /\ orgEvents' = orgEvents \union {"deleted"}
  /\ UNCHANGED <<clerk, invited, events, sent, local, req, sync, upsets, granted, clean>>
-----------------------------------------------------------------------------
(* The webhook handlers.                                                   *)

(* The row an upsert by organization leaves; an existing row keeps its     *)
(* status.                                                                 *)
(* Mutant: the upsert's update sets the status as its create does.         *)
UpsertedTenantAnew == "ACTIVE"

UpsertedTenant == IF tenant = "none" THEN "ACTIVE" ELSE tenant

OnOrganizationCreated ==
  /\ "created" \in orgEvents
  /\ tenant' = UpsertedTenant
  /\ orgEvents' = orgEvents \ {"created"}
  /\ UNCHANGED <<org, known, clerk, invited, row, events, sent, req, sync, upsets, granted, clean>>

OnOrganizationDeleted ==
  /\ "deleted" \in orgEvents
  /\ tenant' = IF tenant = "none" THEN tenant ELSE "CANCELED"
  /\ orgEvents' = orgEvents \ {"deleted"}
  /\ UNCHANGED <<org, known, clerk, invited, row, events, sent, req, sync, upsets, granted, clean>>

OnUserUpserted(u) ==
  /\ u \notin known
  /\ known' = known \union {u}
  /\ UNCHANGED <<remote, tenant, row, req, sync, upsets, granted, clean>>

(* An event that a delivery may claim: a new one, or one that FAILED.  It  *)
(* may also never be delivered, again or at all.                           *)
Waiting(i, kind) == events[i].kind = kind /\ events[i].stage \in {"sent", "FAILED"}
Resolved(i)      == tenant # "none" /\ events[i].user \in known
Stage(i, s)      == events' = [events EXCEPT ![i].stage = s]

(* Mutant: it returns, as onMembershipDeleted does.                        *)
ThrowSilently(i) ==
  /\ events[i].stage = "sent" /\ ~Resolved(i)
  /\ events[i].kind \in {"created", "updated"}
  /\ Stage(i, "PROCESSED")
  /\ UNCHANGED <<org, orgEvents, clerk, invited, sent, local, req, sync, upsets, granted, clean>>

(* An unresolved tenant or user: the handler throws, the event is FAILED.  *)
Throw(i) ==
  /\ events[i].stage = "sent" /\ ~Resolved(i)
  /\ events[i].kind \in {"created", "updated"}
  /\ Stage(i, "FAILED")
  /\ UNCHANGED <<org, orgEvents, clerk, invited, sent, local, req, sync, upsets, granted, clean>>

(* A statement of the delivery throws, before the row is written, and the  *)
(* event is FAILED; or a restart ends it, or the FAILED cannot be written  *)
(* either: the claim is never given back and every later delivery of the   *)
(* event is acknowledged.                                                  *)
CutShort(i) ==
  /\ events[i].stage \in {"sent", "FAILED", "first", "later"}
  /\ \E s \in {"FAILED", "PROCESSING"} : Stage(i, s)
  /\ Upset
  /\ UNCHANGED <<org, orgEvents, clerk, invited, sent, local, req, sync, granted, clean>>

ResolveRoleName(role, first, hint) ==
  IF hint \in Role THEN hint
  ELSE IF role = "org:admin" THEN (IF first THEN "Owner" ELSE "Admin")
  ELSE "Operator"

Count(i) ==
  /\ Waiting(i, "created") /\ Resolved(i)
  /\ Stage(i, IF \A u \in Users : row[u].status = "none" THEN "first" ELSE "later")
  /\ UNCHANGED <<org, orgEvents, clerk, invited, sent, local, req, sync, upsets, granted, clean>>

(* Event i is applied before an earlier one or after a later one.          *)
Overtakes(i) ==
  \E j \in Sent : /\ events[j].user = events[i].user
                  /\ \/ j < i /\ events[j].stage # "PROCESSED"
                     \/ j > i /\ events[j].stage \in {"FAILED", "PROCESSED", "PROCESSING"}

(* The handler wrote r to the user's row; marking the event PROCESSED may  *)
(* still fail, which leaves it FAILED, or never happen, which leaves it    *)
(* PROCESSING.                                                             *)
Apply(i, r) ==
  /\ row' = [row EXCEPT ![events[i].user] = r]
  /\ Doubt(events[i].user, Overtakes(i))
  /\ \/ Stage(i, "PROCESSED") /\ UNCHANGED upsets
     \/ (\E s \in {"FAILED", "PROCESSING"} : Stage(i, s)) /\ Upset
  /\ UNCHANGED <<org, orgEvents, clerk, invited, sent, tenant, known, req, sync, granted>>

(* Mutant: the upsert's update sets the role only.                         *)
OnMembershipCreatedAgain(i) ==
  LET r == row[events[i].user] IN
  /\ events[i].stage \in {"first", "later"}
  /\ Apply(i, [status |-> IF r = NoRow THEN "ACTIVE" ELSE r.status,
               role |-> ResolveRoleName(events[i].role, events[i].stage = "first", events[i].hint)])

OnMembershipCreated(i) ==
  /\ events[i].stage \in {"first", "later"}
  /\ Apply(i, [status |-> "ACTIVE",
               role |-> ResolveRoleName(events[i].role, events[i].stage = "first", events[i].hint)])

(* Mutant: an upsert, as for a created membership.                         *)
OnMembershipUpserted(i) ==
  /\ Waiting(i, "updated") /\ Resolved(i)
  /\ Apply(i, [status |-> "ACTIVE",
               role |-> ResolveRoleName(events[i].role, FALSE, events[i].hint)])

OnMembershipUpdated(i) ==
  /\ Waiting(i, "updated") /\ Resolved(i)
  /\ LET r == row[events[i].user] IN
       Apply(i, IF r = NoRow THEN r
                ELSE [r EXCEPT !.role = ResolveRoleName(events[i].role, FALSE, events[i].hint)])

OnMembershipDeleted(i) ==
  /\ Waiting(i, "deleted")
  /\ LET r == row[events[i].user] IN
       Apply(i, IF r = NoRow \/ ~Resolved(i) THEN r ELSE [r EXCEPT !.status = "REMOVED"])
-----------------------------------------------------------------------------
(* The members endpoints.  ClerkTenantGuard and PermissionsGuard admit any *)
(* user with an active membership whose role holds members:manage.         *)

Admitted == /\ tenant = "ACTIVE"
            /\ \E a \in known : Permits(row[a], "members:manage")

Goto(q, label) == req' = [req EXCEPT ![q].at = label]
End(q)         == req' = [req EXCEPT ![q] = NoRequest]

Invite(u, role) ==
  /\ Admitted /\ org
  /\ ~clerk[u].in /\ invited[u] = None
  /\ invited' = [invited EXCEPT ![u] = role]
  /\ UNCHANGED <<org, orgEvents, clerk, events, sent, local, req, sync, upsets, granted, clean>>

(* Mutant: the role before the metadata.                                   *)
FollowingSwapped == [update |-> "role", role |-> "metadata", metadata |-> "local",
                     remove |-> "delete", delete |-> "mark"]

(* The call each call is followed by.                                      *)
Following == [update |-> "metadata", metadata |-> "role", role |-> "local",
              remove |-> "delete", delete |-> "mark"]

(* findMembershipOrThrow, and the Owner is refused.                        *)
Begin(q, u, what, role) ==
  /\ req[q] = NoRequest
  /\ Admitted
  /\ row[u] # NoRow /\ row[u].role # "Owner"
  /\ req' = [req EXCEPT ![q] = [at |-> Following[what], on |-> u, role |-> role]]
  /\ Doubt(u, Serving(u) # {})
  /\ UNCHANGED <<remote, local, sync, upsets>>

UpdateRole(q, u, role) == Begin(q, u, "update", role) /\ Grant(u, {role})
Remove(q, u)           == Begin(q, u, "remove", "Viewer") /\ UNCHANGED granted

(* Clerk's answer to a call that it has carried out: the request goes on,  *)
(* or the answer is lost and it ends.                                      *)
Answered(q) ==
  \/ Goto(q, Following[req[q].at]) /\ UNCHANGED <<upsets, clean>>
  \/ End(q) /\ Upset /\ Doubt(req[q].on, req[q].at = "metadata")

PatchMetadata(q) ==
  LET u == req[q].on IN
  /\ req[q].at = "metadata" /\ org /\ clerk[u].in
  /\ clerk' = [clerk EXCEPT ![u].hint = req[q].role]
  /\ Answered(q)
  /\ UNCHANGED <<org, orgEvents, invited, events, sent, local, sync, granted>>

PatchRole(q) ==
  LET u == req[q].on IN
  /\ req[q].at = "role" /\ org /\ clerk[u].in
  /\ Emit(u, "updated", [clerk[u] EXCEPT !.role = ClerkRole(req[q].role)])
  /\ Answered(q)
  /\ UNCHANGED <<org, orgEvents, invited, local, sync, granted>>

DeleteMembership(q) ==
  LET u == req[q].on IN
  /\ req[q].at = "delete" /\ org /\ clerk[u].in
  /\ Emit(u, "deleted", Absent)
  /\ Answered(q)
  /\ UNCHANGED <<org, orgEvents, invited, local, sync, granted>>

(* Clerk refuses because the membership is gone, or the call or the        *)
(* statement fails without effect: the rest of the request is not done.    *)
GiveUp(q) ==
  /\ req[q] # NoRequest
  /\ \/ req[q].at \in {"metadata", "role", "delete"} /\ ~(org /\ clerk[req[q].on].in) /\ UNCHANGED upsets
     \/ Upset
  /\ End(q)
  /\ Doubt(req[q].on, req[q].at = "role")
  /\ UNCHANGED <<remote, local, sync, granted>>

WriteRow(q) ==
  LET u == req[q].on IN
  /\ \/ req[q].at = "local" /\ row' = [row EXCEPT ![u].role = req[q].role]
     \/ req[q].at = "mark" /\ row' = [row EXCEPT ![u].status = "REMOVED"]
  /\ End(q)
  /\ UNCHANGED <<remote, tenant, known, sync, upsets, granted, clean>>
-----------------------------------------------------------------------------
(* sync-clerk.ts.                                                          *)

SyncOrganizations ==
  /\ sync.at = "idle" /\ org /\ Upset
  /\ sync' = [sync EXCEPT !.at = "orgs"]
  /\ UNCHANGED <<remote, local, req, granted, clean>>

SyncUsers ==
  /\ sync.at = "orgs"
  /\ tenant' = UpsertedTenant /\ known' = Users
  /\ sync' = [sync EXCEPT !.at = "list"]
  /\ UNCHANGED <<remote, row, req, upsets, granted, clean>>

(* The creator is left out of the list and made Owner in the end.          *)
SyncMemberships ==
  /\ sync.at = "list"
  /\ sync' = [at |-> "members", list |-> clerk,
              todo |-> {Creator} \union {u \in Users : clerk[u].in}]
  /\ UNCHANGED <<remote, local, req, upsets, granted, clean>>

SyncMembership(u) ==
  /\ sync.at = "members" /\ u \in sync.todo
  /\ u = Creator => sync.todo = {Creator}
  /\ row' = [row EXCEPT ![u] = [status |-> "ACTIVE",
       role |-> IF u = Creator THEN "Owner"
                ELSE ResolveRoleName(sync.list[u].role, FALSE, sync.list[u].hint)]]
  /\ sync' = IF u = Creator THEN Asleep ELSE [sync EXCEPT !.todo = @ \ {u}]
  /\ Doubt(u, TRUE)
  /\ UNCHANGED <<remote, tenant, known, req, upsets, granted>>

SyncNext == \/ SyncOrganizations \/ SyncUsers \/ SyncMemberships
            \/ \E u \in Users : SyncMembership(u)
-----------------------------------------------------------------------------
ClerkNext ==
  \/ DeleteOrg
  \/ \E u \in Users :
       \/ Accept(u) \/ Leave(u)
       \/ \E role \in {"org:admin", "org:member"} : AddInClerk(u, role) \/ ChangeInClerk(u, role)

Handle(i) == \/ Throw(i) \/ Count(i) \/ CutShort(i)
             \/ OnMembershipCreated(i) \/ OnMembershipUpdated(i) \/ OnMembershipDeleted(i)

Serve(q) == \/ PatchMetadata(q) \/ PatchRole(q) \/ DeleteMembership(q)
            \/ GiveUp(q) \/ WriteRow(q)

EndpointNext ==
  \/ \E u \in Users, role \in Offered : Invite(u, role)
  \/ \E q \in Requests, u \in Users : Remove(q, u) \/ \E role \in Offered : UpdateRole(q, u, role)
  \/ \E q \in Requests : Serve(q)

Deliver ==
  \/ OnOrganizationCreated \/ OnOrganizationDeleted
  \/ \E u \in Users : OnUserUpserted(u)
  \/ \E i \in Sent : Handle(i)

Next == ClerkNext \/ EndpointNext \/ SyncNext \/ Deliver

(* Nothing is assumed of anybody.  Svix retries a delivery a finite number *)
(* of times, and none of an event that was acknowledged while a delivery   *)
(* that then failed held its claim, so no event need ever be processed.    *)
Spec == Init /\ [][Next]_vars
-----------------------------------------------------------------------------
(* Properties.                                                             *)

(* Nobody ever holds a role that no one gave him, on the members page, by  *)
(* an invitation or by Clerk's coarse role: not by an event that catches a *)
(* role change between its two calls to Clerk, not by a retried or late    *)
(* event, not by the script (the order of the calls in updateRole,         *)
(* resolveRoleName).                                                       *)
OnlyGrantedRoles == \A u \in Users : row[u] # NoRow => row[u].role \in granted[u]

Quiet(u) ==
  /\ \A i \in Sent : events[i].user = u => events[i].stage = "PROCESSED"
  /\ Serving(u) = {}

(* When nothing is under way for a user, the row says what Clerk says,     *)
(* however the requests and the webhooks interleaved and whichever local   *)
(* write was lost, unless something overtook: his events were not applied  *)
(* in the order Clerk sent them, two requests for him overlapped or one    *)
(* outlived his membership, a role change stopped between its two calls to *)
(* Clerk, or the script wrote his row.                                     *)
InOrderAgrees ==
  \A u \in Users : org /\ clean[u] /\ Quiet(u) =>
    IF clerk[u].in
    THEN /\ row[u].status = "ACTIVE"
         /\ row[u].role \in IF clerk[u].hint = None THEN Coarse(clerk[u].role) ELSE {clerk[u].hint}
    ELSE row[u].status # "ACTIVE"

(* Whatever the console offers such a user by his Clerk role, the guards   *)
(* let him do by his row, when that Clerk role is the one his app role     *)
(* stands for (roles.ts against seed.ts, across both copies).              *)
ShownIsServed ==
  \A u \in Users, action \in DOMAIN Required :
    /\ org /\ clean[u] /\ Quiet(u) /\ clerk[u].in
    /\ clerk[u].hint # None => clerk[u].role = ClerkRole(clerk[u].hint)
    /\ canPerform(toWorkspaceRole(clerk[u].role), action)
    => Permits(row[u], Required[action])

(* An event marked PROCESSED was not falsely reassuring: the membership it *)
(* created has a row (onMembershipCreated throws for a tenant or a user    *)
(* that is not there yet).                                                 *)
CreatedIsRecorded ==
  \A i \in Sent : events[i].kind = "created" /\ events[i].stage = "PROCESSED"
                    => row[events[i].user] # NoRow

(* A canceled workspace is never opened again, by a late or repeated       *)
(* organization.created or by the script.                                  *)
CanceledForGood == [][tenant = "CANCELED" => tenant' = "CANCELED"]_vars

(* Only Clerk lets a removed member in again: a role change that was under *)
(* way, or a late organizationMembership.updated, does not.                *)
NoResurrection ==
  [][\A u \in Users :
       row[u].status = "REMOVED" /\ row'[u].status = "ACTIVE" =>
         \/ sync' # sync
         \/ \E i \in Sent : /\ events[i].user = u /\ events[i].kind = "created"
                            /\ events[i].stage \in {"first", "later"}
                            /\ events'[i].stage \in {"FAILED", "PROCESSED", "PROCESSING"}]_vars
=============================================================================
