-------------------------- MODULE MembershipProofs --------------------------
(***************************************************************************)
(* Proofs about Membership, for any number of users, of requests served at *)
(* a time, of events and of failures.                                      *)
(*                                                                         *)
(* A role reaches a row from an event, from a request or from the list the *)
(* sync script fetched, and an event and the list take it from Clerk: the  *)
(* inductive invariant says of each of them that it carries nothing but    *)
(* what was granted.                                                       *)
(***************************************************************************)
EXTENDS Membership, TLAPS

(* What a Clerk membership stands for is among the roles g.                *)
Fits(role, hint, g) == IF hint = None THEN Coarse(role) \subseteq g ELSE hint \in g

EventsFit ==
  \A i \in Sent :
    /\ events[i].kind \in {"created", "updated"}
         => Fits(events[i].role, events[i].hint, granted[events[i].user])
    /\ events[i].stage \in {"first", "later"} => events[i].kind = "created"

ClerkFits == \A u \in Users : clerk[u].in => Fits(clerk[u].role, clerk[u].hint, granted[u])

(* A request between its two calls to Clerk either finds its own hint      *)
(* there, or a membership that took the place of the one it began with.    *)
RequestFits(q) ==
  LET u == req[q].on IN
  req[q] # NoRequest =>
    /\ row[u] # NoRow
    /\ req[q].at \in {"metadata", "role", "local"} => req[q].role \in granted[u]
    /\ req[q].at = "role" /\ clerk[u].in /\ clerk[u].hint = None
         => Coarse(ClerkRole(req[q].role)) \subseteq granted[u]

RequestsFit == \A q \in Requests : RequestFits(q)

ListFits ==
  sync.at = "members" =>
    \A u \in sync.todo \ {Creator} : Fits(sync.list[u].role, sync.list[u].hint, granted[u])

CreatorGranted == "Owner" \in granted[Creator]

IInv == /\ TypeOK /\ OnlyGrantedRoles /\ CreatedIsRecorded
        /\ EventsFit /\ ClerkFits /\ RequestsFit /\ ListFits /\ CreatorGranted
-----------------------------------------------------------------------------
LEMMA ResolveGranted ==
  ASSUME NEW role \in {"org:admin", "org:member"}, NEW hint \in Hint, NEW first \in BOOLEAN,
         NEW g, Fits(role, hint, g)
  PROVE  /\ ResolveRoleName(role, first, hint) \in g
         /\ ResolveRoleName(role, first, hint) \in Role
BY MembershipAssumption DEF Fits, Coarse, ResolveRoleName, Hint, Role

LEMMA ResolveType ==
  ASSUME NEW role, NEW hint, NEW first \in BOOLEAN
  PROVE  ResolveRoleName(role, first, hint) \in Role
BY DEF ResolveRoleName, Role

LEMMA FitsGrows ==
  ASSUME NEW role, NEW hint, NEW g, NEW h, g \subseteq h, Fits(role, hint, g)
  PROVE  Fits(role, hint, h)
BY DEF Fits

LEMMA CoarseType ==
  ASSUME NEW role PROVE Coarse(role) \subseteq Role
BY DEF Coarse, Role

LEMMA InitIInv == Init => IInv
<1> SUFFICES ASSUME Init PROVE IInv
  OBVIOUS
<1> USE MembershipAssumption DEF Init
<1>1. Absent \in Member /\ NoRow \in Row /\ NoEvent \in Event \union {NoEvent}
  BY DEF Absent, Member, NoRow, Row, Event, Hint
<1>2. TypeOK
  <2>1. clerk \in [Users -> Member]
    BY DEF Absent, Member, Hint
  <2>2. events \in [Sent -> Event \union {NoEvent}]
    BY DEF Event, Hint
  <2>3. sync \in Sync
    BY <1>1 DEF Sync, Asleep
  <2>4. granted \in [Users -> SUBSET Role]
    BY DEF Coarse, Role
  <2>5. row \in [Users -> Row] /\ req \in [Requests -> Request \union {NoRequest}]
    BY DEF Row
  <2>. QED BY <2>1, <2>2, <2>3, <2>4, <2>5 DEF TypeOK
<1>3. EventsFit
  BY DEF EventsFit, Fits, NoEvent, Sent
<1>4. ClerkFits
  BY DEF ClerkFits, Fits, Absent
<1>5. RequestsFit /\ ListFits /\ CreatorGranted
  BY DEF RequestsFit, RequestFits, ListFits, CreatorGranted, Asleep, Coarse
<1>6. OnlyGrantedRoles /\ CreatedIsRecorded
  BY DEF OnlyGrantedRoles, CreatedIsRecorded, NoEvent
<1>. QED BY <1>2, <1>3, <1>4, <1>5, <1>6 DEF IInv
-----------------------------------------------------------------------------
(* The steps, by what they write.                                          *)
Joins(u)   == \/ Accept(u)
              \/ \E role \in {"org:admin", "org:member"} : AddInClerk(u, role)
Changes(u) == \E role \in {"org:admin", "org:member"} : ChangeInClerk(u, role)
Stages(i)  == Throw(i) \/ Count(i) \/ CutShort(i)
Applies(i) == OnMembershipCreated(i) \/ OnMembershipUpdated(i) \/ OnMembershipDeleted(i)
Begins(q, u) == Remove(q, u) \/ \E role \in Offered : UpdateRole(q, u, role)
Patches(q) == PatchMetadata(q) \/ PatchRole(q) \/ DeleteMembership(q)
Elsewhere  == \/ DeleteOrg \/ OnOrganizationCreated \/ OnOrganizationDeleted
              \/ \E u \in Users : OnUserUpserted(u) \/ \E role \in Offered : Invite(u, role)

LEMMA Steps ==
  ASSUME Next
  PROVE  \/ \E u \in Users : Joins(u) \/ Changes(u) \/ Leave(u)
         \/ \E i \in Sent : Stages(i) \/ Applies(i)
         \/ \E q \in Requests, u \in Users : Begins(q, u)
         \/ \E q \in Requests : Patches(q) \/ GiveUp(q) \/ WriteRow(q)
         \/ SyncNext \/ Elsewhere
BY DEF Next, ClerkNext, EndpointNext, Deliver, Handle, Serve, Joins, Changes, Stages, Applies,
       Begins, Patches, Elsewhere

-----------------------------------------------------------------------------
(* Types.                                                                  *)
LEMMA EmitType ==
  ASSUME TypeOK, NEW u \in Users, NEW kind \in {"created", "updated", "deleted"},
         NEW m \in Member, Emit(u, kind, m)
  PROVE  /\ clerk' \in [Users -> Member] /\ sent' \in 0 .. MaxEvents
         /\ events' \in [Sent -> Event \union {NoEvent}]
<1>1. [kind |-> kind, user |-> u, role |-> m.role, hint |-> m.hint, stage |-> "sent"] \in Event
  BY DEF Event, Member
<1>2. sent' \in 0 .. MaxEvents
  BY MembershipAssumption DEF Emit, TypeOK
<1>3. clerk' \in [Users -> Member]
  BY DEF Emit, TypeOK
<1>4. events' \in [Sent -> Event \union {NoEvent}]
  BY <1>1 DEF Emit, TypeOK
<1>. QED BY <1>2, <1>3, <1>4

LEMMA StageType ==
  ASSUME TypeOK, NEW i \in Sent, events[i].stage # "unsent",
         NEW s \in {"sent", "first", "later", "FAILED", "PROCESSED", "PROCESSING"}, Stage(i, s)
  PROVE  events' \in [Sent -> Event \union {NoEvent}]
<1>1. events[i] \in Event
  BY DEF TypeOK, NoEvent
<1>2. [events[i] EXCEPT !.stage = s] \in Event
  BY <1>1 DEF Event
<1>. QED BY <1>2 DEF Stage, TypeOK

LEMMA EventType ==
  ASSUME TypeOK, NEW i \in Sent, events[i].stage # "unsent"
  PROVE  /\ events[i] \in Event /\ events[i].user \in Users
         /\ events[i].hint \in Hint /\ events[i].role \in {"org:admin", "org:member"}
<1>1. events[i] \in Event
  BY DEF TypeOK, NoEvent
<1>. QED BY <1>1 DEF Event

LEMMA RequestType ==
  ASSUME TypeOK, NEW q \in Requests, req[q] # NoRequest
  PROVE  req[q].on \in Users /\ req[q].role \in Assignable /\ req[q] \in Request
<1>1. req[q] \in Request
  BY DEF TypeOK
<1>. QED BY <1>1 DEF Request

LEMMA MemberType ==
  ASSUME TypeOK, NEW u \in Users
  PROVE  /\ clerk[u] \in Member /\ clerk[u].hint \in Hint
         /\ clerk[u].role \in {"org:admin", "org:member"}
<1>1. clerk[u] \in Member
  BY DEF TypeOK
<1>. QED BY <1>1 DEF Member

LEMMA RowType ==
  ASSUME TypeOK, NEW u \in Users, row[u] # NoRow
  PROVE  row[u] \in [status : {"ACTIVE", "REMOVED"}, role : Role]
BY DEF TypeOK, Row

LEMMA DoubtType ==
  ASSUME TypeOK, NEW u, NEW doubt, Doubt(u, doubt)
  PROVE  clean' \in [Users -> BOOLEAN]
BY DEF TypeOK, Doubt

LEMMA GrantType ==
  ASSUME TypeOK, NEW u, NEW roles \in SUBSET Role, Grant(u, roles)
  PROVE  /\ granted' \in [Users -> SUBSET Role]
         /\ \A w \in Users : granted[w] \subseteq granted'[w]
         /\ u \in Users => roles \subseteq granted'[u]
BY DEF TypeOK, Grant

LEMMA UpsetType ==
  ASSUME TypeOK, Upset \/ UNCHANGED upsets
  PROVE  upsets' \in 0 .. MaxUpsets
BY MembershipAssumption DEF TypeOK, Upset

(* What a membership that begins in Clerk is given.                        *)
JoinRoles(u, role, hint) == (IF hint = None THEN Coarse(role) ELSE {hint}) \union Outliving(u)

LEMMA JoinEffect ==
  ASSUME TypeOK, NEW u \in Users, Joins(u)
  PROVE  \E role \in {"org:admin", "org:member"}, hint \in Hint :
           /\ Join(u, role, hint)
           /\ JoinRoles(u, role, hint) \in SUBSET Role
           /\ invited' \in [Users -> Assignable \union {None}]
<1>1. Outliving(u) \subseteq Role
  BY CoarseType DEF Outliving
<1>2. CASE Accept(u)
  <2>1. invited[u] \in Assignable /\ invited[u] \in Hint
    BY <1>2 DEF Accept, TypeOK, Assignable, Hint, Role
  <2>2. ClerkRole(invited[u]) \in {"org:admin", "org:member"}
    BY DEF ClerkRole
  <2>3. invited' \in [Users -> Assignable \union {None}]
    BY <1>2 DEF Accept, TypeOK
  <2>4. JoinRoles(u, ClerkRole(invited[u]), invited[u]) \in SUBSET Role
    BY <1>1, <2>1, CoarseType DEF JoinRoles, Assignable, Role
  <2>. QED BY <1>2, <2>1, <2>2, <2>3, <2>4 DEF Accept
<1>3. CASE \E role \in {"org:admin", "org:member"} : AddInClerk(u, role)
  <2>1. PICK role \in {"org:admin", "org:member"} : AddInClerk(u, role)
    BY <1>3
  <2>2. invited' \in [Users -> Assignable \union {None}]
    BY <2>1 DEF AddInClerk, TypeOK
  <2>3. JoinRoles(u, role, None) \in SUBSET Role
    BY <1>1, CoarseType DEF JoinRoles
  <2>4. None \in Hint
    BY DEF Hint
  <2>. QED BY <2>1, <2>2, <2>3, <2>4 DEF AddInClerk
<1>. QED BY <1>2, <1>3 DEF Joins

(* The event an Apply is about, and the row it writes.                     *)
LEMMA ApplyEffect ==
  ASSUME IInv, NEW i \in Sent, Applies(i)
  PROVE  /\ events[i].stage # "unsent"
         /\ \E r \in Row :
              /\ Apply(i, r)
              /\ row[events[i].user] # NoRow => r # NoRow
              /\ r # NoRow => r.role \in granted[events[i].user]
              /\ events[i].kind = "created" => r # NoRow
              /\ events[i].kind # "created" => (r.status = "ACTIVE" => row[events[i].user].status = "ACTIVE")
<1>1. TypeOK /\ EventsFit /\ OnlyGrantedRoles
  BY DEF IInv
<1>2. events[i].stage # "unsent"
  <2>1. CASE OnMembershipCreated(i)
    BY <2>1 DEF OnMembershipCreated
  <2>2. CASE OnMembershipUpdated(i) \/ OnMembershipDeleted(i)
    BY <2>2 DEF OnMembershipUpdated, OnMembershipDeleted, Waiting
  <2>. QED BY <2>1, <2>2 DEF Applies
<1> DEFINE u == events[i].user
           r == row[u]
<1>3. u \in Users /\ events[i].hint \in Hint /\ events[i].role \in {"org:admin", "org:member"}
  BY <1>1, <1>2, EventType
<1>4. r \in Row /\ (r # NoRow => r.role \in granted[u] /\ r \in [status : {"ACTIVE", "REMOVED"}, role : Role])
  BY <1>1, <1>3, RowType DEF OnlyGrantedRoles, TypeOK
<1>5. CASE OnMembershipCreated(i)
  <2> DEFINE role == ResolveRoleName(events[i].role, events[i].stage = "first", events[i].hint)
             w == [status |-> "ACTIVE", role |-> role]
  <2>1. events[i].kind = "created" /\ Fits(events[i].role, events[i].hint, granted[u])
    BY <1>1, <1>5 DEF OnMembershipCreated, EventsFit
  <2>2. role \in granted[u] /\ role \in Role
    BY <1>3, <2>1, ResolveGranted
  <2>3. w \in Row /\ w # NoRow /\ w.role = role
    BY <2>2 DEF Row, NoRow
  <2>4. Apply(i, w)
    BY <1>5 DEF OnMembershipCreated
  <2>. HIDE DEF role
  <2>. QED BY <1>2, <2>1, <2>2, <2>3, <2>4
<1>6. CASE OnMembershipUpdated(i)
  <2> DEFINE role == ResolveRoleName(events[i].role, FALSE, events[i].hint)
             w == IF r = NoRow THEN r ELSE [r EXCEPT !.role = role]
  <2>1. events[i].kind = "updated" /\ Fits(events[i].role, events[i].hint, granted[u])
    BY <1>1, <1>6 DEF OnMembershipUpdated, Waiting, EventsFit
  <2>2. role \in granted[u] /\ role \in Role
    BY <1>3, <2>1, ResolveGranted
  <2>3. Apply(i, w)
    BY <1>6 DEF OnMembershipUpdated
  <2> HIDE DEF role
  <2>4. r # NoRow => /\ w \in [status : {"ACTIVE", "REMOVED"}, role : Role] /\ w.role = role
                     /\ w.status = r.status
    BY <1>4, <2>2
  <2>5. w \in Row /\ (r # NoRow => w # NoRow) /\ (w # NoRow => w.role \in granted[u]) /\ w.status = r.status
    BY <1>4, <2>2, <2>4 DEF Row, NoRow
  <2>. QED BY <1>2, <2>1, <2>3, <2>5
<1>7. CASE OnMembershipDeleted(i)
  <2> DEFINE w == IF r = NoRow \/ ~Resolved(i) THEN r ELSE [r EXCEPT !.status = "REMOVED"]
  <2>1. events[i].kind = "deleted"
    BY <1>7 DEF OnMembershipDeleted, Waiting
  <2>2. Apply(i, w)
    BY <1>7 DEF OnMembershipDeleted
  <2>3. r # NoRow => /\ w \in [status : {"ACTIVE", "REMOVED"}, role : Role] /\ w.role = r.role
                     /\ (w = r \/ w.status = "REMOVED")
    BY <1>4
  <2>4. w \in Row /\ (r # NoRow => w # NoRow) /\ (w # NoRow => w.role \in granted[u])
        /\ (w.status = "ACTIVE" => r.status = "ACTIVE")
    BY <1>4, <2>3 DEF Row, NoRow
  <2>. QED BY <1>2, <2>1, <2>2, <2>4
<1>. QED BY <1>5, <1>6, <1>7 DEF Applies

(* What each step does to the types.                                       *)
LEMMA TypeStep == ASSUME IInv, Next PROVE TypeOK'
<1> TypeOK
  BY DEF IInv
<1> USE DEF local, remote
<1>1. ASSUME NEW u \in Users, Joins(u) PROVE TypeOK'
  <2>1. PICK role \in {"org:admin", "org:member"}, hint \in Hint :
           /\ Join(u, role, hint) /\ JoinRoles(u, role, hint) \in SUBSET Role
           /\ invited' \in [Users -> Assignable \union {None}]
    BY <1>1, JoinEffect
  <2>2. [in |-> TRUE, role |-> role, hint |-> hint] \in Member
    BY DEF Member
  <2>3. /\ clerk' \in [Users -> Member] /\ sent' \in 0 .. MaxEvents
        /\ events' \in [Sent -> Event \union {NoEvent}]
    BY <2>1, <2>2, EmitType DEF Join
  <2>4. granted' \in [Users -> SUBSET Role]
    BY <2>1, GrantType DEF Join, JoinRoles
  <2>5. clean' \in [Users -> BOOLEAN]
    BY <2>1, DoubtType DEF Join
  <2>. QED BY <2>1, <2>3, <2>4, <2>5 DEF Join, TypeOK
<1>2. ASSUME NEW u \in Users, Changes(u) \/ Leave(u) PROVE TypeOK'
  <2>1. CASE Changes(u)
    <3>1. PICK role \in {"org:admin", "org:member"} : ChangeInClerk(u, role)
      BY <2>1 DEF Changes
    <3>2. [clerk[u] EXCEPT !.role = role] \in Member
      BY MemberType DEF Member
    <3>3. /\ clerk' \in [Users -> Member] /\ sent' \in 0 .. MaxEvents
          /\ events' \in [Sent -> Event \union {NoEvent}]
      BY <3>1, <3>2, EmitType DEF ChangeInClerk
    <3>4. granted' \in [Users -> SUBSET Role]
      BY <3>1, GrantType, CoarseType DEF ChangeInClerk
    <3>. QED BY <3>1, <3>3, <3>4 DEF ChangeInClerk, TypeOK
  <2>2. CASE Leave(u)
    <3>1. Absent \in Member
      BY DEF Absent, Member, Hint
    <3>2. /\ clerk' \in [Users -> Member] /\ sent' \in 0 .. MaxEvents
          /\ events' \in [Sent -> Event \union {NoEvent}]
      BY <2>2, <3>1, EmitType DEF Leave
    <3>. QED BY <2>2, <3>2 DEF Leave, TypeOK
  <2>. QED BY <1>2, <2>1, <2>2
<1>3. ASSUME NEW i \in Sent, Stages(i) PROVE TypeOK'
  <2>1. events[i].stage # "unsent"
    BY <1>3 DEF Stages, Throw, Count, CutShort, Waiting
  <2>2. events' \in [Sent -> Event \union {NoEvent}]
    BY <1>3, <2>1, StageType DEF Stages, Throw, Count, CutShort
  <2>3. upsets' \in 0 .. MaxUpsets
    BY <1>3, UpsetType DEF Stages, Throw, Count, CutShort, TypeOK
  <2>. QED BY <1>3, <2>2, <2>3 DEF Stages, Throw, Count, CutShort, TypeOK
<1>4. ASSUME NEW i \in Sent, Applies(i) PROVE TypeOK'
  <2>1. PICK r \in Row : events[i].stage # "unsent" /\ Apply(i, r)
    BY <1>4, ApplyEffect
  <2>2. events' \in [Sent -> Event \union {NoEvent}]
    BY <2>1, StageType DEF Apply
  <2>3. row' \in [Users -> Row]
    BY <2>1 DEF Apply, TypeOK
  <2>4. clean' \in [Users -> BOOLEAN] /\ upsets' \in 0 .. MaxUpsets
    BY <2>1, DoubtType, UpsetType DEF Apply
  <2>. QED BY <2>1, <2>2, <2>3, <2>4 DEF Apply, TypeOK
<1>5. ASSUME NEW q \in Requests, NEW u \in Users, Begins(q, u) PROVE TypeOK'
  <2>1. PICK what \in {"update", "remove"}, role \in Assignable :
          Begin(q, u, what, role) /\ (Grant(u, {role}) \/ UNCHANGED granted)
    BY <1>5, MembershipAssumption DEF Begins, Remove, UpdateRole, Assignable
  <2>2. [at |-> Following[what], on |-> u, role |-> role] \in Request
    BY DEF Following, Request
  <2>3. req' \in [Requests -> Request \union {NoRequest}]
    BY <2>1, <2>2 DEF Begin, TypeOK
  <2>4. granted' \in [Users -> SUBSET Role]
    <3>1. {role} \in SUBSET Role
      BY DEF Assignable, Role
    <3>. QED BY <2>1, <3>1, GrantType DEF TypeOK
  <2>5. clean' \in [Users -> BOOLEAN]
    BY <2>1, DoubtType DEF Begin
  <2>. QED BY <2>1, <2>3, <2>4, <2>5 DEF Begin, TypeOK
<1>6. ASSUME NEW q \in Requests, Patches(q) PROVE TypeOK'
  <2>1. req[q] # NoRequest /\ req[q].at \in {"metadata", "role", "delete"} /\ Answered(q)
    BY <1>6 DEF Patches, PatchMetadata, PatchRole, DeleteMembership, NoRequest
  <2>2. req[q].on \in Users /\ req[q].role \in Assignable /\ req[q] \in Request
    BY <2>1, RequestType
  <2>3. /\ req' \in [Requests -> Request \union {NoRequest}]
        /\ clean' \in [Users -> BOOLEAN] /\ upsets' \in 0 .. MaxUpsets
    <3>1. CASE Goto(q, Following[req[q].at]) /\ UNCHANGED <<upsets, clean>>
      <4>1. [req[q] EXCEPT !.at = Following[req[q].at]] \in Request
        BY <2>1, <2>2 DEF Following, Request
      <4>. QED BY <3>1, <4>1 DEF Goto, TypeOK
    <3>2. CASE End(q) /\ Upset /\ Doubt(req[q].on, req[q].at = "metadata")
      <4>1. req' \in [Requests -> Request \union {NoRequest}]
        BY <3>2 DEF End, TypeOK
      <4>. QED BY <3>2, <4>1, DoubtType, UpsetType
    <3>. QED BY <2>1, <3>1, <3>2 DEF Answered
  <2>4. /\ clerk' \in [Users -> Member] /\ sent' \in 0 .. MaxEvents
        /\ events' \in [Sent -> Event \union {NoEvent}]
    <3> DEFINE u == req[q].on
    <3>1. clerk[u] \in Member
      BY <2>2, MemberType
    <3>2. CASE PatchMetadata(q)
      <4>1. [clerk[u] EXCEPT !.hint = req[q].role] \in Member
        BY <2>2, <3>1 DEF Member, Hint, Assignable, Role
      <4>. QED BY <2>2, <3>2, <4>1 DEF PatchMetadata, TypeOK
    <3>3. CASE PatchRole(q)
      <4>1. [clerk[u] EXCEPT !.role = ClerkRole(req[q].role)] \in Member
        BY <2>2, <3>1 DEF Member, ClerkRole
      <4>. QED BY <2>2, <3>3, <4>1, EmitType DEF PatchRole
    <3>4. CASE DeleteMembership(q)
      <4>1. Absent \in Member
        BY DEF Absent, Member, Hint
      <4>. QED BY <2>2, <3>4, <4>1, EmitType DEF DeleteMembership
    <3>. QED BY <1>6, <3>2, <3>3, <3>4 DEF Patches
  <2>. QED BY <1>6, <2>3, <2>4 DEF Patches, PatchMetadata, PatchRole, DeleteMembership, TypeOK
<1>7. ASSUME NEW q \in Requests, GiveUp(q) \/ WriteRow(q) PROVE TypeOK'
  <2>1. req[q] # NoRequest
    BY <1>7 DEF GiveUp, WriteRow, NoRequest
  <2>2. req[q].on \in Users /\ req[q].role \in Assignable
    BY <2>1, RequestType
  <2>3. req' \in [Requests -> Request \union {NoRequest}]
    BY <1>7 DEF GiveUp, WriteRow, End, TypeOK
  <2>4. CASE GiveUp(q)
    <3>1. clean' \in [Users -> BOOLEAN] /\ upsets' \in 0 .. MaxUpsets
      BY <2>4, DoubtType, UpsetType DEF GiveUp
    <3>. QED BY <2>3, <2>4, <3>1 DEF GiveUp, TypeOK
  <2>5. CASE WriteRow(q)
    <3> DEFINE u == req[q].on
    <3>1. row[u] # NoRow
      BY <2>1 DEF IInv, RequestsFit, RequestFits
    <3>2. row[u] \in [status : {"ACTIVE", "REMOVED"}, role : Role]
      BY <2>2, <3>1, RowType
    <3>3. /\ [row[u] EXCEPT !.role = req[q].role] \in Row
          /\ [row[u] EXCEPT !.status = "REMOVED"] \in Row
      BY <2>2, <3>2 DEF Row, Assignable, Role
    <3>4. row' \in [Users -> Row]
      BY <2>2, <2>5, <3>3 DEF WriteRow, TypeOK
    <3>. QED BY <2>3, <2>5, <3>4 DEF WriteRow, TypeOK
  <2>. QED BY <1>7, <2>4, <2>5
<1>8. ASSUME SyncNext PROVE TypeOK'
  <2>1. CASE SyncOrganizations
    <3>1. [sync EXCEPT !.at = "orgs"] \in Sync
      BY DEF TypeOK, Sync
    <3>2. upsets' \in 0 .. MaxUpsets
      BY <2>1, UpsetType DEF SyncOrganizations
    <3>. QED BY <2>1, <3>1, <3>2 DEF SyncOrganizations, TypeOK
  <2>2. CASE SyncUsers
    <3>1. [sync EXCEPT !.at = "list"] \in Sync
      BY DEF TypeOK, Sync
    <3>2. UpsertedTenant \in {"none", "ACTIVE", "CANCELED"}
      BY DEF UpsertedTenant, TypeOK
    <3>. QED BY <2>2, <3>1, <3>2 DEF SyncUsers, TypeOK
  <2>3. CASE SyncMemberships
    <3>1. [at |-> "members", list |-> clerk, todo |-> {Creator} \union {u \in Users : clerk[u].in}] \in Sync
      BY MembershipAssumption DEF TypeOK, Sync
    <3>. QED BY <2>3, <3>1 DEF SyncMemberships, TypeOK
  <2>4. ASSUME NEW u \in Users, SyncMembership(u) PROVE TypeOK'
    <3> DEFINE role == IF u = Creator THEN "Owner"
                       ELSE ResolveRoleName(sync.list[u].role, FALSE, sync.list[u].hint)
               r == [status |-> "ACTIVE", role |-> role]
    <3>1. role \in Role
      BY ResolveType DEF Role
    <3>2. r \in Row /\ row' = [row EXCEPT ![u] = r]
      BY <2>4, <3>1 DEF Row, SyncMembership
    <3> HIDE DEF r
    <3>3. row' \in [Users -> Row]
      BY <3>2 DEF TypeOK
    <3>4. [sync EXCEPT !.todo = @ \ {u}] \in Sync /\ Asleep \in Sync
      BY DEF TypeOK, Sync, Asleep, Absent, Member, Hint
    <3>5. clean' \in [Users -> BOOLEAN] /\ sync' \in Sync
      BY <2>4, <3>4, DoubtType DEF SyncMembership
    <3>. QED BY <2>4, <3>3, <3>5 DEF SyncMembership, TypeOK
  <2>. QED BY <1>8, <2>1, <2>2, <2>3, <2>4 DEF SyncNext
<1>9. ASSUME Elsewhere PROVE TypeOK'
  <2>1. CASE DeleteOrg
    BY <2>1 DEF DeleteOrg, TypeOK
  <2>2. CASE OnOrganizationCreated \/ OnOrganizationDeleted
    BY <2>2 DEF OnOrganizationCreated, OnOrganizationDeleted, UpsertedTenant, TypeOK
  <2>3. ASSUME NEW u \in Users, OnUserUpserted(u) PROVE TypeOK'
    BY <2>3 DEF OnUserUpserted, TypeOK
  <2>4. ASSUME NEW u \in Users, NEW role \in Offered, Invite(u, role) PROVE TypeOK'
    <3>1. invited' \in [Users -> Assignable \union {None}]
      BY <2>4, MembershipAssumption DEF Invite, TypeOK
    <3>. QED BY <2>4, <3>1 DEF Invite, TypeOK
  <2>. QED BY <1>9, <2>1, <2>2, <2>3, <2>4 DEF Elsewhere
<1>. QED BY Steps, <1>1, <1>2, <1>3, <1>4, <1>5, <1>6, <1>7, <1>8, <1>9
-----------------------------------------------------------------------------
(* What each step leaves of the facts about roles.                         *)
LEMMA Granting ==
  ASSUME IInv, Next
  PROVE  \A u \in Users : granted[u] \subseteq granted'[u]
<1> TypeOK
  BY DEF IInv
<1> USE DEF local, remote
<1>1. ASSUME NEW u \in Users, Joins(u) PROVE \A w \in Users : granted[w] \subseteq granted'[w]
  BY <1>1, JoinEffect, GrantType DEF Join, JoinRoles
<1>2. ASSUME NEW u \in Users, Changes(u) PROVE \A w \in Users : granted[w] \subseteq granted'[w]
  BY <1>2, GrantType, CoarseType DEF Changes, ChangeInClerk
<1>3. ASSUME NEW q \in Requests, NEW u \in Users, Begins(q, u)
      PROVE \A w \in Users : granted[w] \subseteq granted'[w]
  <2>1. CASE Remove(q, u)
    BY <2>1 DEF Remove
  <2>2. ASSUME NEW role \in Offered, UpdateRole(q, u, role)
        PROVE \A w \in Users : granted[w] \subseteq granted'[w]
    <3>1. {role} \in SUBSET Role
      BY MembershipAssumption DEF Assignable, Role
    <3>. QED BY <2>2, <3>1, GrantType DEF UpdateRole
  <2>. QED BY <1>3, <2>1, <2>2 DEF Begins
<1>4. CASE \/ \E u \in Users : Leave(u)
           \/ \E i \in Sent : Stages(i) \/ Applies(i)
           \/ \E q \in Requests : Patches(q) \/ GiveUp(q) \/ WriteRow(q)
           \/ SyncNext \/ Elsewhere
  <2>1. granted' = granted
    BY <1>4 DEF Leave, Stages, Throw, Count, CutShort, Applies, OnMembershipCreated, OnMembershipUpdated,
         OnMembershipDeleted, Apply, Patches, PatchMetadata, PatchRole, DeleteMembership, GiveUp,
         WriteRow, SyncNext, SyncOrganizations, SyncUsers, SyncMemberships, SyncMembership,
         Elsewhere, DeleteOrg, OnOrganizationCreated, OnOrganizationDeleted, OnUserUpserted, Invite
  <2>. QED BY <2>1
<1>. QED BY Steps, <1>1, <1>2, <1>3, <1>4

(* The steps that write a row, and what they write to it.                  *)
LEMMA RowStep ==
  ASSUME IInv, Next, NEW u \in Users, row'[u] # row[u]
  PROVE  /\ row'[u] # NoRow
         /\ row'[u].role \in granted[u]
<1> USE DEF local, remote
<1>1. TypeOK /\ OnlyGrantedRoles /\ RequestsFit /\ ListFits /\ CreatorGranted
  BY DEF IInv
<1>2. row \in [Users -> Row]
  BY <1>1 DEF TypeOK
<1>3. ASSUME NEW i \in Sent, Applies(i) PROVE row'[u] # NoRow /\ row'[u].role \in granted[u]
  <2>1. PICK r \in Row :
          /\ Apply(i, r)
          /\ row[events[i].user] # NoRow => r # NoRow
          /\ r # NoRow => r.role \in granted[events[i].user]
    BY <1>3, ApplyEffect
  <2>2. events[i].user = u /\ row'[u] = r
    BY <1>2, <2>1 DEF Apply
  <2>. QED BY <2>1, <2>2
<1>4. ASSUME NEW q \in Requests, WriteRow(q) PROVE row'[u] # NoRow /\ row'[u].role \in granted[u]
  <2>1. req[q] # NoRequest /\ RequestFits(q)
    BY <1>1, <1>4 DEF WriteRow, NoRequest, RequestsFit
  <2>2. /\ req[q].on = u
        /\ \/ req[q].at = "local" /\ row'[u] = [row[u] EXCEPT !.role = req[q].role]
           \/ row'[u] = [row[u] EXCEPT !.status = "REMOVED"]
    BY <1>2, <1>4 DEF WriteRow
  <2>3. /\ row[u] # NoRow
        /\ req[q].at = "local" => req[q].role \in granted[u]
    BY <2>1, <2>2 DEF RequestFits
  <2>4. row[u] \in [status : {"ACTIVE", "REMOVED"}, role : Role] /\ row[u].role \in granted[u]
    BY <1>1, <2>3, RowType DEF OnlyGrantedRoles
  <2>5. CASE req[q].at = "local" /\ row'[u] = [row[u] EXCEPT !.role = req[q].role]
    <3>1. row'[u].role = req[q].role /\ row'[u].status # "none"
      BY <2>4, <2>5
    <3>. QED BY <2>3, <2>5, <3>1 DEF NoRow
  <2>6. CASE row'[u] = [row[u] EXCEPT !.status = "REMOVED"]
    <3>1. row'[u].role = row[u].role /\ row'[u].status # "none"
      BY <2>4, <2>6
    <3>. QED BY <2>4, <3>1 DEF NoRow
  <2>. QED BY <2>2, <2>5, <2>6
<1>5. ASSUME NEW w \in Users, SyncMembership(w) PROVE row'[u] # NoRow /\ row'[u].role \in granted[u]
  <2> DEFINE role == IF u = Creator THEN "Owner"
                     ELSE ResolveRoleName(sync.list[u].role, FALSE, sync.list[u].hint)
  <2>1. u = w /\ row'[u] = [status |-> "ACTIVE", role |-> role]
    BY <1>2, <1>5 DEF SyncMembership
  <2>2. sync.at = "members" /\ u \in sync.todo /\ sync.list[u] \in Member
    BY <1>1, <1>5, <2>1 DEF SyncMembership, TypeOK, Sync
  <2>3. role \in granted[u]
    <3>1. CASE u = Creator
      BY <1>1, <3>1 DEF CreatorGranted
    <3>2. CASE u # Creator
      <4>1. Fits(sync.list[u].role, sync.list[u].hint, granted[u])
        BY <1>1, <2>2, <3>2 DEF ListFits
      <4>. QED BY <2>2, <3>2, <4>1, ResolveGranted DEF Member
    <3>. QED BY <3>1, <3>2
  <2> HIDE DEF role
  <2>. QED BY <2>1, <2>3 DEF NoRow
<1>6. CASE \/ \E w \in Users : Joins(w) \/ Changes(w) \/ Leave(w)
           \/ \E i \in Sent : Stages(i)
           \/ \E q \in Requests, w \in Users : Begins(q, w)
           \/ \E q \in Requests : Patches(q) \/ GiveUp(q)
           \/ SyncOrganizations \/ SyncUsers \/ SyncMemberships \/ Elsewhere
  BY <1>6 DEF Joins, Accept, AddInClerk, Join, Changes, ChangeInClerk, Leave, Stages, Throw, Count, CutShort,
       Begins, Remove, UpdateRole, Begin, Patches, PatchMetadata, PatchRole, DeleteMembership, GiveUp,
       SyncOrganizations, SyncUsers, SyncMemberships,
       Elsewhere, DeleteOrg, OnOrganizationCreated, OnOrganizationDeleted, OnUserUpserted, Invite
<1>. QED BY Steps, <1>3, <1>4, <1>5, <1>6 DEF SyncNext

LEMMA RowsStep == ASSUME IInv, Next PROVE OnlyGrantedRoles'
<1> SUFFICES ASSUME NEW u \in Users, row'[u] # NoRow PROVE row'[u].role \in granted'[u]
  BY DEF OnlyGrantedRoles
<1>1. CASE row'[u] = row[u]
  BY <1>1, Granting DEF IInv, OnlyGrantedRoles
<1>2. CASE row'[u] # row[u]
  BY <1>2, RowStep, Granting
<1>. QED BY <1>1, <1>2

(* What Clerk sends is what it holds, and that is granted.                 *)
Told(u, kind, m) ==
  /\ Emit(u, kind, m)
  /\ \/ kind = "deleted" /\ m = Absent
     \/ m.in /\ Fits(m.role, m.hint, granted'[u])

Telling == \E u \in Users, kind \in {"created", "updated", "deleted"}, m \in Member : Told(u, kind, m)

(* A step that leaves an event what it was, but for its stage.             *)
Same(i) == /\ events'[i].kind = events[i].kind /\ events'[i].user = events[i].user
           /\ events'[i].role = events[i].role /\ events'[i].hint = events[i].hint

LEMMA StageEffect ==
  ASSUME TypeOK, NEW i \in Sent, events[i].stage # "unsent", NEW s, Stage(i, s)
  PROVE  /\ \A j \in Sent : Same(j) /\ (j # i => events'[j] = events[j])
         /\ events'[i].stage = s
<1>1. events[i] \in Event /\ events \in [Sent -> Event \union {NoEvent}]
  BY EventType DEF TypeOK
<1>2. events' = [events EXCEPT ![i] = [events[i] EXCEPT !.stage = s]]
  BY DEF Stage
<1>3. events'[i] = [events[i] EXCEPT !.stage = s]
  BY <1>1, <1>2
<1>4. \A j \in Sent : j # i => events'[j] = events[j]
  BY <1>1, <1>2
<1>5. /\ events'[i].kind = events[i].kind /\ events'[i].user = events[i].user
      /\ events'[i].role = events[i].role /\ events'[i].hint = events[i].hint
      /\ events'[i].stage = s
  BY <1>1, <1>3 DEF Event
<1>. QED BY <1>4, <1>5 DEF Same

LEMMA JoinTold ==
  ASSUME IInv, NEW u \in Users, Joins(u)
  PROVE  Telling /\ Outliving(u) \subseteq granted'[u]
<1> TypeOK
  BY DEF IInv
<1>1. PICK role \in {"org:admin", "org:member"}, hint \in Hint :
        Join(u, role, hint) /\ JoinRoles(u, role, hint) \in SUBSET Role
  BY JoinEffect
<1> DEFINE m == [in |-> TRUE, role |-> role, hint |-> hint]
<1>2. m \in Member /\ Emit(u, "created", m)
  BY <1>1 DEF Member, Join
<1>3. JoinRoles(u, role, hint) \subseteq granted'[u]
  BY <1>1, GrantType DEF Join, JoinRoles
<1>4. Fits(role, hint, granted'[u]) /\ Outliving(u) \subseteq granted'[u]
  BY <1>3 DEF JoinRoles, Fits
<1>5. Told(u, "created", m)
  BY <1>2, <1>4 DEF Told
<1>. QED BY <1>2, <1>4, <1>5 DEF Telling

LEMMA TellingStep ==
  ASSUME IInv, Next,
         \/ \E u \in Users : Changes(u) \/ Leave(u)
         \/ \E q \in Requests : DeleteMembership(q) \/ PatchRole(q)
  PROVE  Telling
<1> TypeOK /\ ClerkFits /\ RequestsFit
  BY DEF IInv
<1> USE DEF local, remote
<1>1. ASSUME NEW u \in Users, Changes(u) \/ Leave(u) PROVE Telling
  <2>1. CASE Leave(u)
    <3>1. Absent \in Member
      BY DEF Absent, Member, Hint
    <3>. QED BY <2>1, <3>1 DEF Leave, Told, Telling
  <2>2. CASE Changes(u)
    <3>1. PICK role \in {"org:admin", "org:member"} : ChangeInClerk(u, role)
      BY <2>2 DEF Changes
    <3> DEFINE m == [clerk[u] EXCEPT !.role = role]
    <3>2. clerk[u] \in Member
      BY MemberType
    <3>3. /\ m \in Member /\ m.in = clerk[u].in /\ m.role = role /\ m.hint = clerk[u].hint
      BY <3>2 DEF Member
    <3>4. clerk[u].in /\ Emit(u, "updated", m) /\ Fits(clerk[u].role, clerk[u].hint, granted[u])
      BY <3>1 DEF ChangeInClerk, ClerkFits
    <3>5. (IF clerk[u].hint = None THEN Coarse(role) ELSE {}) \subseteq granted'[u]
      BY <3>1, GrantType, CoarseType DEF ChangeInClerk
    <3>6. Fits(role, clerk[u].hint, granted'[u])
      BY <3>4, <3>5, Granting DEF Fits
    <3> HIDE DEF m
    <3>7. Told(u, "updated", m)
      BY <3>3, <3>4, <3>6 DEF Told
    <3>. QED BY <3>3, <3>7 DEF Telling
  <2>. QED BY <1>1, <2>1, <2>2
<1>2. ASSUME NEW q \in Requests, DeleteMembership(q) \/ PatchRole(q) PROVE Telling
  <2> DEFINE u == req[q].on
  <2>1. req[q] # NoRequest
    BY <1>2 DEF DeleteMembership, PatchRole, NoRequest
  <2>2. u \in Users
    BY <2>1, RequestType
  <2>3. CASE DeleteMembership(q)
    <3>1. Absent \in Member
      BY DEF Absent, Member, Hint
    <3>. QED BY <2>2, <2>3, <3>1 DEF DeleteMembership, Told, Telling
  <2>4. CASE PatchRole(q)
    <3> DEFINE m == [clerk[u] EXCEPT !.role = ClerkRole(req[q].role)]
    <3>1. clerk[u] \in Member
      BY <2>2, MemberType
    <3>2. /\ m \in Member /\ m.in = clerk[u].in /\ m.hint = clerk[u].hint
          /\ m.role = ClerkRole(req[q].role)
      BY <3>1 DEF Member, ClerkRole
    <3>3. req[q].at = "role" /\ clerk[u].in /\ Emit(u, "updated", m)
      BY <2>4 DEF PatchRole
    <3>4. clerk[u].hint = None => Coarse(ClerkRole(req[q].role)) \subseteq granted[u]
      BY <2>1, <3>3 DEF RequestsFit, RequestFits
    <3>5. clerk[u].hint # None => clerk[u].hint \in granted[u]
      BY <2>2, <3>3 DEF ClerkFits, Fits
    <3>6. Fits(m.role, m.hint, granted'[u])
      BY <2>2, <3>2, <3>4, <3>5, Granting DEF Fits
    <3> HIDE DEF m
    <3>7. Told(u, "updated", m)
      BY <3>2, <3>3, <3>6 DEF Told
    <3>. QED BY <2>2, <3>2, <3>7 DEF Telling
  <2>. QED BY <1>2, <2>3, <2>4
<1>. QED BY <1>1, <1>2

LEMMA ClerkStep ==
  ASSUME IInv, Next
  PROVE  \/ clerk' = clerk /\ \A i \in Sent : Same(i)
         \/ \E q \in Requests : PatchMetadata(q)
         \/ Telling
<1> TypeOK /\ ClerkFits /\ RequestsFit
  BY DEF IInv
<1> USE DEF local, remote
<1>3. ASSUME NEW i \in Sent, Stages(i) \/ Applies(i) PROVE clerk' = clerk /\ \A j \in Sent : Same(j)
  <2>1. CASE Stages(i)
    <3>1. events[i].stage # "unsent"
      BY <2>1 DEF Stages, Throw, Count, CutShort, Waiting
    <3>. QED BY <2>1, <3>1, StageEffect DEF Stages, Throw, Count, CutShort
  <2>2. CASE Applies(i)
    <3>1. PICK r \in Row : events[i].stage # "unsent" /\ Apply(i, r)
      BY <2>2, ApplyEffect
    <3>. QED BY <3>1, StageEffect DEF Apply
  <2>. QED BY <1>3, <2>1, <2>2
<1>4. CASE \/ \E q \in Requests, u \in Users : Begins(q, u)
           \/ \E q \in Requests : GiveUp(q) \/ WriteRow(q)
           \/ SyncNext \/ Elsewhere
  <2>1. clerk' = clerk /\ events' = events
    BY <1>4 DEF Begins, Remove, UpdateRole, Begin, GiveUp, WriteRow, SyncNext, SyncOrganizations,
         SyncUsers, SyncMemberships, SyncMembership, Elsewhere, DeleteOrg, OnOrganizationCreated,
         OnOrganizationDeleted, OnUserUpserted, Invite
  <2>. QED BY <2>1 DEF Same
<1>. QED BY Steps, JoinTold, TellingStep, <1>3, <1>4 DEF Patches

LEMMA EventChange ==
  ASSUME IInv, Next
  PROVE  (\E i \in Sent : Stages(i) \/ Applies(i)) \/ events' = events \/ Telling
<1> USE DEF local, remote
<1>1. CASE \/ \E u \in Users : Changes(u) \/ Leave(u)
           \/ \E q \in Requests : PatchRole(q) \/ DeleteMembership(q)
  BY <1>1, TellingStep
<1>2. CASE \/ \E q \in Requests, u \in Users : Begins(q, u)
           \/ \E q \in Requests : PatchMetadata(q) \/ GiveUp(q) \/ WriteRow(q)
           \/ SyncNext \/ Elsewhere
  BY <1>2 DEF Begins, Remove, UpdateRole, Begin, PatchMetadata, GiveUp, WriteRow, SyncNext, SyncOrganizations,
       SyncUsers, SyncMemberships, SyncMembership, Elsewhere, DeleteOrg, OnOrganizationCreated,
       OnOrganizationDeleted, OnUserUpserted, Invite
<1>. QED BY Steps, JoinTold, <1>1, <1>2 DEF Patches

LEMMA MembersStep == ASSUME IInv, Next PROVE ClerkFits'
<1> TypeOK /\ ClerkFits /\ RequestsFit
  BY DEF IInv
<1> SUFFICES ASSUME NEW u \in Users, clerk'[u].in
             PROVE  Fits(clerk'[u].role, clerk'[u].hint, granted'[u])
  BY DEF ClerkFits
<1>1. CASE clerk'[u] = clerk[u]
  BY <1>1, Granting, FitsGrows DEF ClerkFits
<1>2. ASSUME NEW q \in Requests, PatchMetadata(q), clerk'[u] # clerk[u]
      PROVE Fits(clerk'[u].role, clerk'[u].hint, granted'[u])
  <2>1. req[q] # NoRequest /\ req[q].at = "metadata"
    BY <1>2 DEF PatchMetadata, NoRequest
  <2>2. req[q].on = u /\ clerk'[u] = [clerk[u] EXCEPT !.hint = req[q].role]
    BY <1>2, MemberType DEF PatchMetadata, TypeOK
  <2>3. clerk'[u].hint = req[q].role
    BY <2>2, MemberType DEF Member
  <2>4. req[q].role \in granted[u] /\ req[q].role # None
    BY <2>1, <2>2, RequestType, MembershipAssumption DEF RequestsFit, RequestFits, Assignable, Role
  <2>. QED BY <2>3, <2>4, Granting DEF Fits
<1>3. CASE clerk'[u] # clerk[u] /\ Telling
  <2>1. PICK w \in Users, kind \in {"created", "updated", "deleted"}, m \in Member : Told(w, kind, m)
    BY <1>3 DEF Telling
  <2>2. u = w /\ clerk'[u] = m
    BY <1>3, <2>1 DEF Told, Emit, TypeOK
  <2>. QED BY <2>1, <2>2 DEF Told, Absent
<1>. QED BY ClerkStep, <1>1, <1>2, <1>3

LEMMA EventsStep == ASSUME IInv, Next PROVE EventsFit'
<1> TypeOK /\ EventsFit
  BY DEF IInv
<1> USE DEF local, remote
<1> SUFFICES ASSUME NEW i \in Sent
             PROVE  /\ events'[i].kind \in {"created", "updated"}
                         => Fits(events'[i].role, events'[i].hint, granted'[events'[i].user])
                    /\ events'[i].stage \in {"first", "later"} => events'[i].kind = "created"
  BY DEF EventsFit
<1>1. CASE Telling
  <2>1. PICK u \in Users, kind \in {"created", "updated", "deleted"}, m \in Member : Told(u, kind, m)
    BY <1>1 DEF Telling
  <2>2. CASE events'[i] = events[i]
    <3>1. events[i].kind \in {"created", "updated"} => events[i].user \in Users
      BY DEF TypeOK, Event, NoEvent
    <3>. QED BY <2>2, <3>1, Granting, FitsGrows DEF EventsFit
  <2>3. CASE events'[i] # events[i]
    <3>1. events'[i] = [kind |-> kind, user |-> u, role |-> m.role, hint |-> m.hint, stage |-> "sent"]
      BY <2>1, <2>3 DEF Told, Emit, TypeOK
    <3>2. kind # "deleted" => Fits(m.role, m.hint, granted'[u])
      BY <2>1 DEF Told
    <3>. QED BY <3>1, <3>2
  <2>. QED BY <2>2, <2>3
<1>2. ASSUME Same(i) PROVE events'[i].kind \in {"created", "updated"}
                         => Fits(events'[i].role, events'[i].hint, granted'[events'[i].user])
  <2>1. events[i].kind \in {"created", "updated"} => events[i].user \in Users
    BY DEF TypeOK, Event, NoEvent
  <2>. QED BY <1>2, <2>1, Granting, FitsGrows DEF Same, EventsFit
<1>3. ASSUME NEW j \in Sent, Count(j)
      PROVE events'[i].stage \in {"first", "later"} => events'[i].kind = "created"
  <2>1. events[j].stage # "unsent" /\ events[j].kind = "created"
    BY <1>3 DEF Count, Waiting
  <2>2. /\ \A k \in Sent : Same(k) /\ (k # j => events'[k] = events[k])
    BY <1>3, <2>1, StageEffect DEF Count
  <2>. QED BY <2>1, <2>2 DEF EventsFit, Same
<1>4. ASSUME NEW j \in Sent, Throw(j) \/ CutShort(j) \/ Applies(j)
      PROVE events'[i].stage \in {"first", "later"} => events'[i].kind = "created"
  <2>1. /\ events[j].stage # "unsent"
        /\ \E s \in {"FAILED", "PROCESSED", "PROCESSING"} : Stage(j, s)
    <3>1. CASE Throw(j) \/ CutShort(j)
      BY <3>1 DEF Throw, CutShort
    <3>2. CASE Applies(j)
      BY <3>2, ApplyEffect DEF Apply
    <3>. QED BY <1>4, <3>1, <3>2
  <2>2. /\ \A k \in Sent : Same(k) /\ (k # j => events'[k] = events[k])
        /\ events'[j].stage \in {"FAILED", "PROCESSED", "PROCESSING"}
    BY <2>1, StageEffect
  <2>. QED BY <2>2 DEF EventsFit
<1>5. ASSUME events' = events
      PROVE events'[i].stage \in {"first", "later"} => events'[i].kind = "created"
  BY <1>5 DEF EventsFit
<1>6. CASE \E q \in Requests : PatchMetadata(q)
  <2>1. events' = events
    BY <1>6 DEF PatchMetadata
  <2>. QED BY <1>2, <1>5, <2>1 DEF Same
<1>7. CASE /\ \A j \in Sent : Same(j)
           /\ ~Telling
           /\ \/ \E j \in Sent : Stages(j) \/ Applies(j)
              \/ events' = events
  BY <1>2, <1>3, <1>4, <1>5, <1>7 DEF Stages
<1>. QED BY ClerkStep, EventChange, <1>1, <1>6, <1>7

LEMMA RowKept ==
  ASSUME IInv, Next, NEW u \in Users, row[u] # NoRow
  PROVE  row'[u] # NoRow
BY RowStep

(* A request that is not the one served.                                   *)
LEMMA RequestKept ==
  ASSUME IInv, Next, NEW q \in Requests, req'[q] = req[q]
  PROVE  RequestFits(q)'
<1> TypeOK /\ RequestsFit
  BY DEF IInv
<1> USE DEF local, remote
<1> DEFINE u == req[q].on
<1> SUFFICES ASSUME req[q] # NoRequest
             PROVE  /\ row'[u] # NoRow
                    /\ req[q].at \in {"metadata", "role", "local"} => req[q].role \in granted'[u]
                    /\ req[q].at = "role" /\ clerk'[u].in /\ clerk'[u].hint = None
                         => Coarse(ClerkRole(req[q].role)) \subseteq granted'[u]
  BY DEF RequestFits, NoRequest
<1>1. u \in Users /\ req[q].role \in Assignable /\ row[u] # NoRow /\ RequestFits(q)
  BY RequestType DEF RequestsFit, RequestFits
<1>2. row'[u] # NoRow
  BY <1>1, RowKept
<1>3. req[q].at \in {"metadata", "role", "local"} => req[q].role \in granted'[u]
  BY <1>1, Granting DEF RequestFits
<1>4. ASSUME req[q].at = "role", clerk'[u].in, clerk'[u].hint = None
      PROVE  Coarse(ClerkRole(req[q].role)) \subseteq granted'[u]
  <2>1. CASE clerk[u].in /\ clerk[u].hint = None
    BY <1>1, <1>4, <2>1, Granting DEF RequestFits
  <2>2. CASE Joins(u)
    <3>1. Coarse(ClerkRole(req[q].role)) \subseteq Outliving(u)
      BY DEF Outliving, Serving
    <3>. QED BY <1>1, <2>2, <3>1, JoinTold
  <2>3. ASSUME ~Joins(u) PROVE clerk[u].in /\ clerk[u].hint = None
    <3>1. CASE clerk'[u] = clerk[u]
      BY <1>4, <3>1
    <3>2. ASSUME NEW w \in Users, Joins(w) PROVE clerk'[u] = clerk[u]
      <4>1. w # u
        BY <2>3, <3>2
      <4>2. PICK m : clerk' = [clerk EXCEPT ![w] = m]
        BY <3>2, JoinEffect DEF Join, Emit
      <4>. QED BY <1>1, <4>1, <4>2 DEF TypeOK
    <3>3. ASSUME NEW w \in Users, Changes(w) PROVE clerk[u].in /\ clerk[u].hint = None
      <4>1. PICK role \in {"org:admin", "org:member"} :
              clerk' = [clerk EXCEPT ![w] = [clerk[w] EXCEPT !.role = role]]
        BY <3>3 DEF Changes, ChangeInClerk, Emit
      <4>2. clerk'[u].in = clerk[u].in /\ clerk'[u].hint = clerk[u].hint
        BY <1>1, <4>1, MemberType DEF TypeOK, Member
      <4>. QED BY <1>4, <4>2
    <3>4. ASSUME \/ \E w \in Users : Leave(w)
                 \/ \E p \in Requests : DeleteMembership(p)
          PROVE  clerk'[u] = clerk[u]
      <4>1. PICK w : clerk' = [clerk EXCEPT ![w] = Absent]
        BY <3>4 DEF Leave, DeleteMembership, Emit
      <4>. QED BY <1>1, <1>4, <4>1 DEF TypeOK, Absent
    <3>5. ASSUME NEW p \in Requests, PatchRole(p) PROVE clerk[u].in /\ clerk[u].hint = None
      <4>1. PICK w, role : clerk' = [clerk EXCEPT ![w] = [clerk[w] EXCEPT !.role = role]]
        BY <3>5 DEF PatchRole, Emit
      <4>2. clerk'[u].in = clerk[u].in /\ clerk'[u].hint = clerk[u].hint
        BY <1>1, <4>1, MemberType DEF TypeOK, Member
      <4>. QED BY <1>4, <4>2
    <3>6. ASSUME NEW p \in Requests, PatchMetadata(p) PROVE clerk'[u] = clerk[u]
      <4>1. req[p] # NoRequest
        BY <3>6 DEF PatchMetadata, NoRequest
      <4>2. req[p].role # None
        BY <4>1, RequestType, MembershipAssumption DEF Assignable, Role
      <4>3. clerk' = [clerk EXCEPT ![req[p].on] = [clerk[req[p].on] EXCEPT !.hint = req[p].role]]
        BY <3>6 DEF PatchMetadata
      <4>4. CASE u = req[p].on
        <5>1. clerk'[u].hint = req[p].role
          BY <1>1, <4>3, <4>4, MemberType DEF TypeOK, Member
        <5>. QED BY <1>4, <4>2, <5>1
      <4>5. CASE u # req[p].on
        BY <1>1, <4>3, <4>5 DEF TypeOK
      <4>. QED BY <4>4, <4>5
    <3>7. CASE \/ \E i \in Sent : Stages(i) \/ Applies(i)
               \/ \E p \in Requests, w \in Users : Begins(p, w)
               \/ \E p \in Requests : GiveUp(p) \/ WriteRow(p)
               \/ SyncNext \/ Elsewhere
      <4>1. clerk' = clerk
        BY <3>7 DEF Stages, Throw, Count, CutShort, Applies, OnMembershipCreated, OnMembershipUpdated,
           OnMembershipDeleted, Apply, Begins, Remove, UpdateRole, Begin, GiveUp, WriteRow, SyncNext,
           SyncOrganizations, SyncUsers, SyncMemberships, SyncMembership, Elsewhere, DeleteOrg,
           OnOrganizationCreated, OnOrganizationDeleted, OnUserUpserted, Invite
      <4>. QED BY <3>1, <4>1
    <3>. QED BY Steps, <3>1, <3>2, <3>3, <3>4, <3>5, <3>6, <3>7 DEF Patches
  <2>. QED BY <2>1, <2>2, <2>3
<1>. QED BY <1>2, <1>3, <1>4

LEMMA RequestsStep == ASSUME IInv, Next PROVE RequestsFit'
<1> TypeOK /\ RequestsFit
  BY DEF IInv
<1> USE DEF local, remote
<1>1. ASSUME NEW q \in Requests, NEW u \in Users, Begins(q, u) PROVE RequestFits(q)'
  <2>1. PICK what \in {"update", "remove"}, role \in Assignable :
          /\ Begin(q, u, what, role)
          /\ what = "update" => Grant(u, {role})
    BY <1>1, MembershipAssumption DEF Begins, Remove, UpdateRole, Assignable
  <2>2. req'[q] = [at |-> Following[what], on |-> u, role |-> role] /\ row[u] # NoRow
    BY <2>1 DEF Begin, TypeOK
  <2>3. req'[q].at # "role" /\ (what = "remove" => req'[q].at = "delete")
    BY <2>2 DEF Following
  <2>4. what = "update" => role \in granted'[u]
    <3>1. {role} \in SUBSET Role
      BY DEF Assignable, Role
    <3>. QED BY <2>1, <3>1, GrantType
  <2>5. row'[u] # NoRow
    BY <2>2, RowKept
  <2>. QED BY <2>2, <2>3, <2>4, <2>5 DEF RequestFits
<1>2. ASSUME NEW q \in Requests, Patches(q) PROVE RequestFits(q)'
  <2> DEFINE u == req[q].on
  <2>1. req[q] # NoRequest /\ req[q].at \in {"metadata", "role", "delete"} /\ Answered(q)
    BY <1>2 DEF Patches, PatchMetadata, PatchRole, DeleteMembership, NoRequest
  <2>2. /\ u \in Users /\ req[q].role \in Assignable /\ req[q] \in Request
        /\ row[u] # NoRow
        /\ req[q].at # "delete" => req[q].role \in granted[u]
    BY <2>1, RequestType DEF RequestsFit, RequestFits
  <2>3. CASE req'[q] = NoRequest
    BY <2>3 DEF RequestFits
  <2>4. CASE Goto(q, Following[req[q].at])
    <3>1. /\ req'[q].on = u /\ req'[q].role = req[q].role
          /\ req'[q].at = Following[req[q].at]
      BY <2>2, <2>4 DEF Goto, TypeOK, Request
    <3>2. req'[q].at \in {"role", "local"} => req'[q].role \in granted'[u]
      BY <2>1, <2>2, <3>1, Granting DEF Following
    <3>3. req'[q].at # "metadata" /\ (req'[q].at = "role" => PatchMetadata(q))
      BY <1>2, <2>1, <3>1 DEF Following, Patches, PatchRole, DeleteMembership
    <3>4. PatchMetadata(q) => clerk'[u].hint # None
      <4>1. PatchMetadata(q) => clerk' = [clerk EXCEPT ![u] = [clerk[u] EXCEPT !.hint = req[q].role]]
        BY DEF PatchMetadata
      <4>2. PatchMetadata(q) => clerk'[u].hint = req[q].role
        BY <2>2, <4>1, MemberType DEF TypeOK, Member
      <4>. QED BY <2>2, <4>2, MembershipAssumption DEF Assignable, Role
    <3>5. row'[u] # NoRow
      BY <2>2, RowKept
    <3>. QED BY <3>1, <3>2, <3>3, <3>4, <3>5 DEF RequestFits
  <2>. QED BY <2>1, <2>3, <2>4 DEF Answered, End, TypeOK
<1>3. ASSUME NEW q \in Requests, GiveUp(q) \/ WriteRow(q) PROVE RequestFits(q)'
  <2>1. req'[q] = NoRequest
    BY <1>3 DEF GiveUp, WriteRow, End, TypeOK
  <2>. QED BY <2>1 DEF RequestFits
<1>4. ASSUME NEW q \in Requests,
             ~(\E u \in Users : Begins(q, u)), ~(Patches(q) \/ GiveUp(q) \/ WriteRow(q))
      PROVE  req'[q] = req[q]
  <2>1. ASSUME NEW p \in Requests, p # q,
               (\E u \in Users : Begins(p, u)) \/ Patches(p) \/ GiveUp(p) \/ WriteRow(p)
        PROVE  req'[q] = req[q]
    BY <2>1 DEF Begins, Remove, UpdateRole, Begin, Patches, PatchMetadata, PatchRole, DeleteMembership,
         Answered, Goto, End, GiveUp, WriteRow, TypeOK
  <2>2. CASE \/ \E u \in Users : Joins(u) \/ Changes(u) \/ Leave(u)
             \/ \E i \in Sent : Stages(i) \/ Applies(i)
             \/ SyncNext \/ Elsewhere
    BY <2>2 DEF Joins, Accept, AddInClerk, Join, Changes, ChangeInClerk, Leave, Stages, Throw, Count, CutShort,
       Applies, OnMembershipCreated, OnMembershipUpdated, OnMembershipDeleted, Apply, SyncNext,
       SyncOrganizations, SyncUsers, SyncMemberships, SyncMembership, Elsewhere, DeleteOrg,
       OnOrganizationCreated, OnOrganizationDeleted, OnUserUpserted, Invite
  <2>. QED BY Steps, <1>4, <2>1, <2>2
<1>. QED BY <1>1, <1>2, <1>3, <1>4, RequestKept DEF RequestsFit

LEMMA ListStep == ASSUME IInv, Next PROVE ListFits'
<1> TypeOK /\ ListFits /\ ClerkFits
  BY DEF IInv
<1> USE DEF local, remote
<1>1. CASE sync' = sync
  <2>1. \A u \in sync.todo : u \in Users
    BY DEF TypeOK, Sync
  <2>. QED BY <1>1, <2>1, Granting, FitsGrows DEF ListFits
<1>2. CASE SyncOrganizations \/ SyncUsers
  <2>1. sync'.at # "members"
    BY <1>2 DEF SyncOrganizations, SyncUsers, TypeOK, Sync
  <2>. QED BY <2>1 DEF ListFits
<1>3. CASE SyncMemberships
  <2>1. /\ sync'.list = clerk
        /\ sync'.todo = {Creator} \union {u \in Users : clerk[u].in}
    BY <1>3 DEF SyncMemberships
  <2>. QED BY <2>1, Granting, FitsGrows DEF ListFits, ClerkFits
<1>4. ASSUME NEW u \in Users, SyncMembership(u) PROVE ListFits'
  <2>1. CASE sync' = Asleep
    BY <2>1 DEF ListFits, Asleep
  <2>2. CASE sync' = [sync EXCEPT !.todo = @ \ {u}]
    <3>1. sync'.at = sync.at /\ sync'.list = sync.list /\ sync'.todo \subseteq sync.todo
      BY <2>2 DEF TypeOK, Sync
    <3>2. \A w \in sync.todo : w \in Users
      BY DEF TypeOK, Sync
    <3>. QED BY <3>1, <3>2, Granting, FitsGrows DEF ListFits
  <2>. QED BY <1>4, <2>1, <2>2 DEF SyncMembership
<1>5. CASE \/ \E u \in Users : Joins(u) \/ Changes(u) \/ Leave(u)
           \/ \E i \in Sent : Stages(i) \/ Applies(i)
           \/ \E q \in Requests, u \in Users : Begins(q, u)
           \/ \E q \in Requests : Patches(q) \/ GiveUp(q) \/ WriteRow(q)
           \/ Elsewhere
  <2>1. sync' = sync
    BY <1>5 DEF Joins, Accept, AddInClerk, Join, Changes, ChangeInClerk, Leave, Stages, Throw, Count, CutShort,
       Applies, OnMembershipCreated, OnMembershipUpdated, OnMembershipDeleted, Apply,
       Begins, Remove, UpdateRole, Begin, Patches, PatchMetadata, PatchRole, DeleteMembership, GiveUp,
       WriteRow, Elsewhere, DeleteOrg, OnOrganizationCreated, OnOrganizationDeleted, OnUserUpserted, Invite
  <2>. QED BY <1>1, <2>1
<1>. QED BY Steps, <1>2, <1>3, <1>4, <1>5 DEF SyncNext

LEMMA CreatorStep == ASSUME IInv, Next PROVE CreatorGranted'
BY Granting, MembershipAssumption DEF IInv, CreatorGranted

LEMMA RecordStep == ASSUME IInv, Next PROVE CreatedIsRecorded'
<1> TypeOK /\ CreatedIsRecorded
  BY DEF IInv
<1> SUFFICES ASSUME NEW i \in Sent, events'[i].kind = "created", events'[i].stage = "PROCESSED"
             PROVE  row'[events'[i].user] # NoRow
  BY DEF CreatedIsRecorded
<1>1. CASE events'[i] = events[i]
  <2>1. events[i].user \in Users
    BY <1>1, EventType
  <2>. QED BY <1>1, <2>1, RowKept DEF CreatedIsRecorded
<1>2. CASE Telling
  <2>1. PICK u \in Users, kind \in {"created", "updated", "deleted"}, m \in Member : Told(u, kind, m)
    BY <1>2 DEF Telling
  <2>2. events'[i] = events[i] \/ events'[i].stage = "sent"
    BY <2>1 DEF Told, Emit, TypeOK
  <2>. QED BY <1>1, <2>2
<1>3. ASSUME NEW j \in Sent, Stages(j) PROVE events'[i] = events[i]
  <2>1. /\ events[j].stage # "unsent"
        /\ \E s \in {"FAILED", "PROCESSING", "first", "later"} : Stage(j, s)
    BY <1>3 DEF Stages, Throw, Count, CutShort, Waiting
  <2>. QED BY <2>1, StageEffect
<1>4. ASSUME NEW j \in Sent, Applies(j) PROVE row'[events'[i].user] # NoRow
  <2>1. PICK r \in Row :
          /\ events[j].stage # "unsent" /\ Apply(j, r)
          /\ events[j].kind = "created" => r # NoRow
    BY <1>4, ApplyEffect
  <2>2. Same(i) /\ (i # j => events'[i] = events[i])
    BY <2>1, StageEffect DEF Apply
  <2>3. CASE i = j
    <3>1. row' = [row EXCEPT ![events[j].user] = r] /\ r # NoRow
      BY <2>1, <2>2, <2>3 DEF Apply, Same
    <3>2. events'[i].user = events[j].user /\ events[j].user \in Users
      BY <2>1, <2>2, <2>3, EventType DEF Same
    <3>. QED BY <3>1, <3>2 DEF TypeOK
  <2>. QED BY <1>1, <2>2, <2>3
<1>. QED BY EventChange, <1>1, <1>2, <1>3, <1>4

LEMMA NextIInv == ASSUME IInv, Next PROVE IInv'
BY TypeStep, RowsStep, RecordStep, EventsStep, MembersStep, RequestsStep, ListStep, CreatorStep DEF IInv

LEMMA StutterIInv == ASSUME IInv, UNCHANGED vars PROVE IInv'
BY DEF IInv, vars, TypeOK, OnlyGrantedRoles, CreatedIsRecorded, EventsFit, ClerkFits, RequestsFit,
       RequestFits, ListFits, CreatorGranted, Fits

(* Nothing that leads to a row carries a role that was not granted, for    *)
(* any number of users, requests, events and failures.                     *)
THEOREM Invariance == Spec => []IInv
<1>1. IInv /\ [Next]_vars => IInv'
  BY NextIInv, StutterIInv
<1>. QED BY InitIInv, <1>1, PTL DEF Spec

(* Both copies of the members, the events and the requests keep their      *)
(* types.                                                                  *)
THEOREM TypeCorrect == Spec => []TypeOK
<1>1. IInv => TypeOK
  BY DEF IInv
<1>. QED BY Invariance, <1>1, PTL

(* No member's row ever holds a role nobody gave him, whatever the order   *)
(* of the webhooks, of the calls of updateRole and of the sync script.     *)
THEOREM OnlyGranted == Spec => []OnlyGrantedRoles
<1>1. IInv => OnlyGrantedRoles
  BY DEF IInv
<1>. QED BY Invariance, <1>1, PTL

(* A PROCESSED organizationMembership.created left a row.                  *)
THEOREM Recorded == Spec => []CreatedIsRecorded
<1>1. IInv => CreatedIsRecorded
  BY DEF IInv
<1>. QED BY Invariance, <1>1, PTL

(* A canceled workspace stays canceled: its upserts only create.           *)
THEOREM Canceled == Spec => CanceledForGood
<1> USE DEF local, remote
<1>1. ASSUME Next, tenant = "CANCELED" PROVE tenant' = "CANCELED"
  BY <1>1, Steps
     DEF Joins, Accept, AddInClerk, Join, Changes, ChangeInClerk, Leave, Stages, Throw, Count, CutShort,
         Applies, OnMembershipCreated, OnMembershipUpdated, OnMembershipDeleted, Apply,
         Begins, Remove, UpdateRole, Begin, Patches, PatchMetadata, PatchRole, DeleteMembership,
         GiveUp, WriteRow, SyncNext, SyncOrganizations, SyncUsers, SyncMemberships, SyncMembership,
         UpsertedTenant, Elsewhere, DeleteOrg, OnOrganizationCreated, OnOrganizationDeleted,
         OnUserUpserted, Invite
<1>2. [Next]_vars => [tenant = "CANCELED" => tenant' = "CANCELED"]_vars
  BY <1>1
<1>. QED BY <1>2, PTL DEF Spec, CanceledForGood

(* A removed member is let in again by a created membership or by the      *)
(* script only.                                                            *)
THEOREM NotResurrected == Spec => NoResurrection
<1> DEFINE Allowed ==
      \A u \in Users :
        row[u].status = "REMOVED" /\ row'[u].status = "ACTIVE" =>
          \/ sync' # sync
          \/ \E i \in Sent : /\ events[i].user = u /\ events[i].kind = "created"
                             /\ events[i].stage \in {"first", "later"}
                             /\ events'[i].stage \in {"FAILED", "PROCESSED", "PROCESSING"}
<1>1. ASSUME IInv, Next PROVE Allowed
  <2> TypeOK /\ RequestsFit
    BY <1>1 DEF IInv
  <2> USE DEF local, remote
  <2> SUFFICES ASSUME NEW u \in Users, row[u].status = "REMOVED", row'[u].status = "ACTIVE", sync' = sync
               PROVE  \E i \in Sent : /\ events[i].user = u /\ events[i].kind = "created"
                                      /\ events[i].stage \in {"first", "later"}
                                      /\ events'[i].stage \in {"FAILED", "PROCESSED", "PROCESSING"}
    OBVIOUS
  <2>1. row'[u] # row[u]
    OBVIOUS
  <2>2. ASSUME NEW i \in Sent, Applies(i)
        PROVE  /\ events[i].user = u /\ events[i].kind = "created"
               /\ events[i].stage \in {"first", "later"}
               /\ events'[i].stage \in {"FAILED", "PROCESSED", "PROCESSING"}
    <3>1. PICK r \in Row :
            /\ events[i].stage # "unsent" /\ Apply(i, r)
            /\ events[i].kind # "created" => (r.status = "ACTIVE" => row[events[i].user].status = "ACTIVE")
      BY <1>1, <2>2, ApplyEffect
    <3>2. events[i].user = u /\ row'[u] = r
      BY <2>1, <3>1 DEF Apply, TypeOK
    <3>3. events[i].kind = "created"
      BY <3>1, <3>2
    <3>4. OnMembershipCreated(i)
      BY <2>2, <3>3 DEF Applies, OnMembershipUpdated, OnMembershipDeleted, Waiting
    <3>5. events'[i].stage \in {"FAILED", "PROCESSED", "PROCESSING"}
      BY <3>1, StageEffect DEF Apply
    <3>. QED BY <3>2, <3>3, <3>4, <3>5 DEF OnMembershipCreated
  <2>3. ASSUME NEW q \in Requests, WriteRow(q) PROVE FALSE
    <3>1. req[q].on = u
      BY <2>1, <2>3 DEF WriteRow, TypeOK
    <3>2. row[u] # NoRow
      BY DEF NoRow
    <3>3. row[u] \in [status : {"ACTIVE", "REMOVED"}, role : Role]
      BY <3>2, RowType
    <3>4. \/ row'[u] = [row[u] EXCEPT !.role = req[q].role]
          \/ row'[u] = [row[u] EXCEPT !.status = "REMOVED"]
      BY <2>3, <3>1 DEF WriteRow, TypeOK
    <3>. QED BY <3>3, <3>4
  <2>4. ASSUME NEW w \in Users, SyncMembership(w) PROVE FALSE
    <3>1. sync.at = "members" /\ w \in sync.todo
      BY <2>4 DEF SyncMembership
    <3>2. CASE sync' = Asleep
      BY <3>1, <3>2 DEF Asleep
    <3>3. CASE sync' = [sync EXCEPT !.todo = @ \ {w}]
      BY <3>1, <3>3 DEF TypeOK, Sync
    <3>. QED BY <2>4, <3>2, <3>3 DEF SyncMembership
  <2>5. CASE \/ \E w \in Users : Joins(w) \/ Changes(w) \/ Leave(w)
             \/ \E i \in Sent : Stages(i)
             \/ \E q \in Requests, w \in Users : Begins(q, w)
             \/ \E q \in Requests : Patches(q) \/ GiveUp(q)
             \/ SyncOrganizations \/ SyncUsers \/ SyncMemberships \/ Elsewhere
    <3>1. row' = row
      BY <2>5 DEF Joins, Accept, AddInClerk, Join, Changes, ChangeInClerk, Leave, Stages, Throw, Count, CutShort,
         Begins, Remove, UpdateRole, Begin, Patches, PatchMetadata, PatchRole, DeleteMembership, GiveUp,
         SyncOrganizations, SyncUsers, SyncMemberships,
         Elsewhere, DeleteOrg, OnOrganizationCreated, OnOrganizationDeleted, OnUserUpserted, Invite
    <3>. QED BY <2>1, <3>1
  <2>. QED BY Steps, <1>1, <2>2, <2>3, <2>4, <2>5 DEF SyncNext
<1>2. IInv /\ [Next]_vars => [Allowed]_vars
  BY <1>1
<1>. QED BY <1>2, Invariance, PTL DEF Spec, NoResurrection
=============================================================================
