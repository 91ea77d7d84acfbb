------------------------ MODULE MembershipAgreement ------------------------
(***************************************************************************)
(* Proofs about Membership that Clerk's copy and the rows agree when       *)
(* nothing overtook, for any number of users, of requests served at a      *)
(* time, of events and of failures.                                        *)
(*                                                                         *)
(* The events tell a user's story in Clerk (Stories), his last one how it  *)
(* stands there (Told).  A row follows the story as far as it is           *)
(* PROCESSED: its status answers the last created or deleted event         *)
(* (StatusFollows, RemovalFollows) and, once the last event is PROCESSED,  *)
(* its role answers that event (RoleFollows).  A request for the user may  *)
(* be ahead of the story in between, at Clerk before it sent its event, or *)
(* at the row before the event arrived: Ahead says by how much.            *)
(***************************************************************************)
EXTENDS MembershipProofs

Of(i, u) == events[i].user = u
Joined   == {"created", "updated"}

(* The last event of u is i.                                               *)
Last(i, u) == Of(i, u) /\ \A j \in Sent : Of(j, u) => j =< i

(* No membership of u ended after event i, or none began.                  *)
StillIn(i, u)  == \A j \in Sent : Of(j, u) /\ j > i => events[j].kind # "deleted"
StillOut(i, u) == \A j \in Sent : Of(j, u) /\ j > i => events[j].kind = "deleted"

(* Events beyond sent are empty; an updated membership was created before  *)
(* and not deleted meanwhile.                                              *)
Stories ==
  /\ \A j \in Sent : j > sent => events[j] = NoEvent
  /\ \A i \in Sent : events[i].kind = "updated" =>
       \E p \in Sent : /\ p < i /\ Of(p, events[i].user) /\ events[p].kind = "created"
                       /\ \A j \in Sent : Of(j, events[i].user) /\ p < j /\ j =< i
                            => events[j].kind # "deleted"

(* Who is in Clerk was created and not deleted since; who is out was never *)
(* in, or deleted and not created since.                                   *)
ClerkTold(u) ==
  IF clerk[u].in
  THEN \E p \in Sent : Of(p, u) /\ events[p].kind = "created" /\ StillIn(p, u)
  ELSE \/ \A j \in Sent : ~Of(j, u)
       \/ \E p \in Sent : Of(p, u) /\ events[p].kind = "deleted" /\ StillOut(p, u)

(* The last event tells what Clerk holds, but for the hint of a request    *)
(* that has not changed the role yet.                                      *)
LastTold(u) ==
  clean[u] /\ clerk[u].in =>
    \E i \in Sent :
      /\ Last(i, u) /\ events[i].kind \in Joined /\ events[i].role = clerk[u].role
      /\ events[i].hint = clerk[u].hint \/ \E q \in Serving(u) : req[q].at = "role"

(* What a request under way has done already.                              *)
Ahead(u) ==
  clean[u] => \A q \in Serving(u) :
    /\ \A p \in Serving(u) : p = q
    /\ row[u] # NoRow
    /\ req[q].at \in {"role", "local"} /\ clerk[u].in => clerk[u].hint = req[q].role
    /\ req[q].at = "mark" => ~clerk[u].in

(* A row comes from a created membership.                                  *)
RowFollows(u) ==
  /\ row[u] # NoRow => tenant # "none" /\ u \in known
  /\ clean[u] /\ row[u] # NoRow => \E i \in Sent : Of(i, u)

StatusFollows(u) ==
  clean[u] => \A i \in Sent : Of(i, u) /\ events[i].kind \in Joined /\ events[i].stage = "PROCESSED" =>
    row[u].status = "ACTIVE" \/ ~StillIn(i, u)

RemovalFollows(u) ==
  clean[u] => \A i \in Sent : Of(i, u) /\ events[i].kind = "deleted" /\ events[i].stage = "PROCESSED" =>
    row[u].status # "ACTIVE" \/ \E j \in Sent : Of(j, u) /\ j > i /\ events[j].kind = "created"

(* The roles a membership in Clerk stands for.                             *)
Meant(role, hint) == IF hint = None THEN Coarse(role) ELSE {hint}

RoleFollows(u) ==
  clean[u] => \A i \in Sent : Last(i, u) /\ events[i].kind \in Joined /\ events[i].stage = "PROCESSED" =>
    row[u].role \in Meant(events[i].role, events[i].hint)

(* What was resolved when it was counted or listed still is.               *)
Prepared ==
  /\ \A i \in Sent : events[i].stage \in {"first", "later"} => Resolved(i)
  /\ sync.at \in {"list", "members"} => tenant # "none" /\ known = Users

UserFits(u) == /\ ClerkTold(u) /\ LastTold(u) /\ Ahead(u) /\ RowFollows(u)
               /\ StatusFollows(u) /\ RemovalFollows(u) /\ RoleFollows(u)

AgreementInv == IInv /\ Stories /\ Prepared /\ \A u \in Users : UserFits(u)
-----------------------------------------------------------------------------
(* Frames.                                                                 *)
LEMMA Numbers ==
  /\ MaxEvents \in Nat /\ Sent = 1 .. MaxEvents /\ \A i \in Sent : i \in Nat
  /\ None \notin Users /\ Creator \in Users
BY MembershipAssumption DEF Sent

LEMMA DoubtEffect ==
  ASSUME TypeOK, NEW v \in Users, NEW doubt, Doubt(v, doubt)
  PROVE  \A u \in Users : clean'[u] => clean[u] /\ (u = v => ~doubt)
BY DEF TypeOK, Doubt

(* An event of u is the same but for its stage, and not just PROCESSED.    *)
Kept(j, u) == Of(j, u) \/ Of(j, u)' =>
  Same(j) /\ (events'[j].stage = "PROCESSED" => events[j].stage = "PROCESSED")

LEMMA KeptStory ==
  ASSUME NEW u, \A j \in Sent : Kept(j, u)
  PROVE  \A i \in Sent : /\ Of(i, u)' <=> Of(i, u)
                         /\ Last(i, u)' <=> Last(i, u)
                         /\ StillIn(i, u)' <=> StillIn(i, u)
                         /\ StillOut(i, u)' <=> StillOut(i, u)
<1>1. \A i \in Sent : Of(i, u)' <=> Of(i, u)
  BY DEF Kept, Of, Same
<1>2. \A i \in Sent : Of(i, u) => events'[i].kind = events[i].kind
  BY DEF Kept, Same
<1>. QED BY <1>1, <1>2 DEF Last, StillIn, StillOut

(* A step that leaves u's events, his place in Clerk, his row and the      *)
(* requests for him alone.                                                 *)
LEMMA Untouched ==
  ASSUME AgreementInv, NEW u \in Users,
         clerk'[u] = clerk[u], row'[u] = row[u], clean'[u] => clean[u],
         \A q \in Requests : req'[q].on = u \/ req[q].on = u => req'[q] = req[q],
         \A j \in Sent : Kept(j, u),
         tenant # "none" => tenant' # "none", known \subseteq known'
  PROVE  UserFits(u)'
<1>1. UserFits(u)
  BY DEF AgreementInv
<1>2. \A i \in Sent : /\ Of(i, u)' <=> Of(i, u)
                      /\ Last(i, u)' <=> Last(i, u)
                      /\ StillIn(i, u)' <=> StillIn(i, u)
                      /\ StillOut(i, u)' <=> StillOut(i, u)
  BY KeptStory
<1>3. \A i \in Sent : Of(i, u) => /\ Same(i)
                                  /\ events'[i].stage = "PROCESSED" => events[i].stage = "PROCESSED"
  BY DEF Kept
<1>4. Serving(u)' = Serving(u) /\ \A q \in Serving(u) : req'[q] = req[q]
  BY DEF Serving
<1>5. ClerkTold(u)'
  BY <1>1, <1>2, <1>3 DEF UserFits, ClerkTold, Same
<1>6. LastTold(u)'
  BY <1>1, <1>2, <1>3, <1>4 DEF UserFits, LastTold, Last, Same
<1>7. Ahead(u)'
  BY <1>1, <1>4 DEF UserFits, Ahead
<1>8. RowFollows(u)'
  BY <1>1, <1>2 DEF UserFits, RowFollows
<1>9. StatusFollows(u)'
  BY <1>1, <1>2, <1>3 DEF UserFits, StatusFollows, Same
<1>10. RemovalFollows(u)'
  BY <1>1, <1>2, <1>3 DEF UserFits, RemovalFollows, Same
<1>11. RoleFollows(u)'
  BY <1>1, <1>2, <1>3 DEF UserFits, RoleFollows, Last, Same
<1>. QED BY <1>5, <1>6, <1>7, <1>8, <1>9, <1>10, <1>11 DEF UserFits

(* A step that sends no event leaves the stories alone.                    *)
LEMMA StoriesKept ==
  ASSUME Stories, sent' = sent, \A j \in Sent : Same(j) /\ (j > sent => events'[j] = events[j])
  PROVE  Stories'
<1>1. \A j \in Sent : j > sent' => events'[j] = NoEvent
  BY DEF Stories
<1>2. ASSUME NEW i \in Sent, events'[i].kind = "updated"
      PROVE  \E p \in Sent : /\ p < i /\ Of(p, events[i].user)' /\ events'[p].kind = "created"
                             /\ \A j \in Sent : Of(j, events[i].user)' /\ p < j /\ j =< i
                                  => events'[j].kind # "deleted"
  BY <1>2 DEF Stories, Of, Same
<1>. QED BY <1>1, <1>2 DEF Stories, Of

LEMMA InitAgreement == Init => AgreementInv
<1> SUFFICES ASSUME Init PROVE AgreementInv
  OBVIOUS
<1>1. IInv
  BY InitIInv
<1>2. 1 \in Sent
  BY MembershipAssumption DEF Sent
<1>3. /\ events[1] = [kind |-> "created", user |-> Creator, role |-> "org:admin",
                      hint |-> None, stage |-> "sent"]
      /\ \A j \in Sent : j # 1 => events[j] = NoEvent
      /\ sent = 1
  BY <1>2 DEF Init
<1>4. \A j \in Sent, u \in Users : Of(j, u) <=> j = 1 /\ u = Creator
  BY <1>2, <1>3, Numbers DEF Of, NoEvent
<1>5. Stories
  BY <1>2, <1>3, Numbers DEF Stories, NoEvent
<1>6. Prepared
  BY <1>3 DEF Init, Prepared, Asleep, NoEvent
<1>7. ASSUME NEW u \in Users PROVE UserFits(u)
  <2>1. row[u] = NoRow /\ Serving(u) = {}
    BY <1>7, Numbers DEF Init, Serving, NoRequest
  <2>2. clerk[u].in <=> u = Creator
    BY DEF Init, Absent
  <2>3. clerk[Creator].role = "org:admin" /\ clerk[Creator].hint = None
    BY Numbers DEF Init, Absent
  <2>4. \A i \in Sent : Of(i, u) => events[i].kind = "created" /\ events[i].stage = "sent"
    BY <1>3, <1>4
  <2>5. u = Creator => Last(1, u) /\ StillIn(1, u)
    BY <1>2, <1>4, Numbers DEF Last, StillIn
  <2>6. ClerkTold(u)
    BY <1>2, <1>3, <1>4, <2>2, <2>5 DEF ClerkTold
  <2>7. LastTold(u)
    BY <1>2, <1>3, <2>2, <2>3, <2>5 DEF LastTold, Joined
  <2>8. Ahead(u) /\ RowFollows(u)
    BY <2>1 DEF Ahead, RowFollows
  <2>9. StatusFollows(u) /\ RemovalFollows(u) /\ RoleFollows(u)
    BY <2>4 DEF StatusFollows, RemovalFollows, RoleFollows, Last
  <2>. QED BY <2>6, <2>7, <2>8, <2>9 DEF UserFits
<1>. QED BY <1>1, <1>5, <1>6, <1>7 DEF AgreementInv
-----------------------------------------------------------------------------
(* An event is sent.                                                       *)
LEMMA EmitStory ==
  ASSUME AgreementInv, NEW v \in Users, NEW kind, NEW m, Emit(v, kind, m)
  PROVE  \E n \in Sent :
           /\ n = sent + 1 /\ sent' = n
           /\ events'[n] = [kind |-> kind, user |-> v, role |-> m.role, hint |-> m.hint, stage |-> "sent"]
           /\ \A j \in Sent : /\ j # n => events'[j] = events[j]
                              /\ events[j] # NoEvent => j < n
           /\ \A u \in Users : \A j \in Sent : /\ Of(j, u) => j < n
                                               /\ u # v => Kept(j, u)
           /\ \A j \in Sent : /\ Of(j, v)' <=> Of(j, v) \/ j = n
                              /\ Last(j, v)' <=> j = n
<1>1. TypeOK /\ Stories
  BY DEF AgreementInv, IInv
<1>2. sent \in Nat /\ sent + 1 \in Sent
  BY <1>1, Numbers DEF TypeOK, Emit
<1>3. PICK n \in Sent : n = sent + 1
  BY <1>2
<1>4. events'[n] = [kind |-> kind, user |-> v, role |-> m.role, hint |-> m.hint, stage |-> "sent"]
  BY <1>1, <1>3 DEF Emit, TypeOK
<1>5. \A j \in Sent : j # n => events'[j] = events[j]
  BY <1>1, <1>3 DEF Emit, TypeOK
<1>6. \A j \in Sent : events[j] # NoEvent => j < n
  BY <1>1, <1>2, <1>3, Numbers DEF Stories
<1>7. \A u \in Users : \A j \in Sent : Of(j, u) => j < n
  BY <1>6, Numbers DEF Of, NoEvent
<1>8. \A j \in Sent : Of(j, v)' <=> Of(j, v) \/ j = n
  BY <1>4, <1>5 DEF Of
<1>9. \A j \in Sent : Last(j, v)' <=> j = n
  BY <1>3, <1>7, <1>8, Numbers DEF Last
<1>10. \A u \in Users : \A j \in Sent : u # v => Kept(j, u)
  <2>1. n \in Nat
    BY Numbers
  <2>2. \A u \in Users : u # v => ~Of(n, u) /\ ~Of(n, u)'
    BY <1>4, <1>7, <2>1 DEF Of
  <2>. QED BY <1>5, <2>2 DEF Kept, Same
<1>. QED BY <1>3, <1>4, <1>5, <1>6, <1>7, <1>8, <1>9, <1>10 DEF Emit

LEMMA SendStories ==
  ASSUME AgreementInv, NEW v \in Users, NEW kind, NEW m, Emit(v, kind, m),
         kind = "updated" => clerk[v].in
  PROVE  Stories'
<1>1. PICK n \in Sent :
           /\ n = sent + 1 /\ sent' = n
           /\ events'[n] = [kind |-> kind, user |-> v, role |-> m.role, hint |-> m.hint, stage |-> "sent"]
           /\ \A j \in Sent : /\ j # n => events'[j] = events[j]
                              /\ events[j] # NoEvent => j < n
           /\ \A u \in Users : \A j \in Sent : Of(j, u) => j < n
           /\ \A j \in Sent : Of(j, v)' <=> Of(j, v) \/ j = n
  BY EmitStory
<1>2. Stories /\ ClerkTold(v) /\ sent \in Nat
  BY Numbers DEF AgreementInv, UserFits, IInv, TypeOK
<1>3. \A j \in Sent : j > sent' => events'[j] = NoEvent
  BY <1>1, <1>2, Numbers DEF Stories
<1>4. ASSUME NEW i \in Sent, i # n, events'[i].kind = "updated"
      PROVE  \E p \in Sent : /\ p < i /\ Of(p, events[i].user)' /\ events'[p].kind = "created"
                             /\ \A j \in Sent : Of(j, events[i].user)' /\ p < j /\ j =< i
                                  => events'[j].kind # "deleted"
  <2>1. events[i].kind = "updated" /\ events'[i] = events[i] /\ i < n
    BY <1>1, <1>4 DEF NoEvent
  <2>2. PICK p \in Sent : /\ p < i /\ Of(p, events[i].user) /\ events[p].kind = "created"
                          /\ \A j \in Sent : Of(j, events[i].user) /\ p < j /\ j =< i
                               => events[j].kind # "deleted"
    BY <1>2, <2>1 DEF Stories
  <2>3. \A j \in Sent : j =< i => j # n /\ events'[j] = events[j]
    BY <1>1, <2>1, Numbers
  <2>. QED BY <2>1, <2>2, <2>3, Numbers DEF Of
<1>5. ASSUME kind = "updated"
      PROVE  \E p \in Sent : /\ p < n /\ Of(p, v)' /\ events'[p].kind = "created"
                             /\ \A j \in Sent : Of(j, v)' /\ p < j /\ j =< n
                                  => events'[j].kind # "deleted"
  <2>1. PICK p \in Sent : Of(p, v) /\ events[p].kind = "created" /\ StillIn(p, v)
    BY <1>2, <1>5 DEF ClerkTold
  <2>2. p < n /\ p # n
    BY <1>1, <2>1, Numbers
  <2>. QED BY <1>1, <1>5, <2>1, <2>2 DEF StillIn
<1>6. events'[n].user = v /\ events'[n].kind = kind
  BY <1>1
<1>. QED BY <1>3, <1>4, <1>5, <1>6 DEF Stories, Of

LEMMA SendFits ==
  ASSUME AgreementInv, NEW v \in Users, NEW kind, NEW m, Emit(v, kind, m),
         UNCHANGED <<row, tenant, known>>,
         IF m.in THEN kind = "created" \/ (kind = "updated" /\ clerk[v].in) ELSE kind = "deleted",
         clean'[v] => clean[v], Ahead(v)'
  PROVE  UserFits(v)'
<1>1. PICK n \in Sent :
           /\ events'[n] = [kind |-> kind, user |-> v, role |-> m.role, hint |-> m.hint, stage |-> "sent"]
           /\ \A j \in Sent : j # n => events'[j] = events[j]
           /\ \A j \in Sent : Of(j, v) => j < n
           /\ \A j \in Sent : /\ Of(j, v)' <=> Of(j, v) \/ j = n
                              /\ Last(j, v)' <=> j = n
  BY EmitStory
<1>2. UserFits(v) /\ clerk'[v] = m
  BY DEF AgreementInv, IInv, TypeOK, Emit
<1>3. \A i \in Sent : Of(i, v) => /\ Of(i, v)' /\ events'[i] = events[i] /\ i # n
                                  /\ ~StillIn(i, v) => ~StillIn(i, v)'
  BY <1>1, Numbers DEF StillIn
<1>4. ClerkTold(v)'
  <2>1. CASE kind = "updated"
    <3>1. PICK p \in Sent : Of(p, v) /\ events[p].kind = "created" /\ StillIn(p, v)
      BY <1>2, <2>1 DEF UserFits, ClerkTold
    <3>2. StillIn(p, v)'
      BY <1>1, <2>1, <3>1 DEF StillIn
    <3>. QED BY <1>2, <1>3, <2>1, <3>1, <3>2 DEF ClerkTold
  <2>2. StillIn(n, v)' /\ StillOut(n, v)' /\ Of(n, v)'
    BY <1>1, Numbers DEF StillIn, StillOut
  <2>. QED BY <1>1, <1>2, <2>1, <2>2 DEF ClerkTold
<1>5. LastTold(v)'
  BY <1>1, <1>2 DEF LastTold, Joined
<1>6. RowFollows(v)'
  BY <1>1, <1>2 DEF UserFits, RowFollows
<1>7. StatusFollows(v)' /\ RemovalFollows(v)'
  BY <1>1, <1>2, <1>3 DEF UserFits, StatusFollows, RemovalFollows
<1>8. RoleFollows(v)'
  BY <1>1 DEF RoleFollows
<1>. QED BY <1>4, <1>5, <1>6, <1>7, <1>8 DEF UserFits
-----------------------------------------------------------------------------
(* The handlers.                                                           *)
LEMMA StageKept ==
  ASSUME TypeOK, Stories, NEW i \in Sent, events[i].stage # "unsent", NEW s, Stage(i, s),
         s # "PROCESSED" \/ events[i].stage = "PROCESSED"
  PROVE  /\ \A u \in Users : \A j \in Sent : Kept(j, u)
         /\ sent' = sent => Stories'
<1>1. /\ \A j \in Sent : Same(j) /\ (j # i => events'[j] = events[j])
      /\ events'[i].stage = s
  BY StageEffect
<1>2. ~(i > sent)
  BY DEF Stories, NoEvent
<1>3. \A j \in Sent : j > sent => events'[j] = events[j]
  BY <1>1, <1>2
<1>. QED BY <1>1, <1>3, StoriesKept DEF Kept

LEMMA StagesStep ==
  ASSUME AgreementInv, IInv', NEW i \in Sent, Stages(i)
  PROVE  AgreementInv'
<1> USE DEF local, remote
<1>1. TypeOK /\ Stories /\ Prepared
  BY DEF AgreementInv, IInv
<1>2. PICK s \in {"FAILED", "PROCESSING", "first", "later"} :
        Stage(i, s) /\ (s \in {"first", "later"} => Resolved(i))
  BY DEF Stages, Throw, Count, CutShort
<1>3. /\ events[i].stage # "unsent"
      /\ UNCHANGED <<sent, clerk, row, req, clean, tenant, known, sync>>
  BY DEF Stages, Throw, Count, CutShort, Waiting
<1>4. Stories' /\ \A u \in Users : \A j \in Sent : Kept(j, u)
  BY <1>1, <1>2, <1>3, StageKept
<1>5. Prepared'
  <2>1. /\ \A j \in Sent : Same(j) /\ (j # i => events'[j] = events[j])
        /\ events'[i].stage = s
    BY <1>1, <1>2, <1>3, StageEffect
  <2>. QED BY <1>1, <1>2, <1>3, <2>1 DEF Prepared, Resolved, Same
<1>6. \A u \in Users : UserFits(u)'
  BY <1>3, <1>4, Untouched
<1>. QED BY <1>4, <1>5, <1>6 DEF AgreementInv

LEMMA ResolveMeant ==
  ASSUME NEW role \in {"org:admin", "org:member"}, NEW hint \in Hint, NEW first \in BOOLEAN
  PROVE  ResolveRoleName(role, first, hint) \in Meant(role, hint)
BY MembershipAssumption DEF ResolveRoleName, Meant, Coarse, Hint, Role

(* The event an Apply is about and the row it writes, by the event's kind. *)
AppliesTo(i, r) ==
  LET u == events[i].user IN
  /\ Apply(i, r)
  /\ events[i].stage \notin {"unsent", "PROCESSED"}
  /\ \/ /\ events[i].kind = "created" /\ Resolved(i)
        /\ r.status = "ACTIVE" /\ r.role \in Meant(events[i].role, events[i].hint)
     \/ /\ events[i].kind = "updated" /\ r.status = row[u].status
        /\ row[u] # NoRow => r.role \in Meant(events[i].role, events[i].hint)
     \/ /\ events[i].kind = "deleted" /\ r.role = row[u].role
        /\ r = NoRow \/ ~Resolved(i) \/ r.status = "REMOVED"
  /\ row[u] # NoRow => r # NoRow
  /\ r # NoRow => Resolved(i) \/ row[u] # NoRow

LEMMA AppliesEffect ==
  ASSUME AgreementInv, NEW i \in Sent, Applies(i)
  PROVE  \E r \in Row : AppliesTo(i, r)
<1>1. TypeOK /\ Prepared
  BY DEF AgreementInv, IInv
<1>2. events[i].stage \notin {"unsent", "PROCESSED"}
  BY DEF Applies, OnMembershipCreated, OnMembershipUpdated, OnMembershipDeleted, Waiting
<1> DEFINE u == events[i].user
           r == row[u]
<1>3. u \in Users /\ events[i].hint \in Hint /\ events[i].role \in {"org:admin", "org:member"}
  BY <1>1, <1>2, EventType
<1>4. r \in Row /\ (r # NoRow => r \in [status : {"ACTIVE", "REMOVED"}, role : Role])
  BY <1>1, <1>3, RowType DEF TypeOK
<1>5. CASE OnMembershipCreated(i)
  <2> DEFINE role == ResolveRoleName(events[i].role, events[i].stage = "first", events[i].hint)
             w == [status |-> "ACTIVE", role |-> role]
  <2>1. role \in Meant(events[i].role, events[i].hint) /\ role \in Role
    BY <1>3, ResolveMeant, ResolveType
  <2>2. events[i].kind = "created" /\ Resolved(i) /\ Apply(i, w)
    BY <1>1, <1>5 DEF OnMembershipCreated, Prepared, AgreementInv, IInv, EventsFit
  <2> HIDE DEF role
  <2>3. w \in Row /\ w # NoRow /\ w.status = "ACTIVE" /\ w.role = role
    BY <2>1 DEF Row, NoRow
  <2>. QED BY <1>2, <2>1, <2>2, <2>3 DEF AppliesTo
<1>6. CASE OnMembershipUpdated(i)
  <2> DEFINE role == ResolveRoleName(events[i].role, FALSE, events[i].hint)
             w == IF r = NoRow THEN r ELSE [r EXCEPT !.role = role]
  <2>1. role \in Meant(events[i].role, events[i].hint) /\ role \in Role
    BY <1>3, ResolveMeant, ResolveType
  <2>2. events[i].kind = "updated" /\ Resolved(i) /\ Apply(i, w)
    BY <1>6 DEF OnMembershipUpdated, Waiting
  <2> HIDE DEF role
  <2>3. r # NoRow => /\ w \in [status : {"ACTIVE", "REMOVED"}, role : Role] /\ w.role = role
                     /\ w.status = r.status
    BY <1>4, <2>1
  <2>4. w \in Row /\ (r # NoRow => w # NoRow) /\ w.status = r.status /\ (r # NoRow => w.role = role)
    BY <1>4, <2>3 DEF Row, NoRow
  <2>. QED BY <1>2, <2>1, <2>2, <2>4 DEF AppliesTo
<1>7. CASE OnMembershipDeleted(i)
  <2> DEFINE w == IF r = NoRow \/ ~Resolved(i) THEN r ELSE [r EXCEPT !.status = "REMOVED"]
  <2>1. events[i].kind = "deleted" /\ Apply(i, w)
    BY <1>7 DEF OnMembershipDeleted, Waiting
  <2>2. r # NoRow => /\ w \in [status : {"ACTIVE", "REMOVED"}, role : Role] /\ w.role = r.role
                     /\ ~Resolved(i) \/ w.status = "REMOVED"
    BY <1>4
  <2>3. w \in Row /\ (r # NoRow => w # NoRow) /\ w.role = r.role
        /\ (w = NoRow \/ ~Resolved(i) \/ w.status = "REMOVED") /\ (w # NoRow => r # NoRow)
    BY <1>4, <2>2 DEF Row, NoRow
  <2>. QED BY <1>2, <2>1, <2>3 DEF AppliesTo
<1>. QED BY <1>5, <1>6, <1>7 DEF Applies

(* Nothing earlier waits and nothing later was applied.                    *)
InTurn(i) == \A j \in Sent : Of(j, events[i].user) =>
  /\ j < i => events[j].stage = "PROCESSED"
  /\ j > i => events[j].stage # "PROCESSED"

LEMMA ApplyFits ==
  ASSUME AgreementInv, NEW i \in Sent, NEW v \in Users, events[i].user = v,
         NEW r \in Row, AppliesTo(i, r)
  PROVE  UserFits(v)'
<1>1. /\ TypeOK /\ Stories /\ CreatedIsRecorded /\ UserFits(v)
  BY DEF AgreementInv, IInv
<1>2. /\ row'[v] = r /\ Apply(i, r) /\ events[i].stage \notin {"unsent", "PROCESSED"}
      /\ UNCHANGED <<sent, clerk, req, tenant, known, sync>>
  BY <1>1 DEF AppliesTo, Apply, TypeOK
<1>3. /\ \A j \in Sent : Same(j) /\ (j # i => events'[j] = events[j])
  BY <1>1, <1>2, StageEffect DEF Apply
<1>4. \A j \in Sent : /\ Of(j, v)' <=> Of(j, v)
                      /\ Last(j, v)' <=> Last(j, v)
                      /\ StillIn(j, v)' <=> StillIn(j, v)
                      /\ StillOut(j, v)' <=> StillOut(j, v)
  BY <1>3 DEF Same, Of, Last, StillIn, StillOut
<1>5. clean'[v] => clean[v] /\ InTurn(i)
  <2>1. clean'[v] => clean[v] /\ ~Overtakes(i)
    BY <1>1, <1>2, DoubtEffect DEF Apply
  <2>. QED BY <2>1 DEF Overtakes, InTurn, Of
<1>6. ClerkTold(v)'
  BY <1>1, <1>2, <1>3, <1>4 DEF UserFits, ClerkTold, Same
<1>7. LastTold(v)'
  BY <1>1, <1>2, <1>3, <1>4, <1>5 DEF UserFits, LastTold, Serving, Same
<1>8. Ahead(v)'
  BY <1>1, <1>2, <1>5 DEF UserFits, Ahead, Serving, AppliesTo
<1>9. RowFollows(v)'
  <2>1. r # NoRow => tenant # "none" /\ v \in known
    BY <1>1 DEF AppliesTo, Resolved, UserFits, RowFollows
  <2>2. Of(i, v)
    BY DEF Of
  <2>. QED BY <1>2, <1>4, <2>1, <2>2 DEF RowFollows
<1>10. StatusFollows(v)'
  <2> SUFFICES ASSUME clean'[v], NEW k \in Sent, Of(k, v), events[k].kind \in Joined,
                      k # i => events[k].stage = "PROCESSED"
               PROVE  r.status = "ACTIVE" \/ ~StillIn(k, v)
    BY <1>2, <1>3, <1>4 DEF StatusFollows, Same
  <2>1. k # i => k < i
    BY <1>5, Numbers DEF InTurn
  <2>2. CASE events[i].kind = "created"
    BY <2>2 DEF AppliesTo
  <2>3. CASE events[i].kind = "deleted"
    <3>1. k < i
      BY <2>1, <2>3 DEF Joined
    <3>. QED BY <2>3, <3>1, Numbers DEF StillIn, Of
  <2>4. CASE events[i].kind = "updated" /\ k # i
    BY <1>1, <1>5, <2>4 DEF AppliesTo, UserFits, StatusFollows
  <2>5. CASE events[i].kind = "updated" /\ k = i
    <3>1. PICK p \in Sent : /\ p < i /\ Of(p, v) /\ events[p].kind = "created"
                            /\ \A j \in Sent : Of(j, v) /\ p < j /\ j =< i => events[j].kind # "deleted"
      BY <1>1, <2>5 DEF Stories
    <3>2. row[v].status = "ACTIVE" \/ ~StillIn(p, v)
      BY <1>1, <1>5, <3>1 DEF InTurn, UserFits, StatusFollows, Joined
    <3>3. ~StillIn(p, v) => ~StillIn(i, v)
      BY <3>1, Numbers DEF StillIn
    <3>. QED BY <2>5, <3>2, <3>3 DEF AppliesTo
  <2>. QED BY <2>2, <2>3, <2>4, <2>5 DEF AppliesTo
<1>11. RemovalFollows(v)'
  <2> SUFFICES ASSUME clean'[v], NEW k \in Sent, Of(k, v), events[k].kind = "deleted",
                      k # i => events[k].stage = "PROCESSED"
               PROVE  r.status # "ACTIVE" \/ \E j \in Sent : Of(j, v) /\ j > k /\ events[j].kind = "created"
    BY <1>2, <1>3, <1>4 DEF RemovalFollows, Same
  <2>1. CASE events[i].kind = "created"
    <3>1. k < i
      BY <1>5, <2>1, Numbers DEF InTurn
    <3>. QED BY <2>1, <3>1 DEF Of
  <2>2. CASE events[i].kind = "updated"
    BY <1>1, <1>5, <2>2 DEF AppliesTo, UserFits, RemovalFollows
  <2>3. CASE events[i].kind = "deleted"
    <3>1. r = NoRow \/ r.status = "REMOVED"
      BY <1>1, <2>3 DEF AppliesTo, UserFits, RowFollows, Resolved
    <3>. QED BY <3>1 DEF NoRow
  <2>. QED BY <2>1, <2>2, <2>3 DEF AppliesTo
<1>12. RoleFollows(v)'
  <2> SUFFICES ASSUME clean'[v], NEW k \in Sent, Last(k, v), events[k].kind \in Joined,
                      k # i => events[k].stage = "PROCESSED"
               PROVE  r.role \in Meant(events[k].role, events[k].hint)
    BY <1>2, <1>3, <1>4 DEF RoleFollows, Same
  <2>1. k = i
    BY <1>5, Numbers DEF InTurn, Last, Of
  <2>2. CASE events[i].kind = "created"
    BY <2>1, <2>2 DEF AppliesTo
  <2>3. CASE events[i].kind = "updated"
    <3>1. PICK p \in Sent : p < i /\ Of(p, v) /\ events[p].kind = "created"
      BY <1>1, <2>3 DEF Stories
    <3>2. row[v] # NoRow
      BY <1>1, <1>5, <3>1 DEF InTurn, CreatedIsRecorded, Of
    <3>. QED BY <2>1, <2>3, <3>2 DEF AppliesTo
  <2>. QED BY <2>1, <2>2, <2>3 DEF Joined
<1>. QED BY <1>6, <1>7, <1>8, <1>9, <1>10, <1>11, <1>12 DEF UserFits

LEMMA AppliesStep ==
  ASSUME AgreementInv, IInv', NEW i \in Sent, Applies(i)
  PROVE  AgreementInv'
<1>1. TypeOK /\ Stories /\ Prepared
  BY DEF AgreementInv, IInv
<1>2. PICK r \in Row : AppliesTo(i, r)
  BY AppliesEffect
<1>3. PICK v \in Users : events[i].user = v
  BY <1>1, <1>2, EventType DEF AppliesTo
<1>4. /\ events[i].stage # "unsent" /\ Doubt(v, Overtakes(i)) /\ row' = [row EXCEPT ![v] = r]
      /\ UNCHANGED <<sent, clerk, req, tenant, known, sync>>
  BY <1>2, <1>3 DEF AppliesTo, Apply
<1>5. PICK s \in {"PROCESSED", "FAILED", "PROCESSING"} : Stage(i, s)
  BY <1>2 DEF AppliesTo, Apply
<1>6. \A j \in Sent : Same(j) /\ (j # i => events'[j] = events[j])
  BY <1>1, <1>4, <1>5, StageEffect
<1>7. events'[i].stage = s
  BY <1>1, <1>4, <1>5, StageEffect
<1>8. Stories'
  <2>1. ~(i > sent)
    BY <1>1, <1>4 DEF Stories, NoEvent
  <2>. QED BY <1>1, <1>4, <1>6, <2>1, StoriesKept
<1>9. Prepared'
  BY <1>1, <1>4, <1>6, <1>7 DEF Prepared, Resolved, Same
<1>10. ASSUME NEW u \in Users, u # v PROVE UserFits(u)'
  <2>1. clean'[u] => clean[u]
    BY <1>1, <1>4, DoubtEffect
  <2>2. \A j \in Sent : Kept(j, u)
    BY <1>3, <1>6, <1>10 DEF Kept, Of, Same
  <2>. QED BY <1>4, <1>10, <2>1, <2>2, Untouched
<1>11. UserFits(v)'
  BY <1>2, <1>3, ApplyFits
<1>. QED BY <1>8, <1>9, <1>10, <1>11 DEF AgreementInv
-----------------------------------------------------------------------------
(* Clerk sends an event.                                                   *)
LEMMA SendStep ==
  ASSUME AgreementInv, IInv', NEW v \in Users, NEW kind, NEW m, Emit(v, kind, m),
         UNCHANGED <<row, tenant, known, sync>>,
         IF m.in THEN kind = "created" \/ (kind = "updated" /\ clerk[v].in) ELSE kind = "deleted",
         \A u \in Users : clean'[u] => clean[u],
         \A q \in Requests : req'[q] = req[q] \/ (req[q].on = v /\ req'[q].on \in {v, None}),
         Ahead(v)'
  PROVE  AgreementInv'
<1>1. TypeOK /\ Prepared
  BY DEF AgreementInv, IInv
<1>2. PICK n \in Sent :
           /\ events'[n] = [kind |-> kind, user |-> v, role |-> m.role, hint |-> m.hint, stage |-> "sent"]
           /\ \A j \in Sent : j # n => events'[j] = events[j]
           /\ \A u \in Users : \A j \in Sent : u # v => Kept(j, u)
  BY EmitStory
<1>3. Stories'
  BY SendStories
<1>4. Prepared'
  BY <1>1, <1>2 DEF Prepared, Resolved
<1>5. UserFits(v)'
  BY SendFits
<1>6. ASSUME NEW u \in Users, u # v PROVE UserFits(u)'
  <2>1. clerk'[u] = clerk[u]
    BY <1>1, <1>6 DEF Emit, TypeOK
  <2>2. \A q \in Requests : req'[q].on = u \/ req[q].on = u => req'[q] = req[q]
    BY <1>6, Numbers
  <2>. QED BY <1>2, <1>6, <2>1, <2>2, Untouched
<1>. QED BY <1>3, <1>4, <1>5, <1>6 DEF AgreementInv

LEMMA JoinsAgree ==
  ASSUME AgreementInv, IInv', NEW v \in Users, Joins(v)
  PROVE  AgreementInv'
<1>1. TypeOK
  BY DEF AgreementInv, IInv
<1>2. PICK role \in {"org:admin", "org:member"}, hint \in Hint : Join(v, role, hint)
  BY <1>1, JoinEffect
<1>3. PICK m : m = [in |-> TRUE, role |-> role, hint |-> hint]
  OBVIOUS
<1>4. Emit(v, "created", m) /\ m.in
  BY <1>2, <1>3 DEF Join
<1>5. UNCHANGED <<row, tenant, known, sync, req>> /\ Doubt(v, Serving(v) # {})
  BY <1>2 DEF Join, local
<1>6. \A u \in Users : clean'[u] => clean[u] /\ (u = v => Serving(v) = {})
  BY <1>1, <1>5, DoubtEffect
<1>7. Ahead(v)'
  BY <1>5, <1>6 DEF Ahead, Serving
<1>. QED BY <1>4, <1>5, <1>6, <1>7, SendStep

LEMMA ChangesAgree ==
  ASSUME AgreementInv, IInv', NEW v \in Users, Changes(v)
  PROVE  AgreementInv'
<1>1. TypeOK /\ Ahead(v)
  BY DEF AgreementInv, UserFits, IInv
<1>2. PICK role \in {"org:admin", "org:member"} : ChangeInClerk(v, role)
  BY DEF Changes
<1>3. PICK m : m = [clerk[v] EXCEPT !.role = role]
  OBVIOUS
<1>4. m.in = clerk[v].in /\ m.hint = clerk[v].hint
  BY <1>1, <1>3, MemberType DEF Member
<1>5. /\ Emit(v, "updated", m) /\ clerk[v].in
      /\ UNCHANGED <<row, tenant, known, sync, req, clean>>
  BY <1>2, <1>3 DEF ChangeInClerk, local
<1>6. clerk'[v] = m
  BY <1>1, <1>5 DEF Emit, TypeOK
<1>7. Ahead(v)'
  BY <1>1, <1>4, <1>5, <1>6 DEF Ahead, Serving
<1>. QED BY <1>4, <1>5, <1>7, SendStep

LEMMA LeaveAgrees ==
  ASSUME AgreementInv, IInv', NEW v \in Users, Leave(v)
  PROVE  AgreementInv'
<1>1. TypeOK /\ Ahead(v)
  BY DEF AgreementInv, UserFits, IInv
<1>2. Emit(v, "deleted", Absent) /\ UNCHANGED <<row, tenant, known, sync, req, clean>>
  BY DEF Leave, local
<1>3. ~Absent.in
  BY DEF Absent
<1>4. clerk'[v] = Absent
  BY <1>1, <1>2 DEF Emit, TypeOK
<1>5. Ahead(v)'
  BY <1>1, <1>2, <1>3, <1>4 DEF Ahead, Serving
<1>. QED BY <1>2, <1>3, <1>5, SendStep
-----------------------------------------------------------------------------
(* The members endpoints.                                                  *)
LEMMA AnsweredEffect ==
  ASSUME TypeOK, NEW q \in Requests, req[q].at \in {"metadata", "role", "delete"}, Answered(q)
  PROVE  /\ req[q].on \in Users /\ req[q].role \in Assignable
         /\ \A p \in Requests : p # q => req'[p] = req[p]
         /\ \/ req'[q] = NoRequest
            \/ /\ req'[q].on = req[q].on /\ req'[q].role = req[q].role
               /\ req'[q].at = Following[req[q].at]
         /\ \A u \in Users : clean'[u] =>
              clean[u] /\ (u = req[q].on /\ req[q].at = "metadata" => req'[q].at = "role")
<1>1. req[q].on \in Users /\ req[q].role \in Assignable /\ req[q] \in Request
  BY RequestType DEF NoRequest
<1>2. CASE Goto(q, Following[req[q].at]) /\ UNCHANGED <<upsets, clean>>
  <2>1. PICK w : w = [req[q] EXCEPT !.at = Following[req[q].at]]
    OBVIOUS
  <2>2. w.on = req[q].on /\ w.role = req[q].role /\ w.at = Following[req[q].at]
    BY <1>1, <2>1 DEF Request
  <2>3. req'[q] = w /\ \A p \in Requests : p # q => req'[p] = req[p]
    BY <1>2, <2>1 DEF Goto, TypeOK
  <2>4. req[q].at = "metadata" => w.at = "role"
    BY <2>2 DEF Following
  <2>. QED BY <1>1, <1>2, <2>2, <2>3, <2>4
<1>3. CASE End(q) /\ Upset /\ Doubt(req[q].on, req[q].at = "metadata")
  <2>1. req'[q] = NoRequest /\ \A p \in Requests : p # q => req'[p] = req[p]
    BY <1>3 DEF End, TypeOK
  <2>2. \A u \in Users : clean'[u] => clean[u] /\ (u = req[q].on => req[q].at # "metadata")
    BY <1>1, <1>3, DoubtEffect
  <2>. QED BY <1>1, <2>1, <2>2
<1>. QED BY <1>2, <1>3 DEF Answered

(* The one request for a user nothing overtook.                            *)
LEMMA OnlyRequest ==
  ASSUME AgreementInv, NEW q \in Requests, NEW v \in Users, req[q].on = v, clean[v],
         \A p \in Requests : p # q => req'[p] = req[p]
  PROVE  /\ \A p \in Serving(v) : p = q
         /\ \A p \in Serving(v)' : p = q
         /\ row[v] # NoRow
<1>1. Ahead(v) /\ q \in Serving(v)
  BY DEF AgreementInv, UserFits, Serving
<1>. QED BY <1>1 DEF Ahead, Serving

LEMMA PatchSends ==
  ASSUME AgreementInv, IInv', NEW q \in Requests, PatchRole(q) \/ DeleteMembership(q)
  PROVE  AgreementInv'
<1>1. TypeOK
  BY DEF AgreementInv, IInv
<1>2. /\ req[q].at \in {"role", "delete"} /\ Answered(q)
      /\ UNCHANGED <<row, tenant, known, sync>>
  BY DEF PatchRole, DeleteMembership, local
<1>3. /\ req[q].on \in Users /\ req[q].role \in Assignable
      /\ \A p \in Requests : p # q => req'[p] = req[p]
      /\ \/ req'[q] = NoRequest
         \/ /\ req'[q].on = req[q].on /\ req'[q].role = req[q].role
            /\ req'[q].at = Following[req[q].at]
      /\ \A u \in Users : clean'[u] => clean[u]
  BY <1>1, <1>2, AnsweredEffect
<1>4. PICK v \in Users : req[q].on = v
  BY <1>3
<1>5. \A p \in Requests : req'[p] = req[p] \/ (req[p].on = v /\ req'[p].on \in {v, None})
  BY <1>3, <1>4 DEF NoRequest
<1>6. Ahead(v) /\ q \in Serving(v)
  BY <1>4 DEF AgreementInv, UserFits, Serving
<1>7. clean[v] => /\ \A p \in Serving(v)' : p = q
                  /\ row[v] # NoRow
  BY <1>3, <1>4, OnlyRequest
<1>8. q \in Serving(v)' => req'[q].role = req[q].role /\ req'[q].at = Following[req[q].at]
  BY <1>3, Numbers DEF Serving, NoRequest
<1>9. CASE PatchRole(q)
  <2>1. PICK m : m = [clerk[v] EXCEPT !.role = ClerkRole(req[q].role)]
    OBVIOUS
  <2>2. m.in = clerk[v].in /\ m.hint = clerk[v].hint
    BY <1>1, <2>1, MemberType DEF Member
  <2>3. Emit(v, "updated", m) /\ clerk[v].in /\ req[q].at = "role"
    BY <1>4, <1>9, <2>1 DEF PatchRole
  <2>4. clerk'[v] = m
    BY <1>1, <2>3 DEF Emit, TypeOK
  <2>5. Following[req[q].at] = "local"
    BY <2>3 DEF Following
  <2>6. Ahead(v)'
    BY <1>2, <1>3, <1>6, <1>7, <1>8, <2>2, <2>3, <2>4, <2>5 DEF Ahead
  <2>. QED BY <1>2, <1>3, <1>5, <2>2, <2>3, <2>6, SendStep
<1>10. CASE DeleteMembership(q)
  <2>1. Emit(v, "deleted", Absent) /\ req[q].at = "delete"
    BY <1>4, <1>10 DEF DeleteMembership
  <2>2. clerk'[v] = Absent /\ ~Absent.in
    BY <1>1, <2>1 DEF Emit, TypeOK, Absent
  <2>3. Ahead(v)'
    BY <1>2, <1>3, <1>7, <2>2 DEF Ahead
  <2>. QED BY <1>2, <1>3, <1>5, <2>1, <2>2, <2>3, SendStep
<1>. QED BY <1>9, <1>10

(* A step about one user that sends and handles no event.                  *)
LEMMA QuietStep ==
  ASSUME AgreementInv, IInv', NEW v \in Users,
         UNCHANGED <<events, sent, tenant, known>>,
         sync'.at \in {"list", "members"} => sync.at \in {"list", "members"},
         \A u \in Users : /\ clean'[u] => clean[u]
                          /\ u # v => clerk'[u] = clerk[u] /\ row'[u] = row[u],
         \A q \in Requests : req'[q] = req[q] \/ (req[q].on \in {v, None} /\ req'[q].on \in {v, None}),
         UserFits(v)'
  PROVE  AgreementInv'
<1>1. Stories /\ Prepared
  BY DEF AgreementInv
<1>2. Stories' /\ Prepared'
  BY <1>1 DEF Stories, Prepared, Resolved, Of
<1>3. ASSUME NEW u \in Users, u # v PROVE UserFits(u)'
  <2>1. \A q \in Requests : req'[q].on = u \/ req[q].on = u => req'[q] = req[q]
    BY <1>3, Numbers
  <2>2. \A j \in Sent : Kept(j, u)
    BY DEF Kept, Of, Same
  <2>. QED BY <1>3, <2>1, <2>2, Untouched
<1>. QED BY <1>2, <1>3 DEF AgreementInv

(* What it leaves true of its user while his row keeps.                    *)
LEMMA QuietFits ==
  ASSUME AgreementInv, NEW v \in Users, UNCHANGED <<events, tenant, known>>,
         clean'[v] => clean[v], clerk'[v].in = clerk[v].in,
         row'[v] = row[v], LastTold(v)', Ahead(v)'
  PROVE  UserFits(v)'
<1>1. UserFits(v)
  BY DEF AgreementInv
<1>2. \A i \in Sent : /\ Of(i, v)' <=> Of(i, v)
                      /\ Last(i, v)' <=> Last(i, v)
                      /\ StillIn(i, v)' <=> StillIn(i, v)
                      /\ StillOut(i, v)' <=> StillOut(i, v)
  BY DEF Of, Last, StillIn, StillOut
<1>3. ClerkTold(v)'
  BY <1>1, <1>2 DEF UserFits, ClerkTold
<1>4. RowFollows(v)'
  BY <1>1, <1>2 DEF UserFits, RowFollows
<1>5. StatusFollows(v)' /\ RemovalFollows(v)' /\ RoleFollows(v)'
  BY <1>1, <1>2 DEF UserFits, StatusFollows, RemovalFollows, RoleFollows
<1>. QED BY <1>3, <1>4, <1>5 DEF UserFits

(* The last event is exact once no request stands between its calls.       *)
LEMMA ToldExactly ==
  ASSUME AgreementInv, NEW v \in Users, clean[v], clerk[v].in,
         \A q \in Serving(v) : req[q].at # "role"
  PROVE  \E i \in Sent : /\ Last(i, v) /\ events[i].kind \in Joined /\ events[i].role = clerk[v].role
                         /\ events[i].hint = clerk[v].hint
BY DEF AgreementInv, UserFits, LastTold

LEMMA BeginsAgree ==
  ASSUME AgreementInv, IInv', NEW q \in Requests, NEW v \in Users, Begins(q, v)
  PROVE  AgreementInv'
<1>1. TypeOK /\ q \in DOMAIN req
  BY DEF AgreementInv, IInv, TypeOK
<1>2. PICK what \in {"update", "remove"}, role \in Assignable : Begin(q, v, what, role)
  BY MembershipAssumption DEF Begins, Remove, UpdateRole, Assignable
<1>3. /\ req[q] = NoRequest /\ row[v] # NoRow /\ Doubt(v, Serving(v) # {})
      /\ UNCHANGED <<events, sent, tenant, known, clerk, row, sync>>
  BY <1>2 DEF Begin, remote, local
<1>4. /\ req'[q] = [at |-> Following[what], on |-> v, role |-> role]
      /\ \A p \in Requests : p # q => req'[p] = req[p]
  BY <1>1, <1>2 DEF Begin
<1>5. \A u \in Users : clean'[u] => clean[u] /\ (u = v => Serving(v) = {})
  BY <1>1, <1>3, DoubtEffect
<1>6. \A p \in Requests : req'[p] = req[p] \/ (req[p].on \in {v, None} /\ req'[p].on \in {v, None})
  BY <1>3, <1>4 DEF NoRequest
<1>7. LastTold(v)'
  <2> SUFFICES ASSUME clean'[v], clerk[v].in
               PROVE  \E i \in Sent : /\ Last(i, v) /\ events[i].kind \in Joined
                                      /\ events[i].role = clerk[v].role /\ events[i].hint = clerk[v].hint
    BY <1>3 DEF LastTold, Last, Of
  <2>. QED BY <1>5, ToldExactly
<1>8. Ahead(v)'
  <2>1. clean'[v] => \A p \in Serving(v)' : p = q
    BY <1>4, <1>5 DEF Serving
  <2>2. req'[q].at \in {"metadata", "delete"}
    BY <1>4 DEF Following
  <2>. QED BY <1>3, <2>1, <2>2 DEF Ahead
<1>9. UserFits(v)'
  BY <1>3, <1>5, <1>7, <1>8, QuietFits
<1>. QED BY <1>3, <1>5, <1>6, <1>9, QuietStep

LEMMA MetadataAgrees ==
  ASSUME AgreementInv, IInv', NEW q \in Requests, PatchMetadata(q)
  PROVE  AgreementInv'
<1>1. TypeOK
  BY DEF AgreementInv, IInv
<1>2. /\ req[q].at = "metadata" /\ Answered(q)
      /\ UNCHANGED <<events, sent, row, tenant, known, sync>>
  BY DEF PatchMetadata, local
<1>3. /\ req[q].on \in Users /\ req[q].role \in Assignable
      /\ \A p \in Requests : p # q => req'[p] = req[p]
      /\ \/ req'[q] = NoRequest
         \/ req'[q].on = req[q].on /\ req'[q].role = req[q].role
      /\ \A u \in Users : clean'[u] => clean[u] /\ (u = req[q].on => req'[q].at = "role")
  BY <1>1, <1>2, AnsweredEffect
<1>4. PICK v \in Users : req[q].on = v
  BY <1>3
<1>5. \A p \in Requests : req'[p] = req[p] \/ (req[p].on \in {v, None} /\ req'[p].on \in {v, None})
  BY <1>3, <1>4 DEF NoRequest
<1>6. clerk'[v] = [clerk[v] EXCEPT !.hint = req[q].role] /\ \A u \in Users : u # v => clerk'[u] = clerk[u]
  BY <1>1, <1>4 DEF PatchMetadata, TypeOK
<1>7. clerk'[v].in = clerk[v].in /\ clerk'[v].role = clerk[v].role /\ clerk'[v].hint = req[q].role
  <2>1. clerk[v] \in Member
    BY <1>1, MemberType
  <2>. QED BY <1>6, <2>1 DEF Member
<1>8. clean'[v] => /\ clean[v] /\ req'[q].at = "role" /\ q \in Serving(v)'
                   /\ req'[q].role = req[q].role
  BY <1>3, <1>4 DEF Serving, NoRequest
<1>9. LastTold(v)'
  <2> SUFFICES ASSUME clean'[v], clerk[v].in
               PROVE  \E i \in Sent : Last(i, v) /\ events[i].kind \in Joined /\ events[i].role = clerk[v].role
    BY <1>2, <1>7, <1>8 DEF LastTold, Last, Of
  <2>. QED BY <1>8 DEF AgreementInv, UserFits, LastTold
<1>10. Ahead(v)'
  <2>1. clean'[v] => (\A p \in Serving(v)' : p = q) /\ row[v] # NoRow
    BY <1>3, <1>4, <1>8, OnlyRequest
  <2>. QED BY <1>2, <1>7, <1>8, <2>1 DEF Ahead
<1>11. UserFits(v)'
  BY <1>2, <1>7, <1>8, <1>9, <1>10, QuietFits
<1>. QED BY <1>2, <1>3, <1>5, <1>6, <1>11, QuietStep

LEMMA GiveUpAgrees ==
  ASSUME AgreementInv, IInv', NEW q \in Requests, GiveUp(q)
  PROVE  AgreementInv'
<1>1. TypeOK
  BY DEF AgreementInv, IInv
<1>2. /\ req[q] # NoRequest /\ Doubt(req[q].on, req[q].at = "role")
      /\ UNCHANGED <<events, sent, clerk, row, tenant, known, sync>>
  BY DEF GiveUp, local, remote
<1>3. PICK v \in Users : req[q].on = v
  BY <1>1, <1>2, RequestType
<1>4. req'[q] = NoRequest /\ \A p \in Requests : p # q => req'[p] = req[p]
  BY <1>1 DEF GiveUp, End, TypeOK
<1>5. \A u \in Users : clean'[u] => clean[u] /\ (u = v => req[q].at # "role")
  BY <1>1, <1>2, <1>3, DoubtEffect
<1>6. clean'[v] => /\ \A p \in Serving(v) : p = q
                   /\ Serving(v)' = {}
  <2>1. clean'[v] => /\ \A p \in Serving(v) : p = q
                     /\ \A p \in Serving(v)' : p = q
    BY <1>3, <1>4, <1>5, OnlyRequest
  <2>2. q \notin Serving(v)'
    BY <1>4, Numbers DEF Serving, NoRequest
  <2>. QED BY <2>1, <2>2
<1>7. LastTold(v)'
  <2> SUFFICES ASSUME clean'[v], clerk[v].in
               PROVE  \E i \in Sent : /\ Last(i, v) /\ events[i].kind \in Joined
                                      /\ events[i].role = clerk[v].role /\ events[i].hint = clerk[v].hint
    BY <1>2 DEF LastTold, Last, Of
  <2>. QED BY <1>5, <1>6, ToldExactly
<1>8. Ahead(v)'
  BY <1>6 DEF Ahead
<1>9. UserFits(v)'
  BY <1>2, <1>5, <1>7, <1>8, QuietFits
<1>10. \A p \in Requests : req'[p] = req[p] \/ (req[p].on \in {v, None} /\ req'[p].on \in {v, None})
  BY <1>3, <1>4 DEF NoRequest
<1>. QED BY <1>2, <1>5, <1>9, <1>10, QuietStep

LEMMA WriteRowAgrees ==
  ASSUME AgreementInv, IInv', NEW q \in Requests, WriteRow(q)
  PROVE  AgreementInv'
<1>1. TypeOK /\ RequestFits(q)
  BY DEF AgreementInv, IInv, RequestsFit
<1>2. /\ req[q] # NoRequest /\ req[q].at \in {"local", "mark"}
      /\ UNCHANGED <<events, sent, clerk, tenant, known, sync, clean>>
  BY DEF WriteRow, remote, NoRequest
<1>3. /\ req[q].on \in Users /\ req[q].role \in Assignable
  BY <1>1, <1>2, RequestType
<1>4. PICK v \in Users : req[q].on = v
  BY <1>3
<1>5. req'[q] = NoRequest /\ \A p \in Requests : p # q => req'[p] = req[p]
  BY <1>1 DEF WriteRow, End, TypeOK
<1>6. \A u \in Users : u # v => row'[u] = row[u]
  BY <1>1, <1>4 DEF WriteRow, TypeOK
<1>7. row[v] # NoRow /\ row[v] \in [status : {"ACTIVE", "REMOVED"}, role : Role]
  BY <1>1, <1>2, <1>4, RowType DEF RequestFits
<1>8. \/ req[q].at = "local" /\ row'[v].status = row[v].status /\ row'[v].role = req[q].role
      \/ req[q].at = "mark" /\ row'[v].status = "REMOVED" /\ row'[v].role = row[v].role
  <2>1. \/ req[q].at = "local" /\ row'[v] = [row[v] EXCEPT !.role = req[q].role]
        \/ req[q].at = "mark" /\ row'[v] = [row[v] EXCEPT !.status = "REMOVED"]
    BY <1>1, <1>4 DEF WriteRow, TypeOK
  <2>. QED BY <1>7, <2>1
<1>9. clean[v] => /\ \A p \in Serving(v) : p = q
                  /\ Serving(v)' = {}
  <2>1. clean[v] => /\ \A p \in Serving(v) : p = q
                    /\ \A p \in Serving(v)' : p = q
    BY <1>4, <1>5, OnlyRequest
  <2>2. q \notin Serving(v)'
    BY <1>5, Numbers DEF Serving, NoRequest
  <2>. QED BY <2>1, <2>2
<1>10. /\ UserFits(v) /\ q \in Serving(v)
       /\ \A i \in Sent : /\ Of(i, v)' <=> Of(i, v)
                          /\ Last(i, v)' <=> Last(i, v)
                          /\ StillIn(i, v)' <=> StillIn(i, v)
                          /\ StillOut(i, v)' <=> StillOut(i, v)
  BY <1>2, <1>4 DEF AgreementInv, Serving, Of, Last, StillIn, StillOut
<1>11. ClerkTold(v)' /\ RowFollows(v)' /\ RemovalFollows(v)'
  BY <1>2, <1>7, <1>8, <1>10 DEF UserFits, ClerkTold, RowFollows, RemovalFollows
<1>12. Ahead(v)'
  BY <1>2, <1>9 DEF Ahead
<1>13. clean[v] /\ clerk[v].in =>
         \E i \in Sent : /\ Last(i, v) /\ events[i].kind \in Joined /\ events[i].role = clerk[v].role
                         /\ events[i].hint = clerk[v].hint
  BY <1>2, <1>9, ToldExactly
<1>14. LastTold(v)'
  BY <1>2, <1>13 DEF LastTold, Last, Of
<1>15. ASSUME ~clerk[v].in, NEW i \in Sent, Of(i, v), events[i].kind \in Joined
       PROVE  ~StillIn(i, v) /\ ~Last(i, v)
  <2>1. PICK p \in Sent : Of(p, v) /\ events[p].kind = "deleted" /\ StillOut(p, v)
    BY <1>10, <1>15 DEF UserFits, ClerkTold
  <2>2. p > i
    BY <1>15, <2>1, Numbers DEF StillOut, Joined
  <2>. QED BY <2>1, <2>2, Numbers DEF StillIn, Last
<1>16. StatusFollows(v)'
  <2>1. CASE req[q].at = "local"
    BY <1>2, <1>8, <1>10, <2>1 DEF UserFits, StatusFollows
  <2>2. CASE req[q].at = "mark"
    BY <1>2, <1>10, <1>15, <2>2 DEF UserFits, Ahead, StatusFollows
  <2>. QED BY <1>2, <2>1, <2>2
<1>17. RoleFollows(v)'
  <2>1. CASE req[q].at = "local"
    <3> SUFFICES ASSUME clean[v], NEW i \in Sent, Last(i, v), events[i].kind \in Joined
                 PROVE  req[q].role \in Meant(events[i].role, events[i].hint)
      BY <1>2, <1>8, <1>10, <2>1 DEF RoleFollows
    <3>1. clerk[v].in /\ clerk[v].hint = req[q].role
      BY <1>10, <1>15, <2>1 DEF UserFits, Ahead, Last
    <3>2. PICK k \in Sent : Last(k, v) /\ events[k].hint = clerk[v].hint
      BY <1>13, <3>1
    <3>3. k = i
      BY <3>2, Numbers DEF Last
    <3>4. req[q].role # None
      BY <1>3, MembershipAssumption DEF Assignable, Role
    <3>. QED BY <3>1, <3>2, <3>3, <3>4 DEF Meant
  <2>2. CASE req[q].at = "mark"
    BY <1>2, <1>8, <1>10, <2>2 DEF UserFits, RoleFollows
  <2>. QED BY <1>2, <2>1, <2>2
<1>18. UserFits(v)'
  BY <1>11, <1>12, <1>14, <1>16, <1>17 DEF UserFits
<1>19. \A p \in Requests : req'[p] = req[p] \/ (req[p].on \in {v, None} /\ req'[p].on \in {v, None})
  BY <1>4, <1>5 DEF NoRequest
<1>. QED BY <1>2, <1>6, <1>18, <1>19, QuietStep
-----------------------------------------------------------------------------
(* The script, and what is about no member.                                *)
LEMMA SyncMembershipAgrees ==
  ASSUME AgreementInv, IInv', NEW v \in Users, SyncMembership(v)
  PROVE  AgreementInv'
<1>1. TypeOK /\ Prepared /\ UserFits(v)
  BY DEF AgreementInv, IInv
<1>2. /\ sync.at = "members" /\ Doubt(v, TRUE)
      /\ UNCHANGED <<events, sent, tenant, known, clerk, req>>
      /\ \A u \in Users : u # v => row'[u] = row[u]
  BY <1>1 DEF SyncMembership, remote, TypeOK
<1>3. \A u \in Users : clean'[u] => clean[u] /\ u # v
  BY <1>1, <1>2, DoubtEffect
<1>4. ClerkTold(v)'
  BY <1>1, <1>2 DEF UserFits, ClerkTold, Of, StillIn, StillOut
<1>5. RowFollows(v)'
  BY <1>1, <1>2, <1>3 DEF Prepared, RowFollows
<1>6. UserFits(v)'
  BY <1>3, <1>4, <1>5 DEF UserFits, LastTold, Ahead, StatusFollows, RemovalFollows, RoleFollows
<1>. QED BY <1>2, <1>3, <1>6, QuietStep

LEMMA ElsewhereAgrees ==
  ASSUME AgreementInv, IInv', Elsewhere \/ SyncOrganizations \/ SyncUsers \/ SyncMemberships
  PROVE  AgreementInv'
<1> USE DEF local, remote
<1>1. TypeOK /\ Stories /\ Prepared
  BY DEF AgreementInv, IInv
<1>2. UNCHANGED <<events, sent, clerk, row, req, clean>>
  BY DEF Elsewhere, DeleteOrg, OnOrganizationCreated, OnOrganizationDeleted, OnUserUpserted, Invite,
         SyncOrganizations, SyncUsers, SyncMemberships
<1>3. (tenant # "none" => tenant' # "none") /\ known \subseteq known'
  BY <1>1 DEF Elsewhere, DeleteOrg, OnOrganizationCreated, OnOrganizationDeleted, OnUserUpserted, Invite,
         SyncOrganizations, SyncUsers, SyncMemberships, UpsertedTenant, TypeOK
<1>4. Stories'
  BY <1>1, <1>2 DEF Stories, Of
<1>5. \A i \in Sent : events[i].stage \in {"first", "later"} => Resolved(i)'
  BY <1>1, <1>2, <1>3 DEF Prepared, Resolved
<1>6. sync'.at \in {"list", "members"} => tenant' # "none" /\ known' = Users
  <2>1. CASE Elsewhere
    <3>1. sync' = sync
      BY <2>1 DEF Elsewhere, DeleteOrg, OnOrganizationCreated, OnOrganizationDeleted, OnUserUpserted, Invite
    <3>2. known' \subseteq Users
      BY DEF IInv, TypeOK
    <3>. QED BY <1>1, <1>3, <3>1, <3>2 DEF Prepared
  <2>2. CASE SyncOrganizations
    <3>1. sync'.at = "orgs"
      BY <1>1, <2>2 DEF SyncOrganizations, TypeOK, Sync
    <3>. QED BY <3>1
  <2>3. CASE SyncUsers
    BY <1>1, <2>3 DEF SyncUsers, UpsertedTenant, TypeOK
  <2>4. CASE SyncMemberships
    BY <1>1, <2>4 DEF SyncMemberships, Prepared
  <2>. QED BY <2>1, <2>2, <2>3, <2>4
<1>7. Prepared'
  BY <1>2, <1>5, <1>6 DEF Prepared
<1>8. ASSUME NEW u \in Users PROVE UserFits(u)'
  <2>1. \A j \in Sent : Kept(j, u)
    BY <1>2 DEF Kept, Of, Same
  <2>. QED BY <1>2, <1>3, <2>1, Untouched
<1>. QED BY <1>4, <1>7, <1>8 DEF AgreementInv
-----------------------------------------------------------------------------
LEMMA NextAgreement == ASSUME AgreementInv, Next PROVE AgreementInv'
<1>1. IInv'
  BY NextIInv DEF AgreementInv
<1>2. ASSUME NEW u \in Users, Joins(u) \/ Changes(u) \/ Leave(u) PROVE AgreementInv'
  BY <1>1, <1>2, JoinsAgree, ChangesAgree, LeaveAgrees
<1>3. ASSUME NEW i \in Sent, Stages(i) \/ Applies(i) PROVE AgreementInv'
  BY <1>1, <1>3, StagesStep, AppliesStep
<1>4. ASSUME NEW q \in Requests, NEW u \in Users, Begins(q, u) PROVE AgreementInv'
  BY <1>1, <1>4, BeginsAgree
<1>5. ASSUME NEW q \in Requests, Patches(q) \/ GiveUp(q) \/ WriteRow(q) PROVE AgreementInv'
  BY <1>1, <1>5, MetadataAgrees, PatchSends, GiveUpAgrees, WriteRowAgrees DEF Patches
<1>6. ASSUME SyncNext \/ Elsewhere PROVE AgreementInv'
  BY <1>1, <1>6, SyncMembershipAgrees, ElsewhereAgrees DEF SyncNext
<1>. QED BY <1>2, <1>3, <1>4, <1>5, <1>6, Steps

LEMMA StutterAgreement == ASSUME AgreementInv, UNCHANGED vars PROVE AgreementInv'
<1>1. IInv'
  BY StutterIInv DEF AgreementInv
<1>2. Stories' /\ Prepared'
  BY DEF AgreementInv, vars, Stories, Prepared, Resolved, Of
<1>3. ASSUME NEW u \in Users PROVE UserFits(u)'
  <2>1. \A j \in Sent : Kept(j, u)
    BY DEF vars, Kept, Of, Same
  <2>. QED BY <2>1, Untouched DEF vars
<1>. QED BY <1>1, <1>2, <1>3 DEF AgreementInv

(* While nothing overtook a user, his events tell what Clerk holds and his *)
(* row follows them, whatever happens to the others.                       *)
THEOREM Agreement == Spec => []AgreementInv
<1>1. AgreementInv /\ [Next]_vars => AgreementInv'
  BY NextAgreement, StutterAgreement
<1>. QED BY InitAgreement, <1>1, PTL DEF Spec

(* The last event of a user for whom nothing is under way.                 *)
LEMMA QuietAgrees ==
  ASSUME AgreementInv, NEW u \in Users, clean[u], Quiet(u)
  PROVE  IF clerk[u].in
         THEN row[u].status = "ACTIVE" /\ row[u].role \in Meant(clerk[u].role, clerk[u].hint)
         ELSE row[u].status # "ACTIVE"
<1>1. UserFits(u) /\ \A i \in Sent : Of(i, u) => events[i].stage = "PROCESSED"
  BY DEF AgreementInv, Quiet, Of
<1>2. CASE clerk[u].in
  <2>1. PICK p \in Sent : Of(p, u) /\ events[p].kind = "created" /\ StillIn(p, u)
    BY <1>1, <1>2 DEF UserFits, ClerkTold
  <2>2. row[u].status = "ACTIVE"
    BY <1>1, <2>1 DEF UserFits, StatusFollows, Joined
  <2>3. PICK i \in Sent : /\ Last(i, u) /\ events[i].kind \in Joined /\ events[i].role = clerk[u].role
                          /\ events[i].hint = clerk[u].hint
    BY <1>2, ToldExactly DEF Quiet
  <2>4. row[u].role \in Meant(clerk[u].role, clerk[u].hint)
    BY <1>1, <2>3 DEF UserFits, RoleFollows, Last
  <2>. QED BY <1>2, <2>2, <2>4
<1>3. CASE ~clerk[u].in
  <2>1. CASE \A j \in Sent : ~Of(j, u)
    BY <1>1, <1>3, <2>1 DEF UserFits, RowFollows, NoRow
  <2>2. CASE \E p \in Sent : Of(p, u) /\ events[p].kind = "deleted" /\ StillOut(p, u)
    BY <1>1, <1>3, <2>2 DEF UserFits, RemovalFollows, StillOut
  <2>. QED BY <1>1, <1>3, <2>1, <2>2 DEF UserFits, ClerkTold
<1>. QED BY <1>2, <1>3

(* When nothing is under way for a user and nothing overtook, the row says *)
(* what Clerk says, however the requests and the webhooks interleaved      *)
(* (updateRole, removeMember and the membership handlers).                 *)
THEOREM RowsAgree == Spec => []InOrderAgrees
<1>1. AgreementInv => InOrderAgrees
  BY QuietAgrees DEF InOrderAgrees, Meant
<1>. QED BY <1>1, Agreement, PTL

(* The console takes a user for an admin or for nothing.                   *)
LEMMA OfferedToAdmins ==
  ASSUME NEW role, NEW action \in DOMAIN Required, canPerform(toWorkspaceRole(role), action)
  PROVE  role = "org:admin" /\ action # "tenant_manage"
BY DEF canPerform, toWorkspaceRole, ROLE_RANK, ACTION_MIN_ROLE, Required

LEMMA AdminsMay ==
  ASSUME NEW role \in {"Owner", "Admin"}, NEW action \in DOMAIN Required, action # "tenant_manage"
  PROVE  Required[action] \in Permissions[role]
BY DEF Required, Permissions, OwnerMay, AdminMay, OperatorMay

(* Whatever the console offers such a user for his Clerk role, the guards  *)
(* let him do by his row (roles.ts against seed.ts).                       *)
THEOREM OffersAreServed == Spec => []ShownIsServed
<1>1. AgreementInv => ShownIsServed
  <2> SUFFICES ASSUME AgreementInv, NEW u \in Users, NEW action \in DOMAIN Required,
                      clean[u], Quiet(u), clerk[u].in,
                      clerk[u].hint # None => clerk[u].role = ClerkRole(clerk[u].hint),
                      canPerform(toWorkspaceRole(clerk[u].role), action)
               PROVE  Permits(row[u], Required[action])
    BY DEF ShownIsServed
  <2>1. clerk[u].role = "org:admin" /\ action # "tenant_manage"
    BY OfferedToAdmins
  <2>2. row[u].status = "ACTIVE" /\ row[u].role \in Meant(clerk[u].role, clerk[u].hint)
    BY QuietAgrees
  <2>3. row[u].role \in {"Owner", "Admin"}
    BY <2>1, <2>2 DEF Meant, Coarse, ClerkRole
  <2>. QED BY <2>1, <2>2, <2>3, AdminsMay DEF Permits
<1>. QED BY <1>1, Agreement, PTL
=============================================================================
