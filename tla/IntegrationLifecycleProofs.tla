--------------------- MODULE IntegrationLifecycleProofs ---------------------
(***************************************************************************)
(* Proofs about IntegrationLifecycle, for any stores and providers, any    *)
(* number of requests at a time and of connect attempts.                   *)
(*                                                                         *)
(* A request writes by what it read several awaits earlier.  The inductive *)
(* invariant says what is still true of that: RequestFits of a request and *)
(* the row it saw, Fresh of the names that connecting requests are about   *)
(* to give.  Every step is one of a few kinds of change (Disturbs), and no *)
(* change of these kinds takes from a request what it relies on, whether   *)
(* it is another's or its own at its next await.                           *)
(***************************************************************************)
EXTENDS IntegrationLifecycle, TLAPS

Hooked(id) == \E a \in Attempt : <<id, a>> \in hooks

(* The awaits of a callback that has found its row.                        *)
Located == {"collide", "exchange", "credential", "register", "activate", "degrade", "fail"}

(* The awaits after which a status that needs a credential may be written. *)
Trusting == {"register", "activate", "degrade", "probe", "promote", "demote"}

(* The row the request m is about is still the one it saw.                 *)
Meets(m) == m.seen.id # 0 /\ row[m.on].id = m.seen.id

Named(m) ==
  /\ m.seen.id =< attempts
  /\ m.seen.id # 0 => \A i \in Integration : row[i].id = m.seen.id => i = m.on
  /\ m.at \in Connecting =>
       /\ m.seen.id = 0 /\ m.of # 0 /\ m.of =< attempts
       /\ issued[m.of] = None
       /\ \A i \in Integration : row[i].id # m.of
  /\ m.at \in Returning => m.of # 0 /\ issued[m.of] = m.on
  /\ m.at \in Located => m.seen.id # 0

Placed(m) ==
  /\ m.at = "group" => m.on \in Group
  /\ m.at = "upsert" => m.on \notin Keys
  /\ m.at \in {"validate", "store"} => m.on \in Keys
  /\ m.at \in {"register", "degrade", "unregister"} => m.on \in Stores

CredentialSeen(m) == m.at \in Trusting /\ Meets(m) => row[m.on].keyed

HookSeen(m) ==
  m.at \in {"activate", "promote"} /\ m.on \in Stores /\ Meets(m)
    => Hooked(m.seen.id) \/ m.seen.id \in closing

LeavingCloses(m) == m.at = "unregister" /\ Meets(m) => m.seen.id \in closing

PendingSeen(m) ==
  m.at \in {"resolve", "abandon"} /\ row[m.on].state = m.of
      /\ row[m.on].status = "CONNECTING" /\ ~row[m.on].keyed
    => m.seen.pending /\ m.seen.id = row[m.on].id

RequestFits(m) == /\ Named(m) /\ Placed(m) /\ CredentialSeen(m)
                  /\ HookSeen(m) /\ LeavingCloses(m) /\ PendingSeen(m)

(* No two requests come to share a name.                                   *)
Fresh ==
  \A p, q \in Requests : p # q /\ req[p].at \in Connecting =>
    /\ req[q].seen.id # req[p].of
    /\ req[q].at \in Connecting => req[q].of # req[p].of

RowsFit ==
  /\ \A i, j \in Integration : row[i].id # 0 /\ row[i].id = row[j].id => i = j
  /\ \A i \in Integration : /\ row[i].state # 0 => issued[row[i].state] = i
                            /\ row[i].id =< attempts
  /\ \A a \in Attempt : a > attempts => issued[a] = None

IInv == /\ TypeOK /\ RowsFit /\ Fresh /\ LiveHasCredential /\ ActiveIsHooked
        /\ \A q \in Requests : RequestFits(req[q])
-----------------------------------------------------------------------------
(* What a step of request q may do.  A row is deleted, written by its id,  *)
(* or upserted by a connect, which alone mints a state.                    *)

Written(i) ==
  /\ row'[i].id = row[i].id /\ row'[i].state \in {0, row[i].state}
  /\ row[i].keyed => row'[i].keyed
  /\ row'[i].status = "CONNECTING" /\ ~row'[i].keyed
       => row[i].status = "CONNECTING" /\ ~row[i].keyed

UpsertedBy(q, i) ==
  /\ i = req[q].on /\ req[q].at \in {"upsert", "store"}
  /\ row'[i].id = IF row[i].id = 0 THEN req[q].of ELSE row[i].id
  /\ row'[i].state = IF req[q].at = "upsert" THEN req[q].of ELSE row[i].state
  /\ row[i].keyed => row'[i].keyed
  /\ row'[i].status = "CONNECTING" => req[q].at = "upsert"

Sound(i) ==
  /\ row'[i].status \in Live => row'[i].keyed
  /\ i \in Stores /\ row'[i].status = "ACTIVE" =>
       \/ row[i].status = "ACTIVE" /\ row'[i].id = row[i].id
       \/ row'[i].id \in closing'
       \/ \E a \in Attempt : <<row'[i].id, a>> \in hooks'

Gone(id) == \A i \in Integration : row'[i].id # id

Disturbs(q) ==
  /\ \A i \in Integration : Sound(i) /\ (row'[i] = NoRow \/ Written(i) \/ UpsertedBy(q, i))
  /\ \A a \in Attempt : IF req[q].at = "upsert" /\ a = req[q].of
                          THEN issued'[a] \in {None, req[q].on} ELSE issued'[a] = issued[a]
  /\ req[q].at = "upsert" => issued'[req[q].of] = req[q].on \/ row' = row
  /\ attempts =< attempts'
  /\ \A id \in Attempt :
       /\ id \in closing => id \in closing' \/ Gone(id)
       /\ Hooked(id) => Hooked(id)' \/ id \in closing' \/ Gone(id)

(* q's upsert gives no name that m relies on.                              *)
Apart(q, m) ==
  req[q].at \in {"upsert", "store"} =>
    /\ m.seen.id # req[q].of
    /\ m.at \in Connecting => m.of # req[q].of

LEMMA Constants ==
  /\ MaxAttempts \in Nat /\ Number = 0 .. MaxAttempts /\ Attempt = 1 .. MaxAttempts
  /\ None \notin Integration /\ Stores \intersect Keys = {} /\ Stores \subseteq Integration
  /\ Keys \subseteq Integration
BY LifecycleAssumption DEF Number, Attempt, Integration, Group

LEMMA RowTyped ==
  ASSUME TypeOK, NEW i \in Integration
  PROVE  /\ row[i].id \in Number /\ row[i].state \in Number /\ row[i].hook \in Number
         /\ row[i].keyed \in BOOLEAN
         /\ row[i].id = 0 => row[i] = NoRow
         /\ row[i] # NoRow => row[i] \in Row /\ row[i].id \in Attempt
<1>1. row[i] \in Row \union {NoRow} /\ 0 \in Number /\ 0 \notin Attempt /\ Attempt \subseteq Number
  BY Constants DEF TypeOK
<1>2. CASE row[i] \in Row
  BY <1>1, <1>2 DEF Row
<1>3. CASE row[i] = NoRow
  BY <1>1, <1>3 DEF NoRow
<1>. QED BY <1>1, <1>2, <1>3

LEMMA RequestTyped ==
  ASSUME NEW m \in Request \union {NoRequest}
  PROVE  /\ m.at # "idle" => m \in Request /\ m.on \in Integration
         /\ m.at \in Connecting \union Returning \union Testing \union Leaving \union {"idle"}
         /\ m.of \in Number /\ m.seen.id \in Number /\ m.seen.hook \in Number
         /\ m.at = "idle" => m = NoRequest /\ m.seen.id = 0
BY Constants DEF Request, NoRequest, Connecting, Returning, Testing, Leaving, Seen, NoRow

LEMMA NamedStable ==
  ASSUME IInv, TypeOK', NEW q \in Requests, Disturbs(q),
         NEW m \in Request \union {NoRequest}, Named(m), Apart(q, m)
  PROVE  Named(m)'
<1>1. m.of \in Number /\ m.seen.id \in Number
  BY RequestTyped
<1>2. attempts \in Nat /\ attempts' \in Nat
  BY Constants DEF IInv, TypeOK
<1>3. Named(req[q])
  BY DEF IInv, RequestFits
<1>4. ASSUME NEW i \in Integration
      PROVE  \/ row'[i].id = 0 \/ row'[i].id = row[i].id
             \/ req[q].at \in {"upsert", "store"} /\ row'[i].id = req[q].of
  BY <1>4 DEF Disturbs, Written, UpsertedBy, NoRow
<1>5. ASSUME m.of # 0, NEW w, issued[m.of] = w, req[q].at = "upsert" => m.of # req[q].of
      PROVE  issued'[m.of] = w
  BY <1>1, <1>5, Constants DEF Disturbs
<1>6. m.seen.id # 0 => \A i \in Integration : row'[i].id = m.seen.id => i = m.on
  BY <1>4 DEF Named, Apart
<1>7. m.at \in Connecting => issued'[m.of] = None /\ \A i \in Integration : row'[i].id # m.of
  BY <1>4, <1>5 DEF Named, Apart
<1>8. m.at \in Returning => m.of # 0 /\ issued'[m.of] = m.on
  <2>1. m.at \in Returning => m.on \in Integration /\ m.at # "idle"
    BY RequestTyped DEF Returning
  <2>2. req[q].at = "upsert" => issued[req[q].of] = None
    BY <1>3 DEF Named, Connecting
  <2>. QED BY <1>5, <2>1, <2>2, Constants DEF Named
<1>9. m.seen.id =< attempts' /\ (m.of =< attempts => m.of =< attempts')
  BY <1>1, <1>2, Constants DEF Named, Disturbs
<1>. QED BY <1>6, <1>7, <1>8, <1>9 DEF Named

(* A request that meets its row after the step met it before.              *)
LEMMA Meeting ==
  ASSUME IInv, NEW q \in Requests, Disturbs(q),
         NEW m \in Request \union {NoRequest}, m.at # "idle", Apart(q, m), Meets(m)'
  PROVE  /\ Meets(m) /\ (row[m.on].keyed => row'[m.on].keyed)
         /\ ~Gone(m.seen.id) /\ m.seen.id \in Attempt
<1>1. m.on \in Integration /\ m.seen.id \in Number
  BY RequestTyped
<1>2. m.seen.id # 0 /\ row'[m.on].id = m.seen.id
  BY DEF Meets
<1>3. m.seen.id \in Attempt /\ ~Gone(m.seen.id)
  BY <1>1, <1>2, Constants DEF Gone
<1>4. Written(m.on) \/ UpsertedBy(q, m.on)
  BY <1>1, <1>2 DEF Disturbs, NoRow
<1>5. row'[m.on].id = row[m.on].id /\ (row[m.on].keyed => row'[m.on].keyed)
  BY <1>2, <1>4 DEF Written, UpsertedBy, Apart
<1>. QED BY <1>2, <1>3, <1>5 DEF Meets

LEMMA PendingStable ==
  ASSUME IInv, NEW q \in Requests, Disturbs(q),
         NEW m \in Request \union {NoRequest}, Named(m), PendingSeen(m)
  PROVE  PendingSeen(m)'
<1> SUFFICES ASSUME m.at \in {"resolve", "abandon"}, row'[m.on].state = m.of,
                    row'[m.on].status = "CONNECTING", ~row'[m.on].keyed
             PROVE  m.seen.pending /\ m.seen.id = row'[m.on].id
  BY DEF PendingSeen
<1>1. m.on \in Integration /\ m.of # 0 /\ issued[m.of] = m.on
  BY RequestTyped DEF Named, Returning
<1>2. ~UpsertedBy(q, m.on)
  <2>1. SUFFICES ASSUME UpsertedBy(q, m.on) PROVE FALSE
    OBVIOUS
  <2>2. req[q].at = "upsert" /\ m.of = req[q].of
    BY <2>1 DEF UpsertedBy
  <2>3. issued[req[q].of] = None
    BY <2>2 DEF IInv, RequestFits, Named, Connecting
  <2>. QED BY <1>1, <2>2, <2>3, Constants
<1>3. Written(m.on)
  BY <1>1, <1>2 DEF Disturbs, NoRow
<1>. QED BY <1>1, <1>3 DEF Written, PendingSeen

LEMMA FitsStable ==
  ASSUME IInv, TypeOK', NEW q \in Requests, Disturbs(q),
         NEW m \in Request \union {NoRequest}, RequestFits(m), Apart(q, m)
  PROVE  RequestFits(m)'
<1>1. Named(m)' /\ Placed(m)' /\ PendingSeen(m)'
  BY NamedStable, PendingStable DEF RequestFits, Placed
<1>2. CredentialSeen(m)'
  BY Meeting DEF RequestFits, CredentialSeen, Trusting
<1>3. HookSeen(m)'
  BY Meeting DEF RequestFits, HookSeen, Disturbs
<1>4. LeavingCloses(m)'
  BY Meeting DEF RequestFits, LeavingCloses, Disturbs
<1>. QED BY <1>1, <1>2, <1>3, <1>4 DEF RequestFits

LEMMA RowsStable ==
  ASSUME IInv, TypeOK', NEW q \in Requests, Disturbs(q)
  PROVE  RowsFit' /\ LiveHasCredential' /\ ActiveIsHooked'
<1>1. Named(req[q]) /\ req[q] \in Request \union {NoRequest}
  BY DEF IInv, RequestFits, TypeOK
<1>2. attempts \in Nat /\ attempts' \in Nat /\ attempts =< attempts'
  BY Constants DEF IInv, TypeOK, Disturbs
<1>3. ASSUME NEW i \in Integration
      PROVE  \/ row'[i].id = 0 \/ row'[i].id = row[i].id
             \/ i = req[q].on /\ req[q].at \in Connecting /\ row'[i].id = req[q].of
  BY <1>3 DEF Disturbs, Written, UpsertedBy, NoRow, Connecting
<1>4. ASSUME NEW i \in Integration, NEW j \in Integration, row'[i].id # 0, row'[i].id = row'[j].id
      PROVE  i = j
  BY <1>1, <1>3, <1>4 DEF Named, IInv, RowsFit
<1>5. ASSUME NEW i \in Integration PROVE row'[i].id =< attempts'
  <2>1. row[i].id \in Number /\ row[i].id =< attempts
    BY <1>5, RowTyped DEF IInv, RowsFit
  <2>2. req[q].of \in Number
    BY <1>1, RequestTyped
  <2>. QED BY <1>1, <1>2, <1>3, <2>1, <2>2, Constants DEF Named
<1>6. ASSUME NEW i \in Integration, row'[i].state # 0 PROVE issued'[row'[i].state] = i
  <2>1. row[i].state \in Number /\ row[i].id \in Number /\ req[q].of \in Number
    BY <1>1, RowTyped, RequestTyped DEF IInv
  <2>2. CASE row'[i] = row[i]
    <3>1. row[i].state \in Attempt /\ issued[row[i].state] = i
      BY <1>6, <2>1, <2>2, Constants DEF IInv, RowsFit
    <3>2. req[q].at = "upsert" => issued[req[q].of] = None
      BY <1>1 DEF Named, Connecting
    <3>. QED BY <2>2, <3>1, <3>2, Constants DEF Disturbs
  <2>3. CASE row'[i].state = row[i].state /\ row'[i] # row[i]
    <3>1. row[i].state \in Attempt /\ issued[row[i].state] = i
      BY <1>6, <2>1, <2>3, Constants DEF IInv, RowsFit
    <3>2. req[q].at = "upsert" => issued[req[q].of] = None
      BY <1>1 DEF Named, Connecting
    <3>. QED BY <2>3, <3>1, <3>2, Constants DEF Disturbs
  <2>4. CASE row'[i].state # row[i].state
    <3>1. UpsertedBy(q, i)
      BY <1>6, <2>4 DEF Disturbs, Written, NoRow
    <3>. QED BY <2>4, <3>1 DEF UpsertedBy, Disturbs
  <2>. QED BY <2>2, <2>3, <2>4
<1>7. ASSUME NEW a \in Attempt, a > attempts' PROVE issued'[a] = None
  <2>1. issued[a] = None
    BY <1>2, <1>7, Constants DEF IInv, RowsFit
  <2>2. ~(req[q].at = "upsert" /\ a = req[q].of)
    BY <1>1, <1>2, <1>7, Constants DEF Named, Connecting
  <2>. QED BY <2>1, <2>2 DEF Disturbs
<1>8. LiveHasCredential'
  BY DEF LiveHasCredential, Disturbs, Sound
<1>9. ASSUME NEW i \in Stores, row'[i].status = "ACTIVE", row'[i].id \notin closing'
      PROVE  \E a \in Attempt : <<row'[i].id, a>> \in hooks'
  <2>1. i \in Integration /\ ~Gone(row'[i].id)
    BY Constants DEF Gone
  <2>2. CASE row[i].status = "ACTIVE" /\ row'[i].id = row[i].id
    <3>1. PICK id \in Attempt : id = row[i].id
      BY <2>1, <2>2, RowTyped DEF IInv, NoRow
    <3>2. id \in closing \/ Hooked(id)
      BY <1>9, <2>2, <3>1 DEF IInv, ActiveIsHooked, Hooked
    <3>3. Hooked(id)'
      BY <1>9, <2>1, <2>2, <3>1, <3>2 DEF Disturbs
    <3>. QED BY <2>2, <3>1, <3>3 DEF Hooked
  <2>. QED BY <1>9, <2>1, <2>2 DEF Disturbs, Sound
<1>10. RowsFit'
  BY <1>4, <1>5, <1>6, <1>7 DEF RowsFit
<1>11. ActiveIsHooked'
  BY <1>9 DEF ActiveIsHooked
<1>. QED BY <1>8, <1>10, <1>11

LEMMA FreshStable ==
  ASSUME IInv, NEW q \in Requests, NEW r, req' = [req EXCEPT ![q] = r],
         r.at \in Connecting => r.of > attempts \/ (req[q].at \in Connecting /\ r.of = req[q].of),
         r.seen.id \in {0, req[q].seen.id} \/ \E i \in Integration : r.seen.id = row[i].id
  PROVE  Fresh'
<1> SUFFICES ASSUME NEW p \in Requests, NEW s \in Requests, p # s, req'[p].at \in Connecting
             PROVE  /\ req'[s].seen.id # req'[p].of
                    /\ req'[s].at \in Connecting => req'[s].of # req'[p].of
  BY DEF Fresh
<1>1. \A t \in Requests : req'[t] = IF t = q THEN r ELSE req[t]
  BY DEF IInv, TypeOK
<1>2. /\ req[p] \in Request \union {NoRequest} /\ Named(req[p])
      /\ req[s] \in Request \union {NoRequest} /\ Named(req[s])
  BY DEF IInv, TypeOK, RequestFits
<1>3. /\ req[p].of \in Number /\ req[p].seen.id \in Number
      /\ req[s].of \in Number /\ req[s].seen.id \in Number /\ attempts \in Nat
  BY <1>2, RequestTyped, Constants DEF IInv, TypeOK
<1>4. CASE p = q /\ r.of > attempts
  BY <1>1, <1>2, <1>3, <1>4, Constants DEF Named
<1>5. CASE req[p].at \in Connecting /\ req'[p].of = req[p].of
  <2>1. req[p].of # 0 /\ req[p].of =< attempts /\ \A i \in Integration : row[i].id # req[p].of
    BY <1>2, <1>5 DEF Named
  <2>2. /\ req[s].seen.id # req[p].of
        /\ req[s].at \in Connecting => req[s].of # req[p].of
    BY <1>5 DEF IInv, Fresh
  <2>. QED BY <1>1, <1>3, <1>5, <2>1, <2>2, Constants
<1>. QED BY <1>1, <1>4, <1>5

LEMMA FitsAs ==
  ASSUME NEW q \in Requests, NEW m, req'[q] = m, RequestFits(m)'
  PROVE  RequestFits(req[q])'
<1>1. Named(req[q])' /\ Placed(req[q])'
  BY DEF RequestFits, Named, Placed
<1>2. CredentialSeen(req[q])' /\ LeavingCloses(req[q])'
  BY DEF RequestFits, CredentialSeen, LeavingCloses, Meets
<1>3. HookSeen(req[q])'
  BY DEF RequestFits, HookSeen, Meets, Hooked
<1>4. PendingSeen(req[q])'
  BY DEF RequestFits, PendingSeen
<1>. QED BY <1>1, <1>2, <1>3, <1>4 DEF RequestFits

(* A step of q preserves the invariant if what it leaves q with fits.      *)
LEMMA Serves ==
  ASSUME IInv, TypeOK', NEW q \in Requests, Disturbs(q),
         NEW r \in Request \union {NoRequest}, req' = [req EXCEPT ![q] = r],
         r.at \in Connecting => r.of > attempts \/ (req[q].at \in Connecting /\ r.of = req[q].of),
         r.seen.id \in {0, req[q].seen.id} \/ \E i \in Integration : r.seen.id = row[i].id,
         RequestFits(r)'
  PROVE  IInv'
<1>1. Fresh' /\ RowsFit' /\ LiveHasCredential' /\ ActiveIsHooked'
  BY FreshStable, RowsStable
<1>2. ASSUME NEW p \in Requests PROVE RequestFits(req[p])'
  <2>1. CASE p = q
    <3>1. req'[p] = r
      BY <2>1 DEF IInv, TypeOK
    <3>. QED BY <3>1, FitsAs
  <2>2. CASE p # q
    <3>1. PICK m \in Request \union {NoRequest} : m = req[p]
      BY DEF IInv, TypeOK
    <3>2. req'[p] = m
      BY <2>2, <3>1 DEF IInv, TypeOK
    <3>3. RequestFits(m) /\ Apart(q, m)
      BY <2>2, <3>1 DEF IInv, Fresh, Apart, Connecting
    <3>4. RequestFits(m)'
      BY <3>3, FitsStable
    <3>. QED BY <3>2, <3>4, FitsAs
  <2>. QED BY <2>1, <2>2
<1>. QED BY <1>1, <1>2 DEF IInv

(* The steps' common shapes: nothing but the request changes, the request  *)
(* ends, one row is written.                                               *)
LEMMA Unmoved ==
  ASSUME IInv, NEW q \in Requests, UNCHANGED <<row, issued>>,
         hooks \subseteq hooks', closing \subseteq closing', attempts =< attempts'
  PROVE  Disturbs(q)
<1>1. ASSUME NEW i \in Integration PROVE Sound(i) /\ Written(i)
  BY DEF Sound, Written, IInv, LiveHasCredential
<1>2. ASSUME NEW id \in Attempt, Hooked(id) PROVE Hooked(id)'
  BY <1>2 DEF Hooked
<1>3. req[q].at = "upsert" => issued[req[q].of] = None
  BY DEF IInv, RequestFits, Named, Connecting
<1>. QED BY <1>1, <1>2, <1>3 DEF Disturbs

LEMMA Quiet ==
  ASSUME IInv, NEW q \in Requests, UNCHANGED <<row, hooks, attempts, issued, closing>>,
         spent' \subseteq Attempt,
         NEW r \in Request \union {NoRequest}, req' = [req EXCEPT ![q] = r],
         r.at \in Connecting => req[q].at \in Connecting /\ r.of = req[q].of,
         r.seen.id \in {0, req[q].seen.id} \/ \E i \in Integration : r.seen.id = row[i].id,
         RequestFits(r)
  PROVE  IInv'
<1>1. TypeOK'
  BY DEF IInv, TypeOK
<1>2. attempts =< attempts'
  BY Constants DEF IInv, TypeOK
<1>3. Disturbs(q)
  BY <1>2, Unmoved
<1>4. RequestFits(r)'
  BY DEF RequestFits, Named, Placed, CredentialSeen, HookSeen, LeavingCloses, PendingSeen, Meets, Hooked
<1>. QED BY <1>1, <1>3, <1>4, Serves

LEMMA IdleFits ==
  ASSUME TypeOK PROVE RequestFits(NoRequest)
<1>1. 0 =< attempts
  BY Constants DEF TypeOK
<1>. QED BY <1>1 DEF RequestFits, Named, Placed, CredentialSeen, HookSeen, LeavingCloses, PendingSeen,
                     NoRequest, Seen, NoRow, Connecting, Returning, Located, Trusting

LEMMA Ends ==
  ASSUME IInv, TypeOK', NEW q \in Requests, Disturbs(q), End(q)
  PROVE  IInv'
<1>1. /\ NoRequest \in Request \union {NoRequest} /\ NoRequest.at \notin Connecting
      /\ NoRequest.seen.id = 0
  BY DEF NoRequest, Seen, NoRow, Connecting
<1>2. TypeOK' => RequestFits(NoRequest)'
  BY IdleFits, PTL
<1>. QED BY <1>1, <1>2, Serves DEF End

LEMMA EndsQuietly ==
  ASSUME IInv, NEW q \in Requests, UNCHANGED <<row, hooks, attempts, issued, closing>>,
         spent' \subseteq Attempt, End(q)
  PROVE  IInv'
<1>1. TypeOK'
  BY DEF IInv, TypeOK, End
<1>2. attempts =< attempts'
  BY Constants DEF IInv, TypeOK
<1>. QED BY <1>1, <1>2, Unmoved, Ends

(* What is known of the request a step of q serves.                        *)
LEMMA Serving ==
  ASSUME IInv, NEW q \in Requests, req[q].at # "idle"
  PROVE  /\ req[q] \in Request /\ req[q].on \in Integration /\ RequestFits(req[q])
         /\ row[req[q].on] \in Row \union {NoRow}
         /\ req[q].of \in Number /\ req[q].seen.id \in Number
BY RequestTyped, Constants DEF IInv, TypeOK

LEMMA SetsRow ==
  ASSUME IInv, NEW q \in Requests, NEW x \in Row \union {NoRow}, req[q].on \in Integration, SetRow(q, x),
         req' \in [Requests -> Request \union {NoRequest}],
         UNCHANGED <<hooks, attempts, spent>>, issued' \in [Attempt -> Integration \union {None}],
         closing' = closing \/ (closing' = closing \ {row[req[q].on].id} /\ x = NoRow),
         \A a \in Attempt : a # req[q].of => issued'[a] = issued[a],
         issued' = issued \/ (req[q].at = "upsert" /\ issued'[req[q].of] = req[q].on),
         req[q].at = "upsert" => issued'[req[q].of] = req[q].on,
         Sound(req[q].on), x = NoRow \/ Written(req[q].on) \/ UpsertedBy(q, req[q].on)
  PROVE  TypeOK' /\ Disturbs(q)
<1>1. row' \in [Integration -> Row \union {NoRow}]
      /\ \A i \in Integration : row'[i] = IF i = req[q].on THEN x ELSE row[i]
  BY DEF IInv, TypeOK, SetRow
<1>2. TypeOK'
  BY <1>1 DEF IInv, TypeOK
<1>3. ASSUME NEW i \in Integration, i # req[q].on PROVE Sound(i) /\ Written(i)
  BY <1>1, <1>3 DEF Sound, Written, IInv, LiveHasCredential
<1>4. attempts =< attempts'
  BY Constants DEF IInv, TypeOK
<1>5. ASSUME NEW id \in Attempt, id \in closing PROVE id \in closing' \/ Gone(id)
  <2>1. CASE id = row[req[q].on].id /\ x = NoRow
    <3>1. \A i \in Integration : i # req[q].on => row[i].id # id
      BY <2>1, Constants DEF IInv, RowsFit
    <3>. QED BY <1>1, <2>1, <3>1, Constants DEF Gone, NoRow
  <2>. QED BY <1>5, <2>1
<1>6. \A id \in Attempt : Hooked(id) => Hooked(id)'
  BY DEF Hooked
<1>7. ASSUME NEW i \in Integration
      PROVE  Sound(i) /\ (row'[i] = NoRow \/ Written(i) \/ UpsertedBy(q, i))
  BY <1>1, <1>3
<1>8. \A a \in Attempt : IF req[q].at = "upsert" /\ a = req[q].of
                           THEN issued'[a] \in {None, req[q].on} ELSE issued'[a] = issued[a]
  OBVIOUS
<1>. QED BY <1>2, <1>4, <1>5, <1>6, <1>7, <1>8 DEF Disturbs
-----------------------------------------------------------------------------
(* The steps.                                                              *)

LEMMA InitIInv == Init => IInv
<1> SUFFICES ASSUME Init PROVE IInv
  OBVIOUS
<1>1. TypeOK
  BY Constants DEF Init, TypeOK
<1>2. ASSUME NEW q \in Requests PROVE RequestFits(req[q])
  BY <1>1, IdleFits DEF Init
<1>3. RowsFit
  BY Constants DEF Init, RowsFit, NoRow
<1>4. Fresh
  BY DEF Init, Fresh, NoRequest, Connecting
<1>5. LiveHasCredential /\ ActiveIsHooked
  BY Constants DEF Init, LiveHasCredential, ActiveIsHooked, NoRow, Live
<1>. QED BY <1>1, <1>2, <1>3, <1>4, <1>5 DEF IInv

(* A request goes to another await: what it carries is known, and so is    *)
(* what the new await asks for.                                            *)
LEMMA Goes ==
  ASSUME IInv, NEW q \in Requests, UNCHANGED <<row, hooks, attempts, issued, closing>>,
         spent' \subseteq Attempt, req[q].at # "idle",
         NEW label \in Connecting \union Returning \union Testing \union Leaving, Goto(q, label),
         label \in Connecting => req[q].at \in Connecting,
         label \in Returning => req[q].at \in Returning,
         label \in Located => req[q].seen.id # 0,
         LET r == [req[q] EXCEPT !.at = label]
         IN  Placed(r) /\ CredentialSeen(r) /\ HookSeen(r) /\ LeavingCloses(r) /\ PendingSeen(r)
  PROVE  IInv'
<1>1. PICK m \in Request : m = req[q]
  BY Serving
<1> DEFINE r == [m EXCEPT !.at = label]
<1>2. r \in Request /\ r.at = label /\ r.on = m.on /\ r.of = m.of /\ r.seen = m.seen
  BY DEF Request
<1>3. req' = [req EXCEPT ![q] = r]
  BY <1>1 DEF Goto
<1>4. Named(r)
  BY <1>1, <1>2, Serving DEF RequestFits, Named
<1>5. RequestFits(r)
  BY <1>1, <1>4 DEF RequestFits
<1> HIDE DEF r
<1>. QED BY <1>1, <1>2, <1>3, <1>5, Quiet

LEMMA ConnectStep ==
  ASSUME IInv, NEW q \in Requests, NEW i \in Integration, Connect(q, i)
  PROVE  IInv'
<1>1. PICK s \in Shops \union {None} :
        Begin(q, IF i \in Group THEN "group" ELSE "upsert", i, attempts + 1, s, NoRow)
  BY DEF Connect
<1>2. PICK n : n = attempts + 1
  OBVIOUS
<1>3. attempts \in Nat /\ attempts < MaxAttempts /\ n \in Attempt /\ n \in Number
  BY <1>2, Constants DEF Connect, IInv, TypeOK
<1> DEFINE r == [at |-> IF i \in Group THEN "group" ELSE "upsert", on |-> i, of |-> n, shop |-> s,
                 seen |-> Seen(NoRow)]
<1>4. Seen(NoRow) \in [id : Number, hook : Number, pending : BOOLEAN] /\ Seen(NoRow).id = 0
  BY Constants DEF Seen, NoRow
<1>5. /\ r \in Request /\ r.at \in {"group", "upsert"} /\ r.on = i /\ r.of = n /\ r.seen.id = 0
      /\ r.at = "group" <=> i \in Group
  BY <1>3, <1>4 DEF Request, Connecting
<1>6. req' = [req EXCEPT ![q] = r] /\ UNCHANGED <<row, hooks, issued, spent, closing>> /\ attempts' = n
  BY <1>1, <1>2 DEF Begin, Connect
<1> HIDE DEF r
<1>7. TypeOK'
  BY <1>3, <1>5, <1>6 DEF IInv, TypeOK
<1>8. Disturbs(q)
  BY <1>2, <1>3, <1>6, Unmoved
<1>9. Named(r)'
  <2>1. \A j \in Integration : row[j].id # n
    <3>1. \A j \in Integration : row[j].id \in Number /\ row[j].id =< attempts
      BY RowTyped DEF IInv, RowsFit
    <3>. QED BY <1>2, <1>3, <3>1, Constants
  <2>2. issued[n] = None
    BY <1>2, <1>3, Constants DEF IInv, RowsFit
  <2>. QED BY <1>3, <1>5, <1>6, <2>1, <2>2, Constants DEF Named, Connecting, Returning, Located
<1>10. RequestFits(r)'
  BY <1>5, <1>9 DEF RequestFits, Placed, CredentialSeen, HookSeen, LeavingCloses, PendingSeen,
     Trusting, Group
<1>11. r.of > attempts /\ r.seen.id = 0
  BY <1>2, <1>3, <1>5
<1>. QED BY <1>5, <1>6, <1>7, <1>8, <1>10, <1>11, Serves

LEMMA CheckGroupStep ==
  ASSUME IInv, NEW q \in Requests, CheckGroup(q)
  PROVE  IInv'
<1>1. UNCHANGED <<row, hooks, attempts, issued, closing>> /\ spent' \subseteq Attempt /\ req[q].at = "group"
  BY DEF CheckGroup, At, IInv, TypeOK
<1>2. CASE End(q)
  BY <1>1, <1>2, EndsQuietly
<1>3. CASE Goto(q, IF req[q].on \in Keys THEN "validate" ELSE "upsert")
  <2>1. PICK label : label = IF req[q].on \in Keys THEN "validate" ELSE "upsert"
    OBVIOUS
  <2>2. /\ label \in {"validate", "upsert"} /\ Goto(q, label)
        /\ label = "validate" <=> req[q].on \in Keys
    BY <1>3, <2>1
  <2> DEFINE r == [req[q] EXCEPT !.at = label]
  <2>3. r.at = label /\ r.on = req[q].on
    BY <1>1, Serving DEF Request
  <2>4. Placed(r) /\ CredentialSeen(r) /\ HookSeen(r) /\ LeavingCloses(r) /\ PendingSeen(r)
    BY <2>2, <2>3 DEF Placed, CredentialSeen, HookSeen, LeavingCloses, PendingSeen, Trusting
  <2>5. label \in Connecting /\ label \notin Returning /\ label \notin Located
    BY <2>2 DEF Connecting, Returning, Located
  <2>. QED BY <1>1, <2>2, <2>4, <2>5, Goes DEF Connecting
<1>. QED BY <1>2, <1>3 DEF CheckGroup

LEMMA ValidateKeyStep ==
  ASSUME IInv, NEW q \in Requests, ValidateKey(q)
  PROVE  IInv'
<1>1. /\ UNCHANGED <<row, hooks, attempts, issued, closing>> /\ spent' \subseteq Attempt
      /\ req[q].at = "validate" /\ Goto(q, "store")
  BY DEF ValidateKey, At, IInv, TypeOK
<1> DEFINE r == [req[q] EXCEPT !.at = "store"]
<1>2. r.at = "store" /\ r.on = req[q].on /\ req[q].on \in Keys
  BY <1>1, Serving DEF Request, RequestFits, Placed
<1>3. Placed(r) /\ CredentialSeen(r) /\ HookSeen(r) /\ LeavingCloses(r) /\ PendingSeen(r)
  BY <1>2 DEF Placed, CredentialSeen, HookSeen, LeavingCloses, PendingSeen, Trusting
<1>. QED BY <1>1, <1>3, Goes DEF Connecting, Returning, Located

(* A row as a connect finds it, with the empty row among them.             *)
Slot == [id : Number, status : {"CONNECTING", "ACTIVE", "DEGRADED", "ERROR", "DISCONNECTED"},
         state : Number, late : BOOLEAN, keyed : BOOLEAN, shop : Shops \union {None}, hook : Number]

LEMMA RowsAreSlots ==
  ASSUME NEW o \in Row \union {NoRow}
  PROVE  o \in Slot
<1>1. 0 \in Number /\ Attempt \subseteq Number
  BY Constants
<1>2. CASE o \in Row
  BY <1>1, <1>2 DEF Row, Slot
<1>3. CASE o = NoRow
  BY <1>1, <1>3 DEF NoRow, Slot
<1>. QED BY <1>2, <1>3

LEMMA MintStep ==
  ASSUME IInv, NEW q \in Requests, Mint(q)
  PROVE  IInv'
<1>1. /\ req[q].at = "upsert" /\ req[q] \in Request /\ req[q].on \in Integration
      /\ row[req[q].on] \in Row \union {NoRow} /\ Named(req[q])
      /\ UNCHANGED <<hooks, attempts, spent, closing>> /\ End(q)
  BY Serving DEF Mint, At, RequestFits
<1>2. req[q].of \in Attempt /\ req[q].of \in Number /\ req[q].shop \in Shops \union {None} /\ 0 \in Number
  BY <1>1, Constants DEF Named, Request, Connecting
<1> DEFINE o == row[req[q].on]
           x == [Upserted(q) EXCEPT !.status = "CONNECTING", !.state = req[q].of,
                                    !.late = FALSE, !.shop = req[q].shop, !.hook = 0]
<1>3. /\ x \in Row /\ x.id = (IF o.id = 0 THEN req[q].of ELSE o.id) /\ x.state = req[q].of
      /\ x.keyed = o.keyed /\ x.status = "CONNECTING"
  <2>1. PICK w \in Slot : w = o
    BY <1>1, RowsAreSlots
  <2>2. PICK n \in Attempt, s \in Shops \union {None} : n = req[q].of /\ s = req[q].shop
    BY <1>2
  <2>3. w.id # 0 => w.id \in Attempt
    BY <2>1, Constants DEF Slot
  <2>4. x = [w EXCEPT !.id = IF w.id = 0 THEN n ELSE w.id, !.status = "CONNECTING", !.state = n,
                      !.late = FALSE, !.shop = s, !.hook = 0]
    BY <2>1, <2>2 DEF Upserted, Mine, Slot
  <2>. QED BY <1>2, <2>1, <2>2, <2>3, <2>4, Constants DEF Row, Slot
<1>4. SetRow(q, x)
  BY DEF Mint
<1>5. row'[req[q].on] = x
  BY <1>1, <1>4 DEF SetRow, IInv, TypeOK
<1> HIDE DEF x
<1>6. Sound(req[q].on) /\ UpsertedBy(q, req[q].on)
  BY <1>1, <1>3, <1>5 DEF Sound, Live, UpsertedBy
<1>7. /\ issued' \in [Attempt -> Integration \union {None}] /\ issued'[req[q].of] = req[q].on
      /\ \A a \in Attempt : a # req[q].of => issued'[a] = issued[a]
  BY <1>1, <1>2 DEF Mint, IInv, TypeOK
<1>8. req' \in [Requests -> Request \union {NoRequest}]
  BY <1>1 DEF End, IInv, TypeOK
<1>9. TypeOK' /\ Disturbs(q)
  BY <1>1, <1>3, <1>4, <1>6, <1>7, <1>8, SetsRow
<1>. QED BY <1>1, <1>9, Ends

LEMMA StoreKeyStep ==
  ASSUME IInv, NEW q \in Requests, StoreKey(q)
  PROVE  IInv'
<1>1. /\ req[q].at = "store" /\ req[q] \in Request /\ req[q].on \in Integration
      /\ row[req[q].on] \in Row \union {NoRow} /\ Named(req[q]) /\ req[q].on \in Keys
      /\ UNCHANGED <<hooks, attempts, spent, closing, issued>> /\ End(q)
  BY Serving DEF StoreKey, At, RequestFits, Placed
<1>2. req[q].of \in Attempt /\ 0 \in Number
  BY <1>1, Constants DEF Named, Request, Connecting
<1> DEFINE o == row[req[q].on]
           x == [Upserted(q) EXCEPT !.status = "ACTIVE", !.keyed = TRUE]
<1>3. /\ x \in Row /\ x.id = (IF o.id = 0 THEN req[q].of ELSE o.id) /\ x.state = o.state
      /\ x.keyed = TRUE /\ x.status = "ACTIVE"
  <2>1. PICK w \in Slot : w = o
    BY <1>1, RowsAreSlots
  <2>2. PICK n \in Attempt : n = req[q].of
    BY <1>2
  <2>3. w.id # 0 => w.id \in Attempt
    BY <2>1, Constants DEF Slot
  <2>4. x = [w EXCEPT !.id = IF w.id = 0 THEN n ELSE w.id, !.status = "ACTIVE", !.keyed = TRUE]
    BY <2>1, <2>2 DEF Upserted, Mine, Slot
  <2>. QED BY <2>1, <2>2, <2>3, <2>4 DEF Row, Slot
<1>4. SetRow(q, x)
  BY DEF StoreKey
<1>5. row'[req[q].on] = x
  BY <1>1, <1>4 DEF SetRow, IInv, TypeOK
<1> HIDE DEF x
<1>6. Sound(req[q].on) /\ UpsertedBy(q, req[q].on)
  BY <1>1, <1>3, <1>5, Constants DEF Sound, UpsertedBy
<1>7. req' \in [Requests -> Request \union {NoRequest}] /\ issued' \in [Attempt -> Integration \union {None}]
  BY <1>1 DEF End, IInv, TypeOK
<1>8. TypeOK' /\ Disturbs(q)
  BY <1>1, <1>3, <1>4, <1>6, <1>7, SetsRow
<1>. QED BY <1>1, <1>8, Ends

LEMMA CallbackStep ==
  ASSUME IInv, NEW q \in Requests, NEW a \in Attempt, Callback(q, a)
  PROVE  IInv'
<1>1. PICK i \in Integration : i = issued[a] /\ i # None
  BY DEF Callback, IInv, TypeOK
<1>2. PICK o \in Row \union {NoRow} : o = IF row[i].state = a THEN row[i] ELSE NoRow
  BY RowTyped DEF IInv
<1>3. PICK label \in {"resolve", "abandon"}, s \in Shops \union {None} : Begin(q, label, i, a, s, o)
  BY <1>1, <1>2 DEF Callback
<1> DEFINE r == [at |-> label, on |-> i, of |-> a, shop |-> s, seen |-> Seen(o)]
<1>4. /\ Seen(o) \in [id : Number, hook : Number, pending : BOOLEAN] /\ Seen(o).id = o.id
      /\ Seen(o).pending = (o.status = "CONNECTING" /\ ~o.keyed)
  <2>1. CASE o \in Row
    BY <2>1, Constants DEF Seen, Row
  <2>2. CASE o = NoRow
    BY <2>2, Constants DEF Seen, NoRow
  <2>. QED BY <2>1, <2>2
<1>5. r \in Request /\ r.at = label /\ r.on = i /\ r.of = a /\ r.seen = Seen(o)
  BY <1>4, Constants DEF Request, Returning
<1>6. /\ req' = [req EXCEPT ![q] = r] /\ UNCHANGED <<row, hooks, attempts, issued, closing>>
      /\ spent' \subseteq Attempt
  BY <1>3 DEF Begin, Callback, IInv, TypeOK
<1> HIDE DEF r
<1>7. o.id = 0 \/ o = row[i]
  BY <1>2 DEF NoRow
<1>8. Named(r)
  <2>1. row[i].id =< attempts /\ \A j \in Integration : row[i].id # 0 /\ row[j].id = row[i].id => j = i
    BY DEF IInv, RowsFit
  <2>2. 0 =< attempts
    BY Constants DEF IInv, TypeOK
  <2>. QED BY <1>1, <1>4, <1>5, <1>7, <2>1, <2>2, Constants DEF Named, Connecting, Located
<1>9. PendingSeen(r)
  BY <1>2, <1>4, <1>5 DEF PendingSeen
<1>10. RequestFits(r)
  BY <1>5, <1>8, <1>9 DEF RequestFits, Placed, CredentialSeen, HookSeen, LeavingCloses, Trusting
<1>11. r.at \notin Connecting /\ (r.seen.id = 0 \/ r.seen.id = row[i].id)
  BY <1>4, <1>5, <1>7 DEF Connecting
<1>. QED BY <1>5, <1>6, <1>10, <1>11, Quiet

LEMMA ResolveStep ==
  ASSUME IInv, NEW q \in Requests, Resolve(q)
  PROVE  IInv'
<1>1. /\ req[q].at = "resolve" /\ UNCHANGED <<row, hooks, attempts, issued, closing>>
      /\ spent' \subseteq Attempt
  BY DEF Resolve, At, IInv, TypeOK
<1>2. CASE Goto(q, "abandon")
  <2> DEFINE r == [req[q] EXCEPT !.at = "abandon"]
  <2>1. r.at = "abandon" /\ r.on = req[q].on /\ r.of = req[q].of /\ r.seen = req[q].seen
    BY <1>1, Serving DEF Request
  <2>2. PendingSeen(r)
    BY <1>1, <2>1, Serving DEF RequestFits, PendingSeen
  <2>3. Placed(r) /\ CredentialSeen(r) /\ HookSeen(r) /\ LeavingCloses(r)
    BY <2>1 DEF Placed, CredentialSeen, HookSeen, LeavingCloses, Trusting
  <2>. QED BY <1>1, <1>2, <2>2, <2>3, Goes DEF Connecting, Returning, Located
<1>3. ASSUME Mine(q).state = req[q].of, NEW label \in {"exchange", "fail", "collide"},
             Sees(q, Mine(q), label)
      PROVE  IInv'
  <2>1. PICK m \in Request : m = req[q]
    BY <1>1, Serving
  <2>2. m.on \in Integration /\ Named(m) /\ m.of # 0 /\ issued[m.of] = m.on
    BY <1>1, <2>1, Serving DEF RequestFits, Named, Returning
  <2>3. PICK o \in Row : o = row[m.on]
    BY <1>3, <2>1, <2>2, RowTyped DEF Mine, IInv, NoRow
  <2> DEFINE r == [m EXCEPT !.seen = Seen(o), !.at = label]
  <2>4. Seen(o) \in [id : Number, hook : Number, pending : BOOLEAN] /\ Seen(o).id = o.id
    BY Constants DEF Seen, Row
  <2>5. r \in Request /\ r.at = label /\ r.on = m.on /\ r.of = m.of /\ r.seen = Seen(o)
    BY <2>4, Constants DEF Request, Returning
  <2>6. req' = [req EXCEPT ![q] = r]
    BY <1>3, <2>1, <2>3 DEF Sees, Mine, IInv, TypeOK
  <2> HIDE DEF r
  <2>7. o.id # 0 /\ o.id =< attempts /\ \A j \in Integration : row[j].id = o.id => j = m.on
    BY <2>2, <2>3, Constants DEF IInv, RowsFit, Row
  <2>8. RequestFits(r)
    BY <2>2, <2>4, <2>5, <2>7 DEF RequestFits, Named, Placed, CredentialSeen, HookSeen, LeavingCloses,
       PendingSeen, Connecting, Trusting
  <2>9. r.at \notin Connecting /\ r.seen.id = row[m.on].id
    BY <2>3, <2>4, <2>5 DEF Connecting
  <2>. QED BY <1>1, <2>2, <2>5, <2>6, <2>8, <2>9, Quiet
<1>. QED BY <1>2, <1>3 DEF Resolve

(* A request deletes its row and ends.                                     *)
LEMMA Deletes ==
  ASSUME IInv, NEW q \in Requests, req[q].at \notin {"idle", "upsert"}, DeleteRow(q), End(q),
         UNCHANGED <<hooks, attempts, issued, spent>>
  PROVE  IInv'
<1>1. req[q].on \in Integration /\ row[req[q].on].id = req[q].seen.id
  BY Serving DEF DeleteRow, Found, Mine
<1>2. row'[req[q].on] = NoRow /\ SetRow(q, NoRow) /\ closing' = closing \ {row[req[q].on].id}
  BY <1>1 DEF DeleteRow, SetRow, IInv, TypeOK
<1>3. Sound(req[q].on)
  BY <1>2 DEF Sound, NoRow, Live
<1>4. req' \in [Requests -> Request \union {NoRequest}] /\ issued' \in [Attempt -> Integration \union {None}]
  BY DEF End, IInv, TypeOK
<1>5. TypeOK' /\ Disturbs(q)
  BY <1>1, <1>2, <1>3, <1>4, SetsRow
<1>. QED BY <1>5, Ends

LEMMA AbandonStep ==
  ASSUME IInv, NEW q \in Requests, Abandon(q)
  PROVE  IInv'
<1>1. req[q].at = "abandon" /\ End(q) /\ UNCHANGED <<hooks, attempts, issued, spent>>
  BY DEF Abandon, At
<1>2. CASE DeleteRow(q)
  BY <1>1, <1>2, Deletes
<1>3. CASE UNCHANGED <<row, closing>>
  <2>1. spent' \subseteq Attempt
    BY <1>1 DEF IInv, TypeOK
  <2>. QED BY <1>1, <1>3, <2>1, EndsQuietly
<1>. QED BY <1>2, <1>3 DEF Abandon

LEMMA CollideStep ==
  ASSUME IInv, NEW q \in Requests, Collide(q)
  PROVE  IInv'
<1>1. /\ req[q].at = "collide" /\ UNCHANGED <<row, hooks, attempts, issued, closing>>
      /\ spent' \subseteq Attempt
  BY DEF Collide, At, IInv, TypeOK
<1>2. PICK label \in {"fail", "exchange"} : Goto(q, label)
  BY DEF Collide
<1> DEFINE r == [req[q] EXCEPT !.at = label]
<1>3. r.at = label
  BY <1>1, Serving DEF Request
<1>4. Placed(r) /\ CredentialSeen(r) /\ HookSeen(r) /\ LeavingCloses(r) /\ PendingSeen(r)
  BY <1>3 DEF Placed, CredentialSeen, HookSeen, LeavingCloses, PendingSeen, Trusting
<1>5. req[q].seen.id # 0
  BY <1>1, Serving DEF RequestFits, Named, Located
<1>. QED BY <1>1, <1>2, <1>4, <1>5, Goes DEF Connecting, Returning

LEMMA ExchangeStep ==
  ASSUME IInv, NEW q \in Requests, Exchange(q)
  PROVE  IInv'
<1>1. req[q].at = "exchange" /\ UNCHANGED <<row, hooks, attempts, issued, closing>>
  BY DEF Exchange, At
<1>2. Named(req[q]) /\ req[q].of \in Attempt
  BY <1>1, Serving, Constants DEF RequestFits, Named, Returning
<1>3. spent' \subseteq Attempt
  BY <1>2 DEF Exchange, IInv, TypeOK
<1>4. PICK label \in {"fail", "credential"} : Goto(q, label)
  BY DEF Exchange
<1> DEFINE r == [req[q] EXCEPT !.at = label]
<1>5. r.at = label
  BY <1>1, Serving DEF Request
<1>6. Placed(r) /\ CredentialSeen(r) /\ HookSeen(r) /\ LeavingCloses(r) /\ PendingSeen(r)
  BY <1>5 DEF Placed, CredentialSeen, HookSeen, LeavingCloses, PendingSeen, Trusting
<1>7. req[q].seen.id # 0
  BY <1>1, <1>2 DEF Named, Located
<1>. QED BY <1>1, <1>3, <1>4, <1>6, <1>7, Goes DEF Connecting, Returning

(* A request writes the row it saw, by its id.                             *)
LEMMA WritesRow ==
  ASSUME IInv, NEW q \in Requests, req[q].at \notin {"idle", "upsert"},
         NEW x \in Row, SetRow(q, x), x.id = row[req[q].on].id,
         x.state \in {0, row[req[q].on].state}, row[req[q].on].keyed => x.keyed,
         x.status = "CONNECTING" => row[req[q].on].status = "CONNECTING",
         x.status = "CONNECTING" /\ ~x.keyed => ~row[req[q].on].keyed,
         x.status \in Live => x.keyed,
         req[q].on \in Stores /\ x.status = "ACTIVE" => x.id \in closing \/ Hooked(x.id),
         UNCHANGED <<hooks, attempts, issued, spent, closing>>,
         req' \in [Requests -> Request \union {NoRequest}]
  PROVE  TypeOK' /\ Disturbs(q) /\ row'[req[q].on] = x
<1>1. req[q].on \in Integration
  BY Serving
<1>2. row'[req[q].on] = x
  BY <1>1 DEF SetRow, IInv, TypeOK
<1>3. PICK id : id = x.id
  OBVIOUS
<1>4. Hooked(id) => Hooked(id)'
  BY DEF Hooked
<1>5. PICK i \in Integration : i = req[q].on
  BY <1>1
<1>6. Sound(i)
  <2>1. row'[i] = x /\ closing' = closing
    BY <1>2, <1>5
  <2>2. i \in Stores /\ x.status = "ACTIVE" => x.id \in closing' \/ \E a \in Attempt : <<x.id, a>> \in hooks'
    BY <1>3, <1>4, <1>5, <2>1 DEF Hooked
  <2>. QED BY <2>1, <2>2 DEF Sound
<1>7. Written(i)
  BY <1>2, <1>5 DEF Written
<1>8. Sound(req[q].on) /\ Written(req[q].on)
  BY <1>5, <1>6, <1>7 DEF Sound, Written
<1>9. issued' \in [Attempt -> Integration \union {None}]
  BY DEF IInv, TypeOK
<1>. QED BY <1>1, <1>2, <1>8, <1>9, SetsRow

LEMMA StoreCredentialStep ==
  ASSUME IInv, NEW q \in Requests, StoreCredential(q)
  PROVE  IInv'
<1>1. /\ req[q].at = "credential" /\ UNCHANGED <<hooks, attempts, issued, spent, closing>>
      /\ req[q] \in Request /\ req[q].on \in Integration /\ RequestFits(req[q])
  BY Serving DEF StoreCredential, At
<1>2. row[req[q].on] \in Row /\ row[req[q].on].id # 0 /\ row[req[q].on].id = req[q].seen.id
  BY <1>1, RowTyped DEF StoreCredential, Found, Mine, IInv, NoRow
<1>3. PICK m \in Request : m = req[q]
  BY <1>1
<1>4. PICK label \in {"register", "activate"} :
        Goto(q, label) /\ (label = "register" <=> req[q].on \in Stores)
  BY DEF StoreCredential
<1> DEFINE x == [row[req[q].on] EXCEPT !.keyed = TRUE]
           r == [m EXCEPT !.at = label]
<1>5. /\ x \in Row /\ x.id = row[req[q].on].id /\ x.state = row[req[q].on].state
      /\ x.status = row[req[q].on].status /\ x.keyed
  BY <1>2 DEF Row
<1>6. SetRow(q, x)
  BY DEF StoreCredential, Mine
<1>7. /\ r \in Request /\ r.at = label /\ r.on = m.on /\ r.of = m.of /\ r.seen = m.seen
      /\ req' = [req EXCEPT ![q] = r] /\ req' \in [Requests -> Request \union {NoRequest}]
  BY <1>3, <1>4 DEF Request, Returning, Goto, IInv, TypeOK
<1>8. req[q].on \in Stores /\ x.status = "ACTIVE" => x.id \in closing \/ Hooked(x.id)
  BY <1>5 DEF IInv, ActiveIsHooked, Hooked
<1> HIDE DEF x, r
<1>9. TypeOK' /\ Disturbs(q) /\ row'[req[q].on] = x
  BY <1>1, <1>5, <1>6, <1>7, <1>8, WritesRow
<1>10. Named(r)'
  <2>1. Named(r) /\ Apart(q, r)
    BY <1>1, <1>3, <1>4, <1>7 DEF RequestFits, Named, Connecting, Returning, Located, Apart
  <2>. QED BY <1>7, <1>9, <2>1, NamedStable
<1>11. CredentialSeen(r)' /\ Placed(r)' /\ PendingSeen(r)' /\ LeavingCloses(r)'
  BY <1>3, <1>4, <1>5, <1>7, <1>9 DEF CredentialSeen, Placed, PendingSeen, LeavingCloses
<1>12. HookSeen(r)'
  BY <1>3, <1>4, <1>7 DEF HookSeen
<1>13. r.at \notin Connecting /\ r.seen.id = req[q].seen.id
  BY <1>3, <1>7 DEF Connecting
<1>14. RequestFits(r)'
  BY <1>10, <1>11, <1>12 DEF RequestFits
<1>. QED BY <1>7, <1>9, <1>13, <1>14, Serves

LEMMA RegisterStep ==
  ASSUME IInv, NEW q \in Requests, Register(q)
  PROVE  IInv'
<1>1. /\ req[q].at = "register" /\ UNCHANGED <<row, attempts, issued, spent, closing>>
      /\ req[q] \in Request /\ req[q].on \in Integration /\ RequestFits(req[q])
  BY Serving DEF Register, At
<1>2. PICK m \in Request : m = req[q]
  BY <1>1
<1>3. /\ m.on \in Stores /\ m.of \in Attempt /\ m.seen.id \in Attempt /\ m.at = "register"
      /\ CredentialSeen(m)
  BY <1>1, <1>2, Serving, Constants DEF RequestFits, Named, Placed, Returning, Located
<1>4. hooks \subseteq hooks' /\ hooks' \subseteq Attempt \X Attempt
  BY <1>2, <1>3 DEF Register, IInv, TypeOK
<1>5. PICK label \in {"activate", "degrade"} :
        Goto(q, label) /\ (label = "activate" => <<m.seen.id, m.of>> \in hooks')
  BY <1>2 DEF Register
<1> DEFINE r == [m EXCEPT !.at = label]
<1>6. /\ r \in Request /\ r.at = label /\ r.on = m.on /\ r.of = m.of /\ r.seen = m.seen
      /\ req' = [req EXCEPT ![q] = r]
  BY <1>2, <1>5 DEF Request, Returning, Goto
<1> HIDE DEF r
<1>7. TypeOK'
  BY <1>1, <1>4, <1>6 DEF IInv, TypeOK
<1>8. Disturbs(q)
  <2>1. attempts =< attempts'
    BY <1>1, Constants DEF IInv, TypeOK
  <2>. QED BY <1>1, <1>4, <2>1, Unmoved
<1>9. Named(r)'
  <2>1. Named(r)
    BY <1>1, <1>2, <1>3, <1>6 DEF RequestFits, Named, Connecting, Returning, Located
  <2>. QED BY <1>1, <2>1 DEF Named
<1>10. CredentialSeen(r)'
  BY <1>1, <1>3, <1>6 DEF CredentialSeen, Trusting, Meets
<1>11. HookSeen(r)'
  BY <1>3, <1>5, <1>6 DEF HookSeen, Hooked
<1>12. Placed(r)' /\ PendingSeen(r)' /\ LeavingCloses(r)'
  BY <1>3, <1>6 DEF Placed, PendingSeen, LeavingCloses
<1>13. r.at \notin Connecting /\ r.seen.id = req[q].seen.id
  BY <1>2, <1>6 DEF Connecting
<1>14. RequestFits(r)'
  BY <1>9, <1>10, <1>11, <1>12 DEF RequestFits
<1>. QED BY <1>6, <1>7, <1>8, <1>13, <1>14, Serves

LEMMA ActivateStep ==
  ASSUME IInv, NEW q \in Requests, Activate(q)
  PROVE  IInv'
<1>1. /\ req[q].at = "activate" /\ UNCHANGED <<hooks, attempts, issued, spent, closing>> /\ End(q)
      /\ req[q] \in Request /\ req[q].on \in Integration /\ RequestFits(req[q]) /\ req[q].of \in Number
  BY Serving DEF Activate, At
<1>2. row[req[q].on] \in Row /\ Meets(req[q]) /\ row[req[q].on].id = req[q].seen.id
  BY <1>1, RowTyped DEF Activate, Found, Mine, Meets, IInv, NoRow
<1> DEFINE x == [Mine(q) EXCEPT !.status = "ACTIVE", !.state = 0, !.late = FALSE, !.shop = req[q].shop,
                                !.hook = IF req[q].on \in Stores THEN req[q].of ELSE 0]
<1>3. x \in Row /\ x.id = row[req[q].on].id /\ x.state = 0 /\ x.keyed = row[req[q].on].keyed /\ x.status = "ACTIVE"
  <2>1. PICK w \in Row : w = row[req[q].on]
    BY <1>2
  <2>2. PICK s \in Shops \union {None}, h \in Number :
          s = req[q].shop /\ h = IF req[q].on \in Stores THEN req[q].of ELSE 0
    BY <1>1, Constants DEF Request
  <2>3. x = [w EXCEPT !.status = "ACTIVE", !.state = 0, !.late = FALSE, !.shop = s, !.hook = h]
    BY <2>1, <2>2 DEF Mine
  <2>4. 0 \in Number
    BY Constants
  <2> HIDE DEF x
  <2>. QED BY <2>1, <2>3, <2>4 DEF Row
<1>4. SetRow(q, x) /\ req' \in [Requests -> Request \union {NoRequest}]
  BY <1>1 DEF Activate, End, IInv, TypeOK
<1> HIDE DEF x
<1>5. x.keyed /\ (req[q].on \in Stores => x.id \in closing \/ Hooked(x.id))
  BY <1>1, <1>2, <1>3 DEF RequestFits, CredentialSeen, HookSeen, Trusting
<1>6. TypeOK' /\ Disturbs(q)
  BY <1>1, <1>3, <1>4, <1>5, WritesRow
<1>. QED BY <1>1, <1>6, Ends

LEMMA DegradeStep ==
  ASSUME IInv, NEW q \in Requests, Degrade(q)
  PROVE  IInv'
<1>1. /\ req[q].at = "degrade" /\ UNCHANGED <<hooks, attempts, issued, spent, closing>> /\ End(q)
      /\ req[q] \in Request /\ req[q].on \in Integration /\ RequestFits(req[q])
  BY Serving DEF Degrade, At
<1>2. row[req[q].on] \in Row /\ Meets(req[q])
  BY <1>1, RowTyped DEF Degrade, Found, Mine, Meets, IInv, NoRow
<1> DEFINE x == [Mine(q) EXCEPT !.status = "DEGRADED", !.state = 0, !.late = FALSE, !.shop = req[q].shop, !.hook = 0]
<1>3. x \in Row /\ x.id = row[req[q].on].id /\ x.state = 0 /\ x.keyed = row[req[q].on].keyed /\ x.status = "DEGRADED"
  <2>1. PICK w \in Row : w = row[req[q].on]
    BY <1>2
  <2>2. PICK s \in Shops \union {None} : s = req[q].shop
    BY <1>1 DEF Request
  <2>3. x = [w EXCEPT !.status = "DEGRADED", !.state = 0, !.late = FALSE, !.shop = s, !.hook = 0]
    BY <2>1, <2>2 DEF Mine
  <2>4. 0 \in Number
    BY Constants
  <2> HIDE DEF x
  <2>. QED BY <2>1, <2>3, <2>4 DEF Row
<1>4. SetRow(q, x) /\ req' \in [Requests -> Request \union {NoRequest}]
  BY <1>1 DEF Degrade, End, IInv, TypeOK
<1> HIDE DEF x
<1>5. x.keyed
  BY <1>1, <1>2, <1>3 DEF RequestFits, CredentialSeen, Trusting
<1>6. TypeOK' /\ Disturbs(q)
  BY <1>1, <1>3, <1>4, <1>5, WritesRow
<1>. QED BY <1>1, <1>6, Ends

LEMMA FailStep ==
  ASSUME IInv, NEW q \in Requests, Fail(q)
  PROVE  IInv'
<1>1. /\ req[q].at = "fail" /\ UNCHANGED <<hooks, attempts, issued, spent, closing>> /\ End(q)
      /\ req[q].on \in Integration
  BY Serving DEF Fail, At
<1>2. row[req[q].on] \in Row
  BY <1>1, RowTyped DEF Fail, Found, Mine, IInv, NoRow
<1> DEFINE x == [Mine(q) EXCEPT !.status = "ERROR", !.state = 0, !.late = FALSE]
<1>3. x \in Row /\ x.id = row[req[q].on].id /\ x.state = 0 /\ x.keyed = row[req[q].on].keyed /\ x.status = "ERROR"
  <2>1. PICK w \in Row : w = row[req[q].on]
    BY <1>2
  <2>2. x = [w EXCEPT !.status = "ERROR", !.state = 0, !.late = FALSE]
    BY <2>1 DEF Mine
  <2>3. 0 \in Number
    BY Constants
  <2> HIDE DEF x
  <2>. QED BY <2>1, <2>2, <2>3 DEF Row
<1>4. SetRow(q, x) /\ req' \in [Requests -> Request \union {NoRequest}]
  BY <1>1 DEF Fail, End, IInv, TypeOK
<1> HIDE DEF x
<1>6. TypeOK' /\ Disturbs(q)
  BY <1>1, <1>3, <1>4, WritesRow DEF Live
<1>. QED BY <1>1, <1>6, Ends

(* What a request that begins on a row keeps of it.                        *)
LEMMA SeenRow ==
  ASSUME IInv, NEW i \in Integration, row[i] # NoRow
  PROVE  /\ Seen(row[i]) \in [id : Number, hook : Number, pending : BOOLEAN]
         /\ Seen(row[i]).id = row[i].id /\ Seen(row[i]).hook = row[i].hook
         /\ row[i].id # 0 /\ row[i].id =< attempts
         /\ \A j \in Integration : row[j].id = row[i].id => j = i
<1>1. row[i] \in Row /\ row[i].id \in Attempt
  BY RowTyped DEF IInv
<1>. QED BY <1>1, Constants DEF Seen, Row, IInv, RowsFit

LEMMA TestStep ==
  ASSUME IInv, NEW q \in Requests, NEW i \in Integration, Test(q, i)
  PROVE  IInv'
<1>1. row[i] # NoRow /\ row[i].keyed
  BY DEF Test, NoRow
<1>2. PICK o : o = Seen(row[i])
  OBVIOUS
<1> DEFINE r == [at |-> "probe", on |-> i, of |-> 0, shop |-> None, seen |-> o]
<1>3. r \in Request /\ r.at = "probe" /\ r.on = i /\ r.seen.id = row[i].id
  BY <1>1, <1>2, SeenRow, Constants DEF Request, Testing
<1>4. /\ req' = [req EXCEPT ![q] = r] /\ UNCHANGED <<row, hooks, attempts, issued, closing>>
      /\ spent' \subseteq Attempt
  BY <1>2 DEF Test, Begin, IInv, TypeOK
<1> HIDE DEF r
<1>5. Named(r)
  BY <1>1, <1>3, SeenRow DEF Named, Connecting, Returning, Located
<1>6. RequestFits(r)
  BY <1>1, <1>3, <1>5 DEF RequestFits, Placed, CredentialSeen, HookSeen, LeavingCloses, PendingSeen
<1>7. r.at \notin Connecting
  BY <1>3 DEF Connecting
<1>. QED BY <1>3, <1>4, <1>6, <1>7, Quiet

LEMMA ProbeStep ==
  ASSUME IInv, NEW q \in Requests, Probe(q)
  PROVE  IInv'
<1>1. /\ req[q].at = "probe" /\ UNCHANGED <<row, hooks, attempts, issued, closing>>
      /\ spent' \subseteq Attempt /\ req[q] \in Request /\ CredentialSeen(req[q])
  BY Serving DEF Probe, At, IInv, TypeOK, RequestFits
<1>2. CASE End(q)
  BY <1>1, <1>2, EndsQuietly
<1>3. ASSUME NEW label \in {"promote", "demote"}, Goto(q, label),
             label = "promote" /\ req[q].on \in Stores => <<req[q].seen.id, req[q].seen.hook>> \in hooks
      PROVE  IInv'
  <2> DEFINE r == [req[q] EXCEPT !.at = label]
  <2>1. r.at = label /\ r.on = req[q].on /\ r.of = req[q].of /\ r.seen = req[q].seen
    BY <1>1 DEF Request
  <2>2. label = "promote" /\ req[q].on \in Stores => Hooked(req[q].seen.id)
    BY <1>3 DEF Hooked, IInv, TypeOK
  <2> HIDE DEF r
  <2>3. Placed(r) /\ CredentialSeen(r) /\ HookSeen(r) /\ LeavingCloses(r) /\ PendingSeen(r)
    BY <1>1, <1>3, <2>1, <2>2 DEF Placed, CredentialSeen, HookSeen, LeavingCloses, PendingSeen, Trusting, Meets
  <2>. QED BY <1>1, <1>3, <2>3, Goes DEF r, Connecting, Returning, Testing, Located
<1>. QED BY <1>2, <1>3 DEF Probe

LEMMA PromoteStep ==
  ASSUME IInv, NEW q \in Requests, Promote(q)
  PROVE  IInv'
<1>1. /\ req[q].at = "promote" /\ UNCHANGED <<hooks, attempts, issued, spent, closing>> /\ End(q)
      /\ req[q].on \in Integration /\ RequestFits(req[q])
  BY Serving DEF Promote, At
<1>2. row[req[q].on] \in Row /\ Meets(req[q]) /\ row[req[q].on].id = req[q].seen.id
  BY <1>1, RowTyped DEF Promote, Found, Mine, Meets, IInv, NoRow
<1> DEFINE x == [Mine(q) EXCEPT !.status = "ACTIVE"]
<1>3. /\ x \in Row /\ x.id = row[req[q].on].id /\ x.state = row[req[q].on].state
      /\ x.keyed = row[req[q].on].keyed /\ x.status = "ACTIVE"
  BY <1>2 DEF Row, Mine
<1>4. SetRow(q, x) /\ req' \in [Requests -> Request \union {NoRequest}]
  BY <1>1 DEF Promote, End, IInv, TypeOK
<1> HIDE DEF x
<1>5. x.keyed /\ (req[q].on \in Stores => x.id \in closing \/ Hooked(x.id))
  BY <1>1, <1>2, <1>3 DEF RequestFits, CredentialSeen, HookSeen, Trusting
<1>6. TypeOK' /\ Disturbs(q)
  BY <1>1, <1>3, <1>4, <1>5, WritesRow
<1>. QED BY <1>1, <1>6, Ends

LEMMA DemoteStep ==
  ASSUME IInv, NEW q \in Requests, Demote(q)
  PROVE  IInv'
<1>1. /\ req[q].at = "demote" /\ UNCHANGED <<hooks, attempts, issued, spent, closing>> /\ End(q)
      /\ req[q].on \in Integration /\ RequestFits(req[q])
  BY Serving DEF Demote, At
<1>2. row[req[q].on] \in Row /\ Meets(req[q])
  BY <1>1, RowTyped DEF Demote, Found, Mine, Meets, IInv, NoRow
<1> DEFINE x == [Mine(q) EXCEPT !.status = "DEGRADED"]
<1>3. /\ x \in Row /\ x.id = row[req[q].on].id /\ x.state = row[req[q].on].state
      /\ x.keyed = row[req[q].on].keyed /\ x.status = "DEGRADED"
  BY <1>2 DEF Row, Mine
<1>4. SetRow(q, x) /\ req' \in [Requests -> Request \union {NoRequest}]
  BY <1>1 DEF Demote, End, IInv, TypeOK
<1> HIDE DEF x
<1>5. x.keyed
  BY <1>1, <1>2, <1>3 DEF RequestFits, CredentialSeen, Trusting
<1>6. TypeOK' /\ Disturbs(q)
  BY <1>1, <1>3, <1>4, <1>5, WritesRow
<1>. QED BY <1>1, <1>6, Ends

LEMMA DisconnectStep ==
  ASSUME IInv, NEW q \in Requests, NEW i \in Integration, Disconnect(q, i)
  PROVE  IInv'
<1>1. row[i] # NoRow /\ row[i].id \in Attempt
  BY RowTyped DEF Disconnect, IInv
<1>2. PICK o : o = Seen(row[i])
  OBVIOUS
<1>3. PICK label \in {"unregister", "delete"} :
        Begin(q, label, i, 0, None, row[i]) /\ (label = "unregister" => i \in Stores)
  BY DEF Disconnect
<1> DEFINE r == [at |-> label, on |-> i, of |-> 0, shop |-> None, seen |-> o]
<1>4. r \in Request /\ r.at = label /\ r.on = i /\ r.seen.id = row[i].id
  BY <1>1, <1>2, SeenRow, Constants DEF Request, Leaving
<1>5. /\ req' = [req EXCEPT ![q] = r] /\ closing' = closing \union {row[i].id}
      /\ UNCHANGED <<row, hooks, attempts, issued, spent>>
  BY <1>2, <1>3 DEF Disconnect, Begin
<1> HIDE DEF r
<1>6. TypeOK'
  BY <1>1, <1>4, <1>5 DEF IInv, TypeOK
<1>7. Disturbs(q)
  <2>1. attempts =< attempts'
    BY <1>5, Constants DEF IInv, TypeOK
  <2>. QED BY <1>5, <2>1, Unmoved
<1>8. Named(r)'
  BY <1>1, <1>4, <1>5, SeenRow DEF Named, Connecting, Returning, Located
<1>9. RequestFits(r)'
  BY <1>3, <1>4, <1>5, <1>8 DEF RequestFits, Placed, CredentialSeen, HookSeen, LeavingCloses,
     PendingSeen, Trusting
<1>10. r.at \notin Connecting
  BY <1>4 DEF Connecting
<1>. QED BY <1>4, <1>5, <1>6, <1>7, <1>9, <1>10, Serves

LEMMA UnregisterStep ==
  ASSUME IInv, NEW q \in Requests, Unregister(q)
  PROVE  IInv'
<1>1. /\ req[q].at = "unregister" /\ UNCHANGED <<row, attempts, issued, spent, closing>>
      /\ hooks' \in {hooks, hooks \ {<<req[q].seen.id, req[q].seen.hook>>}} /\ Goto(q, "delete")
      /\ req[q] \in Request /\ RequestFits(req[q])
  BY Serving DEF Unregister, At
<1>2. PICK m \in Request : m = req[q]
  BY <1>1
<1> DEFINE r == [m EXCEPT !.at = "delete"]
<1>3. /\ r \in Request /\ r.at = "delete" /\ r.on = m.on /\ r.of = m.of /\ r.seen = m.seen
      /\ req' = [req EXCEPT ![q] = r]
  BY <1>1, <1>2 DEF Request, Leaving, Goto
<1> HIDE DEF r
<1>4. TypeOK'
  BY <1>1, <1>3 DEF IInv, TypeOK
<1>5. Disturbs(q)
  <2>1. attempts =< attempts'
    BY <1>1, Constants DEF IInv, TypeOK
  <2>2. ASSUME NEW i \in Integration PROVE Sound(i) /\ Written(i)
    BY <1>1 DEF Sound, Written, IInv, LiveHasCredential
  <2>3. ASSUME NEW id \in Attempt, Hooked(id) PROVE Hooked(id)' \/ id \in closing' \/ Gone(id)
    <3>1. CASE id # m.seen.id
      BY <1>1, <1>2, <2>3, <3>1 DEF Hooked
    <3>2. CASE id = m.seen.id
      <4>1. id # 0 /\ LeavingCloses(m) /\ \A i \in Integration : row[i].id = id => i = m.on
        BY <1>1, <1>2, <3>2, Constants DEF RequestFits, Named
      <4>. QED BY <1>1, <1>2, <3>2, <4>1 DEF LeavingCloses, Meets, Gone
    <3>. QED BY <3>1, <3>2
  <2>. QED BY <1>1, <2>1, <2>2, <2>3 DEF Disturbs
<1>6. Named(r)'
  BY <1>1, <1>2, <1>3 DEF RequestFits, Named, Connecting, Returning, Located
<1>7. RequestFits(r)'
  BY <1>3, <1>6 DEF RequestFits, Placed, CredentialSeen, HookSeen, LeavingCloses, PendingSeen, Trusting
<1>8. r.at \notin Connecting /\ r.seen.id = req[q].seen.id
  BY <1>2, <1>3 DEF Connecting
<1>. QED BY <1>3, <1>4, <1>5, <1>7, <1>8, Serves

LEMMA DeleteStep ==
  ASSUME IInv, NEW q \in Requests, Delete(q)
  PROVE  IInv'
BY Deletes DEF Delete, At

LEMMA ThrowStep ==
  ASSUME IInv, NEW q \in Requests, Throw(q)
  PROVE  IInv'
<1>1. /\ req[q].at # "idle" /\ UNCHANGED <<row, hooks, attempts, issued, closing>>
      /\ spent' \subseteq Attempt /\ req[q] \in Request /\ RequestFits(req[q])
  BY Serving DEF Throw, IInv, TypeOK
<1>2. CASE End(q)
  BY <1>1, <1>2, EndsQuietly
<1>3. ASSUME NEW label \in {"demote", "degrade"}, Goto(q, label),
             label = "demote" => req[q].at = "promote",
             label = "degrade" => req[q].at = "activate" /\ req[q].on \in Stores
      PROVE  IInv'
  <2> DEFINE r == [req[q] EXCEPT !.at = label]
  <2>1. r.at = label /\ r.on = req[q].on /\ r.of = req[q].of /\ r.seen = req[q].seen
    BY <1>1 DEF Request
  <2> HIDE DEF r
  <2>2. Placed(r) /\ HookSeen(r) /\ LeavingCloses(r) /\ PendingSeen(r)
    BY <1>3, <2>1 DEF Placed, HookSeen, LeavingCloses, PendingSeen
  <2>3. CredentialSeen(r)
    BY <1>1, <1>3, <2>1 DEF RequestFits, CredentialSeen, Trusting, Meets
  <2>4. /\ label \notin Connecting /\ (label \in Returning => req[q].at \in Returning)
        /\ label \in Located => req[q].seen.id # 0
    BY <1>1, <1>3 DEF RequestFits, Named, Connecting, Returning, Located
  <2>. QED BY <1>1, <1>3, <2>2, <2>3, <2>4, Goes DEF r, Returning, Testing
<1>. QED BY <1>2, <1>3 DEF Throw, At

LEMMA ExpireStep ==
  ASSUME IInv, Expire
  PROVE  IInv'
<1>1. PICK k \in Integration : row[k].state # 0 /\ row' = [row EXCEPT ![k].late = TRUE]
  BY DEF Expire
<1>2. row[k] \in Row
  BY <1>1, RowTyped DEF IInv, NoRow
<1>3. UNCHANGED <<hooks, attempts, issued, spent, closing, req>>
  BY DEF Expire
<1>4. TypeOK'
  <2>1. [row[k] EXCEPT !.late = TRUE] \in Row
    BY <1>2 DEF Row
  <2>. QED BY <1>1, <1>3, <2>1 DEF IInv, TypeOK
<1>5. \A i \in Integration :
        /\ row'[i].id = row[i].id /\ row'[i].status = row[i].status /\ row'[i].state = row[i].state
        /\ row'[i].keyed = row[i].keyed
  BY <1>1, <1>2 DEF Row, IInv, TypeOK
<1>6. RowsFit' /\ LiveHasCredential' /\ ActiveIsHooked' /\ Fresh'
  BY <1>3, <1>5, Constants DEF IInv, RowsFit, LiveHasCredential, ActiveIsHooked, Fresh
<1>7. ASSUME NEW q \in Requests PROVE RequestFits(req[q])'
  <2>1. RequestFits(req[q])
    BY DEF IInv
  <2>2. CASE req[q].at = "idle"
    <3>1. req[q] = NoRequest
      BY <2>2, RequestTyped DEF IInv, TypeOK
    <3>2. TypeOK' => RequestFits(NoRequest)'
      BY IdleFits, PTL
    <3>. QED BY <1>3, <1>4, <3>1, <3>2, FitsAs
  <2>3. CASE req[q].at # "idle"
    <3>1. req[q].on \in Integration
      BY <2>3, RequestTyped DEF IInv, TypeOK
    <3>. QED BY <1>3, <1>5, <2>1, <3>1 DEF RequestFits, Named, Placed, CredentialSeen, HookSeen,
                                          LeavingCloses, PendingSeen, Meets, Hooked
  <2>. QED BY <2>2, <2>3
<1>. QED BY <1>4, <1>6, <1>7 DEF IInv

LEMMA RestartStep ==
  ASSUME IInv, Restart
  PROVE  IInv'
<1>1. UNCHANGED <<row, hooks, attempts, issued, spent, closing>> /\ req' = [q \in Requests |-> NoRequest]
  BY DEF Restart
<1>2. TypeOK'
  BY <1>1 DEF IInv, TypeOK
<1>3. RowsFit' /\ LiveHasCredential' /\ ActiveIsHooked'
  BY <1>1 DEF IInv, RowsFit, LiveHasCredential, ActiveIsHooked
<1>4. Fresh'
  BY <1>1 DEF Fresh, NoRequest, Connecting
<1>5. ASSUME NEW q \in Requests PROVE RequestFits(req[q])'
  <2>1. req'[q] = NoRequest
    BY <1>1
  <2>2. TypeOK' => RequestFits(NoRequest)'
    BY IdleFits, PTL
  <2>. QED BY <1>2, <2>1, <2>2, FitsAs
<1>. QED BY <1>2, <1>3, <1>4, <1>5 DEF IInv

LEMMA StepIInv == IInv /\ [Next]_vars => IInv'
<1> SUFFICES ASSUME IInv, [Next]_vars PROVE IInv'
  OBVIOUS
<1>1. ASSUME NEW q \in Requests, Serve(q) PROVE IInv'
  BY <1>1, CheckGroupStep, MintStep, ValidateKeyStep, StoreKeyStep, ResolveStep, AbandonStep,
     CollideStep, ExchangeStep, StoreCredentialStep, RegisterStep, ActivateStep, DegradeStep, FailStep,
     ProbeStep, PromoteStep, DemoteStep, UnregisterStep, DeleteStep, ThrowStep DEF Serve
<1>2. ASSUME NEW q \in Requests, NEW i \in Integration, Connect(q, i) \/ Test(q, i) \/ Disconnect(q, i)
      PROVE  IInv'
  BY <1>2, ConnectStep, TestStep, DisconnectStep
<1>3. ASSUME NEW q \in Requests, NEW a \in Attempt, Callback(q, a) PROVE IInv'
  BY <1>3, CallbackStep
<1>4. CASE UNCHANGED vars
  <2>1. UNCHANGED <<row, hooks, attempts, issued, spent, closing, req>>
    BY <1>4 DEF vars
  <2>2. TypeOK' /\ RowsFit' /\ Fresh'
    BY <2>1 DEF IInv, TypeOK, RowsFit, Fresh
  <2>3. LiveHasCredential' /\ ActiveIsHooked'
    BY <2>1 DEF IInv, LiveHasCredential, ActiveIsHooked
  <2>4. ASSUME NEW q \in Requests PROVE RequestFits(req[q])'
    <3>1. PICK m : m = req[q]
      OBVIOUS
    <3>2. RequestFits(m)
      BY <3>1 DEF IInv
    <3>3. Named(m)' /\ Placed(m)' /\ CredentialSeen(m)' /\ LeavingCloses(m)' /\ PendingSeen(m)'
      BY <2>1, <3>2 DEF RequestFits, Named, Placed, CredentialSeen, LeavingCloses, PendingSeen, Meets
    <3>4. HookSeen(m)'
      BY <2>1, <3>2 DEF RequestFits, HookSeen, Meets, Hooked
    <3>5. req'[q] = m
      BY <2>1, <3>1
    <3>. QED BY <3>3, <3>4, <3>5, FitsAs DEF RequestFits
  <2>. QED BY <2>2, <2>3, <2>4 DEF IInv
<1>. QED BY <1>1, <1>2, <1>3, <1>4, ExpireStep, RestartStep DEF Next
-----------------------------------------------------------------------------
(* Results.                                                                *)

(* The inductive invariant, from which the others follow: what requests    *)
(* have read is still true of the rows they will write.                    *)
THEOREM Invariance == Spec => []IInv
<1>. QED BY InitIInv, StepIInv, PTL DEF Spec

(* Every variable keeps its type.                                          *)
THEOREM TypeCorrect == Spec => []TypeOK
<1>1. IInv => TypeOK
  BY DEF IInv
<1>. QED BY <1>1, Invariance, PTL

(* A row that reads ACTIVE or DEGRADED has a credential, however connects, *)
(* callbacks, tests and disconnects of it overlap.                         *)
THEOREM CredentialBehindStatus == Spec => []LiveHasCredential
<1>1. IInv => LiveHasCredential
  BY DEF IInv
<1>. QED BY <1>1, Invariance, PTL

(* An ACTIVE store that nobody asked to disconnect has an order webhook    *)
(* addressed to its row.                                                   *)
THEOREM WebhookBehindActive == Spec => []ActiveIsHooked
<1>1. IInv => ActiveIsHooked
  BY DEF IInv
<1>. QED BY <1>1, Invariance, PTL

(* A callback that was answered with a redirect leaves no row without a    *)
(* credential waiting for its state.                                       *)
THEOREM NothingLeftPending == Spec => AnsweredIsNotPending
<1>1. ASSUME IInv, NEW q \in Requests, Abandon(q) \/ Activate(q) \/ Degrade(q) \/ Fail(q),
             NEW i \in Integration, row'[i].status = "CONNECTING", ~row'[i].keyed, row'[i].state = req[q].of
      PROVE  FALSE
  <2>1. req[q].at \in {"abandon", "activate", "degrade", "fail"}
    BY <1>1 DEF Abandon, Activate, Degrade, Fail, At
  <2>2. req[q].on \in Integration /\ req[q].of # 0 /\ issued[req[q].of] = req[q].on /\ PendingSeen(req[q])
    BY <1>1, <2>1, Serving DEF RequestFits, Named, Returning
  <2>3. i # req[q].on => row'[i] = row[i]
    BY <1>1 DEF Abandon, Activate, Degrade, Fail, DeleteRow, SetRow, IInv, TypeOK
  <2>4. i = req[q].on
    BY <1>1, <2>2, <2>3 DEF IInv, RowsFit
  <2>5. CASE Activate(q) \/ Degrade(q) \/ Fail(q)
    <3>1. row[i] \in Row
      BY <1>1, <2>4, <2>5, RowTyped DEF Activate, Degrade, Fail, Found, Mine, IInv, NoRow
    <3>2. row'[i].status \in {"ACTIVE", "DEGRADED", "ERROR"}
      <4>1. PICK w \in Row : w = row[i]
        BY <3>1
      <4>2. CASE Activate(q)
        <5>1. PICK s, h : row'[i] = [w EXCEPT !.status = "ACTIVE", !.state = 0, !.late = FALSE,
                                             !.shop = s, !.hook = h]
          BY <1>1, <2>4, <4>1, <4>2 DEF Activate, SetRow, Mine, IInv, TypeOK
        <5>. QED BY <5>1 DEF Row
      <4>3. CASE Degrade(q)
        <5>1. PICK s : row'[i] = [w EXCEPT !.status = "DEGRADED", !.state = 0, !.late = FALSE,
                                          !.shop = s, !.hook = 0]
          BY <1>1, <2>4, <4>1, <4>3 DEF Degrade, SetRow, Mine, IInv, TypeOK
        <5>. QED BY <5>1 DEF Row
      <4>4. CASE Fail(q)
        <5>1. row'[i] = [w EXCEPT !.status = "ERROR", !.state = 0, !.late = FALSE]
          BY <1>1, <2>4, <4>1, <4>4 DEF Fail, SetRow, Mine, IInv, TypeOK
        <5>. QED BY <5>1 DEF Row
      <4>. QED BY <2>5, <4>2, <4>3, <4>4
    <3>. QED BY <1>1, <3>2
  <2>6. CASE Abandon(q) /\ req[q].seen.pending
    <3>1. row'[i] = NoRow
      BY <1>1, <2>4, <2>6 DEF Abandon, DeleteRow, SetRow, IInv, TypeOK
    <3>. QED BY <1>1, <3>1 DEF NoRow
  <2>7. CASE Abandon(q) /\ ~req[q].seen.pending
    <3>1. row' = row /\ req[q].at = "abandon"
      BY <2>7 DEF Abandon, At
    <3>. QED BY <1>1, <2>2, <2>4, <2>7, <3>1 DEF PendingSeen
  <2>. QED BY <1>1, <2>5, <2>6, <2>7
<1>2. IInv /\ [Next]_vars =>
        [\A q \in Requests : (Abandon(q) \/ Activate(q) \/ Degrade(q) \/ Fail(q)) =>
           \A i \in Integration :
             row'[i].status = "CONNECTING" /\ ~row'[i].keyed => row'[i].state # req[q].of]_vars
  BY <1>1
<1>. QED BY <1>2, Invariance, PTL DEF Spec, AnsweredIsNotPending
=============================================================================
