--------------------------- MODULE ActionsProofs ---------------------------
(***************************************************************************)
(* Proofs about Actions, for any providers, any number of requests served  *)
(* at a time, of order lines and of connects, and any breaker window.      *)
(*                                                                         *)
(* A refresh stores a credential it read many awaits ago.  The inductive   *)
(* invariant carries where that credential came from along with the        *)
(* request, next to which adapter the request may ask for what.            *)
(***************************************************************************)
EXTENDS Actions, TLAPS, FiniteSetTheorems

Served(kind) == IF kind = "test" THEN Provider
                ELSE IF kind \in {"fulfil", "cart"} THEN {"SHOPIFY"} ELSE Choices(kind)

(* Past the read of the credential.                                        *)
Equipped == {"fire", "wait", "store", "write"}

RequestOK(q) ==
  /\ req[q].at \in {"secret"} \union Equipped => req[q].on \in Served(req[q].kind)
  /\ req[q].at \in Equipped =>
       /\ req[q].on \in Connectable
       /\ req[q].id # 0 /\ home[req[q].grant] = req[q].id
       /\ req[q].grant =< grants
  /\ req[q].at = "choose" => req[q].kind \in {"inventory", "shipment", "alert", "mail"}
  /\ req[q].at = "store" => req[q].fresh
  /\ req[q].at \in {"choose", "secret"} => req[q].job = "first"
  /\ req[q].job = "refresh" => req[q].kind = "inventory" /\ req[q].on = "ZOHO_INVENTORY"

RequestsOK == \A q \in Requests : RequestOK(q)
RowsOK     == \A p \in Connectable : row[p].grant =< grants

IInv == TypeOK /\ CredentialOfItsRow /\ RequestsOK /\ RowsOK
-----------------------------------------------------------------------------
LEMMA AnswersCounted ==
  ASSUME NEW r \in Request, r.on \in Served(r.kind),
         r.job = "refresh" => r.kind = "inventory" /\ r.on = "ZOHO_INVENTORY",
         NEW n \in Answers(r)
  PROVE  n \in Nat
<1> USE DEF Request, Kind
<1>1. CASE r.job = "refresh"
  BY <1>1 DEF Answers, Adapter, Zoho
<1>2. CASE r.job # "refresh"
  <2> USE <1>2 DEF Answers, Adapter
  <2>1. CASE r.kind = "test"
    BY <2>1 DEF Served, Provider, Inventory, Shipping, Mailer, Alert,
       Zoho, Odoo, EasyPost, Shippo, Shopify, Resend, SendGrid, Mailgun, Slack, Discord
  <2>2. CASE r.kind = "inventory"
    BY <2>2, ActionsAssumption DEF Served, Choices, Inventory, Zoho, Odoo
  <2>3. CASE r.kind = "shipment"
    BY <2>3 DEF Served, Choices, Shipping, EasyPost, Shippo
  <2>4. CASE r.kind = "alert"
    BY <2>4 DEF Served, Choices, Alert, Slack, Discord
  <2>5. CASE r.kind = "mail"
    BY <2>5 DEF Served, Choices, Mailer, Resend, SendGrid, Mailgun
  <2>6. CASE r.kind \in {"fulfil", "cart"}
    BY <2>6 DEF Served, Shopify
  <2>. QED BY <2>1, <2>2, <2>3, <2>4, <2>5, <2>6
<1>. QED BY <1>1, <1>2

LEMMA PendingCounted ==
  ASSUME NEW p PROVE Pending(p) \in Nat
<1>1. IsFiniteSet({q \in Requests : req[q].at = "wait" /\ req[q].on = p})
  BY ActionsAssumption, FS_Subset
<1>. QED BY <1>1, FS_CardinalityType DEF Pending

LEMMA SlidType ==
  ASSUME NEW p \in Connectable, breaker[p] \in Breaker, NEW b \in Slid(p)
  PROVE  b \in Breaker
<1>1. PICK f \in {breaker[p].failures, breaker[p].failures - 1} \intersect 0 .. breaker[p].fires - 1 - Pending(p) :
        b = [breaker[p] EXCEPT !.fires = @ - 1, !.failures = f]
  BY DEF Slid
<1>2. Pending(p) \in Nat
  BY PendingCounted
<1>3. f \in Nat /\ breaker[p].fires - 1 \in Nat
  BY <1>1, <1>2 DEF Breaker
<1>. QED BY <1>1, <1>3 DEF Breaker

LEMMA CountedType ==
  ASSUME NEW b \in Breaker, NEW n \in Nat, NEW st \in {"closed", "open", "halfOpen", "trial"}
  PROVE  [b EXCEPT !.failures = n, !.state = st] \in Breaker
BY DEF Breaker

LEMMA FiredType ==
  ASSUME NEW b \in Breaker, NEW st \in {"closed", "open", "halfOpen", "trial"}
  PROVE  [b EXCEPT !.fires = @ + 1, !.state = st] \in Breaker
<1>1. \A n \in Nat : [b EXCEPT !.fires = n, !.state = st] \in Breaker
  BY DEF Breaker
<1>2. b.fires + 1 \in Nat
  BY DEF Breaker
<1>. QED BY <1>1, <1>2

LEMMA FailedType ==
  ASSUME NEW p \in Connectable, breaker[p] \in Breaker
  PROVE  Failed(p) \in Breaker /\ Succeeded(p) \in Breaker
<1>1. Succeeded(p) \in Breaker
  BY DEF Succeeded, Breaker
<1>4. breaker[p].failures + 1 \in Nat /\ breaker[p].state \in {"closed", "open", "halfOpen", "trial"}
  BY DEF Breaker
<1>2. CASE Opens(p)
  <2>1. Failed(p) = [breaker[p] EXCEPT !.failures = breaker[p].failures + 1, !.state = "open"]
    BY <1>2, Zenon DEF Failed
  <2>3. [breaker[p] EXCEPT !.failures = breaker[p].failures + 1, !.state = "open"] \in Breaker
    BY <1>4, CountedType
  <2>2. Failed(p) \in Breaker
    BY <2>1, <2>3
  <2>. QED BY <1>1, <2>2
<1>3. CASE ~Opens(p)
  <2>1. Failed(p) = [breaker[p] EXCEPT !.failures = breaker[p].failures + 1, !.state = breaker[p].state]
    BY <1>3, Zenon DEF Failed
  <2>3. [breaker[p] EXCEPT !.failures = breaker[p].failures + 1, !.state = breaker[p].state] \in Breaker
    BY <1>4, CountedType
  <2>2. Failed(p) \in Breaker
    BY <2>1, <2>3
  <2>. QED BY <1>1, <2>2
<1>. QED BY <1>2, <1>3

LEMMA InitInv == Init => IInv
BY ActionsAssumption DEF Init, IInv, TypeOK, CredentialOfItsRow, RequestsOK, RequestOK, RowsOK, Idle, NoRow,
   Closed, Row, Breaker, Request, Grant, Kind, Equipped

(* A step that changes nothing but one request, and that in an allowed way. *)
LEMMA OnlyRequest ==
  ASSUME IInv, NEW q \in Requests, NEW r \in Request, req' = [req EXCEPT ![q] = r],
         UNCHANGED <<row, grants, home>>, breaker' \in [Connectable -> Breaker],
         r.at \in {"secret"} \union Equipped => r.on \in Served(r.kind),
         r.at \in Equipped =>
           /\ r.on \in Connectable /\ r.id # 0 /\ home[r.grant] = r.id /\ r.grant =< grants,
         r.at = "choose" => r.kind \in {"inventory", "shipment", "alert", "mail"},
         r.at = "store" => r.fresh,
         r.at \in {"choose", "secret"} => r.job = "first",
         r.job = "refresh" => r.kind = "inventory" /\ r.on = "ZOHO_INVENTORY"
  PROVE  IInv'
<1>1. req'[q] = r /\ \A s \in Requests \ {q} : req'[s] = req[s]
  BY DEF IInv, TypeOK
<1>2. TypeOK'
  BY DEF IInv, TypeOK
<1>3. RequestsOK'
  BY <1>1 DEF IInv, RequestsOK, RequestOK
<1>4. CredentialOfItsRow' /\ RowsOK'
  BY DEF IInv, CredentialOfItsRow, RowsOK
<1>. QED BY <1>2, <1>3, <1>4 DEF IInv

LEMMA IdleType == Idle \in Request /\ Idle.at = "idle" /\ Idle.job = "first"
BY ActionsAssumption DEF Idle, Request, Kind, Grant

(* A request that is given up.                                             *)
LEMMA Ends ==
  ASSUME IInv, NEW q \in Requests, End(q),
         UNCHANGED <<row, grants, home>>, breaker' \in [Connectable -> Breaker]
  PROVE  IInv'
<1>. QED BY IdleType, OnlyRequest DEF End, Equipped

(* The request moves on, and keeps what it has.                            *)
LEMMA Moves ==
  ASSUME IInv, NEW q \in Requests, NEW label \in {"write"}, Goto(q, label), req[q].at \in Equipped,
         UNCHANGED <<row, grants, home>>, breaker' \in [Connectable -> Breaker]
  PROVE  IInv'
<1> DEFINE r == [req[q] EXCEPT !.at = label]
<1>1. req[q] \in Request /\ RequestOK(q)
  BY DEF IInv, TypeOK, RequestsOK
<1>2. r \in Request /\ r.at = label /\ r.kind = req[q].kind /\ r.on = req[q].on /\ r.id = req[q].id
      /\ r.grant = req[q].grant /\ r.job = req[q].job /\ r.fresh = req[q].fresh
  BY <1>1 DEF Request
<1>3. req' = [req EXCEPT ![q] = r]
  BY DEF Goto, IInv, TypeOK
<1> HIDE DEF r
<1>. QED BY <1>1, <1>2, <1>3, OnlyRequest DEF RequestOK, Equipped

LEMMA Fails ==
  ASSUME IInv, NEW q \in Requests, req[q].at = "wait", Fail(q)
  PROVE  IInv'
<1>1. req[q].on \in Connectable /\ breaker \in [Connectable -> Breaker]
  BY DEF IInv, RequestsOK, RequestOK, Equipped, TypeOK
<1>2. breaker' \in [Connectable -> Breaker]
  BY <1>1, FailedType DEF Fail
<1>3. CASE End(q)
  BY <1>2, <1>3, Ends DEF Fail
<1>4. CASE Goto(q, "write")
  BY <1>2, <1>4, Moves DEF Fail, Equipped
<1>. QED BY <1>3, <1>4 DEF Fail
-----------------------------------------------------------------------------
(* One step for each action.                                               *)

LEMMA StartStep ==
  ASSUME IInv, NEW q \in Requests, NEW kind \in Kind, NEW p \in Provider \union {None},
         NEW label \in {"choose", "secret"}, Start(q, kind, label, p),
         label = "choose" => kind \in {"inventory", "shipment", "alert", "mail"},
         label = "secret" => p \in Served(kind)
  PROVE  IInv'
<1> DEFINE r == [Idle EXCEPT !.at = label, !.kind = kind, !.on = p]
<1>1. r \in Request /\ r.at = label /\ r.kind = kind /\ r.on = p /\ r.job = "first"
  BY IdleType DEF Request, Idle
<1>2. req' = [req EXCEPT ![q] = r] /\ UNCHANGED <<row, grants, home, breaker>>
  BY DEF Start
<1>3. breaker' \in [Connectable -> Breaker]
  BY <1>2 DEF IInv, TypeOK
<1> HIDE DEF r
<1>. QED BY <1>1, <1>2, <1>3, OnlyRequest DEF Equipped

LEMMA StartsStep ==
  ASSUME IInv, NEW q \in Requests,
         \/ CheckInventory(q) \/ CreateShipment(q) \/ SendMessage(q) \/ SendEmail(q)
         \/ SendDeliveredEmail(q) \/ SendCartReminder(q)
         \/ UpdateShopifyOrder(q) \/ CheckCartCheckout(q)
         \/ \E p \in Connectable : Test(q, p)
  PROVE  IInv'
<1>1. CASE CheckInventory(q) \/ CreateShipment(q) \/ SendMessage(q) \/ SendEmail(q)
        \/ SendDeliveredEmail(q) \/ SendCartReminder(q)
  BY <1>1, StartStep DEF CheckInventory, CreateShipment, SendMessage, SendEmail, SendDeliveredEmail, SendCartReminder, Kind
<1>2. CASE UpdateShopifyOrder(q) \/ CheckCartCheckout(q)
  BY <1>2, StartStep DEF UpdateShopifyOrder, CheckCartCheckout, Kind, Served, Provider
<1>3. ASSUME NEW p \in Connectable, Test(q, p) PROVE IInv'
  BY <1>3, StartStep, ActionsAssumption DEF Test, Kind, Served
<1>. QED BY <1>1, <1>2, <1>3

LEMMA ChooseStep ==
  ASSUME IInv, NEW q \in Requests, Choose(q)
  PROVE  IInv'
<1>1. breaker' \in [Connectable -> Breaker] /\ UNCHANGED <<row, grants, home>>
  BY DEF Choose, IInv, TypeOK
<1>2. CASE End(q)
  BY <1>1, <1>2, Ends
<1>3. ASSUME NEW p \in Choices(req[q].kind), req' = [req EXCEPT ![q].at = "secret", ![q].on = p]
      PROVE  IInv'
  <2> DEFINE r == [req[q] EXCEPT !.at = "secret", !.on = p]
  <2>1. req[q] \in Request /\ RequestOK(q) /\ req[q].at = "choose"
    BY DEF IInv, TypeOK, RequestsOK, Choose, At
  <2>2. req[q].kind \in {"inventory", "shipment", "alert", "mail"} /\ p \in Served(req[q].kind)
    BY <2>1, <1>3 DEF RequestOK, Served
  <2>3. p \in Provider
    BY <1>3, <2>2 DEF Choices, Provider
  <2>4. r \in Request /\ r.at = "secret" /\ r.kind = req[q].kind /\ r.on = p /\ r.job = req[q].job
    BY <2>1, <2>3 DEF Request
  <2>5. req[q].job = "first"
    BY <2>1 DEF RequestOK
  <2>6. req' = [req EXCEPT ![q] = r]
    BY <1>3 DEF IInv, TypeOK
  <2> HIDE DEF r
  <2>. QED BY <1>1, <2>1, <2>2, <2>4, <2>5, <2>6, OnlyRequest DEF Equipped
<1>. QED BY <1>2, <1>3 DEF Choose

LEMMA ReadSecretStep ==
  ASSUME IInv, NEW q \in Requests, ReadSecret(q)
  PROVE  IInv'
<1>1. breaker' \in [Connectable -> Breaker] /\ UNCHANGED <<row, grants, home>>
  BY DEF ReadSecret, IInv, TypeOK
<1> DEFINE b == RowOf(req[q].on)
           r == [req[q] EXCEPT !.at = "fire", !.id = b.id, !.grant = b.grant, !.fresh = b.fresh]
<1>2. CASE b.id = 0
  BY <1>1, <1>2, Ends DEF ReadSecret
<1>3. CASE b.id # 0
  <2>1. req[q] \in Request /\ RequestOK(q) /\ req[q].at = "secret"
    BY DEF IInv, TypeOK, RequestsOK, ReadSecret, At
  <2>2. req[q].on \in Connectable /\ b = row[req[q].on]
    BY <1>3 DEF RowOf, NoRow
  <2>3. b \in Row /\ home[b.grant] = b.id /\ b.grant =< grants
    BY <1>3, <2>2 DEF IInv, TypeOK, CredentialOfItsRow, RowsOK
  <2> HIDE DEF b
  <2>4. /\ r \in Request /\ r.at = "fire" /\ r.kind = req[q].kind /\ r.on = req[q].on
        /\ r.id = b.id /\ r.grant = b.grant /\ r.job = req[q].job
    BY <2>1, <2>3 DEF Request, Row
  <2>5. req' = [req EXCEPT ![q] = r]
    BY <1>3 DEF ReadSecret, b, IInv, TypeOK
  <2> HIDE DEF r
  <2>. QED BY <1>1, <1>3, <2>1, <2>2, <2>3, <2>4, <2>5, OnlyRequest DEF RequestOK, Equipped
<1>. QED BY <1>2, <1>3

LEMMA FireStep ==
  ASSUME IInv, NEW q \in Requests, Fire(q)
  PROVE  IInv'
<1> DEFINE p == req[q].on
<1>1. /\ req[q] \in Request /\ RequestOK(q) /\ req[q].at = "fire"
      /\ p \in Connectable /\ breaker[p] \in Breaker
  BY DEF IInv, TypeOK, RequestsOK, RequestOK, Equipped, Fire, At
<1>2. breaker' \in [Connectable -> Breaker]
  <2>1. PICK b \in IF breaker[p].fires < MaxWindow THEN {breaker[p]} ELSE Slid(p) :
          breaker' = [breaker EXCEPT ![p] =
            [b EXCEPT !.fires = @ + 1, !.state = IF breaker[p].state = "halfOpen" THEN "trial" ELSE breaker[p].state]]
    BY DEF Fire
  <2>2. b \in Breaker
    BY <1>1, <2>1, SlidType
  <2> DEFINE st == IF breaker[p].state = "halfOpen" THEN "trial" ELSE breaker[p].state
  <2>5. breaker[p].state \in {"closed", "open", "halfOpen", "trial"}
    BY <1>1 DEF Breaker
  <2>3. st \in {"closed", "open", "halfOpen", "trial"}
    BY <2>5, Zenon
  <2>4. [b EXCEPT !.fires = @ + 1, !.state = st] \in Breaker
    <3> HIDE DEF st
    <3>. QED BY <2>2, <2>3, FiredType
  <2>. QED BY <2>1, <2>4 DEF IInv, TypeOK
<1>3. UNCHANGED <<row, grants, home>>
  BY DEF Fire
<1>4. CASE End(q)
  BY <1>2, <1>3, <1>4, Ends
<1>5. ASSUME NEW n \in Answers(req[q]), req' = [req EXCEPT ![q].at = "wait", ![q].left = n]
      PROVE  IInv'
  <2> DEFINE r == [req[q] EXCEPT !.at = "wait", !.left = n]
  <2>1. n \in Nat
    BY <1>1, <1>5, AnswersCounted DEF RequestOK, Equipped
  <2>2. /\ r \in Request /\ r.at = "wait" /\ r.kind = req[q].kind /\ r.on = req[q].on
        /\ r.id = req[q].id /\ r.grant = req[q].grant /\ r.job = req[q].job
    BY <1>1, <2>1 DEF Request
  <2>3. req' = [req EXCEPT ![q] = r]
    BY <1>5 DEF IInv, TypeOK
  <2> HIDE DEF r
  <2>. QED BY <1>1, <1>2, <1>3, <2>2, <2>3, OnlyRequest DEF RequestOK, Equipped
<1>. QED BY <1>4, <1>5 DEF Fire

LEMMA FetchedStep ==
  ASSUME IInv, NEW q \in Requests, Fetched(q)
  PROVE  IInv'
<1> DEFINE r == [req[q] EXCEPT !.left = @ - 1]
<1>1. req[q] \in Request /\ RequestOK(q) /\ req[q].at = "wait" /\ req[q].left > 0
  BY DEF IInv, TypeOK, RequestsOK, Fetched, At
<1>2. /\ r \in Request /\ r.at = "wait" /\ r.kind = req[q].kind /\ r.on = req[q].on
      /\ r.id = req[q].id /\ r.grant = req[q].grant /\ r.job = req[q].job
  BY <1>1 DEF Request
<1>3. req' = [req EXCEPT ![q] = r] /\ UNCHANGED <<row, grants, home>> /\ breaker' \in [Connectable -> Breaker]
  BY DEF Fetched, IInv, TypeOK
<1> HIDE DEF r
<1>. QED BY <1>1, <1>2, <1>3, OnlyRequest DEF RequestOK, Equipped

LEMMA DoneStep ==
  ASSUME IInv, NEW q \in Requests, Done(q)
  PROVE  IInv'
<1>1. req[q] \in Request /\ RequestOK(q) /\ req[q].at = "wait"
  BY DEF IInv, TypeOK, RequestsOK, Done, At
<1>2. breaker' \in [Connectable -> Breaker] /\ UNCHANGED <<row, grants, home>>
  BY <1>1, FailedType DEF Done, IInv, TypeOK, RequestOK, Equipped
<1>3. CASE req[q].job = "refresh"
  <2> DEFINE r == [req[q] EXCEPT !.at = "store", !.fresh = TRUE]
  <2>1. /\ r \in Request /\ r.at = "store" /\ r.kind = req[q].kind /\ r.on = req[q].on
        /\ r.id = req[q].id /\ r.grant = req[q].grant /\ r.job = req[q].job /\ r.fresh
    BY <1>1 DEF Request
  <2>2. req' = [req EXCEPT ![q] = r]
    BY <1>3 DEF Done, IInv, TypeOK
  <2> HIDE DEF r
  <2>. QED BY <1>1, <1>2, <2>1, <2>2, OnlyRequest DEF RequestOK, Equipped
<1>4. CASE Goto(q, "write")
  BY <1>1, <1>2, <1>4, Moves DEF Equipped
<1>5. CASE End(q)
  BY <1>2, <1>5, Ends
<1>. QED BY <1>3, <1>4, <1>5 DEF Done

LEMMA UnauthorizedStep ==
  ASSUME IInv, NEW q \in Requests, Unauthorized(q)
  PROVE  IInv'
<1>1. req[q] \in Request /\ RequestOK(q) /\ req[q].at = "wait" /\ req[q].on = "ZOHO_INVENTORY"
  BY DEF IInv, TypeOK, RequestsOK, Unauthorized, At, Lapsed
<1>2. CASE Fail(q)
  BY <1>1, <1>2, Fails
<1>3. CASE ~Fail(q)
  <2> DEFINE r == [req[q] EXCEPT !.at = "fire", !.job = "refresh", !.left = 0]
  <2>1. /\ req[q].kind = "inventory"
        /\ breaker' = [breaker EXCEPT ![req[q].on] = Failed(req[q].on)]
        /\ req' = [req EXCEPT ![q].at = "fire", ![q].job = "refresh", ![q].left = 0]
        /\ UNCHANGED <<row, grants, home>>
    BY <1>3 DEF Unauthorized
  <2>2. breaker' \in [Connectable -> Breaker]
    BY <1>1, <2>1, FailedType DEF IInv, TypeOK, RequestOK, Equipped
  <2>3. /\ r \in Request /\ r.at = "fire" /\ r.kind = req[q].kind /\ r.on = req[q].on
        /\ r.id = req[q].id /\ r.grant = req[q].grant /\ r.job = "refresh"
    BY <1>1 DEF Request
  <2>4. req' = [req EXCEPT ![q] = r]
    BY <2>1 DEF IInv, TypeOK
  <2>5. /\ r.on \in Served(r.kind) /\ r.on \in Connectable
        /\ r.id # 0 /\ home[r.grant] = r.id /\ r.grant =< grants
    BY <1>1, <2>3 DEF RequestOK, Equipped
  <2>6. UNCHANGED <<row, grants, home>>
    BY <2>1
  <2>7. r.kind = "inventory" /\ r.on = "ZOHO_INVENTORY"
    BY <1>1, <2>1, <2>3
  <2> HIDE DEF r
  <2>. QED BY <2>2, <2>3, <2>4, <2>5, <2>6, <2>7, OnlyRequest DEF Equipped
<1>. QED BY <1>2, <1>3

(* Only the row of the request changes, and gets the credential the        *)
(* request obtained for it.                                                *)
LEMMA StoreStep ==
  ASSUME IInv, NEW q \in Requests, Store(q)
  PROVE  IInv'
<1>1. req[q] \in Request /\ RequestOK(q) /\ req[q].at = "store"
  BY DEF IInv, TypeOK, RequestsOK, Store, At
<1>2. UNCHANGED <<grants, home, breaker>>
  BY DEF Store
<1>3. CASE ~Found(q)
  <2>1. End(q) /\ UNCHANGED row
    BY <1>3 DEF Store
  <2>. QED BY <1>2, <2>1, Ends DEF IInv, TypeOK
<1>4. CASE Found(q)
  <2> DEFINE p == req[q].on
             r == [req[q] EXCEPT !.at = "fire", !.job = "again"]
  <2>1. /\ p \in Connectable /\ row[p] \in Row /\ row[p].id = req[q].id
        /\ home[req[q].grant] = req[q].id /\ req[q].grant \in Grant /\ req[q].grant =< grants
        /\ req[q].fresh \in BOOLEAN
    BY <1>1, <1>4 DEF IInv, TypeOK, RequestOK, Equipped, Found, Request
  <2>2. row' = [row EXCEPT ![p].grant = req[q].grant, ![p].fresh = req[q].fresh]
    BY <1>4 DEF Store
  <2>3. /\ row' \in [Connectable -> Row]
        /\ row'[p].id = row[p].id /\ row'[p].grant = req[q].grant
        /\ \A o \in Connectable \ {p} : row'[o] = row[o]
    <3>1. row' = [row EXCEPT ![p] = [row[p] EXCEPT !.grant = req[q].grant, !.fresh = req[q].fresh]]
      BY <2>1, <2>2 DEF IInv, TypeOK
    <3>2. [row[p] EXCEPT !.grant = req[q].grant, !.fresh = req[q].fresh] \in Row
      BY <2>1 DEF Row
    <3>3. [row[p] EXCEPT !.grant = req[q].grant, !.fresh = req[q].fresh].id = row[p].id
          /\ [row[p] EXCEPT !.grant = req[q].grant, !.fresh = req[q].fresh].grant = req[q].grant
      BY <2>1 DEF Row
    <3>. QED BY <2>1, <3>1, <3>2, <3>3 DEF IInv, TypeOK
  <2>4. CredentialOfItsRow' /\ RowsOK'
    BY <1>2, <2>1, <2>3 DEF IInv, CredentialOfItsRow, RowsOK
  <2>5. /\ r \in Request /\ r.at = "fire" /\ r.kind = req[q].kind /\ r.on = req[q].on
        /\ r.id = req[q].id /\ r.grant = req[q].grant /\ r.job = "again"
    BY <1>1 DEF Request
  <2>6. req' = [req EXCEPT ![q] = r]
    BY <1>4 DEF Store, IInv, TypeOK
  <2> HIDE DEF r
  <2>7. req'[q] = r /\ \A s \in Requests \ {q} : req'[s] = req[s]
    BY <2>6 DEF IInv, TypeOK
  <2>8. RequestsOK'
    BY <1>1, <1>2, <2>5, <2>7 DEF IInv, RequestsOK, RequestOK, Equipped
  <2>9. TypeOK'
    BY <1>2, <2>3, <2>5, <2>6 DEF IInv, TypeOK
  <2>. QED BY <2>4, <2>8, <2>9 DEF IInv
<1>. QED BY <1>3, <1>4

LEMMA WriteStep ==
  ASSUME IInv, NEW q \in Requests, Write(q)
  PROVE  IInv'
<1>1. \/ UNCHANGED row
      \/ req[q].on \in Connectable /\ row' = [row EXCEPT ![req[q].on].live = TRUE]
  BY DEF Write, IInv, RequestsOK, RequestOK, Equipped, At
<1>2. /\ row' \in [Connectable -> Row]
      /\ \A p \in Connectable : row'[p].id = row[p].id /\ row'[p].grant = row[p].grant
  <2>1. CASE UNCHANGED row
    BY <2>1 DEF IInv, TypeOK
  <2>2. CASE req[q].on \in Connectable /\ row' = [row EXCEPT ![req[q].on].live = TRUE]
    <3>1. \A b \in Row : [b EXCEPT !.live = TRUE] \in Row /\ [b EXCEPT !.live = TRUE].id = b.id
                         /\ [b EXCEPT !.live = TRUE].grant = b.grant
      BY DEF Row
    <3>2. row' = [row EXCEPT ![req[q].on] = [row[req[q].on] EXCEPT !.live = TRUE]]
      BY <2>2 DEF IInv, TypeOK
    <3>. QED BY <2>2, <3>1, <3>2 DEF IInv, TypeOK
  <2>. QED BY <1>1, <2>1, <2>2
<1>3. UNCHANGED <<grants, home, breaker>> /\ req' = [req EXCEPT ![q] = Idle]
  BY DEF Write, End
<1>4. TypeOK' /\ CredentialOfItsRow' /\ RowsOK'
  BY <1>2, <1>3, IdleType DEF IInv, TypeOK, CredentialOfItsRow, RowsOK
<1>5. req'[q] = Idle /\ \A s \in Requests \ {q} : req'[s] = req[s]
  BY <1>3 DEF IInv, TypeOK
<1>6. RequestsOK'
  BY <1>3, <1>5, IdleType DEF IInv, RequestsOK, RequestOK, Equipped
<1>. QED BY <1>4, <1>6 DEF IInv

(* A new grant is recorded for its row; no older one is touched.           *)
LEMMA ConnectStep ==
  ASSUME IInv, NEW p \in Connectable, Connect(p)
  PROVE  IInv'
<1> DEFINE g  == grants + 1
           id == IF row[p].id = 0 THEN g ELSE row[p].id
           b  == [id |-> id, grant |-> g, live |-> TRUE, fresh |-> TRUE]
<1>1. /\ grants' = g /\ home' = [home EXCEPT ![g] = id] /\ row' = [row EXCEPT ![p] = b]
      /\ UNCHANGED <<breaker, req>> /\ grants < MaxGrants
  BY DEF Connect
<1>2. g \in Grant /\ id \in Grant /\ grants \in Nat
  BY <1>1, ActionsAssumption DEF IInv, TypeOK, Grant, Row
<1> HIDE DEF id
<1>3. b \in Row /\ b.id = id /\ b.grant = g
  BY <1>2 DEF Row
<1> HIDE DEF b
<1>4. row'[p] = b /\ \A o \in Connectable \ {p} : row'[o] = row[o]
  BY <1>1 DEF IInv, TypeOK
<1>5. home'[g] = id /\ \A h \in Grant \ {g} : home'[h] = home[h]
  BY <1>1, <1>2 DEF IInv, TypeOK
<1>6. TypeOK'
  BY <1>1, <1>2, <1>3 DEF IInv, TypeOK
<1>7. CredentialOfItsRow' /\ RowsOK'
  <2>1. \A o \in Connectable : row[o].grant \in Grant /\ row[o].grant =< grants
    BY DEF IInv, TypeOK, RowsOK, Row
  <2>. QED BY <1>1, <1>2, <1>3, <1>4, <1>5, <2>1 DEF IInv, CredentialOfItsRow, RowsOK, Grant
<1>8. RequestsOK'
  <2> SUFFICES ASSUME NEW q \in Requests PROVE RequestOK(q)'
    BY DEF RequestsOK
  <2>1. req'[q] = req[q] /\ req[q].grant \in Grant /\ RequestOK(q)
    BY <1>1 DEF IInv, TypeOK, RequestsOK, Request
  <2>. QED BY <1>1, <1>2, <1>5, <2>1 DEF RequestOK, Grant
<1>. QED BY <1>6, <1>7, <1>8 DEF IInv

LEMMA RowStep ==
  ASSUME IInv, NEW p \in Connectable, Suspend(p) \/ Disconnect(p)
  PROVE  IInv'
<1>1. UNCHANGED <<grants, home, breaker, req>>
  BY DEF Suspend, Disconnect
<1>2. PICK b \in Row : /\ row' = [row EXCEPT ![p] = b]
                       /\ b = NoRow \/ (b.id = row[p].id /\ b.grant = row[p].grant)
  <2>1. row[p] \in Row /\ NoRow \in Row
    BY ActionsAssumption DEF IInv, TypeOK, NoRow, Row, Grant
  <2>2. CASE Disconnect(p)
    BY <2>1, <2>2 DEF Disconnect
  <2>3. CASE Suspend(p)
    <3>1. row' = [row EXCEPT ![p] = [row[p] EXCEPT !.live = FALSE]]
      BY <2>3 DEF Suspend, IInv, TypeOK
    <3>2. [row[p] EXCEPT !.live = FALSE] \in Row /\ [row[p] EXCEPT !.live = FALSE].id = row[p].id
          /\ [row[p] EXCEPT !.live = FALSE].grant = row[p].grant
      BY <2>1 DEF Row
    <3>. QED BY <3>1, <3>2
  <2>. QED BY <2>2, <2>3
<1>3. TypeOK'
  BY <1>1, <1>2 DEF IInv, TypeOK
<1>4. CredentialOfItsRow' /\ RowsOK'
  BY <1>1, <1>2 DEF IInv, TypeOK, CredentialOfItsRow, RowsOK, NoRow, Grant
<1>5. RequestsOK'
  BY <1>1 DEF IInv, RequestsOK, RequestOK
<1>. QED BY <1>3, <1>4, <1>5 DEF IInv

LEMMA LapseStep ==
  ASSUME IInv, Lapse
  PROVE  IInv'
<1>1. UNCHANGED <<grants, home, breaker>>
  BY DEF Lapse
<1>2. /\ row' \in [Connectable -> Row]
      /\ \A p \in Connectable : row'[p].id = row[p].id /\ row'[p].grant = row[p].grant
  <2>1. \A b \in Row : [b EXCEPT !.fresh = FALSE] \in Row /\ [b EXCEPT !.fresh = FALSE].id = b.id
                       /\ [b EXCEPT !.fresh = FALSE].grant = b.grant
    BY DEF Row
  <2>2. CASE "ZOHO_INVENTORY" \in Connectable
    <3>1. row' = [row EXCEPT !["ZOHO_INVENTORY"] = [row["ZOHO_INVENTORY"] EXCEPT !.fresh = FALSE]]
      BY <2>2 DEF Lapse, IInv, TypeOK
    <3>. QED BY <2>1, <2>2, <3>1 DEF IInv, TypeOK
  <2>3. CASE "ZOHO_INVENTORY" \notin Connectable
    BY <2>3 DEF Lapse, RowOf, NoRow
  <2>. QED BY <2>2, <2>3
<1>3. \A q \in Requests : /\ req'[q] \in Request
                         /\ \/ req'[q] = req[q]
                            \/ req[q].at # "store" /\ req'[q] = [req[q] EXCEPT !.fresh = FALSE]
  <2>1. \A r \in Request : [r EXCEPT !.fresh = FALSE] \in Request
    BY DEF Request
  <2>. QED BY <2>1 DEF Lapse, At, IInv, TypeOK
<1>4. req' \in [Requests -> Request]
  BY <1>3 DEF Lapse
<1>5. TypeOK' /\ CredentialOfItsRow' /\ RowsOK'
  BY <1>1, <1>2, <1>4 DEF IInv, TypeOK, CredentialOfItsRow, RowsOK
<1>6. RequestsOK'
  <2> SUFFICES ASSUME NEW q \in Requests PROVE RequestOK(q)'
    BY DEF RequestsOK
  <2>1. RequestOK(q) /\ req[q] \in Request
    BY DEF IInv, RequestsOK, TypeOK
  <2>2. /\ req'[q].at = req[q].at /\ req'[q].kind = req[q].kind /\ req'[q].on = req[q].on
        /\ req'[q].id = req[q].id /\ req'[q].grant = req[q].grant /\ req'[q].job = req[q].job
        /\ req[q].at = "store" => req'[q].fresh = req[q].fresh
    BY <1>3, <2>1 DEF Request
  <2>. QED BY <1>1, <2>1, <2>2 DEF RequestOK
<1>. QED BY <1>5, <1>6 DEF IInv

LEMMA RestartStep ==
  ASSUME IInv, Restart
  PROVE  IInv'
<1>1. /\ UNCHANGED <<row, grants, home>>
      /\ req' = [q \in Requests |-> Idle] /\ breaker' = [p \in Connectable |-> Closed]
  BY DEF Restart
<1>2. TypeOK'
  BY <1>1, IdleType DEF IInv, TypeOK, Closed, Breaker
<1>. QED BY <1>1, <1>2, IdleType DEF IInv, CredentialOfItsRow, RowsOK, RequestsOK, RequestOK, Equipped

LEMMA TimerStep ==
  ASSUME IInv, NEW p \in Connectable, Slide(p) \/ HalfOpen(p)
  PROVE  IInv'
<1>1. UNCHANGED <<row, grants, home, req>>
  BY DEF Slide, HalfOpen
<1>2. breaker' \in [Connectable -> Breaker]
  <2>1. CASE Slide(p)
    BY <2>1, SlidType DEF Slide, IInv, TypeOK
  <2>2. CASE HalfOpen(p)
    <3>1. breaker' = [breaker EXCEPT ![p] = [breaker[p] EXCEPT !.state = "halfOpen"]]
      BY <2>2 DEF HalfOpen, IInv, TypeOK
    <3>2. [breaker[p] EXCEPT !.state = "halfOpen"] \in Breaker
      BY DEF IInv, TypeOK, Breaker
    <3>. QED BY <3>1, <3>2 DEF IInv, TypeOK
  <2>. QED BY <2>1, <2>2
<1>. QED BY <1>1, <1>2 DEF IInv, TypeOK, CredentialOfItsRow, RowsOK, RequestsOK, RequestOK

LEMMA ServeStep ==
  ASSUME IInv, NEW q \in Requests, Serve(q) \/ Answered(q) \/ Refused(q) \/ Throw(q)
  PROVE  IInv'
<1>1. CASE Timeout(q) \/ Refused(q)
  BY <1>1, Fails DEF Timeout, Refused, At
<1>2. CASE Throw(q)
  <2>1. End(q) /\ UNCHANGED <<row, grants, home, breaker>>
    BY <1>2 DEF Throw
  <2>2. breaker' \in [Connectable -> Breaker]
    BY <2>1 DEF IInv, TypeOK
  <2>. QED BY <2>1, <2>2, Ends
<1>. QED BY <1>1, <1>2, ChooseStep, ReadSecretStep, FireStep, FetchedStep, DoneStep, UnauthorizedStep,
            StoreStep, WriteStep DEF Serve, Answered

LEMMA NextInv == IInv /\ [Next]_vars => IInv'
<1> SUFFICES ASSUME IInv, [Next]_vars PROVE IInv'
  OBVIOUS
<1>1. CASE UNCHANGED vars
  BY <1>1 DEF vars, IInv, TypeOK, CredentialOfItsRow, RequestsOK, RequestOK, RowsOK
<1>2. CASE Trouble
  <2>1. ASSUME NEW q \in Requests, Refused(q) \/ Timeout(q) \/ Throw(q)
        PROVE  IInv'
    BY <2>1, ServeStep DEF Serve
  <2>2. ASSUME NEW p \in Connectable, Connect(p) \/ Suspend(p) \/ Disconnect(p)
        PROVE  IInv'
    BY <2>2, ConnectStep, RowStep
  <2>3. CASE Lapse \/ Restart
    BY <2>3, LapseStep, RestartStep
  <2>. QED BY <1>2, <2>1, <2>2, <2>3 DEF Trouble
<1>3. CASE \E p \in Connectable : Slide(p) \/ HalfOpen(p)
  BY <1>3, TimerStep
<1>4. ASSUME NEW q \in Requests, Serve(q) \/ Answered(q)
      PROVE  IInv'
  BY <1>4, ServeStep
<1>5. ASSUME NEW q \in Requests,
             \/ CheckInventory(q) \/ CreateShipment(q) \/ SendMessage(q) \/ SendEmail(q)
             \/ SendDeliveredEmail(q) \/ SendCartReminder(q)
             \/ UpdateShopifyOrder(q) \/ CheckCartCheckout(q)
             \/ \E p \in Connectable : Test(q, p)
      PROVE  IInv'
  BY <1>5, StartsStep
<1>. QED BY <1>1, <1>2, <1>3, <1>4, <1>5 DEF Next
-----------------------------------------------------------------------------
(* The invariant holds throughout.                                         *)
THEOREM Invariance == Spec => []IInv
BY InitInv, NextInv, PTL DEF Spec

(* Every variable keeps its type, whatever the requests do.                *)
THEOREM TypeCorrect == Spec => []TypeOK
BY Invariance, PTL DEF IInv

(* updateCredential never puts a token into a row it was not obtained for, *)
(* however long after the read, and whoever reconnected meanwhile.         *)
THEOREM CredentialKept == Spec => []CredentialOfItsRow
BY Invariance, PTL DEF IInv

(* No step but a lapse turns a stored token stale: what a refresh stores,  *)
(* late or twice, is always the token it was just given.                   *)
THEOREM FreshnessKept == Spec => TokenStaysFresh
<1> DEFINE Kept == \A p \in Connectable :
       row[p].id # 0 /\ row[p].fresh /\ row'[p].id = row[p].id /\ ~row'[p].fresh => Lapse
<1>1. IInv /\ [Next]_vars => Kept
  <2> SUFFICES ASSUME IInv, [Next]_vars, ~Lapse, NEW p \in Connectable,
                      row[p].id # 0, row[p].fresh, row'[p].id = row[p].id
               PROVE  row'[p].fresh
    OBVIOUS
  <2>1. row \in [Connectable -> Row] /\ row[p] \in Row
    BY DEF IInv, TypeOK
  <2>2. ASSUME NEW q \in Requests, Store(q) PROVE row'[p].fresh
    <3>1. req[q].fresh /\ req[q].on \in Connectable
      BY <2>2 DEF Store, At, IInv, RequestsOK, RequestOK, Equipped
    <3>2. CASE row' = row
      BY <3>2
    <3>3. CASE row' = [row EXCEPT ![req[q].on].grant = req[q].grant, ![req[q].on].fresh = req[q].fresh]
      <4>1. row' = [row EXCEPT ![req[q].on] = [row[req[q].on] EXCEPT !.grant = req[q].grant, !.fresh = req[q].fresh]]
        BY <2>1, <3>1, <3>3
      <4>2. [row[p] EXCEPT !.grant = req[q].grant, !.fresh = req[q].fresh].fresh = req[q].fresh
        BY <2>1 DEF Row
      <4>. QED BY <2>1, <3>1, <4>1, <4>2
    <3>. QED BY <2>2, <3>2, <3>3 DEF Store
  <2>3. ASSUME NEW q \in Requests, Write(q) PROVE row'[p].fresh
    <3>1. CASE row' = row
      BY <3>1
    <3>2. CASE row' = [row EXCEPT ![req[q].on].live = TRUE]
      <4>1. CASE req[q].on = p
        <5>1. row'[p] = [row[p] EXCEPT !.live = TRUE]
          BY <2>1, <3>2, <4>1
        <5>2. [row[p] EXCEPT !.live = TRUE].fresh = row[p].fresh
          BY <2>1 DEF Row
        <5>. QED BY <5>1, <5>2
      <4>2. CASE req[q].on # p
        BY <2>1, <3>2, <4>2
      <4>. QED BY <4>1, <4>2
    <3>. QED BY <2>3, <3>1, <3>2 DEF Write
  <2>4. ASSUME NEW o \in Connectable, Connect(o) \/ Suspend(o) \/ Disconnect(o) PROVE row'[p].fresh
    <3>1. CASE o # p
      BY <2>1, <2>4, <3>1 DEF Connect, Suspend, Disconnect
    <3>2. CASE Connect(p)
      BY <2>1, <3>2 DEF Connect
    <3>3. CASE Suspend(p)
      <4>1. row'[p] = [row[p] EXCEPT !.live = FALSE]
        BY <2>1, <3>3 DEF Suspend
      <4>2. [row[p] EXCEPT !.live = FALSE].fresh = row[p].fresh
        BY <2>1 DEF Row
      <4>. QED BY <4>1, <4>2
    <3>4. CASE Disconnect(p)
      BY <2>1, <3>4 DEF Disconnect, NoRow
    <3>. QED BY <2>4, <3>1, <3>2, <3>3, <3>4
  <2>5. ASSUME NEW q \in Requests,
               \/ Choose(q) \/ ReadSecret(q) \/ Fire(q) \/ Fetched(q) \/ Done(q) \/ Unauthorized(q)
               \/ Timeout(q) \/ Refused(q) \/ Throw(q)
               \/ CheckInventory(q) \/ CreateShipment(q) \/ SendMessage(q) \/ SendEmail(q)
               \/ SendDeliveredEmail(q) \/ SendCartReminder(q)
               \/ UpdateShopifyOrder(q) \/ CheckCartCheckout(q) \/ \E o \in Connectable : Test(q, o)
        PROVE  UNCHANGED row
    BY <2>5 DEF Choose, ReadSecret, Fire, Fetched, Done, Unauthorized, Timeout, Refused, Throw, Fail,
       CheckInventory, CreateShipment, SendMessage, SendEmail, SendDeliveredEmail, SendCartReminder, UpdateShopifyOrder, CheckCartCheckout, Test, Start
  <2>6. ASSUME NEW o \in Connectable, Slide(o) \/ HalfOpen(o) PROVE UNCHANGED row
    BY <2>6 DEF Slide, HalfOpen
  <2>7. CASE UNCHANGED row
    BY <2>7
  <2>. QED BY <2>2, <2>3, <2>4, <2>5, <2>6, <2>7 DEF Next, Serve, Answered, Trouble, Restart, vars
<1>2. IInv /\ [Next]_vars => [Kept]_vars
  BY <1>1
<1>. QED BY <1>2, Invariance, PTL DEF Spec, TokenStaysFresh
=============================================================================
