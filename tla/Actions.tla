------------------------------- MODULE Actions -------------------------------
(***************************************************************************)
(* The requests that call a third party for one tenant: the actions n8n    *)
(* asks for (integration-actions.service.ts) and the connection test of    *)
(* integrations.service.ts.  Each reads a row, then its credential, then   *)
(* calls the provider's adapter through the circuit breaker that all calls *)
(* to that provider share (circuit-breaker.service.ts), and stops at every *)
(* await: rows are connected, disconnected and connected again meanwhile,  *)
(* tokens lapse, providers refuse or do not answer, the backend restarts.  *)
(*                                                                         *)
(* A credential is known by its grant: the connect that obtained it.  How  *)
(* a connect gets there is in module IntegrationLifecycle.                 *)
(***************************************************************************)
EXTENDS Integers, FiniteSets

CONSTANTS
  Connectable,      \* the providers this tenant connects
  Requests,         \* requests served at a time
  None,             \* no provider
  Lines,            \* how many SKUs orders have
  MaxGrants,        \* connects
  MaxWindow         \* calls in a breaker's rolling window

Inventory == {"ZOHO_INVENTORY", "ODOO"}
Shipping  == {"EASYPOST", "SHIPPO"}
Mailer    == {"RESEND", "SENDGRID", "MAILGUN"}
Alert     == {"SLACK", "DISCORD"}
Provider  == Inventory \union Shipping \union Mailer \union Alert \union {"SHOPIFY"}

Kind == {"inventory", "shipment", "fulfil", "alert", "mail", "cart", "test"}

ASSUME ActionsAssumption ==
  /\ Connectable \subseteq Provider /\ None \notin Provider
  /\ Lines \subseteq Nat /\ MaxGrants \in Nat
  /\ IsFiniteSet(Requests) /\ MaxWindow \in Nat /\ Cardinality(Requests) =< MaxWindow

VARIABLES
  row,      \* the integration row of each provider, with its credential
  grants,   \* connects so far
  home,     \* history: the row each grant was obtained for
  breaker,  \* the circuit breaker of each provider
  req       \* the request each slot serves

vars == <<row, grants, home, breaker, req>>

Grant  == 0 .. MaxGrants
NoRow  == [id |-> 0, grant |-> 0, live |-> FALSE, fresh |-> FALSE]
Row    == [id : Grant, grant : Grant,
           live : BOOLEAN,    \* ACTIVE or DEGRADED
           fresh : BOOLEAN]   \* the stored access token is still good

(* opossum's halfOpen is "halfOpen" until its one trial call, then "trial". *)
Closed  == [state |-> "closed", fires |-> 0, failures |-> 0]
Breaker == [state : {"closed", "open", "halfOpen", "trial"}, fires : Nat, failures : Nat]

(* What a request keeps: the row and the credential it read, which of its  *)
(* calls it is at, and the answers that call still waits for.              *)
Idle    == [at |-> "idle", kind |-> "test", on |-> None, id |-> 0, grant |-> 0,
            fresh |-> FALSE, job |-> "first", left |-> 0]
Request == [at : {"idle", "choose", "secret", "fire", "wait", "store", "write"},
            kind : Kind, on : Provider \union {None}, id : Grant, grant : Grant,
            fresh : BOOLEAN, job : {"first", "refresh", "again"}, left : Nat]

TypeOK ==
  /\ row \in [Connectable -> Row] /\ grants \in Grant
  /\ home \in [Grant -> Grant]
  /\ breaker \in [Connectable -> Breaker]
  /\ req \in [Requests -> Request]

Init ==
  /\ row = [p \in Connectable |-> NoRow] /\ grants = 0
  /\ home = [g \in Grant |-> 0]
  /\ breaker = [p \in Connectable |-> Closed]
  /\ req = [q \in Requests |-> Idle]
-----------------------------------------------------------------------------
(* The adapters: how many answers each of their jobs waits for.  A check   *)
(* asks for one SKU after the other until one is short.                    *)

Zoho     == [inventory |-> Lines, refresh |-> {1}, test |-> {1}]
Odoo     == [inventory |-> {n + 1 : n \in Lines}, test |-> {1}]
EasyPost == [shipment |-> {2}, test |-> {1}]
Shippo   == [shipment |-> {2}, test |-> {1}]
Shopify  == [fulfil |-> {2}, cart |-> {1}, test |-> 1 .. 3]
Resend   == [mail |-> {1}, test |-> {1}]
SendGrid == [mail |-> {1}, test |-> {1}]
Mailgun  == [mail |-> {1}, test |-> {1}]
Slack    == [alert |-> {1}, test |-> {1}]
Discord  == [alert |-> {1}, test |-> {1}]

(* IntegrationRegistry.get.                                                *)
Adapter == [ZOHO_INVENTORY |-> Zoho, ODOO |-> Odoo, EASYPOST |-> EasyPost, SHIPPO |-> Shippo,
            SHOPIFY |-> Shopify, RESEND |-> Resend, SENDGRID |-> SendGrid, MAILGUN |-> Mailgun,
            SLACK |-> Slack, DISCORD |-> Discord]

Answers(r) == Adapter[r.on][IF r.job = "refresh" THEN "refresh" ELSE r.kind]
-----------------------------------------------------------------------------
(* The breaker.  The thresholds of the code, 5 and for Slack 8, are scaled *)
(* down by three.                                                          *)

Volume(p) == IF p = "SLACK" THEN 3 ELSE 2

(* Mutant: only a closed circuit opens.                                    *)
OpensClosed(p) ==
  LET b == breaker[p]
  IN  b.state = "closed" /\ b.fires >= Volume(p) /\ 100 * (b.failures + 1) > 99 * b.fires

(* One more failure opens a half-open circuit, and a closed one once enough *)
(* calls have landed in the window and more than 99% of them have failed.  *)
Opens(p) ==
  LET b == breaker[p]
  IN  \/ b.state \in {"halfOpen", "trial"}
      \/ b.state = "closed" /\ b.fires >= Volume(p) /\ 100 * (b.failures + 1) > 99 * b.fires

Failed(p) == [breaker[p] EXCEPT !.failures = @ + 1, !.state = IF Opens(p) THEN "open" ELSE @]

Succeeded(p) == [breaker[p] EXCEPT !.state = IF @ \in {"halfOpen", "trial"} THEN "closed" ELSE @]

Pending(p) == Cardinality({q \in Requests : req[q].at = "wait" /\ req[q].on = p})

(* Mutant: a window that forgets more failures than it holds.              *)
SlidBelow(p) ==
  LET b == breaker[p]
  IN  {[b EXCEPT !.fires = @ - 1, !.failures = f] : f \in {b.failures, b.failures - 1}}

(* What the breaker can be when one settled call has left the window.      *)
Slid(p) ==
  LET b == breaker[p]
  IN  {[b EXCEPT !.fires = @ - 1, !.failures = f] :
         f \in {b.failures, b.failures - 1} \intersect 0 .. b.fires - 1 - Pending(p)}

Slide(p) ==
  /\ \E b \in Slid(p) : breaker' = [breaker EXCEPT ![p] = b]
  /\ UNCHANGED <<row, grants, home, req>>

(* The reset timeout of an open circuit has passed.                        *)
HalfOpen(p) ==
  /\ breaker[p].state = "open"
  /\ breaker' = [breaker EXCEPT ![p].state = "halfOpen"]
  /\ UNCHANGED <<row, grants, home, req>>
-----------------------------------------------------------------------------
(* A request begins, and finds the row it is about.                        *)

At(q, label)   == req[q].at = label
Goto(q, label) == req' = [req EXCEPT ![q].at = label]
End(q)         == req' = [req EXCEPT ![q] = Idle]

Start(q, kind, label, p) ==
  /\ At(q, "idle")
  /\ req' = [req EXCEPT ![q] = [Idle EXCEPT !.at = label, !.kind = kind, !.on = p]]
  /\ UNCHANGED <<row, grants, home, breaker>>

CheckInventory(q)     == Start(q, "inventory", "choose", None)
CreateShipment(q)     == Start(q, "shipment", "choose", None)
SendMessage(q)        == Start(q, "alert", "choose", None)
SendEmail(q)          == Start(q, "mail", "choose", None)
SendDeliveredEmail(q) == Start(q, "mail", "choose", None)
SendCartReminder(q)   == Start(q, "mail", "choose", None)
UpdateShopifyOrder(q) == Start(q, "fulfil", "secret", "SHOPIFY")
CheckCartCheckout(q)  == Start(q, "cart", "secret", "SHOPIFY")
Test(q, p)            == Start(q, "test", "secret", p)

Choices(kind) == CASE kind = "inventory" -> Inventory
                   [] kind = "shipment"  -> Shipping
                   [] kind = "alert"     -> Alert
                   [] OTHER              -> Mailer

RowOf(p) == IF p \in Connectable THEN row[p] ELSE NoRow

(* findFirst: any live row of the group.  Without one, without the order,  *)
(* or without what the order must have, 404.                               *)
Choose(q) ==
  /\ At(q, "choose")
  /\ \/ \E p \in Choices(req[q].kind) :
          /\ RowOf(p).live
          /\ req' = [req EXCEPT ![q].at = "secret", ![q].on = p]
     \/ End(q)
  /\ UNCHANGED <<row, grants, home, breaker>>

(* getDecryptedCredential, and what test reads: by tenant and provider,    *)
(* whatever the status is by now.                                          *)
ReadSecret(q) ==
  /\ At(q, "secret")
  /\ LET r == RowOf(req[q].on) IN
       IF r.id = 0 THEN End(q)
       ELSE req' = [req EXCEPT ![q].at = "fire", ![q].id = r.id, ![q].grant = r.grant, ![q].fresh = r.fresh]
  /\ UNCHANGED <<row, grants, home, breaker>>
-----------------------------------------------------------------------------
(* The call.                                                               *)

(* An open circuit, or a trial under way, refuses: CircuitOpen.  The test  *)
(* then leaves the status alone.                                           *)
Fire(q) ==
  /\ At(q, "fire")
  /\ LET p == req[q].on
         s == breaker[p].state
     IN  /\ \E b \in IF breaker[p].fires < MaxWindow THEN {breaker[p]} ELSE Slid(p) :
              breaker' = [breaker EXCEPT ![p] =
                [b EXCEPT !.fires = @ + 1, !.state = IF s = "halfOpen" THEN "trial" ELSE s]]
         /\ IF s \in {"open", "trial"} THEN End(q)
            ELSE \E n \in Answers(req[q]) : req' = [req EXCEPT ![q].at = "wait", ![q].left = n]
  /\ UNCHANGED <<row, grants, home>>

(* The access token of the request is not good any more.                   *)
Lapsed(q) == req[q].on = "ZOHO_INVENTORY" /\ req[q].job # "refresh" /\ ~req[q].fresh

Fetched(q) ==
  /\ At(q, "wait") /\ req[q].left > 0 /\ ~Lapsed(q)
  /\ req' = [req EXCEPT ![q].left = @ - 1]
  /\ UNCHANGED <<row, grants, home, breaker>>

(* The job is done: a refreshed token is to be stored, a tracking number   *)
(* or the outcome of a test to be written.                                 *)
Done(q) ==
  /\ At(q, "wait") /\ req[q].left = 0
  /\ breaker' = [breaker EXCEPT ![req[q].on] = Succeeded(req[q].on)]
  /\ IF req[q].job = "refresh" THEN req' = [req EXCEPT ![q].at = "store", ![q].fresh = TRUE]
     ELSE IF req[q].kind \in {"shipment", "test"} THEN Goto(q, "write")
     ELSE End(q)
  /\ UNCHANGED <<row, grants, home>>

(* The job throws, which the breaker counts; test records the failure.     *)
Fail(q) ==
  /\ breaker' = [breaker EXCEPT ![req[q].on] = Failed(req[q].on)]
  /\ IF req[q].kind = "test" THEN Goto(q, "write") ELSE End(q)
  /\ UNCHANGED <<row, grants, home>>

(* Zoho answers 401 to the lapsed token, and the first time a check gets   *)
(* it, the token is refreshed: a call of its own through the breaker.      *)
Unauthorized(q) ==
  /\ At(q, "wait") /\ req[q].left > 0 /\ Lapsed(q)
  /\ \/ req[q].kind = "inventory" /\ req[q].job = "first"
        /\ breaker' = [breaker EXCEPT ![req[q].on] = Failed(req[q].on)]
        /\ req' = [req EXCEPT ![q].at = "fire", ![q].job = "refresh", ![q].left = 0]
        /\ UNCHANGED <<row, grants, home>>
     \/ ~(req[q].kind = "inventory" /\ req[q].job = "first") /\ Fail(q)

Refused(q) == At(q, "wait") /\ req[q].left > 0 /\ Fail(q)

(* Mutant: only the first call of a request goes through the breaker.      *)
TimeoutFirst(q) == At(q, "wait") /\ req[q].left > 0 /\ req[q].job = "first" /\ Fail(q)

(* The provider does not answer: the breaker gives up after ten seconds.   *)
Timeout(q) == At(q, "wait") /\ req[q].left > 0 /\ Fail(q)
-----------------------------------------------------------------------------
(* What a request writes.                                                  *)

Found(q) == row[req[q].on].id = req[q].id

(* Mutant: the credential is stored by tenant and provider.                *)
StoreByProvider(q) ==
  /\ At(q, "store")
  /\ IF row[req[q].on].id # 0
       THEN /\ row' = [row EXCEPT ![req[q].on].grant = req[q].grant, ![req[q].on].fresh = req[q].fresh]
            /\ req' = [req EXCEPT ![q].at = "fire", ![q].job = "again"]
       ELSE End(q) /\ UNCHANGED row
  /\ UNCHANGED <<grants, home, breaker>>

(* Mutant: what was read is stored again.                                  *)
StoreWhatWasRead(q) ==
  /\ At(q, "store")
  /\ IF Found(q)
       THEN /\ row' = [row EXCEPT ![req[q].on].grant = req[q].grant, ![req[q].on].fresh = FALSE]
            /\ req' = [req EXCEPT ![q].at = "fire", ![q].job = "again"]
       ELSE End(q) /\ UNCHANGED row
  /\ UNCHANGED <<grants, home, breaker>>

(* updateCredential, by the id of the row: it throws when that is gone.    *)
Store(q) ==
  /\ At(q, "store")
  /\ IF Found(q)
       THEN /\ row' = [row EXCEPT ![req[q].on].grant = req[q].grant, ![req[q].on].fresh = req[q].fresh]
            /\ req' = [req EXCEPT ![q].at = "fire", ![q].job = "again"]
       ELSE End(q) /\ UNCHANGED row
  /\ UNCHANGED <<grants, home, breaker>>

(* A shipment's tracking number goes to the order, which this module does  *)
(* not keep (OrderPipeline does); a test makes its row ACTIVE or DEGRADED, *)
(* whatever it was.                                                        *)
Write(q) ==
  /\ At(q, "write")
  /\ row' = IF req[q].kind = "test" /\ Found(q) THEN [row EXCEPT ![req[q].on].live = TRUE] ELSE row
  /\ End(q)
  /\ UNCHANGED <<grants, home, breaker>>

(* A statement of the backend throws.                                      *)
Throw(q) ==
  /\ req[q].at \in {"choose", "secret", "store", "write"}
  /\ End(q)
  /\ UNCHANGED <<row, grants, home, breaker>>

Serve(q) ==
  \/ Choose(q) \/ ReadSecret(q) \/ Fire(q) \/ Done(q) \/ Timeout(q)
  \/ Store(q) \/ Write(q)

Answered(q) == Fetched(q) \/ Unauthorized(q)
-----------------------------------------------------------------------------
(* Around the requests.                                                    *)

(* A connect ends: the upsert keeps the row there is, so a second connect  *)
(* replaces the credential of the same row.                                *)
Connect(p) ==
  /\ grants < MaxGrants
  /\ LET g  == grants + 1
         id == IF row[p].id = 0 THEN g ELSE row[p].id
     IN  /\ grants' = g
         /\ home' = [home EXCEPT ![g] = id]
         /\ row' = [row EXCEPT ![p] = [id |-> id, grant |-> g, live |-> TRUE, fresh |-> TRUE]]
  /\ UNCHANGED <<breaker, req>>

(* An OAuth connect begins, or fails, on a row that has a credential.      *)
Suspend(p) ==
  /\ p \in {"ZOHO_INVENTORY", "SHOPIFY"} /\ row[p].live
  /\ row' = [row EXCEPT ![p].live = FALSE]
  /\ UNCHANGED <<grants, home, breaker, req>>

Disconnect(p) ==
  /\ row[p].id # 0
  /\ row' = [row EXCEPT ![p] = NoRow]
  /\ UNCHANGED <<grants, home, breaker, req>>

(* Zoho's access tokens live for an hour: those handed out so far lapse,   *)
(* but not one that was handed out just now and is about to be stored.     *)
Lapse ==
  /\ RowOf("ZOHO_INVENTORY").fresh
  /\ row' = [row EXCEPT !["ZOHO_INVENTORY"].fresh = FALSE]
  /\ req' = [q \in Requests |-> IF req[q].on = "ZOHO_INVENTORY" /\ ~At(q, "store")
                                  THEN [req[q] EXCEPT !.fresh = FALSE] ELSE req[q]]
  /\ UNCHANGED <<grants, home, breaker>>

(* Requests and breakers live in the process.                              *)
Restart ==
  /\ req' = [q \in Requests |-> Idle]
  /\ breaker' = [p \in Connectable |-> Closed]
  /\ UNCHANGED <<row, grants, home>>

(* What goes wrong, or changes, around the requests.                       *)
Trouble ==
  \/ \E q \in Requests : Refused(q) \/ Timeout(q) \/ Throw(q)
  \/ \E p \in Connectable : Connect(p) \/ Suspend(p) \/ Disconnect(p)
  \/ Lapse \/ Restart

Next ==
  \/ \E q \in Requests :
       \/ Serve(q) \/ Answered(q)
       \/ CheckInventory(q) \/ CreateShipment(q) \/ SendMessage(q)
       \/ SendEmail(q) \/ SendDeliveredEmail(q) \/ SendCartReminder(q)
       \/ UpdateShopifyOrder(q) \/ CheckCartCheckout(q)
       \/ \E p \in Connectable : Test(q, p)
  \/ \E p \in Connectable : Slide(p) \/ HalfOpen(p)
  \/ Trouble

(* The process runs on and its timers fire; a provider owes no answer.     *)
Spec ==
  /\ Init /\ [][Next]_vars
  /\ \A q \in Requests : WF_vars(Serve(q))
  /\ \A p \in Connectable : WF_vars(HalfOpen(p))
-----------------------------------------------------------------------------
(* Properties.                                                             *)

(* A stored credential was obtained for the row that holds it: a token     *)
(* refreshed for a row that was disconnected meanwhile never lands in the  *)
(* row a later connect made.                                               *)
CredentialOfItsRow ==
  \A p \in Connectable : row[p].id # 0 => home[row[p].grant] = row[p].id

(* Nothing but time makes a stored token useless: checks that refresh at   *)
(* once, or across a reconnect, may store their results in either order.   *)
TokenStaysFresh ==
  [][\A p \in Connectable :
       row[p].id # 0 /\ row[p].fresh /\ row'[p].id = row[p].id /\ ~row'[p].fresh => Lapse]_vars

(* "A slow/hanging upstream" ties up no request: each is answered, through *)
(* a refresh and a second check as well.                                   *)
RequestsAnswered ==
  \A q \in Requests : req[q].at # "idle" ~> req[q].at = "idle"

(* No circuit stays shut: each is closed or ready for a trial call again   *)
(* and again, whatever becomes of its trials.                              *)
AlwaysAccepts ==
  \A p \in Connectable : []<>(breaker[p].state \in {"closed", "halfOpen"})

(* Not kept (run zoho_locked_out): a check answered 401 is to "trigger a   *)
(* refresh-and-retry-once", so that, once nothing outside goes wrong any   *)
(* more, checks stop being answered 401.                                   *)
LapsedIsRefreshed ==
  \/ []<><<Trouble>>_vars
  \/ <>[][\A q \in Requests : ~(Unauthorized(q) /\ req[q].kind = "inventory")]_vars
=============================================================================
