---------------------------- MODULE OrderPipeline ----------------------------
(***************************************************************************)
(* One order on its way through n8n's order-validation workflow            *)
(* (order-validation.json) and the backend endpoints its nodes call        *)
(* (internal.service.ts, integration-actions.service.ts).  An execution    *)
(* stands at a node; the node's HTTP request is tried up to MaxTries times *)
(* and a try may fail before its effect, between two statements of its     *)
(* handler, or after it (the answer is lost).  Executions of one order     *)
(* overlap: the inbox may start two, a person may retry a failed one, and  *)
(* may override the order's status at any time.                            *)
(***************************************************************************)
EXTENDS Naturals, FiniteSets

CONSTANTS
  Runs,         \* executions of the workflow for this order
  MaxTries,     \* maxTries of every HTTP node: 3 in the workflow
  Redelivered,  \* whether the inbox may start a run of the order again
  Overridable   \* statuses people override the order's with

ASSUME PipelineAssumption ==
  /\ IsFiniteSet(Runs)
  /\ MaxTries \in Nat \ {0}
  /\ Redelivered \in BOOLEAN
  /\ Overridable \subseteq {"FULFILLED", "NOTIFIED", "COMPLETED", "CANCELED"}

VARIABLES
  valid,      \* what validateOrder computes of the order; never changes
  status,     \* Order.status
  tracking,   \* {} or the shipment whose trackingNumber the order row has
  failures,   \* order_failed events of the order
  overridden, \* a person has overridden the status
  bought,     \* shipments each execution has bought of the carrier
  shopify,    \* the shipments Shopify's fulfillments of the order name
  abandoned,  \* executions with an updateOrder given up on and still under way
  row,        \* WorkflowRun.status of the row n8n knows for each execution
  orphaned,   \* a workflow run row exists whose id never reached n8n
  steps,      \* WorkflowRunStep.status of each row
  notices,    \* workflow_failed notifications sent for each row
  at,         \* the node each execution is at
  tries,      \* failed tries of that node
  good        \* what the node its next IF (or Close) looks at answered

order      == <<valid, status, tracking, failures, overridden>>
outside    == <<bought, shopify, abandoned>>
records    == <<row, orphaned, steps, notices>>
control    == <<at, tries, good>>
vars       == <<order, outside, records, control>>

(* The nodes; track, reason and notify are the second statements of the    *)
(* handlers of shipment, markFailed and close.                             *)
Calls     == {"inventory", "shipment", "track", "shopify", "slack", "email"}
Marks     == {"markValidated", "markInvalid", "markShipped", "markFulfilled", "markNotified"}
Recording == {"recordInventory", "recordShipment", "recordShopify", "recordSlack", "recordEmail"}
Node      == Calls \union Marks \union Recording \union
             {"open", "validate", "markFailed", "reason", "close", "notify"}
Ended     == {"done", "aborted"}

(* The status a mark writes, and the stepKey a record sends.               *)
Written(n) == CASE n = "markValidated" -> "VALIDATED"
                [] n = "markInvalid"   -> "VALIDATION_FAILED"
                [] n = "markShipped"   -> "SHIPMENT_CREATED"
                [] n = "markFulfilled" -> "FULFILLED"
                [] n = "markNotified"  -> "NOTIFIED"
Step(n)    == CASE n = "recordInventory" -> "check_inventory"
                [] n = "recordShipment"  -> "create_shipment"
                [] n = "recordShopify"   -> "update_shopify"
                [] n = "recordSlack"     -> "notify_slack"
                [] n = "recordEmail"     -> "notify_email"

StepKey     == {"check_inventory", "create_shipment", "update_shopify",
                "notify_slack", "notify_email"}
OrderStatus == {"RECEIVED", "VALIDATED", "VALIDATION_FAILED", "SHIPMENT_CREATED",
                "FULFILLED", "NOTIFIED", "COMPLETED", "FAILED", "CANCELED"}

(* A shipment is named by the execution that bought it and which of its    *)
(* purchases it was; Bought(r) is the last, $('Create Shipment').item.     *)
Shipment  == Runs \X Nat
Bought(r) == <<r, bought[r]>>

TypeOK ==
  /\ valid \in BOOLEAN /\ overridden \in BOOLEAN
  /\ status \in OrderStatus
  /\ bought \in [Runs -> Nat]
  /\ tracking \in SUBSET Shipment /\ shopify \in SUBSET Shipment
  /\ abandoned \in SUBSET Runs
  /\ failures \in Nat /\ orphaned \in BOOLEAN
  /\ row \in [Runs -> {"none", "RUNNING", "SUCCEEDED", "FAILED"}]
  /\ steps \in [Runs -> [StepKey -> {"absent", "SUCCEEDED", "FAILED"}]]
  /\ notices \in [Runs -> Nat]
  /\ at \in [Runs -> Node \union Ended \union {"idle"}]
  /\ tries \in [Runs -> 0 .. MaxTries - 1]
  /\ good \in [Runs -> BOOLEAN]

Init ==
  /\ valid \in BOOLEAN /\ overridden = FALSE
  /\ status = "RECEIVED"
  /\ bought = [r \in Runs |-> 0] /\ tracking = {} /\ shopify = {} /\ abandoned = {}
  /\ failures = 0 /\ orphaned = FALSE
  /\ row = [r \in Runs |-> "none"]
  /\ steps = [r \in Runs |-> [k \in StepKey |-> "absent"]]
  /\ notices = [r \in Runs |-> 0]
  /\ at = [r \in Runs |-> "idle"]
  /\ tries = [r \in Runs |-> 0]
  /\ good = [r \in Runs |-> FALSE]
-----------------------------------------------------------------------------
(* Mutations of the definitions below: slips this code could have had.  No *)
(* specification uses them; a property is worth its run when one of them   *)
(* breaks it.                                                              *)

(* The workflow without its IF In Stock, ...                               *)
AfterUnchecked(r) ==
  IF at[r] = "recordInventory" THEN "shipment"
  ELSE [markValidated |-> "inventory", markInvalid |-> "close", markShipped |-> "shopify",
        recordShipment |-> IF good[r] THEN "markShipped" ELSE "markFailed",
        recordShopify |-> "markFulfilled", markFulfilled |-> "slack", recordSlack |-> "email",
        recordEmail |-> "markNotified", markNotified |-> "close"][at[r]]

(* ... without its IF Shopify Updated, and with a Notify Slack that fails  *)
(* the order.                                                              *)
OnErrorTo(n, afterShopify, afterSlack) ==
  CASE n = "shopify" -> afterShopify         [] n = "slack" -> afterSlack
    [] n = "inventory" -> "recordInventory"  [] n \in {"shipment", "track"} -> "recordShipment"
    [] n = "email" -> "recordEmail"          [] OTHER -> "aborted"
OnErrorIgnored(n) == OnErrorTo(n, "recordShopify", "recordSlack")
OnErrorHard(n)    == OnErrorTo(n, "markFailed", "markFailed")

(* ... with an error output of Close that fails the order.                 *)
OnErrorReclosed(n) == IF n = "close" THEN "markFailed" ELSE OnErrorTo(n, "markFailed", "recordSlack")

(* The wire value of the status written where the enum's is meant; the     *)
(* event only written by another caller.                                   *)
MarkFailedAs(r, s, n) ==
  /\ at[r] = "markFailed"
  /\ status' = s
  /\ at' = [at EXCEPT ![r] = n]
  /\ UNCHANGED <<valid, tracking, failures, overridden, outside, records, tries, good>>
MarkFailedRaw(r)    == MarkFailedAs(r, "failed", "reason")
MarkFailedSilent(r) == MarkFailedAs(r, "FAILED", "close")

(* The retries of a node off by one, and uncounted.                        *)
TryFailsOnceMore(r) ==
  /\ at' = [at EXCEPT ![r] = IF tries[r] < MaxTries THEN at[r] ELSE "aborted"]
  /\ tries' = [tries EXCEPT ![r] = IF @ < MaxTries THEN @ + 1 ELSE 0]
  /\ UNCHANGED good
TryFailsUncounted(r) == UNCHANGED control

(* The tracking number only recorded when the order has none.              *)
RecordFirstTracking(r) ==
  /\ at[r] = "track"
  /\ tracking' = IF tracking = {} THEN {Bought(r)} ELSE tracking
  /\ \/ /\ at' = [at EXCEPT ![r] = "recordShipment"]
        /\ tries' = [tries EXCEPT ![r] = 0]
        /\ good' = [good EXCEPT ![r] = TRUE]
     \/ /\ tries[r] + 1 < MaxTries
        /\ at' = [at EXCEPT ![r] = "shipment"]
        /\ tries' = [tries EXCEPT ![r] = @ + 1]
        /\ UNCHANGED good
  /\ UNCHANGED <<valid, status, failures, overridden, outside, records>>

(* Every failed close notifies, whatever the row said before.              *)
CloseRenotifying(r) ==
  /\ at[r] = "close"
  /\ row' = [row EXCEPT ![r] = IF good[r] THEN "SUCCEEDED" ELSE "FAILED"]
  /\ at' = [at EXCEPT ![r] = IF good[r] THEN "done" ELSE "notify"]
  /\ UNCHANGED <<order, outside, orphaned, steps, notices, tries, good>>
-----------------------------------------------------------------------------
(* The workflow's control.                                                 *)

(* A node's retry starts its handler from the top.                         *)
Top(n) == CASE n = "track"  -> "shipment"
            [] n = "reason" -> "markFailed"
            [] n = "notify" -> "close"
            [] OTHER        -> n

(* onError: the calls continue with an error item, which the IF after them *)
(* (or the node that records them) reads; any other node ends the execution.*)
OnError(n) == CASE n = "inventory"             -> "recordInventory"
                [] n \in {"shipment", "track"} -> "recordShipment"
                [] n = "shopify"               -> "markFailed"
                [] n = "slack"                 -> "recordSlack"
                [] n = "email"                 -> "recordEmail"
                [] OTHER                       -> "aborted"

Goto(r, n) == at' = [at EXCEPT ![r] = n] /\ tries' = [tries EXCEPT ![r] = 0]

(* The node's try succeeds, and the next IF will read yes, or what it read. *)
Says(r, n, yes) == Goto(r, n) /\ good' = [good EXCEPT ![r] = yes]
Proceed(r, n)   == Goto(r, n) /\ UNCHANGED good

(* The node's try fails, as far as n8n can see.                            *)
TryFails(r) ==
  IF tries[r] + 1 < MaxTries
    THEN /\ at' = [at EXCEPT ![r] = Top(at[r])]
         /\ tries' = [tries EXCEPT ![r] = @ + 1]
         /\ UNCHANGED good
    ELSE Says(r, OnError(at[r]), FALSE)

(* The node that follows a mark or a record; an IF reads what the call     *)
(* before the record answered.                                             *)
After(r) == CASE at[r] = "markValidated"   -> "inventory"
              [] at[r] = "markInvalid"     -> "close"
              [] at[r] = "recordInventory" -> IF good[r] THEN "shipment" ELSE "markFailed"
              [] at[r] = "recordShipment"  -> IF good[r] THEN "markShipped" ELSE "markFailed"
              [] at[r] = "markShipped"     -> "shopify"
              [] at[r] = "recordShopify"   -> "markFulfilled"
              [] at[r] = "markFulfilled"   -> "slack"
              [] at[r] = "recordSlack"     -> "email"
              [] at[r] = "recordEmail"     -> "markNotified"
              [] at[r] = "markNotified"    -> "close"
-----------------------------------------------------------------------------
(* The nodes.  In each, the second alternative is the try whose effect is  *)
(* kept and whose answer is lost.                                          *)

(* createWorkflowRun: every try that gets there creates a row.             *)
Open(r) ==
  /\ at[r] = "open"
  /\ \/ row' = [row EXCEPT ![r] = "RUNNING"] /\ Proceed(r, "validate") /\ UNCHANGED orphaned
     \/ orphaned' = TRUE /\ TryFails(r) /\ UNCHANGED row
  /\ UNCHANGED <<order, outside, steps, notices>>

Validate(r) ==
  /\ at[r] = "validate"
  /\ Proceed(r, IF valid THEN "markValidated" ELSE "markInvalid")
  /\ UNCHANGED <<order, outside, records>>

(* updateOrderStatus with a status that is no failure of the pipeline.     *)
Mark(r) ==
  /\ at[r] \in Marks
  /\ status' = Written(at[r])
  /\ Says(r, After(r), at[r] # "markInvalid") \/ TryFails(r)
  /\ UNCHANGED <<valid, tracking, failures, overridden, outside, records>>

(* updateOrderStatus with "failed" and its reason: the status, ...         *)
MarkFailed(r) ==
  /\ at[r] = "markFailed"
  /\ status' = "FAILED"
  /\ at' = [at EXCEPT ![r] = "reason"]
  /\ UNCHANGED <<valid, tracking, failures, overridden, outside, records, tries, good>>

(* ... then the order_failed event.                                        *)
WriteReason(r) ==
  /\ at[r] = "reason"
  /\ failures' = failures + 1
  /\ Says(r, "close", FALSE) \/ TryFails(r)
  /\ UNCHANGED <<valid, status, tracking, overridden, outside, records>>

(* checkInventory, and the Slack and email calls: the answer is what       *)
(* matters to the order.                                                   *)
CheckInventory(r) ==
  /\ at[r] = "inventory"
  /\ \E inStock \in BOOLEAN : Says(r, "recordInventory", inStock)
  /\ UNCHANGED <<order, outside, records>>

Notify(r) ==
  /\ \/ at[r] = "slack" /\ Says(r, "recordSlack", TRUE)
     \/ at[r] = "email" /\ Says(r, "recordEmail", TRUE)
  /\ UNCHANGED <<order, outside, records>>

(* createShipment: the carrier sells a label on every call, ...  A call    *)
(* the breaker gave up on is counted with its try, though the carrier may  *)
(* sell later: only the number of labels sold depends on it.               *)
BuyShipment(r) ==
  /\ at[r] = "shipment"
  /\ bought' = [bought EXCEPT ![r] = @ + 1]
  /\ \/ at' = [at EXCEPT ![r] = "track"] /\ UNCHANGED <<tries, good>>
     \/ TryFails(r)
  /\ UNCHANGED <<order, shopify, abandoned, records>>

(* ... then the order row takes its tracking number.                       *)
RecordTracking(r) ==
  /\ at[r] = "track"
  /\ tracking' = {Bought(r)}
  /\ Says(r, "recordShipment", TRUE) \/ TryFails(r)
  /\ UNCHANGED <<valid, status, failures, overridden, outside, records>>

(* updateShopifyOrder.  Shopify refuses to fulfill an order twice: a later *)
(* call is a try that fails.  The circuit breaker waits 10 s for two       *)
(* requests that may take 10 s each, and what it gives up on runs on.      *)
UpdateShopify(r) ==
  /\ at[r] = "shopify" /\ shopify = {}
  /\ \/ /\ shopify' = {Bought(r)}
        /\ Says(r, "recordShopify", TRUE) \/ TryFails(r)
        /\ UNCHANGED abandoned
     \/ /\ abandoned' = abandoned \union {r}
        /\ TryFails(r)
        /\ UNCHANGED shopify
  /\ UNCHANGED <<order, bought, records>>

(* The fulfillment of a call given up on, wherever its execution is by now.*)
FulfillLate(r) ==
  /\ r \in abandoned /\ shopify = {}
  /\ shopify' = {Bought(r)}
  /\ abandoned' = abandoned \ {r}
  /\ UNCHANGED <<order, bought, records, control>>

(* upsertWorkflowRunStep: one row per step, whatever is retried.           *)
Record(r) ==
  /\ at[r] \in Recording
  /\ steps' = [steps EXCEPT ![r][Step(at[r])] = IF good[r] THEN "SUCCEEDED" ELSE "FAILED"]
  /\ Proceed(r, After(r)) \/ TryFails(r)
  /\ UNCHANGED <<order, outside, row, orphaned, notices>>

(* updateWorkflowRun: read the row and write its status, ...               *)
Close(r) ==
  /\ at[r] = "close"
  /\ row' = [row EXCEPT ![r] = IF good[r] THEN "SUCCEEDED" ELSE "FAILED"]
  /\ IF ~good[r] /\ row[r] # "FAILED"
       THEN at' = [at EXCEPT ![r] = "notify"] /\ UNCHANGED <<tries, good>>
       ELSE Proceed(r, "done") \/ TryFails(r)
  /\ UNCHANGED <<order, outside, orphaned, steps, notices>>

(* ... then notify the members on a transition into FAILED.                *)
NotifyTenant(r) ==
  /\ at[r] = "notify"
  /\ notices' = [notices EXCEPT ![r] = @ + 1]
  /\ Proceed(r, "done") \/ TryFails(r)
  /\ UNCHANGED <<order, outside, row, orphaned, steps>>

(* The request never arrives, or the statement it is at throws.            *)
NodeFails(r) ==
  /\ at[r] \in Node
  /\ TryFails(r)
  /\ UNCHANGED <<order, outside, records>>

Execute(r) ==
  \/ Open(r) \/ Validate(r) \/ Mark(r) \/ MarkFailed(r) \/ WriteReason(r)
  \/ CheckInventory(r) \/ Notify(r) \/ BuyShipment(r) \/ RecordTracking(r)
  \/ UpdateShopify(r) \/ Record(r) \/ Close(r) \/ NotifyTenant(r) \/ NodeFails(r)
-----------------------------------------------------------------------------
(* What starts, ends and overtakes executions.                             *)

Start(r) ==
  /\ at[r] = "idle"
  /\ at' = [at EXCEPT ![r] = "open"]
  /\ UNCHANGED <<order, outside, records, tries, good>>

(* The inbox starts the order's run; a second time when it took n8n's      *)
(* answer for lost.                                                        *)
Receive(r) == (Redelivered \/ \A q \in Runs : at[q] = "idle") /\ Start(r)

(* POST /workflow-runs/:id/retry: a whole new execution, the row stays     *)
(* FAILED and can be retried again.                                        *)
Retry(r) == (\E q \in Runs : row[q] = "FAILED") /\ Start(r)

(* PATCH /orders/:id/status: any of four statuses, from any status.        *)
Override ==
  /\ status' \in Overridable
  /\ overridden' = TRUE
  /\ UNCHANGED <<valid, tracking, failures, outside, records, control>>

(* n8n restarts; it does not resume an execution.  The backend carries on  *)
(* with a fulfillment asked for.                                           *)
Crash ==
  /\ \E r \in Runs : at[r] \in Node
  /\ at' = [r \in Runs |-> IF at[r] \in Node THEN "aborted" ELSE at[r]]
  /\ abandoned' = abandoned \union {r \in Runs : at[r] = "shopify"}
  /\ UNCHANGED <<order, bought, shopify, records, tries, good>>

Next ==
  \/ \E r \in Runs : Execute(r) \/ FulfillLate(r) \/ Receive(r) \/ Retry(r)
  \/ Override
  \/ Crash

(* n8n runs the node an execution is at: its request is answered, refused  *)
(* or timed out.  Nothing is assumed of people, the inbox, restarts, or of  *)
(* calls given up on.                                                      *)
Fairness == \A r \in Runs : WF_vars(Execute(r))

Spec == Init /\ [][Next]_vars /\ Fairness
-----------------------------------------------------------------------------
(* Properties.                                                             *)

(* A SUCCEEDED run did all it stands for: its three hard steps are on      *)
(* record as SUCCEEDED and the fulfillment in Shopify names the shipment   *)
(* this run bought.                                                        *)
SuccessIsComplete ==
  \A r \in Runs : row[r] = "SUCCEEDED" =>
    /\ \A k \in {"check_inventory", "create_shipment", "update_shopify"} :
         steps[r][k] = "SUCCEEDED"
    /\ bought[r] > 0 /\ shopify = {Bought(r)}

(* Of all the executions of an order, overlapping, started twice or        *)
(* retried, at most one is reported a success.                             *)
OneSuccess ==
  \A q, r \in Runs : row[q] = "SUCCEEDED" /\ row[r] = "SUCCEEDED" => q = r

(* Every failed run has left its reason on the order's timeline: an        *)
(* order_failed event of its own, unless validation refused the order.     *)
FailureIsExplained ==
  valid => Cardinality({r \in Runs : row[r] = "FAILED"}) <= failures

(* "a redelivered failed callback ... shouldn't re-notify": at most one    *)
(* notification per run, and only of a run that is FAILED.                 *)
NotifiedOnce ==
  \A r \in Runs : notices[r] <= (IF row[r] = "FAILED" THEN 1 ELSE 0)

(* An execution buys at most MaxTries shipments, however its tries fail.   *)
ShipmentsBounded == \A r \in Runs : bought[r] <= MaxTries

(* The statuses the order page ranks; FAILED, VALIDATION_FAILED and        *)
(* CANCELED are none of them.                                              *)
Rank(s)   == CASE s = "RECEIVED" -> 0         [] s = "VALIDATED" -> 1
               [] s = "SHIPMENT_CREATED" -> 3 [] s = "FULFILLED" -> 4
               [] s = "NOTIFIED" -> 5         [] s = "COMPLETED" -> 6
Ranked    == {"RECEIVED", "VALIDATED", "SHIPMENT_CREATED", "FULFILLED", "NOTIFIED", "COMPLETED"}
RankFalls == {status, status'} \subseteq Ranked /\ Rank(status') < Rank(status)

(* One execution with the order to itself only moves it forward, whatever  *)
(* its retries repeat: its rank never falls, an order that is FULFILLED    *)
(* does not fail afterwards, and one that failed stays as it is.           *)
Shipped    == {"FULFILLED", "NOTIFIED", "COMPLETED"}
Alone      == \A q, r \in Runs : at[q] # "idle" /\ at[r] # "idle" => q = r
AloneIsForward ==
  [][Alone /\ ~overridden' =>
              /\ ~RankFalls
              /\ status \in Shipped => status' \in Shipped
              /\ status \notin Ranked => status' = status]_vars

(* What the customer sees tracked in Shopify is what the order row has, so *)
(* that the carrier's delivery event of it finds the order, as long as no  *)
(* rival execution bought a shipment of its own.                           *)
ShopifyMatchesOrder == Alone => shopify \subseteq tracking

(* The run rows, the order's timeline and the notifications keep the       *)
(* promise of RunLedger: a closed run's status is final, it is closed as a *)
(* success only by the execution that fulfilled the order in Shopify, as a *)
(* failure only with a reason of its own, and notified once after that     *)
(* (updateWorkflowRun, updateOrderStatus and the workflow between them),   *)
(* wherever a fulfillment given up on lands.                               *)
Ledger == INSTANCE RunLedger WITH
  refused   <- ~valid,
  run       <- row,
  fulfiller <- {shipment[1] : shipment \in shopify},
  reasons   <- failures,
  notified  <- notices

LedgerSpec == Ledger!Spec

(* Every execution settles its run SUCCEEDED or FAILED, except one that n8n *)
(* aborted: it never hangs in its retries or ends with its row RUNNING.    *)
ExecutionSettles ==
  \A r \in Runs :
    at[r] = "open" ~> at[r] = "aborted" \/ row[r] \in {"SUCCEEDED", "FAILED"}
=============================================================================
