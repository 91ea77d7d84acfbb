---------------------------- MODULE CartReminder ----------------------------
(***************************************************************************)
(* Executions of n8n's cart-reminder workflow (cart-reminder.json) for one *)
(* cart.  Every carts/update event Shopify sends starts one; the cart may  *)
(* be checked out, and bought, while they wait.  As in OrderPipeline, a    *)
(* node's HTTP request is tried up to MaxTries times and a try fails       *)
(* before its effect or after it.                                          *)
(***************************************************************************)
EXTENDS Naturals

CONSTANTS
  Runs,     \* executions of the workflow for this cart
  MaxTries  \* maxTries of every HTTP node: 3 in the workflow

VARIABLES
  checkout, \* the cart's checkout at Shopify: none, open or ordered
  email,    \* whether the checkout names an email address
  at,       \* the node each execution is at
  tries,    \* failed tries of that node
  json,     \* $json at that node: the facts the node before it answered
  checked,  \* $('Check Cart Checkout').item.json
  row,      \* WorkflowRun.status of the last row each execution opened
  steps,    \* WorkflowRunStep.status of its two steps
  sent      \* reminders each execution has sent

vars == <<checkout, email, at, tries, json, checked, row, steps, sent>>

Node    == {"open", "wait", "check", "recordCheck", "if", "send", "recordSend", "close"}
HTTP    == Node \ {"wait", "if"}
StepKey == {"check_cart_checkout", "send_cart_reminder"}
Fact    == {"orderFound", "customerEmail", "error"}

TypeOK ==
  /\ checkout \in {"none", "open", "ordered"} /\ email \in BOOLEAN
  /\ at \in [Runs -> Node \union {"idle", "done", "aborted"}]
  /\ tries \in [Runs -> 0..MaxTries]
  /\ json \in [Runs -> SUBSET Fact]
  /\ checked \in [Runs -> SUBSET Fact]
  /\ row \in [Runs -> {"none", "RUNNING", "SUCCEEDED"}]
  /\ steps \in [Runs -> [StepKey -> {"none", "SUCCEEDED", "FAILED"}]]
  /\ sent \in [Runs -> 0..MaxTries]

Init ==
  /\ checkout = "none" /\ email \in BOOLEAN
  /\ at = [r \in Runs |-> "idle"]
  /\ tries = [r \in Runs |-> 0]
  /\ json = [r \in Runs |-> {}]
  /\ checked = [r \in Runs |-> {}]
  /\ row = [r \in Runs |-> "none"]
  /\ steps = [r \in Runs |-> [k \in StepKey |-> "none"]]
  /\ sent = [r \in Runs |-> 0]

Start(r) ==
  /\ at[r] = "idle"
  /\ at' = [at EXCEPT ![r] = "open"]
  /\ UNCHANGED <<checkout, email, tries, json, checked, row, steps, sent>>

(* The shopper opens a checkout of the cart and perhaps buys it.           *)
Shop ==
  /\ \/ checkout = "none" /\ checkout' = "open"
     \/ checkout = "open" /\ checkout' = "ordered"
  /\ UNCHANGED <<email, at, tries, json, checked, row, steps, sent>>

(* What checkCartCheckout finds: a cart without a checkout counts as       *)
(* bought.                                                                 *)
CheckCartCheckout ==
  IF checkout # "open" THEN {"orderFound"}
  ELSE IF email THEN {"customerEmail"}
  ELSE {}

(* The effect a node's request has at the backend.                         *)
Effect(r) ==
  LET n == at[r] IN
  /\ row' = CASE n = "open"  -> [row EXCEPT ![r] = "RUNNING"]
              [] n = "close" -> [row EXCEPT ![r] = "SUCCEEDED"]
              [] OTHER       -> row
  /\ steps' = CASE n = "recordCheck" ->
                     [steps EXCEPT ![r]["check_cart_checkout"] = "SUCCEEDED"]
                [] n = "recordSend" ->
                     [steps EXCEPT ![r]["send_cart_reminder"] =
                        IF "error" \in json[r] THEN "FAILED" ELSE "SUCCEEDED"]
                [] OTHER -> steps
  /\ sent' = IF n = "send" THEN [sent EXCEPT ![r] = @ + 1] ELSE sent

(* Every endpoint but the checkout's answers nothing the workflow's IF     *)
(* looks at: a recorded step answers its id.                               *)
Reply(r) == IF at[r] = "check" THEN CheckCartCheckout ELSE {}

Following(n) ==
  CASE n = "open"        -> "wait"
    [] n = "check"       -> "recordCheck"
    [] n = "recordCheck" -> "if"
    [] n = "send"        -> "recordSend"
    [] n = "recordSend"  -> "close"
    [] n = "close"       -> "done"

Moved(r, n, answer) ==
  /\ at' = [at EXCEPT ![r] = n]
  /\ tries' = [tries EXCEPT ![r] = 0]
  /\ json' = [json EXCEPT ![r] = answer]

Succeed(r) ==
  /\ at[r] \in HTTP
  /\ Effect(r)
  /\ Moved(r, Following(at[r]), Reply(r))
  /\ checked' = IF at[r] = "check" THEN [checked EXCEPT ![r] = Reply(r)] ELSE checked
  /\ UNCHANGED <<checkout, email>>

(* A failed try, with or without its effect.  The last one aborts the      *)
(* execution, or continues with $json.error where the node says so.        *)
Fail(r) ==
  /\ at[r] \in HTTP
  /\ \/ Effect(r)
     \/ UNCHANGED <<row, steps, sent>>
  /\ IF tries[r] + 1 < MaxTries
     THEN tries' = [tries EXCEPT ![r] = @ + 1] /\ UNCHANGED <<at, json>>
     ELSE IF at[r] = "send"
          THEN Moved(r, "recordSend", {"error"})
          ELSE Moved(r, "aborted", {})
  /\ UNCHANGED <<checkout, email, checked>>

Wait2Minutes(r) ==
  /\ at[r] = "wait"
  /\ Moved(r, "check", {})
  /\ UNCHANGED <<checkout, email, checked, row, steps, sent>>

(* $json.orderFound is false and $json.customerEmail is not empty; what is *)
(* absent passes for false and for empty.                                  *)
OrderNotFound(facts) == "orderFound" \notin facts /\ "customerEmail" \in facts

(* IF Order Not Found looks at $json, the answer of the node before it.    *)
IfOrderNotFound(r) ==
  /\ at[r] = "if"
  /\ Moved(r, IF OrderNotFound(json[r]) THEN "send" ELSE "close", json[r])
  /\ UNCHANGED <<checkout, email, checked, row, steps, sent>>

Run(r) == Succeed(r) \/ Fail(r) \/ Wait2Minutes(r) \/ IfOrderNotFound(r)

Finished ==
  /\ \A r \in Runs : at[r] \in {"done", "aborted"}
  /\ UNCHANGED vars

Next == Shop \/ Finished \/ \E r \in Runs : Start(r) \/ Run(r)

(* n8n goes on with a started execution.                                   *)
Spec == Init /\ [][Next]_vars /\ \A r \in Runs : WF_vars(Run(r))
-----------------------------------------------------------------------------
(* An execution whose check found a checkout with an email address that    *)
(* never became an order ends with the reminder's step recorded, sent or   *)
(* failed (cart-reminder.json, README.md:348), unless it was aborted.      *)
UnboughtIsReminded ==
  \A r \in Runs :
    at[r] = "done" /\ OrderNotFound(checked[r])
      => steps[r]["send_cart_reminder"] # "none"
=============================================================================
