------------------------ MODULE OrderPipelineProofs ------------------------
(***************************************************************************)
(* Proofs about OrderPipeline, for every number of executions and of tries *)
(* per node.                                                               *)
(*                                                                         *)
(* What a SUCCEEDED row promises is known only at the end of an execution, *)
(* so it is carried along its nodes: Stage says what is on record, bought  *)
(* and fulfilled by the time an execution is at a node, whatever was tried *)
(* again on the way.                                                       *)
(***************************************************************************)
EXTENDS OrderPipeline, FiniteSetTheorems, TLAPS

Early     == {"idle", "open", "validate", "markValidated", "markInvalid", "inventory",
              "recordInventory"}
Buying    == {"shipment", "track", "recordShipment"}
Shipping  == {"markShipped", "shopify", "recordShopify"}
Finishing == {"markFulfilled", "slack", "recordSlack", "email", "recordEmail", "markNotified"}

InStock(r)   == steps[r]["check_inventory"] = "SUCCEEDED"
Labelled(r)  == steps[r]["create_shipment"] = "SUCCEEDED" /\ bought[r] > 0
Complete(r) ==
  /\ InStock(r) /\ Labelled(r)
  /\ steps[r]["update_shopify"] = "SUCCEEDED"
  /\ shopify = {Bought(r)}

Stage(r) ==
  /\ at[r] \in Buying \union Shipping => InStock(r)
  /\ at[r] = "recordShipment" /\ good[r] => bought[r] > 0
  /\ at[r] \in Shipping => Labelled(r)
  /\ at[r] = "recordShopify" => good[r] /\ shopify = {Bought(r)}
  /\ at[r] \in Finishing \/ (at[r] = "close" /\ good[r]) \/ row[r] = "SUCCEEDED"
       => Complete(r)

(* What the row says, and when.                                            *)
RowFits(r) ==
  /\ row[r] = "SUCCEEDED" => at[r] \in {"close", "done", "aborted"} /\ (at[r] = "close" => good[r])
  /\ row[r] = "FAILED" => at[r] \in {"close", "notify", "done", "aborted"} /\ (at[r] = "close" => ~good[r])
  /\ at[r] = "notify" => ~good[r] /\ row[r] = "FAILED" /\ notices[r] = 0

(* Purchases follow the failed tries of Create Shipment.                   *)
Purchases(r) ==
  /\ at[r] \in Early => bought[r] = 0
  /\ at[r] = "shipment" => bought[r] <= tries[r]
  /\ at[r] = "track" => bought[r] > 0 /\ bought[r] <= tries[r] + 1
  /\ bought[r] <= MaxTries

RunInv(r) == Stage(r) /\ RowFits(r) /\ Purchases(r)

IInv == TypeOK /\ NotifiedOnce /\ \A r \in Runs : RunInv(r)
-----------------------------------------------------------------------------
LEMMA InitIInv == Init => IInv
<1> SUFFICES ASSUME Init PROVE IInv
  OBVIOUS
<1> USE PipelineAssumption DEF Init
<1>1. TypeOK
  <2>1. /\ valid \in BOOLEAN /\ overridden \in BOOLEAN /\ status \in OrderStatus
        /\ failures \in Nat /\ orphaned \in BOOLEAN
        /\ tracking \in SUBSET Shipment /\ shopify \in SUBSET Shipment /\ abandoned \in SUBSET Runs
    BY DEF OrderStatus
  <2>2. /\ bought \in [Runs -> Nat] /\ notices \in [Runs -> Nat]
        /\ row \in [Runs -> {"none", "RUNNING", "SUCCEEDED", "FAILED"}]
        /\ at \in [Runs -> Node \union Ended \union {"idle"}]
        /\ good \in [Runs -> BOOLEAN]
    OBVIOUS
  <2>3. steps \in [Runs -> [StepKey -> {"absent", "SUCCEEDED", "FAILED"}]]
    OBVIOUS
  <2>4. tries \in [Runs -> 0 .. MaxTries - 1]
    OBVIOUS
  <2>. QED BY <2>1, <2>2, <2>3, <2>4 DEF TypeOK
<1>2. NotifiedOnce
  BY DEF NotifiedOnce
<1>3. ASSUME NEW r \in Runs PROVE RunInv(r)
  BY DEF RunInv, Stage, RowFits, Purchases, Early, Buying, Shipping, Finishing
<1>. QED BY <1>1, <1>2, <1>3 DEF IInv

(* A step of one execution leaves what is kept of the others alone.        *)
LEMMA OthersKept ==
  ASSUME TypeOK, NEW r \in Runs, Execute(r), NEW q \in Runs, q # r
  PROVE  /\ at'[q] = at[q] /\ tries'[q] = tries[q] /\ good'[q] = good[q]
         /\ row'[q] = row[q] /\ steps'[q] = steps[q] /\ notices'[q] = notices[q]
         /\ bought'[q] = bought[q]
<1> USE DEF TypeOK, TryFails, Says, Proceed, Goto, order, outside, records, control
<1>1. CASE Open(r) \/ Validate(r) \/ Mark(r) \/ MarkFailed(r) \/ WriteReason(r) \/ CheckInventory(r) \/ Notify(r)
  BY <1>1 DEF Open, Validate, Mark, MarkFailed, WriteReason, CheckInventory, Notify
<1>2. CASE BuyShipment(r) \/ RecordTracking(r) \/ UpdateShopify(r) \/ Record(r) \/ Close(r) \/ NotifyTenant(r) \/ NodeFails(r)
  BY <1>2 DEF BuyShipment, RecordTracking, UpdateShopify, Record, Close, NotifyTenant, NodeFails
<1>. QED BY <1>1, <1>2 DEF Execute

(* How a failed try leaves the control of its execution.                   *)
LEMMA AfterTry ==
  ASSUME TypeOK, NEW r \in Runs, at[r] \in Node, TryFails(r)
  PROVE  /\ at' = [at EXCEPT ![r] = at'[r]] /\ tries' = [tries EXCEPT ![r] = tries'[r]]
         /\ good' = [good EXCEPT ![r] = good'[r]]
         /\ \/ /\ at'[r] = Top(at[r]) /\ tries'[r] = tries[r] + 1 /\ good'[r] = good[r]
               /\ tries[r] + 1 < MaxTries
            \/ /\ at'[r] = OnError(at[r]) /\ tries'[r] = 0 /\ good'[r] = FALSE
               /\ tries[r] + 1 >= MaxTries
         /\ at'[r] \in Node \union Ended /\ tries'[r] \in 0 .. MaxTries - 1 /\ good'[r] \in BOOLEAN
<1>1. Top(at[r]) \in Node /\ OnError(at[r]) \in Node \union Ended
  BY DEF Top, OnError, Node, Ended, Calls, Marks, Recording
<1>2. tries[r] \in 0 .. MaxTries - 1 /\ good[r] \in BOOLEAN
  BY DEF TypeOK
<1>3. CASE tries[r] + 1 < MaxTries
  <2>1. /\ at' = [at EXCEPT ![r] = Top(at[r])] /\ tries' = [tries EXCEPT ![r] = tries[r] + 1] /\ good' = good
    BY <1>3 DEF TryFails
  <2>2. at'[r] = Top(at[r]) /\ tries'[r] = tries[r] + 1 /\ good'[r] = good[r]
    BY <2>1 DEF TypeOK
  <2>3. good' = [good EXCEPT ![r] = good'[r]]
    BY <2>1 DEF TypeOK
  <2>4. tries'[r] \in 0 .. MaxTries - 1
    BY <1>2, <1>3, <2>2, PipelineAssumption
  <2>. QED BY <1>1, <1>2, <1>3, <2>1, <2>2, <2>3, <2>4
<1>4. CASE ~(tries[r] + 1 < MaxTries)
  <2>1. /\ at' = [at EXCEPT ![r] = OnError(at[r])] /\ tries' = [tries EXCEPT ![r] = 0]
        /\ good' = [good EXCEPT ![r] = FALSE]
    BY <1>4 DEF TryFails, Says, Goto
  <2>2. at'[r] = OnError(at[r]) /\ tries'[r] = 0 /\ good'[r] = FALSE
    BY <2>1 DEF TypeOK
  <2>3. tries[r] + 1 >= MaxTries /\ 0 \in 0 .. MaxTries - 1
    BY <1>2, <1>4, PipelineAssumption
  <2>. QED BY <1>1, <2>1, <2>2, <2>3
<1>. QED BY <1>3, <1>4

(* A step's node, and the type of the control it leaves.                   *)
ControlOK ==
  /\ at \in [Runs -> Node \union Ended \union {"idle"}]
  /\ tries \in [Runs -> 0 .. MaxTries - 1]
  /\ good \in [Runs -> BOOLEAN]

LEMMA GotoType ==
  ASSUME TypeOK, NEW r \in Runs, NEW n \in Node \union Ended, NEW yes \in BOOLEAN,
         Says(r, n, yes) \/ Proceed(r, n)
             \/ (at' = [at EXCEPT ![r] = n] /\ UNCHANGED <<tries, good>>)
  PROVE  ControlOK'
<1>1. at' \in [Runs -> Node \union Ended \union {"idle"}]
  BY DEF TypeOK, Says, Proceed, Goto
<1>2. tries' \in [Runs -> 0 .. MaxTries - 1]
  <2>1. 0 \in 0 .. MaxTries - 1
    BY PipelineAssumption
  <2>. QED BY <2>1 DEF TypeOK, Says, Proceed, Goto
<1>3. good' \in [Runs -> BOOLEAN]
  BY DEF TypeOK, Says, Proceed, Goto
<1>. QED BY <1>1, <1>2, <1>3 DEF ControlOK

LEMMA TryType ==
  ASSUME TypeOK, NEW r \in Runs, at[r] \in Node, TryFails(r)
  PROVE  ControlOK'
BY AfterTry DEF TypeOK, ControlOK

LEMMA StepControl ==
  ASSUME TypeOK, NEW r \in Runs, Execute(r)
  PROVE  at[r] \in Node /\ ControlOK'
<1> USE DEF Node, Ended, Calls, Marks, Recording
<1>1. CASE Open(r)
  BY <1>1, GotoType, TryType DEF Open
<1>2. CASE Validate(r)
  BY <1>2, GotoType DEF Validate
<1>3. CASE Mark(r)
  <2>1. After(r) \in Node
    BY <1>3 DEF Mark, After
  <2>. QED BY <1>3, <2>1, GotoType, TryType DEF Mark
<1>4. CASE MarkFailed(r)
  BY <1>4, GotoType DEF MarkFailed
<1>5. CASE WriteReason(r)
  BY <1>5, GotoType, TryType DEF WriteReason
<1>6. CASE CheckInventory(r)
  <2>1. PICK inStock \in BOOLEAN : Says(r, "recordInventory", inStock)
    BY <1>6 DEF CheckInventory
  <2>. QED BY <1>6, <2>1, GotoType DEF CheckInventory
<1>7. CASE Notify(r)
  <2>1. Says(r, "recordSlack", TRUE) \/ Says(r, "recordEmail", TRUE)
    BY <1>7 DEF Notify
  <2>. QED BY <1>7, <2>1, GotoType DEF Notify
<1>8. CASE BuyShipment(r)
  BY <1>8, GotoType, TryType DEF BuyShipment
<1>9. CASE RecordTracking(r)
  BY <1>9, GotoType, TryType DEF RecordTracking
<1>10. CASE UpdateShopify(r)
  BY <1>10, GotoType, TryType DEF UpdateShopify
<1>11. CASE Record(r)
  <2>1. After(r) \in Node
    BY <1>11 DEF Record, After, TypeOK
  <2>. QED BY <1>11, <2>1, GotoType, TryType DEF Record
<1>12. CASE Close(r)
  BY <1>12, GotoType, TryType DEF Close
<1>13. CASE NotifyTenant(r)
  BY <1>13, GotoType, TryType DEF NotifyTenant
<1>14. CASE NodeFails(r)
  BY <1>14, TryType DEF NodeFails
<1>. QED
  BY <1>1, <1>2, <1>3, <1>4, <1>5, <1>6, <1>7, <1>8, <1>9, <1>10, <1>11, <1>12, <1>13, <1>14
  DEF Execute

(* Which steps may write what.                                             *)
LEMMA Frame ==
  ASSUME NEW r \in Runs, Execute(r)
  PROVE  /\ valid' = valid /\ overridden' = overridden
         /\ status' = status \/ (at[r] \in Marks /\ status' = Written(at[r])) \/ status' = "FAILED"
         /\ failures' = failures \/ WriteReason(r)
         /\ bought' = bought \/ BuyShipment(r)
         /\ tracking' = tracking \/ tracking' = {Bought(r)}
         /\ shopify' = shopify \/ UpdateShopify(r)
         /\ abandoned' = abandoned \/ (UpdateShopify(r) /\ abandoned' = abandoned \union {r})
         /\ row' = row \/ Open(r) \/ Close(r)
         /\ orphaned' = orphaned \/ orphaned' = TRUE
         /\ steps' = steps \/ Record(r)
         /\ notices' = notices \/ NotifyTenant(r)
<1> USE DEF order, outside, records
<1>1. CASE Open(r) \/ Validate(r) \/ CheckInventory(r) \/ Notify(r) \/ NodeFails(r)
  BY <1>1 DEF Open, Validate, CheckInventory, Notify, NodeFails
<1>2. CASE Mark(r) \/ MarkFailed(r) \/ WriteReason(r)
  BY <1>2 DEF Mark, MarkFailed, WriteReason
<1>3. CASE BuyShipment(r) \/ RecordTracking(r) \/ UpdateShopify(r)
  BY <1>3 DEF BuyShipment, RecordTracking, UpdateShopify
<1>4. CASE Record(r) \/ Close(r) \/ NotifyTenant(r)
  BY <1>4 DEF Record, Close, NotifyTenant
<1>. QED BY <1>1, <1>2, <1>3, <1>4 DEF Execute

LEMMA StepType ==
  ASSUME TypeOK, NEW r \in Runs, Execute(r)
  PROVE  TypeOK'
<1>1. ControlOK'
  BY StepControl
<1>2. /\ valid' \in BOOLEAN /\ overridden' \in BOOLEAN /\ orphaned' \in BOOLEAN
      /\ failures' \in Nat
  <2>1. failures' = failures \/ failures' = failures + 1
    BY Frame DEF WriteReason
  <2>2. /\ valid' = valid /\ overridden' = overridden /\ (orphaned' = orphaned \/ orphaned' = TRUE)
    BY Frame
  <2>3. failures' \in Nat
    BY <2>1 DEF TypeOK
  <2>4. valid' \in BOOLEAN /\ overridden' \in BOOLEAN /\ orphaned' \in BOOLEAN
    BY <2>2, Zenon DEF TypeOK
  <2>. QED BY <2>3, <2>4
<1>3. status' \in OrderStatus
  BY Frame DEF TypeOK, Written, Marks, OrderStatus
<1>4. bought' \in [Runs -> Nat]
  <2>1. bought' = bought \/ bought' = [bought EXCEPT ![r] = bought[r] + 1]
    BY Frame DEF BuyShipment
  <2>2. bought[r] + 1 \in Nat
    BY DEF TypeOK
  <2>. QED BY <2>1, <2>2 DEF TypeOK
<1>5. Bought(r) \in Shipment
  BY DEF Bought, Shipment, TypeOK
<1>6. tracking' \in SUBSET Shipment /\ shopify' \in SUBSET Shipment /\ abandoned' \in SUBSET Runs
  BY <1>5, Frame DEF TypeOK, UpdateShopify
<1>7. row' \in [Runs -> {"none", "RUNNING", "SUCCEEDED", "FAILED"}]
  BY Frame DEF TypeOK, Open, Close
<1>8. notices' \in [Runs -> Nat]
  <2>1. notices' = notices \/ notices' = [notices EXCEPT ![r] = notices[r] + 1]
    BY Frame DEF NotifyTenant
  <2>2. notices[r] + 1 \in Nat
    BY DEF TypeOK
  <2>. QED BY <2>1, <2>2 DEF TypeOK
<1>9. steps' \in [Runs -> [StepKey -> {"absent", "SUCCEEDED", "FAILED"}]]
  <2>1. steps' = steps \/ \E s \in {"SUCCEEDED", "FAILED"} :
                             steps' = [steps EXCEPT ![r][Step(at[r])] = s]
    BY Frame DEF Record
  <2>2. steps \in [Runs -> [StepKey -> {"absent", "SUCCEEDED", "FAILED"}]]
    BY DEF TypeOK
  <2>. QED BY <2>1, <2>2
<1>. QED BY <1>1, <1>2, <1>3, <1>4, <1>6, <1>7, <1>8, <1>9 DEF TypeOK, ControlOK
-----------------------------------------------------------------------------
(* RunInv survives a fulfillment that finds none: who is past Shopify knew *)
(* of one.                                                                 *)
LEMMA FulfilledRunInv ==
  ASSUME NEW q \in Runs, RunInv(q),
         at'[q] = at[q], tries'[q] = tries[q], good'[q] = good[q],
         row'[q] = row[q], steps'[q] = steps[q], notices'[q] = notices[q],
         bought'[q] = bought[q], shopify' = shopify \/ shopify = {}
  PROVE  RunInv(q)'
<1>3. Bought(q)' = Bought(q)
  BY DEF Bought
<1>4. shopify = {Bought(q)} => shopify' = {Bought(q)'}
  BY <1>3
<1>6. Complete(q) => Complete(q)'
  BY <1>4 DEF Complete, InStock, Labelled
<1>7. Stage(q)'
  BY <1>4, <1>6 DEF RunInv, Stage, InStock, Labelled
<1>8. RowFits(q)' /\ Purchases(q)'
  BY DEF RunInv, RowFits, Purchases
<1>. QED BY <1>7, <1>8 DEF RunInv

(* A step of one execution keeps RunInv of the others: only UpdateShopify  *)
(* writes what they share, and it finds shopify empty.                     *)
LEMMA OthersRunInv ==
  ASSUME IInv, NEW r \in Runs, Execute(r), NEW q \in Runs, q # r
  PROVE  RunInv(q)'
<1>1. /\ at'[q] = at[q] /\ tries'[q] = tries[q] /\ good'[q] = good[q]
      /\ row'[q] = row[q] /\ steps'[q] = steps[q] /\ notices'[q] = notices[q]
      /\ bought'[q] = bought[q]
  BY OthersKept DEF IInv
<1>2. shopify' = shopify \/ shopify = {}
  BY Frame DEF UpdateShopify
<1>3. RunInv(q)
  BY DEF IInv
<1>. QED BY <1>1, <1>2, <1>3, FulfilledRunInv

(* So does the fulfillment of a call given up on, for every execution.     *)
LEMMA LateIInv ==
  ASSUME IInv, NEW r \in Runs, FulfillLate(r)
  PROVE  IInv'
<1>1. /\ shopify = {} /\ shopify' = {Bought(r)} /\ abandoned' = abandoned \ {r}
      /\ UNCHANGED <<order, bought, records, control>>
  BY DEF FulfillLate
<1>2. TypeOK'
  <2>1. Bought(r) \in Shipment
    BY DEF Bought, Shipment, IInv, TypeOK
  <2>. QED BY <1>1, <2>1 DEF IInv, TypeOK, order, records, control
<1>3. ASSUME NEW q \in Runs PROVE RunInv(q)'
  BY <1>1, FulfilledRunInv DEF IInv, records, control
<1>4. NotifiedOnce'
  BY <1>1 DEF IInv, NotifiedOnce, records
<1>. QED BY <1>2, <1>3, <1>4 DEF IInv

(* Where a failed try of a node leads: its handler's top or its onError.   *)
LEMMA Retreat ==
  ASSUME TypeOK, NEW r \in Runs, at[r] \in Node, TryFails(r)
  PROVE  \/ /\ at'[r] = Top(at[r]) /\ tries'[r] = tries[r] + 1 /\ good'[r] = good[r]
            /\ tries[r] + 1 < MaxTries
         \/ at'[r] = OnError(at[r]) /\ tries'[r] = 0 /\ good'[r] = FALSE
BY AfterTry

LEMMA OpenRunInv ==
  ASSUME IInv, NEW r \in Runs, Open(r)
  PROVE  RunInv(r)'
<1>1. RunInv(r) /\ TypeOK
  BY DEF IInv
<1>2. at[r] \in Node
  BY DEF Open, Node
<1>3. bought' = bought /\ steps' = steps /\ notices' = notices /\ shopify' = shopify
  BY DEF Open, outside
<1>4. row'[r] # "SUCCEEDED" /\ row'[r] # "FAILED" /\ at'[r] \in {"validate", "open", "aborted"}
  BY <1>1, <1>2, Retreat DEF Open, Proceed, Goto, Top, OnError, RunInv, RowFits, TypeOK
<1>5. bought[r] = 0
  BY <1>1 DEF Open, RunInv, Purchases, Early
<1>. QED
  BY <1>3, <1>4, <1>5, PipelineAssumption
  DEF RunInv, Stage, RowFits, Purchases, Early, Buying, Shipping, Finishing

(* The nodes that only move the execution on, and a try of any that fails. *)
LEMMA ControlRunInv ==
  ASSUME IInv, NEW r \in Runs,
         \/ Validate(r) \/ Mark(r) \/ MarkFailed(r) \/ WriteReason(r)
         \/ CheckInventory(r) \/ Notify(r) \/ NodeFails(r)
  PROVE  RunInv(r)'
<1> USE DEF RunInv, Stage, RowFits, Purchases, Early, Buying, Shipping, Finishing,
            Complete, InStock, Labelled, Bought
<1>1. RunInv(r) /\ TypeOK
  BY DEF IInv
<1>2. /\ bought' = bought /\ shopify' = shopify
      /\ row' = row /\ steps' = steps /\ notices' = notices
  BY DEF Validate, Mark, MarkFailed, WriteReason, CheckInventory, Notify, NodeFails, outside, records
<1>3. at[r] \in Node
  BY DEF Validate, Mark, MarkFailed, WriteReason, CheckInventory, Notify, NodeFails, Node, Calls, Marks
<1>4. CASE TryFails(r)
  <2>1. \/ /\ at'[r] = Top(at[r]) /\ tries'[r] = tries[r] + 1 /\ good'[r] = good[r]
        \/ at'[r] = OnError(at[r]) /\ good'[r] = FALSE
    BY <1>1, <1>3, <1>4, Retreat
  <2>2. tries[r] \in Nat /\ bought[r] \in Nat /\ MaxTries \in Nat
    BY <1>1, PipelineAssumption DEF TypeOK
  <2>3. Purchases(r)'
    <3>1. CASE at'[r] = Top(at[r]) /\ tries'[r] = tries[r] + 1
      BY <1>1, <1>2, <2>2, <3>1 DEF Top
    <3>2. CASE at'[r] = OnError(at[r])
      BY <1>1, <1>2, <1>3, <2>2, <3>2 DEF OnError, Node, Calls, Marks, Recording
    <3>. QED BY <2>1, <3>1, <3>2
  <2>4. Stage(r)'
    <3>1. CASE at'[r] = Top(at[r]) /\ good'[r] = good[r]
      BY <1>1, <1>2, <3>1 DEF Top
    <3>2. CASE at'[r] = OnError(at[r]) /\ good'[r] = FALSE
      BY <1>1, <1>2, <1>3, <3>2 DEF OnError, Node, Calls, Marks, Recording
    <3>. QED BY <2>1, <3>1, <3>2
  <2>5. RowFits(r)'
    <3>1. CASE at'[r] = Top(at[r]) /\ good'[r] = good[r]
      BY <1>1, <1>2, <3>1 DEF Top
    <3>2. CASE at'[r] = OnError(at[r]) /\ good'[r] = FALSE
      BY <1>1, <1>2, <1>3, <3>2 DEF OnError, Node, Calls, Marks, Recording
    <3>. QED BY <2>1, <3>1, <3>2
  <2>. QED BY <2>3, <2>4, <2>5
<1>5. CASE Validate(r)
  BY <1>1, <1>2, <1>5 DEF Validate, Proceed, Goto, TypeOK
<1>6. CASE Mark(r) /\ ~TryFails(r)
  <2>1. at[r] \in Marks /\ at'[r] = After(r) /\ good'[r] = (at[r] # "markInvalid")
    BY <1>1, <1>6 DEF Mark, Says, Goto, TypeOK
  <2>2. /\ at[r] = "markValidated" => at'[r] = "inventory"
        /\ at[r] = "markInvalid" => at'[r] = "close" /\ ~good'[r]
        /\ at[r] = "markShipped" => at'[r] = "shopify"
        /\ at[r] = "markFulfilled" => at'[r] = "slack"
        /\ at[r] = "markNotified" => at'[r] = "close"
    BY <2>1 DEF After
  <2>3. Stage(r)'
    BY <1>1, <1>2, <2>1, <2>2 DEF Marks
  <2>4. RowFits(r)' /\ Purchases(r)'
    BY <1>1, <1>2, <2>1, <2>2 DEF Marks
  <2>. QED BY <2>3, <2>4
<1>7. CASE MarkFailed(r)
  BY <1>1, <1>2, <1>7 DEF MarkFailed, TypeOK
<1>8. CASE WriteReason(r) /\ ~TryFails(r)
  BY <1>1, <1>2, <1>8 DEF WriteReason, Says, Goto, TypeOK
<1>9. CASE CheckInventory(r)
  BY <1>1, <1>2, <1>9 DEF CheckInventory, Says, Goto, TypeOK
<1>10. CASE Notify(r)
  BY <1>1, <1>2, <1>10 DEF Notify, Says, Goto, TypeOK
<1>. QED
  BY <1>4, <1>5, <1>6, <1>7, <1>8, <1>9, <1>10 DEF NodeFails

LEMMA BuyRunInv ==
  ASSUME IInv, NEW r \in Runs, BuyShipment(r)
  PROVE  RunInv(r)'
<1> USE DEF RunInv, Stage, RowFits, Purchases, Early, Buying, Shipping, Finishing
<1>1. RunInv(r) /\ TypeOK /\ at[r] = "shipment"
  BY DEF IInv, BuyShipment
<1>2. /\ bought'[r] = bought[r] + 1 /\ shopify' = shopify
      /\ row' = row /\ steps' = steps /\ notices' = notices
  BY <1>1 DEF BuyShipment, records, TypeOK
<1>3. /\ bought[r] \in Nat /\ tries[r] \in 0 .. MaxTries - 1
      /\ bought[r] <= tries[r] /\ MaxTries \in Nat
  BY <1>1, PipelineAssumption DEF TypeOK
<1>4. \/ at'[r] = "track" /\ tries'[r] = tries[r]
      \/ at'[r] = "shipment" /\ tries'[r] = tries[r] + 1
      \/ at'[r] = "recordShipment"
  BY <1>1, Retreat DEF BuyShipment, Node, Calls, Top, OnError, TypeOK
<1>5. Purchases(r)'
  BY <1>2, <1>3, <1>4
<1>6. InStock(r)' /\ bought'[r] > 0 /\ row'[r] # "SUCCEEDED" /\ row'[r] # "FAILED"
  BY <1>1, <1>2, <1>3 DEF InStock
<1>. QED BY <1>4, <1>5, <1>6

LEMMA TrackRunInv ==
  ASSUME IInv, NEW r \in Runs, RecordTracking(r)
  PROVE  RunInv(r)'
<1> USE DEF RunInv, Stage, RowFits, Purchases, Early, Buying, Shipping, Finishing
<1>1. RunInv(r) /\ TypeOK /\ at[r] = "track"
  BY DEF IInv, RecordTracking
<1>2. /\ bought' = bought /\ shopify' = shopify
      /\ row' = row /\ steps' = steps /\ notices' = notices
  BY DEF RecordTracking, outside, records
<1>3. bought[r] \in Nat /\ tries[r] \in Nat /\ MaxTries \in Nat
  BY <1>1, PipelineAssumption DEF TypeOK
<1>4. \/ at'[r] = "shipment" /\ tries'[r] = tries[r] + 1
      \/ at'[r] = "recordShipment"
  <2>1. Says(r, "recordShipment", TRUE) => at'[r] = "recordShipment"
    BY <1>1 DEF Says, Goto, TypeOK
  <2>2. TryFails(r) => \/ at'[r] = "shipment" /\ tries'[r] = tries[r] + 1
                       \/ at'[r] = "recordShipment"
    BY <1>1, Retreat DEF Node, Calls, Top, OnError
  <2>. QED BY <2>1, <2>2 DEF RecordTracking
<1>5. Purchases(r)'
  BY <1>1, <1>2, <1>3, <1>4
<1>6. InStock(r)' /\ bought'[r] > 0 /\ row'[r] # "SUCCEEDED" /\ row'[r] # "FAILED"
  BY <1>1, <1>2, <1>3 DEF InStock
<1>. QED BY <1>4, <1>5, <1>6

LEMMA ShopifyRunInv ==
  ASSUME IInv, NEW r \in Runs, UpdateShopify(r)
  PROVE  RunInv(r)'
<1> USE DEF RunInv, Stage, RowFits, Purchases, Early, Buying, Shipping, Finishing
<1>1. RunInv(r) /\ TypeOK /\ at[r] = "shopify"
  BY DEF IInv, UpdateShopify
<1>2. /\ bought' = bought /\ Bought(r)' = Bought(r)
      /\ row' = row /\ steps' = steps /\ notices' = notices
  BY DEF UpdateShopify, records, Bought
<1>3. \/ at'[r] = "recordShopify" /\ good'[r] = TRUE /\ shopify' = {Bought(r)}
      \/ at'[r] = "shopify" \/ at'[r] = "markFailed"
  BY <1>1, Retreat DEF UpdateShopify, Node, Calls, Says, Goto, Top, OnError, TypeOK
<1>4. InStock(r)' /\ Labelled(r)' /\ row'[r] # "SUCCEEDED" /\ row'[r] # "FAILED"
  BY <1>1, <1>2 DEF InStock, Labelled
<1>. QED BY <1>1, <1>2, <1>3, <1>4

LEMMA RecordRunInv ==
  ASSUME IInv, NEW r \in Runs, Record(r)
  PROVE  RunInv(r)'
<1> USE DEF RunInv, Stage, RowFits, Purchases, Early, Buying, Shipping, Finishing
<1>1. RunInv(r) /\ TypeOK /\ at[r] \in Recording
  BY DEF IInv, Record
<1>2. /\ bought' = bought /\ shopify' = shopify /\ row' = row /\ notices' = notices
      /\ Bought(r)' = Bought(r)
  BY DEF Record, outside, Bought
<1>3. row[r] # "SUCCEEDED" /\ row[r] # "FAILED"
  BY <1>1 DEF Recording
<1>4. /\ steps'[r][Step(at[r])] = IF good[r] THEN "SUCCEEDED" ELSE "FAILED"
      /\ \A k \in StepKey : k # Step(at[r]) => steps'[r][k] = steps[r][k]
  BY <1>1 DEF Record, TypeOK, Recording, Step, StepKey
<1>5. \/ at'[r] = After(r) /\ good'[r] = good[r]
      \/ at'[r] = at[r] /\ good'[r] = good[r]
      \/ at'[r] = "aborted"
  BY <1>1, Retreat DEF Record, Recording, Node, Proceed, Goto, Top, OnError, TypeOK
<1>6. CASE at[r] = "recordInventory"
  <2>1. at'[r] \in {"recordInventory", "aborted", "markFailed"} \/ (at'[r] = "shipment" /\ good[r])
    BY <1>5, <1>6 DEF After
  <2>2. good[r] => InStock(r)'
    BY <1>4, <1>6 DEF Step, InStock
  <2>3. Purchases(r)'
    BY <1>1, <1>2, <1>6, <2>1, StepType, PipelineAssumption DEF TypeOK, Execute
  <2>. QED BY <1>2, <1>3, <2>1, <2>2, <2>3
<1>7. CASE at[r] = "recordShipment"
  BY <1>1, <1>2, <1>3, <1>4, <1>5, <1>7 DEF Step, StepKey, After, InStock, Labelled
<1>8. CASE at[r] = "recordShopify"
  BY <1>1, <1>2, <1>3, <1>4, <1>5, <1>8 DEF Step, StepKey, After, InStock, Labelled, Complete
<1>9. CASE at[r] \in {"recordSlack", "recordEmail"}
  <2>1. Complete(r)'
    BY <1>1, <1>2, <1>4, <1>9 DEF Step, StepKey, InStock, Labelled, Complete
  <2>. QED BY <1>1, <1>2, <1>3, <1>5, <1>9, <2>1 DEF After
<1>. QED BY <1>1, <1>6, <1>7, <1>8, <1>9 DEF Recording

LEMMA CloseRunInv ==
  ASSUME IInv, NEW r \in Runs, Close(r)
  PROVE  RunInv(r)'
<1> USE DEF RunInv, Stage, RowFits, Purchases, Early, Buying, Shipping, Finishing,
            Complete, InStock, Labelled
<1>1. RunInv(r) /\ TypeOK /\ at[r] = "close"
  BY DEF IInv, Close
<1>2. /\ bought' = bought /\ shopify' = shopify /\ steps' = steps /\ notices' = notices
      /\ Bought(r)' = Bought(r)
  BY DEF Close, outside, Bought
<1>3. row'[r] = IF good[r] THEN "SUCCEEDED" ELSE "FAILED"
  BY <1>1 DEF Close, TypeOK
<1>4. \/ at'[r] = "notify" /\ good'[r] = good[r] /\ ~good[r] /\ row[r] # "FAILED"
      \/ at'[r] \in {"done", "close"} /\ good'[r] = good[r]
      \/ at'[r] = "aborted"
  <2>1. \/ at'[r] = "close" /\ good'[r] = good[r]
        \/ at'[r] = "aborted"
        \/ ~TryFails(r)
    BY <1>1, Retreat DEF Node, Top, OnError
  <2>2. CASE ~good[r] /\ row[r] # "FAILED"
    BY <1>1, <2>2 DEF Close, TypeOK
  <2>3. CASE ~(~good[r] /\ row[r] # "FAILED")
    <3>1. TryFails(r) \/ Proceed(r, "done")
      BY <2>3 DEF Close
    <3>2. Proceed(r, "done") => at'[r] = "done" /\ good' = good
      BY <1>1 DEF Proceed, Goto, TypeOK
    <3>. QED BY <2>1, <3>1, <3>2
  <2>. QED BY <2>2, <2>3
<1>5. row[r] # "FAILED" => notices[r] = 0
  BY <1>1 DEF IInv, NotifiedOnce, TypeOK
<1>6. good[r] => Complete(r)'
  BY <1>1, <1>2
<1>. QED BY <1>1, <1>2, <1>3, <1>4, <1>5, <1>6

LEMMA NotifyRunInv ==
  ASSUME IInv, NEW r \in Runs, NotifyTenant(r)
  PROVE  RunInv(r)'
<1> USE DEF RunInv, Stage, RowFits, Purchases, Early, Buying, Shipping, Finishing
<1>1. RunInv(r) /\ TypeOK /\ at[r] = "notify"
  BY DEF IInv, NotifyTenant
<1>2. bought' = bought /\ shopify' = shopify /\ steps' = steps /\ row' = row
  BY DEF NotifyTenant, order, outside
<1>3. \/ at'[r] \in {"done", "close"} /\ good'[r] = good[r]
      \/ at'[r] = "aborted"
  BY <1>1, Retreat DEF NotifyTenant, Node, Proceed, Goto, Top, OnError, TypeOK
<1>. QED BY <1>1, <1>2, <1>3

LEMMA StepRunInv ==
  ASSUME IInv, NEW r \in Runs, Execute(r)
  PROVE  RunInv(r)'
BY OpenRunInv, ControlRunInv, BuyRunInv, TrackRunInv, ShopifyRunInv, RecordRunInv, CloseRunInv,
   NotifyRunInv DEF Execute

(* A notification is only sent on the step out of notify, and RowFits says *)
(* that none was sent before.                                              *)
LEMMA StepNotified ==
  ASSUME IInv, NEW r \in Runs, Execute(r)
  PROVE  NotifiedOnce'
<1> SUFFICES ASSUME NEW q \in Runs
             PROVE  notices'[q] <= (IF row'[q] = "FAILED" THEN 1 ELSE 0)
  BY DEF NotifiedOnce
<1>1. TypeOK /\ RunInv(r) /\ notices[q] <= (IF row[q] = "FAILED" THEN 1 ELSE 0)
  BY DEF IInv, NotifiedOnce
<1>2. CASE q # r
  <2>1. row'[q] = row[q] /\ notices'[q] = notices[q]
    BY <1>1, <1>2, OthersKept
  <2>. QED BY <1>1, <2>1
<1>3. CASE q = r
  <2>1. CASE NotifyTenant(r)
    <3>1. notices'[r] = 1 /\ row'[r] = "FAILED"
      BY <1>1, <2>1 DEF NotifyTenant, RunInv, RowFits, TypeOK, order, outside
    <3>. QED BY <1>3, <3>1
  <2>2. CASE ~NotifyTenant(r) /\ row' = row
    BY <1>1, <2>2, Frame
  <2>3. CASE Open(r) \/ Close(r)
    <3>1. notices' = notices /\ (row[r] = "FAILED" => row'[r] = "FAILED")
      BY <1>1, <2>3 DEF Open, Close, RunInv, RowFits, TypeOK
    <3>. QED BY <1>1, <1>3, <3>1 DEF TypeOK
  <2>. QED BY <2>1, <2>2, <2>3, Frame
<1>. QED BY <1>2, <1>3

LEMMA NextIInv ==
  ASSUME IInv, [Next]_vars
  PROVE  IInv'
<1>1. TypeOK
  BY DEF IInv
<1>2. ASSUME NEW r \in Runs, Execute(r) PROVE IInv'
  BY <1>1, <1>2, StepType, StepNotified, StepRunInv, OthersRunInv DEF IInv
<1>7. ASSUME NEW r \in Runs, FulfillLate(r) PROVE IInv'
  BY <1>7, LateIInv
<1> USE DEF IInv, RunInv, Stage, RowFits, Purchases, Early, Buying, Shipping, Finishing,
            Complete, InStock, Labelled, Bought, NotifiedOnce
<1>3. ASSUME NEW r \in Runs, Start(r) PROVE IInv'
  <2>1. TypeOK'
    BY <1>1, <1>3 DEF Start, TypeOK, order, outside, records, Node
  <2>2. ASSUME NEW q \in Runs PROVE RunInv(q)'
    <3>1. at'[q] = at[q] \/ (at[q] = "idle" /\ at'[q] = "open")
      BY <1>1, <1>3 DEF Start, TypeOK
    <3>. QED BY <1>3, <3>1 DEF Start, outside, records
  <2>. QED BY <1>3, <2>1, <2>2 DEF Start, records
<1>4. CASE Override
  <2>1. TypeOK'
    BY <1>1, <1>4, PipelineAssumption DEF Override, TypeOK, outside, records, control, OrderStatus
  <2>. QED BY <1>4, <2>1 DEF Override, outside, records, control
<1>5. CASE Crash
  <2>1. TypeOK'
    BY <1>1, <1>5 DEF Crash, TypeOK, order, outside, records, Ended
  <2>2. ASSUME NEW q \in Runs PROVE RunInv(q)'
    <3>1. at'[q] = at[q] \/ at'[q] = "aborted"
      BY <1>1, <1>5 DEF Crash, TypeOK
    <3>. QED BY <1>5, <3>1 DEF Crash, outside, records
  <2>. QED BY <1>5, <2>1, <2>2 DEF Crash, records
<1>6. CASE UNCHANGED vars
  <2>1. TypeOK'
    BY <1>1, <1>6 DEF vars, order, outside, records, control, TypeOK
  <2>. QED BY <1>6, <2>1 DEF vars, outside, records, control
<1>. QED BY <1>2, <1>3, <1>4, <1>5, <1>6, <1>7 DEF Next, Receive, Retry
-----------------------------------------------------------------------------
(* The runs that are FAILED or are about to be.  Of an order that validates *)
(* each has gone through WriteReason, so that they are never more than the *)
(* order_failed events.                                                    *)
Failing == {r \in Runs : row[r] = "FAILED" \/ (at[r] \in {"close", "notify"} /\ ~good[r])}

Explained ==
  valid => Cardinality(Failing) <= failures /\ \A r \in Runs : at[r] # "markInvalid"

LEMMA InitExplained == Init => Explained
<1> SUFFICES ASSUME Init PROVE Explained
  OBVIOUS
<1>1. Failing = {}
  BY DEF Init, Failing
<1>2. Cardinality({}) = 0
  BY FS_EmptySet
<1>. QED BY <1>1, <1>2 DEF Init, Explained

(* Only the failure reason's event lets an execution of a valid order      *)
(* join them.                                                              *)
LEMMA JoinsFailing ==
  ASSUME IInv, Explained, valid, NEW r \in Runs, Execute(r)
  PROVE  /\ at'[r] # "markInvalid"
         /\ r \in Failing' => r \in Failing \/ WriteReason(r)
<1> USE DEF Failing
<1>1. TypeOK /\ RunInv(r) /\ at[r] # "markInvalid"
  BY DEF IInv, Explained
<1>2. at[r] \in Node
  BY <1>1, StepControl
<1>3. CASE TryFails(r)
  <2>1. \/ at'[r] = Top(at[r]) /\ good'[r] = good[r]
        \/ at'[r] = OnError(at[r])
    BY <1>1, <1>2, <1>3, Retreat
  <2>2. row'[r] = "FAILED" => row[r] = "FAILED" \/ (Close(r) /\ ~good[r])
    BY <1>1, Frame DEF Open, Close, TypeOK
  <2>3. CASE at'[r] = Top(at[r]) /\ good'[r] = good[r]
    BY <1>1, <2>2, <2>3 DEF Top, Close
  <2>4. CASE at'[r] = OnError(at[r])
    BY <1>1, <2>2, <2>4 DEF OnError, Close
  <2>. QED BY <2>1, <2>3, <2>4
<1>4. CASE ~TryFails(r) /\ ~WriteReason(r)
  <2>1. CASE Open(r)
    BY <1>1, <1>4, <2>1 DEF Open, Proceed, Goto, TypeOK
  <2>2. CASE Validate(r)
    BY <1>1, <2>2 DEF Validate, Proceed, Goto, TypeOK, records
  <2>3. CASE Mark(r)
    BY <1>1, <1>4, <2>3 DEF Mark, Marks, After, Says, Goto, TypeOK, records
  <2>4. CASE MarkFailed(r)
    BY <1>1, <2>4 DEF MarkFailed, TypeOK, records
  <2>5. CASE CheckInventory(r) \/ Notify(r)
    BY <1>1, <2>5 DEF CheckInventory, Notify, Says, Goto, TypeOK, records
  <2>6. CASE BuyShipment(r) \/ RecordTracking(r) \/ UpdateShopify(r)
    BY <1>1, <1>4, <2>6 DEF BuyShipment, RecordTracking, UpdateShopify, Says, Goto, TypeOK, records
  <2>7. CASE Record(r)
    BY <1>1, <1>4, <2>7 DEF Record, Recording, After, Proceed, Goto, TypeOK
  <2>8. CASE Close(r)
    BY <1>1, <1>4, <2>8 DEF Close, Proceed, Goto, TypeOK
  <2>9. CASE NotifyTenant(r)
    BY <1>1, <1>4, <2>9 DEF NotifyTenant, Proceed, Goto, TypeOK
  <2>. QED
    BY <1>4, <2>1, <2>2, <2>3, <2>4, <2>5, <2>6, <2>7, <2>8, <2>9 DEF Execute, NodeFails
<1>5. CASE WriteReason(r)
  BY <1>1, <1>5, Retreat DEF WriteReason, Says, Goto, TypeOK, Node, Top, OnError
<1>. QED BY <1>3, <1>4, <1>5

LEMMA FinitelyFailing == IsFiniteSet(Failing) /\ Cardinality(Failing) \in Nat
BY PipelineAssumption, FS_Subset, FS_CardinalityType DEF Failing

LEMMA FewerFailed ==
  ASSUME NEW S \in SUBSET Failing, NEW n \in Nat, Cardinality(Failing) <= n
  PROVE  Cardinality(S) <= n
<1>1. Cardinality(S) <= Cardinality(Failing) /\ Cardinality(S) \in Nat
  BY FinitelyFailing, FS_Subset, FS_CardinalityType
<1>. QED BY <1>1, FinitelyFailing

LEMMA NextExplained ==
  ASSUME IInv, Explained, [Next]_vars
  PROVE  Explained'
<1> SUFFICES ASSUME valid' PROVE Cardinality(Failing') <= failures' /\ \A r \in Runs : at'[r] # "markInvalid"
  BY DEF Explained
<1>1. TypeOK /\ failures \in Nat
  BY DEF IInv, TypeOK
<1>2. ASSUME Failing' \subseteq Failing, valid, failures' = failures \/ failures' = failures + 1
      PROVE  Cardinality(Failing') <= failures'
  <2>1. Cardinality(Failing') <= Cardinality(Failing) /\ Cardinality(Failing') \in Nat
    BY <1>2, FinitelyFailing, FS_Subset, FS_CardinalityType
  <2>2. Cardinality(Failing) <= failures
    BY <1>2 DEF Explained
  <2>. QED BY <1>1, <1>2, <2>1, <2>2, FinitelyFailing
<1>3. ASSUME NEW r \in Runs, Execute(r)
      PROVE  Cardinality(Failing') <= failures' /\ \A q \in Runs : at'[q] # "markInvalid"
  <2>1. valid /\ (failures' = failures \/ failures' = failures + 1)
    BY <1>3, Frame DEF WriteReason
  <2>2. \A q \in Runs : at[q] # "markInvalid"
    BY <2>1 DEF Explained
  <2>3. ASSUME NEW q \in Runs, q # r
        PROVE  at'[q] # "markInvalid" /\ (q \in Failing' => q \in Failing)
    BY <1>1, <1>3, <2>2, <2>3, OthersKept DEF Failing
  <2>4. at'[r] # "markInvalid" /\ (r \in Failing' => r \in Failing \/ WriteReason(r))
    BY <1>3, <2>1, JoinsFailing
  <2>5. \A q \in Runs : at'[q] # "markInvalid"
    BY <2>3, <2>4
  <2>6. Failing' \subseteq Runs
    BY DEF Failing
  <2>7. CASE ~WriteReason(r)
    <3>1. Failing' \subseteq Failing
      BY <2>3, <2>4, <2>6, <2>7
    <3>. QED BY <1>2, <2>1, <2>5, <3>1
  <2>8. CASE WriteReason(r)
    <3>1. Failing' \subseteq Failing \union {r} /\ failures' = failures + 1
      BY <2>3, <2>6, <2>8 DEF WriteReason
    <3>2. /\ IsFiniteSet(Failing \union {r})
          /\ Cardinality(Failing \union {r}) \in {Cardinality(Failing), Cardinality(Failing) + 1}
      BY FinitelyFailing, FS_AddElement
    <3>3. Cardinality(Failing') <= Cardinality(Failing \union {r}) /\ Cardinality(Failing') \in Nat
      BY <3>1, <3>2, FS_Subset, FS_CardinalityType
    <3>4. Cardinality(Failing) <= failures
      BY <2>1 DEF Explained
    <3>. QED BY <1>1, <2>5, <3>1, <3>2, <3>3, <3>4, FinitelyFailing
  <2>. QED BY <2>7, <2>8
<1>4. ASSUME valid' = valid, failures' = failures, row' = row, good' = good,
             \A r \in Runs : at'[r] \in {at[r], "open", "aborted"}
      PROVE  Cardinality(Failing') <= failures' /\ \A q \in Runs : at'[q] # "markInvalid"
  <2>1. Failing' \subseteq Failing
    BY <1>4 DEF Failing
  <2>. QED BY <1>2, <1>4, <2>1 DEF Explained
<1>5. ASSUME NEW r \in Runs, Start(r) PROVE \A q \in Runs : at'[q] \in {at[q], "open"}
  BY <1>1, <1>5 DEF Start, TypeOK
<1>6. CASE \E r \in Runs : Start(r)
  BY <1>4, <1>5, <1>6 DEF Start, order, records
<1>7. CASE Override \/ (\E r \in Runs : FulfillLate(r)) \/ UNCHANGED vars
  BY <1>4, <1>7 DEF Override, FulfillLate, vars, order, records, control
<1>8. CASE Crash
  <2>1. \A q \in Runs : at'[q] \in {at[q], "aborted"}
    BY <1>8 DEF Crash
  <2>. QED BY <1>4, <1>8, <2>1 DEF Crash, order, records
<1>. QED BY <1>3, <1>6, <1>7, <1>8 DEF Next, Receive, Retry
-----------------------------------------------------------------------------
(* Every reachable state satisfies the inductive invariant.                *)
THEOREM Invariance == Spec => []IInv
<1>. QED BY InitIInv, NextIInv, PTL DEF Spec

(* Every variable keeps its type: the order, the run row and its steps     *)
(* only take statuses of the schema, whatever is retried.                  *)
THEOREM TypeCorrect == Spec => []TypeOK
<1>1. IInv => TypeOK
  BY DEF IInv
<1>. QED BY Invariance, <1>1, PTL

(* A SUCCEEDED run has its stock check, its shipment and its fulfillment   *)
(* on record, and the fulfillment names the shipment it bought.            *)
THEOREM SuccessComplete == Spec => []SuccessIsComplete
<1>1. IInv => SuccessIsComplete
  BY DEF IInv, SuccessIsComplete, RunInv, Stage, Complete, InStock, Labelled
<1>. QED BY Invariance, <1>1, PTL

(* However many executions of one order overlap, at most one is SUCCEEDED: *)
(* they all claim the only fulfillment Shopify accepts.                    *)
THEOREM SingleSuccess == Spec => []OneSuccess
<1>1. ASSUME IInv, NEW q \in Runs, NEW r \in Runs, row[q] = "SUCCEEDED", row[r] = "SUCCEEDED"
      PROVE  q = r
  <2>1. shopify = {Bought(q)} /\ shopify = {Bought(r)}
    BY <1>1 DEF IInv, RunInv, Stage, Complete
  <2>2. Bought(q) = Bought(r)
    BY <2>1
  <2>3. Bought(q)[1] = q /\ Bought(r)[1] = r
    BY DEF Bought
  <2>. QED BY <2>2, <2>3
<1>2. IInv => OneSuccess
  BY <1>1 DEF OneSuccess
<1>. QED BY Invariance, <1>2, PTL

(* A failed run notifies its members at most once, and only a failed one.  *)
THEOREM SingleNotice == Spec => []NotifiedOnce
<1>1. IInv => NotifiedOnce
  BY DEF IInv
<1>. QED BY Invariance, <1>1, PTL

(* An execution buys at most one label per try of its shipment node.       *)
THEOREM BoundedPurchases == Spec => []ShipmentsBounded
<1>1. IInv => ShipmentsBounded
  BY DEF IInv, ShipmentsBounded, RunInv, Purchases
<1>. QED BY Invariance, <1>1, PTL

(* Every failed run of an order that validates has an order_failed event   *)
(* of its own, so that the order's timeline says why each of them failed.  *)
THEOREM FailureExplained == Spec => []FailureIsExplained
<1>1. IInv /\ Explained => FailureIsExplained
  <2>1. {r \in Runs : row[r] = "FAILED"} \subseteq Failing
    BY DEF Failing
  <2>. QED BY <2>1, FewerFailed DEF FailureIsExplained, Explained, IInv, TypeOK
<1>2. Spec => []Explained
  BY Invariance, InitExplained, NextExplained, PTL DEF Spec
<1>. QED BY Invariance, <1>1, <1>2, PTL
-----------------------------------------------------------------------------
(* An execution that has the order to itself: what its node says of the    *)
(* order's status, and of what Shopify and the order row name.             *)

Reached(n) == CASE n \in {"open", "validate"}              -> {"RECEIVED"}
                [] n = "markValidated"                     -> {"RECEIVED", "VALIDATED"}
                [] n = "markInvalid"                       -> {"RECEIVED", "VALIDATION_FAILED"}
                [] n \in {"inventory", "recordInventory"} \union Buying -> {"VALIDATED"}
                [] n = "markShipped"                       -> {"VALIDATED", "SHIPMENT_CREATED"}
                [] n \in {"shopify", "recordShopify"}      -> {"SHIPMENT_CREATED"}
                [] n = "markFulfilled"                     -> {"SHIPMENT_CREATED", "FULFILLED"}
                [] n \in {"slack", "recordSlack", "email", "recordEmail"} -> {"FULFILLED"}
                [] n = "markNotified"                      -> {"FULFILLED", "NOTIFIED"}
                [] n = "markFailed"                        -> {"VALIDATED", "SHIPMENT_CREATED", "FAILED"}
                [] n = "reason"                            -> {"FAILED"}
                [] OTHER                                   -> OrderStatus

Tracked(r) ==
  /\ shopify \subseteq tracking
  /\ at[r] \in Early \union Buying \union {"markShipped"} => shopify = {}
  /\ (at[r] = "recordShipment" /\ good[r]) \/ at[r] \in {"markShipped", "shopify"}
       => tracking = {Bought(r)}
  /\ r \in abandoned => /\ tracking = {Bought(r)}
                        /\ at[r] \notin Early \union Buying \union {"markShipped"}

Unspoilt(r) == Tracked(r) /\ (~overridden => status \in Reached(at[r]))

LoneInv ==
  Alone => /\ (\A r \in Runs : at[r] = "idle") => shopify = {} /\ (~overridden => status = "RECEIVED")
           /\ \A r \in Runs : IF at[r] = "idle" THEN r \notin abandoned ELSE Unspoilt(r)

(* Where a step of it leads.                                               *)
LEMMA Leads ==
  ASSUME TypeOK, NEW r \in Runs, Execute(r)
  PROVE  /\ at[r] \in Node /\ at'[r] \in Node \union Ended
         /\ \A q \in Runs : q # r => at'[q] = at[q]
<1>1. at[r] \in Node /\ ControlOK'
  BY StepControl
<1>2. \A q \in Runs : q # r => at'[q] = at[q]
  BY OthersKept
<1>3. at'[r] # "idle"
  <2> USE DEF TypeOK, Node, Ended, Calls, Marks, Recording
  <2>1. CASE TryFails(r)
    BY <1>1, <2>1, Retreat DEF Top, OnError
  <2>2. CASE ~TryFails(r)
    <3> USE DEF Says, Proceed, Goto
    <3>1. CASE Open(r) \/ Validate(r) \/ Mark(r) \/ MarkFailed(r) \/ WriteReason(r) \/ CheckInventory(r)
      BY <2>2, <3>1 DEF Open, Validate, Mark, MarkFailed, WriteReason, CheckInventory, After
    <3>2. CASE Notify(r) \/ BuyShipment(r) \/ RecordTracking(r) \/ UpdateShopify(r)
      BY <2>2, <3>2 DEF Notify, BuyShipment, RecordTracking, UpdateShopify
    <3>3. CASE Record(r) \/ Close(r) \/ NotifyTenant(r) \/ NodeFails(r)
      BY <2>2, <3>3 DEF Record, Close, NotifyTenant, NodeFails, After
    <3>. QED BY <3>1, <3>2, <3>3 DEF Execute
  <2>. QED BY <2>1, <2>2
<1>. QED BY <1>1, <1>2, <1>3 DEF ControlOK

(* What a node promises the next one may still rely on.                    *)
Passes(r, n, yes) ==
  /\ n \in Early \union Buying \union {"markShipped"}
       => at[r] \in Early \union Buying \union {"markShipped"}
  /\ (n = "recordShipment" /\ yes) \/ n \in {"markShipped", "shopify"}
       => (at[r] = "recordShipment" /\ good[r]) \/ at[r] \in {"markShipped", "shopify"}

LEMMA MovesOn ==
  ASSUME NEW r \in Runs, Unspoilt(r), UNCHANGED <<tracking, shopify, abandoned, overridden>>, bought'[r] = bought[r],
         Passes(r, at'[r], good'[r]),
         status' \in Reached(at'[r]) \/ (status' = status /\ Reached(at[r]) \subseteq Reached(at'[r]))
  PROVE  Unspoilt(r)'
<1>1. Bought(r)' = Bought(r)
  BY DEF Bought
<1>2. Tracked(r)'
  BY <1>1 DEF Unspoilt, Tracked, Passes
<1>3. ~overridden' => status' \in Reached(at'[r])
  BY DEF Unspoilt
<1>4. Reached(at[r])' = Reached(at'[r])
  BY DEF Reached, OrderStatus
<1>. QED BY <1>2, <1>3, <1>4 DEF Unspoilt

LEMMA TryLeads ==
  ASSUME TypeOK, NEW r \in Runs, at[r] \in Node, TryFails(r)
  PROVE  Passes(r, at'[r], good'[r]) /\ Reached(at[r]) \subseteq Reached(at'[r])
<1> USE DEF Node, Ended, Calls, Marks, Recording, Early, Buying
<1>1. CASE at'[r] = Top(at[r]) /\ good'[r] = good[r]
  BY <1>1 DEF Top, Passes, Reached, OrderStatus
<1>2. CASE at'[r] = OnError(at[r]) /\ good'[r] = FALSE
  BY <1>2 DEF OnError, Passes, Reached, OrderStatus
<1>. QED BY <1>1, <1>2, Retreat

LEMMA UnspoiltStep ==
  ASSUME TypeOK, NEW r \in Runs, Execute(r), Unspoilt(r)
  PROVE  Unspoilt(r)'
<1> USE DEF Node, Ended, Calls, Marks, Recording, Early, Buying
<1>0. at[r] \in Node /\ status \in OrderStatus /\ good[r] \in BOOLEAN
  BY StepControl DEF TypeOK
<1>1. CASE Open(r) \/ Validate(r)
  <2>1. /\ UNCHANGED <<status, tracking, shopify, abandoned, overridden, bought>>
        /\ Passes(r, at'[r], good'[r]) /\ Reached(at[r]) \subseteq Reached(at'[r])
    <3>1. CASE TryFails(r)
      BY <1>0, <1>1, <3>1, TryLeads DEF Open, Validate, order, outside
    <3>2. CASE ~TryFails(r)
      BY <1>1, <3>2 DEF Open, Validate, Proceed, Goto, Passes, Reached, TypeOK, order, outside
    <3>. QED BY <3>1, <3>2
  <2>. QED BY <2>1, MovesOn
<1>2. CASE Mark(r)
  <2>1. UNCHANGED <<tracking, shopify, abandoned, overridden, bought>> /\ at[r] \in Marks /\ status' = Written(at[r])
    BY <1>2 DEF Mark, outside
  <2>2. status' \in Reached(at[r])
    BY <2>1 DEF Written, Reached
  <2>3. CASE TryFails(r)
    BY <1>0, <2>1, <2>2, <2>3, TryLeads, MovesOn
  <2>4. CASE Says(r, After(r), at[r] # "markInvalid")
    <3>1. Passes(r, at'[r], good'[r]) /\ status' \in Reached(at'[r])
      BY <2>1, <2>4 DEF Says, Goto, After, Written, Passes, Reached, TypeOK, OrderStatus
    <3>. QED BY <2>1, <3>1, MovesOn
  <2>. QED BY <1>2, <2>3, <2>4 DEF Mark
<1>3. CASE MarkFailed(r) \/ WriteReason(r)
  <2>1. UNCHANGED <<tracking, shopify, abandoned, overridden, bought>> /\ at[r] \in {"markFailed", "reason"}
    BY <1>3 DEF MarkFailed, WriteReason, outside
  <2>2. CASE TryFails(r) /\ UNCHANGED status
    BY <1>0, <2>1, <2>2, TryLeads, MovesOn
  <2>3. CASE ~(TryFails(r) /\ UNCHANGED status)
    <3>1. /\ Passes(r, at'[r], good'[r])
          /\ status' \in Reached(at'[r]) \/ (status' = status /\ Reached(at[r]) \subseteq Reached(at'[r]))
      BY <1>3, <2>3 DEF MarkFailed, WriteReason, Says, Goto, Passes, Reached, TypeOK, OrderStatus
    <3>. QED BY <2>1, <3>1, MovesOn
  <2>. QED BY <2>2, <2>3
<1>4. CASE CheckInventory(r) \/ Notify(r)
  <2>1. /\ UNCHANGED <<status, tracking, shopify, abandoned, overridden, bought>>
        /\ Passes(r, at'[r], good'[r]) /\ Reached(at[r]) \subseteq Reached(at'[r])
    BY <1>4 DEF CheckInventory, Notify, Says, Goto, Passes, Reached, TypeOK, order, outside
  <2>. QED BY <2>1, MovesOn
<1>5. CASE BuyShipment(r)
  <2>1. UNCHANGED <<status, tracking, shopify, abandoned, overridden>> /\ at[r] = "shipment"
    BY <1>5 DEF BuyShipment, order
  <2>2. at'[r] \in {"track", "shipment"} \/ (at'[r] = "recordShipment" /\ good'[r] = FALSE)
    BY <1>0, <1>5, Retreat DEF BuyShipment, Top, OnError, TypeOK
  <2>3. Tracked(r)'
    BY <2>1, <2>2 DEF Unspoilt, Tracked
  <2>4. ~overridden' => status' \in Reached(at'[r])
    BY <2>1, <2>2 DEF Unspoilt, Reached
  <2>5. Reached(at[r])' = Reached(at'[r])
    BY DEF Reached, OrderStatus
  <2>. QED BY <2>3, <2>4, <2>5 DEF Unspoilt
<1>6. CASE RecordTracking(r)
  <2>1. /\ UNCHANGED <<status, shopify, abandoned, overridden>> /\ at[r] = "track"
        /\ tracking' = {Bought(r)} /\ Bought(r)' = Bought(r)
    BY <1>6 DEF RecordTracking, outside, Bought
  <2>2. at'[r] \in {"shipment", "recordShipment"}
    BY <1>0, <1>6, Retreat DEF RecordTracking, Says, Goto, Top, OnError, TypeOK
  <2>3. Tracked(r)'
    BY <2>1, <2>2 DEF Unspoilt, Tracked
  <2>4. ~overridden' => status' \in Reached(at'[r])
    BY <2>1, <2>2 DEF Unspoilt, Reached
  <2>5. Reached(at[r])' = Reached(at'[r])
    BY DEF Reached, OrderStatus
  <2>. QED BY <2>3, <2>4, <2>5 DEF Unspoilt
<1>7. CASE UpdateShopify(r)
  <2>1. /\ UNCHANGED <<status, tracking, overridden>> /\ at[r] = "shopify"
        /\ shopify' \in {shopify, {Bought(r)}} /\ abandoned' \in {abandoned, abandoned \union {r}}
        /\ Bought(r)' = Bought(r)
    BY <1>7 DEF UpdateShopify, order, Bought
  <2>2. at'[r] \in {"shopify", "recordShopify", "markFailed"}
    BY <1>0, <1>7, Retreat DEF UpdateShopify, Says, Goto, Top, OnError, TypeOK
  <2>3. Tracked(r)'
    BY <2>1, <2>2 DEF Unspoilt, Tracked
  <2>4. ~overridden' => status' \in Reached(at'[r])
    BY <2>1, <2>2 DEF Unspoilt, Reached
  <2>5. Reached(at[r])' = Reached(at'[r])
    BY DEF Reached, OrderStatus
  <2>. QED BY <2>3, <2>4, <2>5 DEF Unspoilt
<1>8. CASE Record(r)
  <2>1. UNCHANGED <<status, tracking, shopify, abandoned, overridden, bought>> /\ at[r] \in Recording
    BY <1>8 DEF Record, order, outside
  <2>2. Passes(r, at'[r], good'[r]) /\ Reached(at[r]) \subseteq Reached(at'[r])
    <3>1. CASE TryFails(r)
      BY <1>0, <3>1, TryLeads
    <3>2. CASE Proceed(r, After(r))
      BY <1>0, <2>1, <3>2 DEF Proceed, Goto, After, Passes, Reached, TypeOK
    <3>. QED BY <1>8, <3>1, <3>2 DEF Record
  <2>. QED BY <2>1, <2>2, MovesOn
<1>9. CASE Close(r) \/ NotifyTenant(r) \/ NodeFails(r)
  <2>1. UNCHANGED <<status, tracking, shopify, abandoned, overridden, bought>>
    BY <1>9 DEF Close, NotifyTenant, NodeFails, order, outside
  <2>2. Passes(r, at'[r], good'[r]) /\ Reached(at[r]) \subseteq Reached(at'[r])
    <3>1. CASE TryFails(r)
      BY <1>0, <3>1, TryLeads
    <3>2. CASE ~TryFails(r)
      BY <1>9, <3>2 DEF Close, NotifyTenant, NodeFails, Proceed, Goto, Passes, Reached, TypeOK, OrderStatus
    <3>. QED BY <3>1, <3>2
  <2>. QED BY <2>1, <2>2, MovesOn
<1>. QED BY <1>1, <1>2, <1>3, <1>4, <1>5, <1>6, <1>7, <1>8, <1>9 DEF Execute

LEMMA InitLoneInv == Init => LoneInv
BY DEF Init, LoneInv

(* Nobody else works on the order, before the step as after it.            *)
LEMMA NextLoneInv == TypeOK /\ LoneInv /\ [Next]_vars => LoneInv'
<1> SUFFICES ASSUME TypeOK, LoneInv, [Next]_vars, Alone' PROVE LoneInv'
  BY DEF LoneInv
<1> USE DEF Node, Ended, Calls, Marks, Recording
<1>1. ASSUME NEW r \in Runs, Execute(r) PROVE LoneInv'
  <2>1. at[r] \in Node /\ at'[r] \in Node \union Ended /\ \A q \in Runs : q # r => at'[q] = at[q]
    BY <1>1, Leads
  <2>2. Alone /\ Unspoilt(r) /\ \A q \in Runs : q # r => at'[q] = "idle"
    BY <2>1 DEF Alone, LoneInv
  <2>3. Unspoilt(r)'
    BY <1>1, <2>2, UnspoiltStep
  <2>4. ASSUME NEW q \in Runs, q # r PROVE q \notin abandoned'
    <3>1. q \notin abandoned
      BY <2>1, <2>2, <2>4 DEF LoneInv
    <3>2. abandoned' = abandoned \/ abandoned' = abandoned \union {r}
      BY <1>1, Frame
    <3>. QED BY <2>4, <3>1, <3>2
  <2>. QED BY <2>1, <2>2, <2>3, <2>4 DEF LoneInv
<1>2. ASSUME NEW r \in Runs, Start(r) PROVE LoneInv'
  <2>1. /\ at[r] = "idle" /\ at'[r] = "open" /\ \A q \in Runs : q # r => at'[q] = at[q]
        /\ UNCHANGED <<status, tracking, overridden, shopify, abandoned, bought>>
    BY <1>2 DEF Start, TypeOK, order, outside
  <2>2. \A q \in Runs : at[q] = "idle"
    BY <2>1 DEF Alone
  <2>3. Alone /\ shopify = {} /\ (~overridden => status = "RECEIVED")
    BY <2>2 DEF Alone, LoneInv
  <2>4. abandoned' \cap Runs = {}
    BY <2>1, <2>2, <2>3 DEF LoneInv
  <2>5. Unspoilt(r)'
    BY <2>1, <2>3, <2>4 DEF Unspoilt, Tracked, Reached, Early, Buying
  <2>. QED BY <2>1, <2>2, <2>4, <2>5 DEF LoneInv
<1>3. CASE Override
  <2>1. overridden' = TRUE /\ UNCHANGED <<tracking, shopify, abandoned, bought, at, good>>
    BY <1>3 DEF Override, outside, control
  <2>2. Alone
    BY <2>1 DEF Alone
  <2>. QED BY <2>1, <2>2 DEF LoneInv, Unspoilt, Tracked, Bought
<1>4. CASE Crash
  <2>1. /\ \A r \in Runs : at'[r] = IF at[r] \in Node THEN "aborted" ELSE at[r]
        /\ abandoned' = abandoned \union {r \in Runs : at[r] = "shopify"}
        /\ UNCHANGED <<status, tracking, overridden, shopify, bought, good>>
    BY <1>4 DEF Crash, order, outside
  <2>2. Alone
    BY <2>1 DEF Alone
  <2>3. ASSUME NEW r \in Runs, at'[r] # "idle" PROVE Unspoilt(r)'
    <3>1. Unspoilt(r)
      BY <2>1, <2>2, <2>3 DEF LoneInv
    <3>2. CASE at[r] \in Node
      <4>1. r \in abandoned' => tracking = {Bought(r)}
        BY <2>1, <3>1 DEF Unspoilt, Tracked
      <4>2. at'[r] = "aborted" /\ Bought(r)' = Bought(r)
        BY <2>1, <3>2 DEF Bought
      <4>. QED BY <2>1, <3>1, <4>1, <4>2 DEF Unspoilt, Tracked, Reached, Early, Buying, TypeOK, OrderStatus
    <3>3. CASE at[r] \notin Node
      BY <2>1, <3>1, <3>3 DEF Unspoilt, Tracked, Reached, Bought
    <3>. QED BY <3>2, <3>3
  <2>4. ASSUME NEW r \in Runs, at'[r] = "idle" PROVE r \notin abandoned'
    BY <2>1, <2>2, <2>4 DEF LoneInv
  <2>. QED BY <2>1, <2>2, <2>3, <2>4 DEF LoneInv
<1>6. ASSUME NEW r \in Runs, FulfillLate(r) PROVE LoneInv'
  <2>1. /\ r \in abandoned /\ shopify' = {Bought(r)} /\ abandoned' = abandoned \ {r}
        /\ UNCHANGED <<status, tracking, overridden, bought, at, good>>
    BY <1>6 DEF FulfillLate, order, control
  <2>2. Alone /\ at[r] # "idle" /\ Unspoilt(r)
    BY <2>1 DEF Alone, LoneInv
  <2>3. ASSUME NEW q \in Runs, at[q] # "idle" PROVE q = r
    BY <2>2, <2>3 DEF Alone
  <2>4. Unspoilt(r)'
    BY <2>1, <2>2 DEF Unspoilt, Tracked, Reached, Bought, OrderStatus
  <2>5. ASSUME NEW q \in Runs PROVE IF at'[q] = "idle" THEN q \notin abandoned' ELSE Unspoilt(q)'
    BY <2>1, <2>2, <2>3, <2>4 DEF LoneInv
  <2>. QED BY <2>1, <2>2, <2>5 DEF LoneInv
<1>5. CASE UNCHANGED vars
  BY <1>5 DEF LoneInv, Alone, Unspoilt, Tracked, Reached, Bought, OrderStatus, vars, order, outside, control
<1>. QED BY <1>1, <1>2, <1>3, <1>4, <1>5, <1>6 DEF Next, Receive, Retry

LEMMA LoneInvariance == Spec => []LoneInv
<1>1. IInv => TypeOK
  BY DEF IInv
<1>. QED BY <1>1, Invariance, InitLoneInv, NextLoneInv, PTL DEF Spec

(* Shopify names what the order row has, while no rival execution buys a   *)
(* shipment of its own.                                                    *)
THEOREM ShopifyTracked == Spec => []ShopifyMatchesOrder
<1>1. LoneInv => ShopifyMatchesOrder
  BY DEF LoneInv, ShopifyMatchesOrder, Unspoilt, Tracked
<1>. QED BY <1>1, LoneInvariance, PTL

(* An execution with the order to itself only moves it forward.            *)
THEOREM Forward == Spec => AloneIsForward
<1>1. TypeOK /\ LoneInv /\ [Next]_vars
        => [Alone /\ ~overridden' => /\ ~RankFalls
                                     /\ status \in Shipped => status' \in Shipped
                                     /\ status \notin Ranked => status' = status]_vars
  <2> SUFFICES ASSUME TypeOK, LoneInv, Next, Alone, ~overridden'
               PROVE  /\ ~RankFalls
                      /\ status \in Shipped => status' \in Shipped
                      /\ status \notin Ranked => status' = status
    OBVIOUS
  <2> USE DEF RankFalls, Rank, Ranked, Shipped
  <2>1. CASE status' = status
    BY <2>1
  <2>2. ASSUME NEW r \in Runs, Execute(r), status' # status
        PROVE  /\ ~RankFalls
               /\ status \in Shipped => status' \in Shipped
               /\ status \notin Ranked => status' = status
    <3>1. at[r] \in Node /\ ~overridden
      BY <2>2, Leads, Frame
    <3>2. status \in Reached(at[r])
      BY <3>1 DEF LoneInv, Unspoilt, Node, Calls, Marks, Recording
    <3>3. (at[r] \in Marks /\ status' = Written(at[r])) \/ (at[r] = "markFailed" /\ status' = "FAILED")
      <4>1. Mark(r) \/ MarkFailed(r)
        BY <2>2 DEF Execute, Open, Validate, WriteReason, CheckInventory, Notify, BuyShipment, RecordTracking,
                    UpdateShopify, Record, Close, NotifyTenant, NodeFails, order
      <4>. QED BY <4>1 DEF Mark, MarkFailed
    <3>. QED BY <2>2, <3>2, <3>3 DEF Reached, Written, Marks
  <2>3. CASE Override
    BY <2>3 DEF Override
  <2>4. CASE Crash
    BY <2>1, <2>4 DEF Crash, order
  <2>5. ASSUME NEW r \in Runs, Start(r) \/ FulfillLate(r) PROVE status' = status
    BY <2>5 DEF Start, FulfillLate, order
  <2>. QED BY <2>1, <2>2, <2>3, <2>4, <2>5 DEF Next, Receive, Retry
<1>2. IInv => TypeOK
  BY DEF IInv
<1>. QED BY <1>1, <1>2, Invariance, LoneInvariance, PTL DEF Spec, AloneIsForward
-----------------------------------------------------------------------------
(* The order's records implement the ledger of its runs.                   *)

(* An execution past its first node has a row, and so has one whose call   *)
(* to Shopify was given up on.                                             *)
Opened == \A r \in Runs : at[r] \in Node \ {"open"} \/ r \in abandoned => row[r] # "none"

LEMMA InitOpened == Init => Opened
BY DEF Init, Opened, Node, Calls, Marks, Recording

LEMMA NextOpened == IInv /\ Opened /\ [Next]_vars => Opened'
<1> SUFFICES ASSUME IInv, Opened, [Next]_vars PROVE Opened'
  OBVIOUS
<1>1. TypeOK
  BY DEF IInv
<1>2. ASSUME NEW r \in Runs, Execute(r) PROVE Opened'
  <2>1. ASSUME NEW q \in Runs, q # r, at'[q] \in Node \ {"open"} \/ q \in abandoned'
        PROVE  row'[q] # "none"
    <3>1. abandoned' = abandoned \/ abandoned' = abandoned \union {r}
      BY <1>2, Frame
    <3>. QED BY <1>1, <1>2, <2>1, <3>1, OthersKept DEF Opened
  <2>2. at[r] \in Node
    BY <1>1, <1>2, StepControl
  <2>3. CASE at[r] = "open"
    <3>1. Open(r) \/ NodeFails(r)
      BY <1>2, <2>3 DEF Execute, Validate, Mark, MarkFailed, WriteReason, CheckInventory, Notify,
         BuyShipment, RecordTracking, UpdateShopify, Record, Close, NotifyTenant, Marks, Recording
    <3>2. TryFails(r) => at'[r] \in {"open", "aborted"}
      BY <1>1, <2>2, <2>3, AfterTry DEF Top, OnError
    <3>3. TryFails(r) \/ row'[r] = "RUNNING"
      BY <1>1, <3>1 DEF Open, NodeFails, TypeOK
    <3>4. "aborted" \notin Node
      BY DEF Node, Calls, Marks, Recording
    <3>5. abandoned' = abandoned /\ (row'[r] = "RUNNING" \/ row' = row)
      BY <1>1, <3>1 DEF Open, NodeFails, TypeOK, outside, records
    <3>. QED BY <2>1, <3>2, <3>3, <3>4, <3>5 DEF Opened
  <2>4. CASE at[r] # "open"
    <3>1. row' = row \/ Close(r)
      BY <1>2, <2>4, Frame DEF Open
    <3>2. row'[r] # "none"
      BY <1>1, <2>2, <2>4, <3>1 DEF Opened, Close, TypeOK
    <3>. QED BY <2>1, <3>2 DEF Opened
  <2>. QED BY <2>3, <2>4
<1>3. ASSUME NEW r \in Runs, Start(r) PROVE Opened'
  <2>1. row' = row /\ abandoned' = abandoned /\ \A q \in Runs : at'[q] \in {at[q], "open"}
    BY <1>1, <1>3 DEF Start, TypeOK, records, outside
  <2>. QED BY <2>1 DEF Opened
<1>4. CASE Override \/ (\E r \in Runs : FulfillLate(r)) \/ UNCHANGED vars
  BY <1>4 DEF Override, FulfillLate, vars, outside, records, control, Opened
<1>5. CASE Crash
  <2>1. /\ row' = row /\ \A q \in Runs : at'[q] \in {at[q], "aborted"}
        /\ \A q \in Runs : q \in abandoned' => q \in abandoned \/ at[q] = "shopify"
    BY <1>1, <1>5 DEF Crash, TypeOK, records
  <2>2. "aborted" \notin Node /\ "shopify" \in Node
    BY DEF Node, Calls, Marks, Recording
  <2>. QED BY <2>1, <2>2 DEF Opened
<1>. QED BY <1>2, <1>3, <1>4, <1>5 DEF Next, Receive, Retry

(* The row of an execution between its first node and its Close.           *)
LEMMA RunningBetween ==
  ASSUME IInv, Opened, NEW r \in Runs, at[r] \in {"shopify", "reason", "close"}
  PROVE  /\ row[r] = "RUNNING" \/ at[r] = "close"
         /\ at[r] = "close" => row[r] \in {"RUNNING", IF good[r] THEN "SUCCEEDED" ELSE "FAILED"}
<1>1. RowFits(r) /\ row[r] \in {"none", "RUNNING", "SUCCEEDED", "FAILED"}
  BY DEF IInv, RunInv, TypeOK
<1>2. row[r] # "none"
  BY DEF Opened, Node, Calls
<1>. QED BY <1>1, <1>2 DEF RowFits

LEMMA SameCount == \A S : Ledger!Cardinality(S) = Cardinality(S)
BY DEF Ledger!Cardinality, Cardinality

(* What the ledger sees of a state.                                        *)
seen == <<valid, row, shopify, failures, notices>>

LEMMA CloseLedger ==
  ASSUME IInv, Opened, NEW r \in Runs, Close(r), IInv', FailureIsExplained'
  PROVE  UNCHANGED seen \/ Ledger!Succeed(r) \/ Ledger!Fail(r)
<1>1. /\ TypeOK /\ at[r] = "close"
      /\ row[r] \in {"RUNNING", IF good[r] THEN "SUCCEEDED" ELSE "FAILED"}
  BY RunningBetween DEF Close, IInv
<1>2. /\ row' = [row EXCEPT ![r] = IF good[r] THEN "SUCCEEDED" ELSE "FAILED"]
      /\ UNCHANGED <<valid, shopify, failures, notices>>
  BY DEF Close, order, outside
<1>3. CASE row[r] # "RUNNING"
  <2>1. row' = row
    BY <1>1, <1>2, <1>3 DEF TypeOK
  <2>. QED BY <1>2, <2>1 DEF seen
<1>4. CASE row[r] = "RUNNING" /\ good[r]
  <2>1. shopify = {Bought(r)}
    BY <1>1, <1>4 DEF IInv, RunInv, Stage, Complete
  <2>2. {s[1] : s \in shopify} = {r}
    BY <2>1 DEF Bought
  <2>. QED BY <1>2, <1>4, <2>2 DEF Ledger!Succeed, Ledger!Become
<1>5. CASE row[r] = "RUNNING" /\ ~good[r]
  <2>1. {q \in Runs : row'[q] = "FAILED"} = {q \in Runs : row[q] = "FAILED"} \union {r}
    BY <1>1, <1>2, <1>5 DEF TypeOK
  <2>2. ~valid \/ Ledger!Cardinality({q \in Runs : row[q] = "FAILED"} \union {r}) <= failures
    BY <1>2, <2>1, SameCount DEF FailureIsExplained
  <2>. QED BY <1>2, <1>5, <2>2 DEF Ledger!Fail, Ledger!Become, Ledger!Failed
<1>. QED BY <1>3, <1>4, <1>5

LEMMA ExecuteLedger ==
  ASSUME IInv, Opened, NEW r \in Runs, Execute(r), IInv', FailureIsExplained'
  PROVE  UNCHANGED seen \/ Ledger!Next
<1>1. TypeOK
  BY DEF IInv
<1>2. CASE Close(r)
  BY <1>2, CloseLedger DEF Ledger!Next
<1>3. CASE Open(r)
  <2>1. /\ UNCHANGED <<valid, shopify, failures, notices>>
        /\ row' = row \/ row' = [row EXCEPT ![r] = "RUNNING"]
    BY <1>3 DEF Open, order, outside
  <2>2. row[r] \in {"none", "RUNNING"}
    BY <1>1, <1>3 DEF IInv, RunInv, RowFits, TypeOK, Open
  <2>3. row[r] = "RUNNING" => row' = row
    BY <1>1, <2>1 DEF TypeOK
  <2>. QED BY <2>1, <2>2, <2>3 DEF seen, Ledger!Next, Ledger!Open, Ledger!Become
<1>4. CASE UpdateShopify(r) /\ shopify' # shopify
  <2>1. /\ shopify = {} /\ shopify' = {Bought(r)} /\ at[r] = "shopify"
        /\ UNCHANGED <<valid, row, failures, notices>>
    BY <1>4 DEF UpdateShopify, order, records
  <2>2. Bought(r)[1] = r
    BY DEF Bought
  <2>3. {s[1] : s \in shopify} = {} /\ {s[1] : s \in shopify'} = {r}
    BY <2>1, <2>2
  <2>. QED BY <2>1, <2>3, RunningBetween DEF Ledger!Next, Ledger!Fulfill
<1>5. CASE WriteReason(r)
  <2>1. /\ failures' = failures + 1 /\ at[r] = "reason"
        /\ UNCHANGED <<valid, row, shopify, notices>>
    BY <1>5 DEF WriteReason, outside, records
  <2>. QED BY <2>1, RunningBetween DEF Ledger!Next, Ledger!Explain
<1>6. CASE NotifyTenant(r)
  <2>1. row[r] = "FAILED" /\ notices[r] = 0
    BY <1>6 DEF NotifyTenant, IInv, RunInv, RowFits
  <2>2. /\ notices' = [notices EXCEPT ![r] = 1]
        /\ UNCHANGED <<valid, row, shopify, failures>>
    BY <1>1, <1>6, <2>1 DEF NotifyTenant, TypeOK, order, outside
  <2>. QED BY <2>1, <2>2 DEF Ledger!Next, Ledger!Notify
<1>. QED BY <1>2, <1>3, <1>4, <1>5, <1>6, Frame DEF seen

(* A fulfillment that lands late is that of a run that is RUNNING or has   *)
(* failed: had any succeeded, the order would be fulfilled.                *)
LEMMA LateLedger ==
  ASSUME IInv, Opened, NEW r \in Runs, FulfillLate(r)
  PROVE  Ledger!Next
<1>1. /\ r \in abandoned /\ shopify = {} /\ shopify' = {Bought(r)}
      /\ UNCHANGED <<valid, row, failures, notices>>
  BY DEF FulfillLate, order, records
<1>2. row[r] # "SUCCEEDED"
  BY <1>1 DEF IInv, RunInv, Stage, Complete
<1>3. row[r] \in {"RUNNING", "FAILED"}
  BY <1>1, <1>2 DEF Opened, IInv, TypeOK
<1>4. Bought(r)[1] = r
  BY DEF Bought
<1>5. {s[1] : s \in shopify} = {} /\ {s[1] : s \in shopify'} = {r}
  BY <1>1, <1>4
<1>. QED BY <1>1, <1>3, <1>5 DEF Ledger!Next, Ledger!Fulfill

LEMMA InitLedger == Init => Ledger!Init
BY DEF Init, Ledger!Init

LEMMA NextLedger ==
  IInv /\ Opened /\ [Next]_vars /\ IInv' /\ FailureIsExplained' => [Ledger!Next]_Ledger!ledgerVars
<1> SUFFICES ASSUME IInv, Opened, [Next]_vars, IInv', FailureIsExplained'
             PROVE  UNCHANGED seen \/ Ledger!Next
  BY DEF seen, Ledger!ledgerVars
<1>1. ASSUME NEW r \in Runs, Execute(r) PROVE UNCHANGED seen \/ Ledger!Next
  BY <1>1, ExecuteLedger
<1>2. CASE (\E r \in Runs : Receive(r) \/ Retry(r)) \/ Override \/ Crash \/ UNCHANGED vars
  BY <1>2 DEF Receive, Retry, Start, Override, Crash, vars, order, outside, records, seen
<1>3. ASSUME NEW r \in Runs, FulfillLate(r) PROVE Ledger!Next
  BY <1>3, LateLedger
<1>. QED BY <1>1, <1>2, <1>3 DEF Next

(* The run rows, the order's timeline and the notifications keep the       *)
(* ledger's promise, for any number of executions and of tries: a closed   *)
(* run is final, a success is the fulfilling run's, a failure has a reason *)
(* of its own and is notified once, and a fulfillment given up on may land *)
(* when its run is closed.                                                 *)
THEOREM LedgerKept == Spec => LedgerSpec
<1>1. Spec => []Opened
  BY Invariance, InitOpened, NextOpened, PTL DEF Spec
<1>. QED BY Invariance, <1>1, FailureExplained, InitLedger, NextLedger, PTL DEF Spec, LedgerSpec, Ledger!Spec
=============================================================================
