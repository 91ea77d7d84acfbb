------------------------- MODULE CartReminderProofs -------------------------
(***************************************************************************)
(* Proof about CartReminder, for any number of executions and of tries:    *)
(* the workflow's IF looks at the answer of the node that records the      *)
(* check, which says nothing of the order, so no execution ever gets to    *)
(* the reminder.                                                           *)
(***************************************************************************)
EXTENDS CartReminder, TLAPS

(* An execution sent no reminder and recorded none.                        *)
Unreminded(r) == sent[r] = 0 /\ steps[r]["send_cart_reminder"] = "none"

(* It cannot come to it: what its IF looks at is empty.                    *)
Barred(r) == at[r] \notin {"send", "recordSend"} /\ (at[r] = "if" => json[r] = {})

(* The variables a step of one execution writes are functions of them all. *)
Shape == /\ DOMAIN at = Runs /\ DOMAIN json = Runs /\ DOMAIN sent = Runs
         /\ steps \in [Runs -> [StepKey -> {"none", "SUCCEEDED", "FAILED"}]]

NoReminder == \A r \in Runs : Unreminded(r)
IInv       == Shape /\ NoReminder /\ \A r \in Runs : Barred(r)

LEMMA InitIInv == Init => IInv
BY DEF Init, IInv, Shape, NoReminder, Unreminded, Barred, StepKey

(* The effects of a request that is not about the reminder.                *)
LEMMA EffectKeeps ==
  ASSUME IInv, NEW r \in Runs, Effect(r) \/ UNCHANGED <<row, steps, sent>>
  PROVE  /\ DOMAIN sent' = Runs /\ steps' \in [Runs -> [StepKey -> {"none", "SUCCEEDED", "FAILED"}]]
         /\ NoReminder'
<1>1. at[r] \notin {"send", "recordSend"}
  BY DEF IInv, Barred
<1>2. sent' = sent
  BY <1>1 DEF Effect
<1>3. CASE at[r] = "recordCheck" /\ Effect(r)
  <2>1. steps' = [steps EXCEPT ![r]["check_cart_checkout"] = "SUCCEEDED"]
    BY <1>3 DEF Effect
  <2>2. /\ steps' \in [Runs -> [StepKey -> {"none", "SUCCEEDED", "FAILED"}]]
        /\ \A s \in Runs : steps'[s]["send_cart_reminder"] = steps[s]["send_cart_reminder"]
    BY <2>1 DEF IInv, Shape, StepKey
  <2>. QED BY <1>2, <2>2 DEF IInv, Shape, NoReminder, Unreminded
<1>4. CASE ~(at[r] = "recordCheck" /\ Effect(r))
  <2>1. steps' = steps
    BY <1>1, <1>4 DEF Effect
  <2>. QED BY <1>2, <2>1 DEF IInv, Shape, NoReminder, Unreminded
<1>. QED BY <1>3, <1>4

LEMMA MovedEffect ==
  ASSUME IInv, NEW r \in Runs, NEW n, NEW answer, Moved(r, n, answer),
         n \notin {"send", "recordSend"}, n = "if" => answer = {}
  PROVE  DOMAIN at' = Runs /\ DOMAIN json' = Runs /\ \A s \in Runs : Barred(s)'
BY DEF IInv, Shape, Moved, Barred

LEMMA SucceedStep == ASSUME IInv, NEW r \in Runs, Succeed(r) PROVE IInv'
<1>1. Effect(r) /\ Moved(r, Following(at[r]), Reply(r)) /\ at[r] \in HTTP
  BY DEF Succeed
<1>2. at[r] \notin {"send", "recordSend"}
  BY DEF IInv, Barred
<1>3. PICK n : n = Following(at[r])
  OBVIOUS
<1>4. n \notin {"send", "recordSend"} /\ (n = "if" => Reply(r) = {})
  BY <1>1, <1>2, <1>3 DEF Following, Reply, HTTP, Node
<1>5. DOMAIN at' = Runs /\ DOMAIN json' = Runs /\ \A s \in Runs : Barred(s)'
  BY <1>1, <1>3, <1>4, MovedEffect
<1>. QED BY <1>1, <1>5, EffectKeeps DEF IInv, Shape

LEMMA FailStep == ASSUME IInv, NEW r \in Runs, Fail(r) PROVE IInv'
<1>1. Effect(r) \/ UNCHANGED <<row, steps, sent>>
  BY DEF Fail
<1>2. at[r] \notin {"send", "recordSend"}
  BY DEF IInv, Barred
<1>3. UNCHANGED <<at, json>> \/ Moved(r, "aborted", {})
  BY <1>2 DEF Fail
<1>4. DOMAIN at' = Runs /\ DOMAIN json' = Runs /\ \A s \in Runs : Barred(s)'
  BY <1>3, MovedEffect DEF IInv, Shape, Barred
<1>. QED BY <1>1, <1>4, EffectKeeps DEF IInv, Shape

LEMMA NodeStep ==
  ASSUME IInv, NEW r \in Runs, Wait2Minutes(r) \/ IfOrderNotFound(r)
  PROVE  IInv'
<1>1. UNCHANGED <<steps, sent>> /\ \E answer : \E n \in {"check", "close"} : Moved(r, n, answer)
  BY DEF Wait2Minutes, IfOrderNotFound, OrderNotFound, IInv, Barred
<1>2. DOMAIN at' = Runs /\ DOMAIN json' = Runs /\ \A s \in Runs : Barred(s)'
  BY <1>1, MovedEffect
<1>. QED BY <1>1, <1>2 DEF IInv, Shape, NoReminder, Unreminded

LEMMA NextIInv == ASSUME IInv, [Next]_vars PROVE IInv'
<1>1. ASSUME NEW r \in Runs, Start(r) PROVE IInv'
  BY <1>1 DEF Start, IInv, Shape, NoReminder, Unreminded, Barred
<1>2. ASSUME NEW r \in Runs, Run(r) PROVE IInv'
  BY <1>2, SucceedStep, FailStep, NodeStep DEF Run
<1>3. ASSUME Shop \/ Finished \/ UNCHANGED vars PROVE IInv'
  BY <1>3 DEF Shop, Finished, vars, IInv, Shape, NoReminder, Unreminded, Barred
<1>. QED BY <1>1, <1>2, <1>3 DEF Next

(* No execution of the cart-reminder workflow ever sends a reminder or     *)
(* records its step, whatever the shopper did and whichever tries failed   *)
(* (the IF of cart-reminder.json looks at $json, the answer of Record      *)
(* Check Cart Checkout Step).                                              *)
THEOREM NeverReminds == Spec => []NoReminder
<1>1. IInv => NoReminder
  BY DEF IInv
<1>. QED BY InitIInv, NextIInv, <1>1, PTL DEF Spec
=============================================================================
