------------------------------ MODULE RunLedger ------------------------------
(***************************************************************************)
(* What the records promise of the workflow runs of one order to those who *)
(* read them, however often n8n and the backend try a thing again: a run   *)
(* that succeeded or failed stays so; it succeeds only as the one run      *)
(* whose shipment fulfilled the order; it fails only when the order's      *)
(* timeline holds one reason more than there were failed runs, or the      *)
(* order was refused; and only then, and once, are the members notified.   *)
(* A run may be left RUNNING, and the one that fulfilled may fail, before  *)
(* its shipment does fulfill the order or after.                           *)
(*                                                                         *)
(* OrderPipeline implements this specification (its PROPERTY LedgerSpec).  *)
(***************************************************************************)
EXTENDS Naturals, FiniteSets

CONSTANT Runs     \* executions of the workflow for the order

VARIABLES
  refused,   \* the order does not pass validation
  run,       \* how each run stands
  fulfiller, \* the run whose shipment fulfilled the order, if any
  reasons,   \* reasons of failure on the order's timeline
  notified   \* notifications of each run's failure

ledgerVars == <<refused, run, fulfiller, reasons, notified>>

Init ==
  /\ refused \in BOOLEAN
  /\ run = [r \in Runs |-> "none"]
  /\ fulfiller = {} /\ reasons = 0
  /\ notified = [r \in Runs |-> 0]

Failed       == {r \in Runs : run[r] = "FAILED"}
Become(r, s) == run' = [run EXCEPT ![r] = s]

Open(r) ==
  /\ run[r] = "none"
  /\ Become(r, "RUNNING")
  /\ UNCHANGED <<refused, fulfiller, reasons, notified>>

Fulfill(r) ==
  /\ run[r] \in {"RUNNING", "FAILED"} /\ fulfiller = {}
  /\ fulfiller' = {r}
  /\ UNCHANGED <<refused, run, reasons, notified>>

Explain(r) ==
  /\ run[r] = "RUNNING"
  /\ reasons' = reasons + 1
  /\ UNCHANGED <<refused, run, fulfiller, notified>>

Succeed(r) ==
  /\ run[r] = "RUNNING" /\ fulfiller = {r}
  /\ Become(r, "SUCCEEDED")
  /\ UNCHANGED <<refused, fulfiller, reasons, notified>>

Fail(r) ==
  /\ run[r] = "RUNNING"
  /\ refused \/ Cardinality(Failed \union {r}) <= reasons
  /\ Become(r, "FAILED")
  /\ UNCHANGED <<refused, fulfiller, reasons, notified>>

Notify(r) ==
  /\ run[r] = "FAILED" /\ notified[r] = 0
  /\ notified' = [notified EXCEPT ![r] = 1]
  /\ UNCHANGED <<refused, run, fulfiller, reasons>>

Next == \E r \in Runs : Open(r) \/ Fulfill(r) \/ Explain(r) \/ Succeed(r) \/ Fail(r) \/ Notify(r)

Spec == Init /\ [][Next]_ledgerVars
=============================================================================
