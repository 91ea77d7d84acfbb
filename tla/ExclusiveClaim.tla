--------------------------- MODULE ExclusiveClaim ---------------------------
(***************************************************************************)
(* What the webhook inbox promises about one inbound event, whatever its   *)
(* provider delivers and however often: the event is worked on under one   *)
(* claim at a time, each claim starts at most one n8n run, an event that   *)
(* completed is never claimed again, and only a failed one may be.  A      *)
(* claim whose holder disappears is stranded: nobody else may take it.     *)
(*                                                                         *)
(* WebhookInbox implements this specification (its PROPERTY ClaimSpec).    *)
(***************************************************************************)
EXTENDS Naturals

CONSTANT Events     \* webhook ids: the (source, externalId) keys

VARIABLES
  phase,   \* where the work on each event stands
  runs     \* n8n runs started for each event

claimVars == <<phase, runs>>

Phases == {"new", "claimed", "started", "failed", "done", "stranded"}

Init ==
  /\ phase = [e \in Events |-> "new"]
  /\ runs  = [e \in Events |-> 0]

Become(e, to) == phase' = [phase EXCEPT ![e] = to]

Claim(e) ==
  /\ phase[e] \in {"new", "failed"}
  /\ Become(e, "claimed")
  /\ UNCHANGED runs

(* A claim is spent by the first run it starts.                            *)
Start(e) ==
  /\ phase[e] = "claimed"
  /\ Become(e, "started")
  /\ runs' = [runs EXCEPT ![e] = @ + 1]

Complete(e) ==
  /\ phase[e] = "started"
  /\ Become(e, "done")
  /\ UNCHANGED runs

GiveUp(e) ==
  /\ phase[e] \in {"claimed", "started"}
  /\ Become(e, "failed")
  /\ UNCHANGED runs

(* The holders of the events of S are gone without releasing them.         *)
Strand(S) ==
  /\ \A e \in S : phase[e] \in {"claimed", "started"}
  /\ phase' = [e \in Events |-> IF e \in S THEN "stranded" ELSE phase[e]]
  /\ UNCHANGED runs

Next ==
  \/ \E e \in Events : Claim(e) \/ Start(e) \/ Complete(e) \/ GiveUp(e)
  \/ \E S \in SUBSET Events : Strand(S)

Spec == Init /\ [][Next]_claimVars
=============================================================================
