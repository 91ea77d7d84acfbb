---------------------------- MODULE WebhookInbox ----------------------------
(***************************************************************************)
(* The inbound webhook path: the claim of an event's inbox row             *)
(* (webhook-inbox-claim.util.ts) and the Shopify controller that works     *)
(* under it (shopify-webhook.controller.ts), with the order it writes and  *)
(* the n8n run it starts.  Each HTTP delivery of an event is a process     *)
(* that stops at every await of its handler, so deliveries of one event    *)
(* interleave; the provider times out, redelivers and duplicates; any      *)
(* statement may throw; the backend may restart.                           *)
(***************************************************************************)
EXTENDS Naturals, FiniteSets

CONSTANTS
  Events,       \* webhook ids, each for one order or one cart
  Deliveries,   \* requests the backend can be serving at a time
  NoEvent,      \* what an idle request slot serves
  NoDelivery,   \* the provider is not waiting for an answer
  MaxAttempts   \* deliveries the provider makes of one event

ASSUME InboxAssumption ==
  /\ NoEvent \notin Events
  /\ NoDelivery \notin Deliveries
  /\ MaxAttempts \in Nat

VARIABLES
  endpoint,   \* the route each event is sent to; never changes
  row,        \* WebhookInboundEvent.status of each event, or "absent"
  order,      \* events whose order row exists
  received,   \* order_received events written for each event's order
  runs,       \* n8n runs started for each event
  accepting,  \* the integration exists, is ACTIVE and is for this shop
  pc,         \* the await each request is at
  serving,    \* the event each request delivers
  accepted,   \* what verifyAndResolve read of the integration
  started,    \* history: this request has started a run
  awaiting,   \* the delivery the provider waits for, per event
  sent,       \* deliveries made of each event
  acked       \* events the provider got a 2xx answer for

world    == <<endpoint, accepting>>
db       == <<row, order, received>>
binding  == <<serving, accepted, started>>
request  == <<pc, binding>>
provider == <<awaiting, sent, acked>>
vars     == <<world, db, runs, request, provider>>

Endpoint  == {"orders", "cart"}
RowStatus == {"absent", "PROCESSING", "PROCESSED", "FAILED"}

(* Where a request stands.  Working: it holds the claim of its event.      *)
Guarded == {"order", "event", "start", "settle"}   \* inside the try block
Working == Guarded \union {"reject", "fail"}
Before  == {"idle", "lookup", "create", "reclaim"}
PC      == Before \union Working \union {"ack", "error"}

Holds(d, e) == serving[d] = e /\ pc[d] \in Working
Held(e)     == \E d \in Deliveries : Holds(d, e)

TypeOK ==
  /\ endpoint  \in [Events -> Endpoint]
  /\ row       \in [Events -> RowStatus]
  /\ order     \in SUBSET Events
  /\ received  \in [Events -> Nat]
  /\ runs      \in [Events -> Nat]
  /\ accepting \in BOOLEAN
  /\ pc        \in [Deliveries -> PC]
  /\ serving   \in [Deliveries -> Events \union {NoEvent}]
  /\ accepted  \in [Deliveries -> BOOLEAN]
  /\ started   \in [Deliveries -> BOOLEAN]
  /\ awaiting  \in [Events -> Deliveries \union {NoDelivery}]
  /\ sent      \in [Events -> 0 .. MaxAttempts]
  /\ acked     \in SUBSET Events

Init ==
  /\ endpoint  \in [Events -> Endpoint]
  /\ row       = [e \in Events |-> "absent"]
  /\ order     = {}
  /\ received  = [e \in Events |-> 0]
  /\ runs      = [e \in Events |-> 0]
  /\ accepting \in BOOLEAN
  /\ pc        = [d \in Deliveries |-> "idle"]
  /\ serving   = [d \in Deliveries |-> NoEvent]
  /\ accepted  = [d \in Deliveries |-> FALSE]
  /\ started   = [d \in Deliveries |-> FALSE]
  /\ awaiting  = [e \in Events |-> NoDelivery]
  /\ sent      = [e \in Events |-> 0]
  /\ acked     = {}
-----------------------------------------------------------------------------
(* The request's control.                                                  *)

At(d, label) == pc[d] = label
Goto(d, label) == pc' = [pc EXCEPT ![d] = label]

SetRow(d, status) == row' = [row EXCEPT ![serving[d]] = status]

(* The first await after a won claim: the failureReason check, then        *)
(* handle or handleCart.                                                   *)
WorkFor(d) == IF ~accepted[d] THEN "reject"
              ELSE IF endpoint[serving[d]] = "cart" THEN "start" ELSE "order"

-----------------------------------------------------------------------------
(* Mutations of the actions below: slips this code could have had.  No     *)
(* specification uses them; a property is worth its run when one of them   *)
(* breaks it.                                                              *)

(* The reclaiming updateMany without its status filter, ...                *)
ReclaimAny(d) ==
  /\ At(d, "reclaim")
  /\ SetRow(d, "PROCESSING") /\ Goto(d, WorkFor(d))
  /\ UNCHANGED <<order, received, runs, world, binding, provider>>

(* ... and with a filter that only spares events in progress.              *)
ReclaimSettled(d) ==
  /\ At(d, "reclaim")
  /\ IF row[serving[d]] # "PROCESSING"
       THEN SetRow(d, "PROCESSING") /\ Goto(d, WorkFor(d))
       ELSE UNCHANGED row /\ Goto(d, "ack")
  /\ UNCHANGED <<order, received, runs, world, binding, provider>>

(* The run started again in place when n8n's answer is lost.               *)
StartRunTwice(d) ==
  /\ At(d, "start")
  /\ runs' = [runs EXCEPT ![serving[d]] = @ + 1]
  /\ started' = [started EXCEPT ![d] = TRUE]
  /\ \E next \in {"settle", IF started[d] THEN "fail" ELSE "start"} : Goto(d, next)
  /\ UNCHANGED <<db, world, serving, accepted, provider>>

(* The catch block puts the schema's default status back.                  *)
MarkReceived(d) ==
  /\ At(d, "fail")
  /\ SetRow(d, "RECEIVED")
  /\ Goto(d, "error")
  /\ UNCHANGED <<order, received, runs, world, binding, provider>>

(* n8n errors only logged; P2002 not told from other errors of create;     *)
(* handleOrderCreated retried until it succeeds.                           *)
ThrowTo(d, label) ==
  /\ pc[d] \in PC \ {"idle", "ack", "error"}
  /\ Goto(d, label)
  /\ UNCHANGED <<db, runs, world, binding, provider>>
ThrowIgnored(d) ==
  ThrowTo(d, IF At(d, "start") THEN "settle" ELSE
             IF pc[d] \in Guarded THEN "fail" ELSE "error")
ThrowAcked(d) ==
  ThrowTo(d, IF At(d, "create") THEN "ack" ELSE
             IF pc[d] \in Guarded THEN "fail" ELSE "error")
ThrowRetried(d) ==
  ThrowTo(d, IF At(d, "event") THEN "order" ELSE
             IF pc[d] \in Guarded THEN "fail" ELSE "error")
-----------------------------------------------------------------------------
(* The handler, one action per await.                                      *)

(* integration.findUnique, before the claim.                               *)
Lookup(d) ==
  /\ At(d, "lookup")
  /\ accepted' = [accepted EXCEPT ![d] = accepting]
  /\ Goto(d, "create")
  /\ UNCHANGED <<db, runs, world, serving, started, provider>>

(* webhookInboundEvent.create: the unique key lets one request through.    *)
CreateRow(d) ==
  /\ At(d, "create")
  /\ IF row[serving[d]] = "absent"
       THEN SetRow(d, "PROCESSING") /\ Goto(d, WorkFor(d))
       ELSE UNCHANGED row /\ Goto(d, "reclaim")
  /\ UNCHANGED <<order, received, runs, world, binding, provider>>

(* updateMany guarded by status FAILED; a lost claim answers 200.          *)
Reclaim(d) ==
  /\ At(d, "reclaim")
  /\ IF row[serving[d]] = "FAILED"
       THEN SetRow(d, "PROCESSING") /\ Goto(d, WorkFor(d))
       ELSE UNCHANGED row /\ Goto(d, "ack")
  /\ UNCHANGED <<order, received, runs, world, binding, provider>>

(* A rejected event is marked FAILED and answered 200.                     *)
Reject(d) ==
  /\ At(d, "reject")
  /\ SetRow(d, "FAILED")
  /\ Goto(d, "ack")
  /\ UNCHANGED <<order, received, runs, world, binding, provider>>

UpsertOrder(d) ==
  /\ At(d, "order")
  /\ order' = order \union {serving[d]}
  /\ Goto(d, "event")
  /\ UNCHANGED <<row, received, runs, world, binding, provider>>

WriteReceived(d) ==
  /\ At(d, "event")
  /\ received' = [received EXCEPT ![serving[d]] = @ + 1]
  /\ Goto(d, "start")
  /\ UNCHANGED <<row, order, runs, world, binding, provider>>

(* The POST to n8n.  The run has started when the answer is lost or comes  *)
(* after the 10 s of fetchWithTimeout: the handler then sees a failure.    *)
StartRun(d) ==
  /\ At(d, "start")
  /\ runs' = [runs EXCEPT ![serving[d]] = @ + 1]
  /\ started' = [started EXCEPT ![d] = TRUE]
  /\ \E next \in {"settle", "fail"} : Goto(d, next)
  /\ UNCHANGED <<db, world, serving, accepted, provider>>

Settle(d) ==
  /\ At(d, "settle")
  /\ SetRow(d, "PROCESSED")
  /\ Goto(d, "ack")
  /\ UNCHANGED <<order, received, runs, world, binding, provider>>

(* The catch block: mark FAILED, then a 503.                               *)
MarkFailed(d) ==
  /\ At(d, "fail")
  /\ SetRow(d, "FAILED")
  /\ Goto(d, "error")
  /\ UNCHANGED <<order, received, runs, world, binding, provider>>

(* The awaited call throws and had no effect.  Inside the try block the    *)
(* handler goes to its catch block; anywhere else, in the catch block and  *)
(* on the reject path too, the exception leaves the handler.               *)
Throw(d) ==
  /\ pc[d] \in PC \ {"idle", "ack", "error"}
  /\ Goto(d, IF pc[d] \in Guarded THEN "fail" ELSE "error")
  /\ UNCHANGED <<db, runs, world, binding, provider>>

(* The answer reaches the provider, which ignores it if it stopped waiting. *)
Answer(d) ==
  /\ pc[d] \in {"ack", "error"}
  /\ LET e == serving[d] IN
       IF awaiting[e] = d
         THEN /\ awaiting' = [awaiting EXCEPT ![e] = NoDelivery]
              /\ acked' = IF At(d, "ack") THEN acked \union {e} ELSE acked
         ELSE UNCHANGED <<awaiting, acked>>
  /\ Goto(d, "idle")
  /\ serving' = [serving EXCEPT ![d] = NoEvent]
  /\ accepted' = [accepted EXCEPT ![d] = FALSE]
  /\ started' = [started EXCEPT ![d] = FALSE]
  /\ UNCHANGED <<db, runs, world, sent>>

Handle(d) ==
  \/ Lookup(d) \/ CreateRow(d) \/ Reclaim(d) \/ Reject(d)
  \/ UpsertOrder(d) \/ WriteReceived(d) \/ StartRun(d) \/ Settle(d)
  \/ MarkFailed(d) \/ Throw(d) \/ Answer(d)
-----------------------------------------------------------------------------
(* The provider and the environment.                                       *)

(* A delivery: the first, a retry after an error or a timeout, or one more *)
(* of an event already acknowledged (a duplicate, or a manual resend).     *)
Deliver(d, e) ==
  /\ At(d, "idle")
  /\ awaiting[e] = NoDelivery
  /\ sent[e] < MaxAttempts
  /\ awaiting' = [awaiting EXCEPT ![e] = d]
  /\ sent' = [sent EXCEPT ![e] = @ + 1]
  /\ serving' = [serving EXCEPT ![d] = e]
  /\ Goto(d, "lookup")
  /\ UNCHANGED <<db, runs, world, accepted, started, acked>>

(* The provider stops waiting (Shopify: 5 s); the handler runs on.         *)
GiveUpWaiting(e) ==
  /\ awaiting[e] # NoDelivery
  /\ awaiting' = [awaiting EXCEPT ![e] = NoDelivery]
  /\ UNCHANGED <<db, runs, world, request, sent, acked>>

(* The tenant connects, loses or disconnects the store.                    *)
IntegrationChanges ==
  /\ accepting' = ~accepting
  /\ UNCHANGED <<endpoint, db, runs, request, provider>>

(* The backend restarts: every request in flight dies unanswered.          *)
Restart ==
  /\ \E d \in Deliveries : pc[d] # "idle"
  /\ pc' = [d \in Deliveries |-> "idle"]
  /\ serving' = [d \in Deliveries |-> NoEvent]
  /\ accepted' = [d \in Deliveries |-> FALSE]
  /\ started' = [d \in Deliveries |-> FALSE]
  /\ awaiting' = [e \in Events |-> NoDelivery]
  /\ UNCHANGED <<db, runs, world, sent, acked>>

Next ==
  \/ \E d \in Deliveries : Handle(d)
  \/ \E d \in Deliveries, e \in Events : Deliver(d, e)
  \/ \E e \in Events : GiveUpWaiting(e)
  \/ IntegrationChanges
  \/ Restart

(* Every await of a handler settles (fetchWithTimeout bounds the call to   *)
(* n8n, the database client its statements).  Nothing is assumed of the    *)
(* provider, the tenant or restarts.                                       *)
Fairness == \A d \in Deliveries : WF_vars(Handle(d))

Spec == Init /\ [][Next]_vars /\ Fairness
-----------------------------------------------------------------------------
(* Properties.                                                             *)

(* No two requests work on one event: "two concurrent deliveries of the    *)
(* same event can't both pass a check-then-act gap and both process it".   *)
OneWorker ==
  \A e \in Events, d1, d2 \in Deliveries :
    Holds(d1, e) /\ Holds(d2, e) => d1 = d2

(* A PROCESSED event stays PROCESSED, and no later delivery of it writes   *)
(* another order_received event or starts another run: a duplicate of a    *)
(* handled webhook has no effect, at whatever await it overtakes others.   *)
LeavesProcessedAlone ==
  \A e \in Events : row[e] = "PROCESSED" =>
    /\ row'[e] = "PROCESSED"
    /\ received'[e] = received[e]
    /\ runs'[e] = runs[e]

ProcessedIsFinal == [][LeavesProcessedAlone]_vars

(* PROCESSED is only written once everything the event asks for is done,   *)
(* by this request or by earlier ones: its run was started and, for an     *)
(* order, the order row and its order_received event exist.                *)
ProcessedIsComplete ==
  \A e \in Events : row[e] = "PROCESSED" =>
    /\ runs[e] > 0
    /\ endpoint[e] = "orders" => e \in order /\ received[e] > 0

(* What the provider will not send again is on record: a 2xx is answered   *)
(* only when the event's inbox row is committed.                           *)
AckedIsRecorded == \A e \in acked : row[e] # "absent"

(* A claim is always given back: no fault short of a restart leaves a      *)
(* request working on its event for ever.                                  *)
HeldIsReleased == \A e \in Events : Held(e) ~> ~Held(e)

(* The inbox implements the exclusive claim of its events.                 *)
Phase(e) ==
  IF row[e] = "absent" THEN "new"
  ELSE IF row[e] = "PROCESSED" THEN "done"
  ELSE IF row[e] = "FAILED" THEN "failed"
  ELSE IF ~Held(e) THEN "stranded"
  ELSE IF \E d \in Deliveries : Holds(d, e) /\ started[d] THEN "started"
  ELSE "claimed"

Claims == INSTANCE ExclusiveClaim WITH phase <- [e \in Events |-> Phase(e)]

ClaimSpec == Claims!Spec

(* Not kept (run inbox_stranded): an event that is no longer delivered     *)
(* because it was acknowledged has been settled or is being worked on.     *)
(* clerk-webhook.controller.ts wants a failed event "recovered" and "not   *)
(* silently swallowed forever because a row already exists".               *)
AckedIsSettled ==
  \A e \in acked : row[e] = "PROCESSING" => Held(e)

(* Not kept (run inbox_unretried): when the handler fails, the provider    *)
(* has not been told 2xx for the event, so that it "retries automatically" *)
(* (shopify-webhook.controller.spec.ts).                                   *)
FailedIsRetried ==
  [][\A d \in Deliveries : MarkFailed(d) => serving[d] \notin acked]_vars
=============================================================================
