------------------------- MODULE WebhookInboxProofs -------------------------
(***************************************************************************)
(* Proofs about WebhookInbox, for every set of events and of request       *)
(* slots and every bound on the deliveries.                                *)
(*                                                                         *)
(* OneWorker is not inductive by itself: a request could win `create'      *)
(* while another still works on the event.  What excludes it is that the   *)
(* row says PROCESSING for as long as anyone works (RowHeld).  The other   *)
(* conjuncts of IInv say how far a request has come and what is on record  *)
(* by then.                                                                *)
(***************************************************************************)
EXTENDS WebhookInbox, TLAPS

Busy(d) == pc[d] # "idle" => serving[d] \in Events

RowHeld ==
  \A d \in Deliveries : pc[d] \in Working => row[serving[d]] = "PROCESSING"

(* A request past the claim, or answering 2xx, has seen the row exist.     *)
Recorded ==
  \A d \in Deliveries :
    pc[d] \in Working \union {"reclaim", "ack"} => row[serving[d]] # "absent"

(* What is done for the event by the time its request is at an await.      *)
Progress ==
  \A d \in Deliveries :
    LET e == serving[d] IN
    /\ At(d, "order") => endpoint[e] = "orders"
    /\ At(d, "event") => endpoint[e] = "orders" /\ e \in order
    /\ pc[d] \in {"start", "settle"} /\ endpoint[e] = "orders" =>
         e \in order /\ received[e] > 0
    /\ At(d, "settle") => runs[e] > 0 /\ started[d]
    /\ pc[d] \in Before \union {"order", "event", "start", "reject"} =>
         ~started[d]

IInv ==
  /\ TypeOK
  /\ \A d \in Deliveries : Busy(d)
  /\ OneWorker
  /\ RowHeld
  /\ Recorded
  /\ Progress
  /\ ProcessedIsComplete
  /\ AckedIsRecorded
-----------------------------------------------------------------------------
LEMMA InitIInv == Init => IInv
BY InboxAssumption DEF Init, IInv, TypeOK, Busy, OneWorker, Holds, RowHeld,
   Recorded, Progress, ProcessedIsComplete, AckedIsRecorded, At, Endpoint,
   RowStatus, PC, Before, Working, Guarded

(* A won claim, by create or by reclaim, lets no second request work on    *)
(* the event: while one does, the row is PROCESSING (RowHeld), and neither *)
(* statement succeeds on such a row.                                       *)
LEMMA ClaimWon ==
  ASSUME IInv, NEW d \in Deliveries, pc[d] \in {"create", "reclaim"},
         row[serving[d]] \in {"absent", "FAILED"},
         SetRow(d, "PROCESSING"), Goto(d, WorkFor(d)),
         UNCHANGED <<order, received, runs, world, binding, provider>>
  PROVE  IInv'
<1> USE DEF IInv, SetRow, Goto, At, world, binding, provider
<1>1. PICK e \in Events : e = serving[d]
  BY DEF Busy, Working, Guarded
<1>2. /\ row' = [row EXCEPT ![e] = "PROCESSING"]
      /\ pc' = [pc EXCEPT ![d] = WorkFor(d)]
  BY <1>1
<1>3. WorkFor(d) \in {"order", "start", "reject"}
  BY DEF WorkFor
<1>4. \A d2 \in Deliveries : ~Holds(d2, e)
  BY <1>1 DEF RowHeld, Holds
<1>5. TypeOK' /\ \A d2 \in Deliveries : Busy(d2)'
  BY <1>1, <1>2, <1>3 DEF TypeOK, Busy, RowStatus, PC, Before, Working, Guarded
<1>6. OneWorker'
  BY <1>1, <1>2, <1>4 DEF TypeOK, OneWorker, Holds
<1>7. RowHeld' /\ Recorded' /\ ProcessedIsComplete' /\ AckedIsRecorded'
  BY <1>1, <1>2, <1>3 DEF TypeOK, RowHeld, Recorded, ProcessedIsComplete,
     AckedIsRecorded, Busy, Working, Guarded
<1>8. Progress'
  <2>1. ASSUME NEW d2 \in Deliveries, d2 # d PROVE pc'[d2] = pc[d2]
    BY <1>2, <2>1 DEF TypeOK
  <2>2. /\ pc'[d] = WorkFor(d)
        /\ ~started[d]
        /\ WorkFor(d) = "order" => endpoint[e] = "orders"
        /\ WorkFor(d) = "start" => endpoint[e] # "orders"
    BY <1>1, <1>2 DEF TypeOK, Progress, Before, WorkFor, Endpoint
  <2>. QED
    BY <1>1, <1>3, <2>1, <2>2 DEF Progress
<1>. QED
  BY <1>5, <1>6, <1>7, <1>8

(* One step per action; the first group moves one request d of one event,  *)
(* so every conjunct is a case on whether it speaks of d or of another.    *)
LEMMA StepIInv == IInv /\ [Next]_vars => IInv'
<1> SUFFICES ASSUME IInv, [Next]_vars PROVE IInv'
  OBVIOUS
<1> USE InboxAssumption DEF IInv, TypeOK, Busy, OneWorker, Holds, RowHeld,
     Recorded, Progress, ProcessedIsComplete, AckedIsRecorded, At, Goto, SetRow,
     Endpoint, RowStatus, PC, Before, Working, Guarded
<1>1. ASSUME NEW d \in Deliveries, Lookup(d) PROVE IInv'
  BY <1>1 DEF Lookup, WorkFor, world, db, binding, provider
<1>2. ASSUME NEW d \in Deliveries, CreateRow(d) PROVE IInv'
  <2>1. CASE row[serving[d]] = "absent"
    <3>. HIDE DEF IInv
    <3>. QED BY <1>2, <2>1, ClaimWon DEF CreateRow
  <2>2. CASE row[serving[d]] # "absent"
    <3>1. /\ pc[d] = "create" /\ pc' = [pc EXCEPT ![d] = "reclaim"]
          /\ UNCHANGED <<row, order, received, runs, endpoint, accepting>>
          /\ UNCHANGED <<serving, accepted, started, awaiting, sent, acked>>
      BY <1>2, <2>2 DEF CreateRow, world, binding, provider
    <3>2. TypeOK' /\ OneWorker' /\ RowHeld' /\ Recorded'
      BY <2>2, <3>1
    <3>. QED BY <3>1, <3>2
  <2>. QED BY <2>1, <2>2
<1>3. ASSUME NEW d \in Deliveries, Reclaim(d) PROVE IInv'
  <2>1. CASE row[serving[d]] = "FAILED"
    <3>. HIDE DEF IInv
    <3>. QED BY <1>3, <2>1, ClaimWon DEF Reclaim
  <2>2. CASE row[serving[d]] # "FAILED"
    BY <1>3, <2>2 DEF Reclaim, world, binding, provider
  <2>. QED BY <2>1, <2>2
<1>4. ASSUME NEW d \in Deliveries, Reject(d) PROVE IInv'
  BY <1>4 DEF Reject, WorkFor, world, db, binding, provider
<1>5. ASSUME NEW d \in Deliveries, UpsertOrder(d) PROVE IInv'
  BY <1>5 DEF UpsertOrder, WorkFor, world, db, binding, provider
<1>6. ASSUME NEW d \in Deliveries, WriteReceived(d) PROVE IInv'
  BY <1>6 DEF WriteReceived, WorkFor, world, db, binding, provider
<1>7. ASSUME NEW d \in Deliveries, StartRun(d) PROVE IInv'
  BY <1>7 DEF StartRun, WorkFor, world, db, binding, provider
<1>8. ASSUME NEW d \in Deliveries, Settle(d) PROVE IInv'
  BY <1>8 DEF Settle, WorkFor, world, db, binding, provider
<1>9. ASSUME NEW d \in Deliveries, MarkFailed(d) PROVE IInv'
  BY <1>9 DEF MarkFailed, WorkFor, world, db, binding, provider
<1>10. ASSUME NEW d \in Deliveries, Throw(d) PROVE IInv'
  BY <1>10 DEF Throw, WorkFor, world, db, binding, provider
<1>11. ASSUME NEW d \in Deliveries, Answer(d) PROVE IInv'
  BY <1>11 DEF Answer, WorkFor, world, db, binding, provider
<1>12. ASSUME NEW d \in Deliveries, NEW e \in Events, Deliver(d, e) PROVE IInv'
  BY <1>12 DEF Deliver, world, db
<1>13. ASSUME NEW e \in Events, GiveUpWaiting(e) PROVE IInv'
  BY <1>13 DEF GiveUpWaiting, world, db, request, binding
<1>14. CASE IntegrationChanges
  BY <1>14 DEF IntegrationChanges, db, request, binding, provider
<1>15. CASE Restart
  BY <1>15 DEF Restart, world, db
<1>16. CASE UNCHANGED vars
  BY <1>16 DEF vars, world, db, request, binding, provider
<1>17. QED
  BY <1>1, <1>2, <1>3, <1>4, <1>5, <1>6, <1>7, <1>8, <1>9, <1>10, <1>11, <1>12, <1>13, <1>14, <1>15, <1>16 DEF Next, Handle
-----------------------------------------------------------------------------
THEOREM Invariance == Spec => []IInv
BY InitIInv, StepIInv, PTL DEF Spec

(* Every variable keeps its type: in particular no event is ever left with *)
(* the schema's default status, and no count of deliveries passes the      *)
(* provider's bound.                                                       *)
THEOREM TypeCorrect == Spec => []TypeOK
<1>1. IInv => TypeOK
  BY DEF IInv
<1>. QED BY Invariance, <1>1, PTL

(* The claim works: never two requests in the handler of one event.        *)
THEOREM MutualExclusion == Spec => []OneWorker
<1>1. IInv => OneWorker
  BY DEF IInv
<1>. QED BY Invariance, <1>1, PTL

(* PROCESSED means that the work of the event is done.                     *)
THEOREM Completeness == Spec => []ProcessedIsComplete
<1>1. IInv => ProcessedIsComplete
  BY DEF IInv
<1>. QED BY Invariance, <1>1, PTL

(* A 2xx means that the event is on record.                                *)
THEOREM Acknowledgement == Spec => []AckedIsRecorded
<1>1. IInv => AckedIsRecorded
  BY DEF IInv
<1>. QED BY Invariance, <1>1, PTL

(* Duplicates of a processed event are without effect: nobody works on it  *)
(* (RowHeld), and neither create nor reclaim succeeds on its row.          *)
THEOREM Finality == Spec => ProcessedIsFinal
<1>1. IInv /\ [Next]_vars => [LeavesProcessedAlone]_vars
  <2> SUFFICES ASSUME IInv, Next, NEW e \in Events, row[e] = "PROCESSED"
               PROVE  /\ row'[e] = "PROCESSED"
                      /\ received'[e] = received[e]
                      /\ runs'[e] = runs[e]
    BY DEF LeavesProcessedAlone
  <2>1. ASSUME NEW d \in Deliveries, Handle(d)
        PROVE  /\ row'[e] = "PROCESSED"
               /\ received'[e] = received[e]
               /\ runs'[e] = runs[e]
    <3>1. TypeOK /\ (pc[d] \in Working => serving[d] # e)
      BY DEF IInv, RowHeld
    <3>2. CASE Lookup(d) \/ CreateRow(d) \/ Reclaim(d) \/ Reject(d)
      BY <3>1, <3>2 DEF Lookup, CreateRow, Reclaim, Reject, TypeOK, db, SetRow, At,
         Working
    <3>3. CASE UpsertOrder(d) \/ WriteReceived(d) \/ StartRun(d) \/ Settle(d)
      BY <3>1, <3>3 DEF UpsertOrder, WriteReceived, StartRun, Settle, TypeOK, db,
         SetRow, At, Working, Guarded
    <3>4. CASE MarkFailed(d) \/ Throw(d) \/ Answer(d)
      BY <3>1, <3>4 DEF MarkFailed, Throw, Answer, TypeOK, db, SetRow, At, Working
    <3>. QED BY <2>1, <3>2, <3>3, <3>4 DEF Handle
  <2>2. ASSUME ~\E d \in Deliveries : Handle(d)
        PROVE  UNCHANGED <<db, runs>>
    BY <2>2 DEF Next, Deliver, GiveUpWaiting, IntegrationChanges, Restart
  <2>. QED BY <2>1, <2>2 DEF db
<1>. QED BY Invariance, <1>1, PTL DEF Spec, ProcessedIsFinal
-----------------------------------------------------------------------------
(* The refinement.  What a step of request d does to the abstract phase of *)
(* the events it does not serve, and the phase of an event that is held.   *)

Aside(d) ==
  \A d2 \in Deliveries \ {d} :
    pc'[d2] = pc[d2] /\ serving'[d2] = serving[d2] /\ started'[d2] = started[d2]

LEMMA OthersKept ==
  ASSUME NEW d \in Deliveries, NEW e \in Events, Aside(d),
         serving[d] = e \/ ~(pc[d] \in Working),
         serving'[d] = e \/ ~(pc'[d] \in Working),
         NEW f \in Events, f # e, row'[f] = row[f]
  PROVE  Phase(f)' = Phase(f)
<1>1. \A d2 \in Deliveries : Holds(d2, f)' <=> Holds(d2, f)
  BY DEF Aside, Holds
<1>2. \A d2 \in Deliveries : Holds(d2, f) => started'[d2] = started[d2]
  BY DEF Aside, Holds
<1>3. Held(f)' <=> Held(f)
  BY <1>1 DEF Held
<1>4. (\E d2 \in Deliveries : Holds(d2, f) /\ started[d2])'
        <=> \E d2 \in Deliveries : Holds(d2, f) /\ started[d2]
  BY <1>1, <1>2
<1>. QED BY <1>3, <1>4 DEF Phase

(* What a row and its holder say of the phase; used before and, primed,    *)
(* after a step.                                                           *)
HolderTells ==
  \A d \in Deliveries, e \in Events :
    Holds(d, e) => Phase(e) = IF started[d] THEN "started" ELSE "claimed"

RowTells ==
  \A e \in Events :
    /\ row[e] = "absent" => Phase(e) = "new"
    /\ row[e] = "FAILED" => Phase(e) = "failed"
    /\ row[e] = "PROCESSED" => Phase(e) = "done"
    /\ row[e] = "PROCESSING" /\ ~Held(e) => Phase(e) = "stranded"

LEMMA PhaseHeld == IInv => HolderTells
<1> SUFFICES ASSUME IInv, NEW d \in Deliveries, NEW e \in Events, Holds(d, e)
             PROVE  Phase(e) = IF started[d] THEN "started" ELSE "claimed"
  BY DEF HolderTells
<1>1. row[e] = "PROCESSING" /\ Held(e)
  BY DEF IInv, RowHeld, Holds, Held
<1>2. \A d2 \in Deliveries : Holds(d2, e) => d2 = d
  BY DEF IInv, OneWorker
<1>. QED BY <1>1, <1>2 DEF Phase

LEMMA PhaseFree == RowTells
BY DEF RowTells, Phase

AbsPhase == [e \in Events |-> Phase(e)]

(* A step that changes the phase of one event from a to b.                 *)
LEMMA OnePhase ==
  ASSUME NEW e \in Events, \A f \in Events \ {e} : Phase(f)' = Phase(f)
  PROVE  AbsPhase' = [AbsPhase EXCEPT ![e] = Phase(e)']
BY DEF AbsPhase

LEMMA InitRefines == Init => Claims!Init
BY DEF Init, Claims!Init, Phase

(* A step that changes no row, no holder and no started flag of a holder.  *)
LEMMA Quiet ==
  ASSUME NEW d \in Deliveries, Aside(d), row' = row, runs' = runs,
         pc'[d] \in Working <=> pc[d] \in Working,
         pc[d] \in Working => serving'[d] = serving[d] /\ started'[d] = started[d]
  PROVE  UNCHANGED <<AbsPhase, runs>>
<1>1. \A d2 \in Deliveries : (pc'[d2] \in Working <=> pc[d2] \in Working)
        /\ (pc[d2] \in Working =>
              serving'[d2] = serving[d2] /\ started'[d2] = started[d2])
  BY DEF Aside
<1>2. ASSUME NEW e \in Events PROVE Phase(e)' = Phase(e)
  <2>1. \A d2 \in Deliveries : (Holds(d2, e)' <=> Holds(d2, e))
          /\ (Holds(d2, e) => started'[d2] = started[d2])
    BY <1>1 DEF Holds
  <2>2. /\ Held(e)' <=> Held(e)
        /\ (\E d2 \in Deliveries : Holds(d2, e) /\ started[d2])'
             <=> \E d2 \in Deliveries : Holds(d2, e) /\ started[d2]
    BY <2>1 DEF Held
  <2>. QED BY <2>2 DEF Phase
<1>. QED BY <1>2 DEF AbsPhase

(* Every step of the inbox is a step of the exclusive claim, or stutters.  *)
LEMMA StepRefines ==
  IInv /\ IInv' /\ [Next]_vars => [Claims!Next]_(Claims!claimVars)
<1> SUFFICES ASSUME IInv, IInv', [Next]_vars
             PROVE  Claims!Next \/ UNCHANGED <<AbsPhase, runs>>
  BY DEF AbsPhase, Claims!claimVars
<1>0. HolderTells /\ HolderTells' /\ RowTells /\ RowTells'
  BY PhaseHeld, PhaseFree, PTL
<1>1. ASSUME NEW d \in Deliveries, Handle(d) \/ \E e \in Events : Deliver(d, e)
      PROVE  Aside(d)
  BY <1>1 DEF Handle, Deliver, Lookup, CreateRow, Reclaim, Reject, UpsertOrder,
     WriteReceived, StartRun, Settle, MarkFailed, Throw, Answer, Aside, Goto,
     binding, IInv, TypeOK
<1>2. ASSUME NEW d \in Deliveries, Handle(d)
      PROVE  /\ pc[d] \in PC \ {"idle"} /\ serving[d] \in Events
             /\ \A f \in Events \ {serving[d]} : row'[f] = row[f]
             /\ serving'[d] = serving[d] \/ ~(pc'[d] \in Working)
  BY <1>2 DEF Handle, Lookup, CreateRow, Reclaim, Reject, UpsertOrder,
     WriteReceived, StartRun, Settle, MarkFailed, Throw, Answer, Goto, SetRow, At,
     binding, db, IInv, TypeOK, Busy, Working, Guarded, PC, Before
<1>3. ASSUME NEW d \in Deliveries, Handle(d), NEW e \in Events, serving[d] = e
      PROVE  AbsPhase' = [AbsPhase EXCEPT ![e] = Phase(e)']
  <2>1. Aside(d)
    BY <1>1, <1>3
  <2>2. /\ \A f \in Events \ {e} : row'[f] = row[f]
        /\ serving'[d] = e \/ ~(pc'[d] \in Working)
    BY <1>2, <1>3
  <2>3. ASSUME NEW f \in Events \ {e} PROVE Phase(f)' = Phase(f)
    BY <1>3, <2>1, <2>2, OthersKept
  <2>. QED BY <2>3, OnePhase
<1>4. ASSUME NEW d \in Deliveries,
             Lookup(d) \/ UpsertOrder(d) \/ WriteReceived(d) \/ Answer(d)
               \/ \E e \in Events : Deliver(d, e)
      PROVE  UNCHANGED <<AbsPhase, runs>>
  <2>1. Aside(d)
    BY <1>1, <1>4 DEF Handle
  <2>2. /\ row' = row /\ runs' = runs
        /\ pc'[d] \in Working <=> pc[d] \in Working
        /\ pc[d] \in Working =>
             serving'[d] = serving[d] /\ started'[d] = started[d]
    BY <1>4 DEF Lookup, UpsertOrder, WriteReceived, Answer, Deliver, db, binding, At,
       Goto, Working, Guarded, IInv, TypeOK
  <2>. QED BY <2>1, <2>2, Quiet
<1>5. ASSUME NEW d \in Deliveries, CreateRow(d) \/ Reclaim(d)
      PROVE  Claims!Next \/ UNCHANGED <<AbsPhase, runs>>
  <2>1. PICK e \in Events : e = serving[d]
    BY <1>2, <1>5 DEF Handle
  <2>2. Aside(d) /\ runs' = runs /\ serving' = serving /\ started' = started
    BY <1>1, <1>5 DEF Handle, CreateRow, Reclaim, binding
  <2>3. CASE row'[e] = "PROCESSING" /\ row[e] \in {"absent", "FAILED"}
    <3>1. Holds(d, e)' /\ ~started'[d]
      BY <1>5, <2>1, <2>2, <2>3 DEF CreateRow, Reclaim, SetRow, Goto, WorkFor, Holds,
         At, IInv, TypeOK, Progress, Before, Working, Guarded
    <3>2. Phase(e)' = "claimed"
      BY <1>0, <3>1 DEF HolderTells
    <3>3. Phase(e) \in {"new", "failed"}
      BY <1>0, <2>3 DEF RowTells
    <3>. QED BY <1>3, <1>5, <2>1, <2>2, <3>2, <3>3
             DEF Handle, Claims!Next, Claims!Claim, Claims!Become, AbsPhase
  <2>4. CASE ~(row'[e] = "PROCESSING" /\ row[e] \in {"absent", "FAILED"})
    <3>1. row' = row /\ ~(pc[d] \in Working) /\ ~(pc'[d] \in Working)
      BY <1>5, <2>1, <2>4 DEF CreateRow, Reclaim, SetRow, Goto, At, IInv, TypeOK,
         Working, Guarded
    <3>. QED BY <2>2, <3>1, Quiet
  <2>. QED BY <2>3, <2>4
<1>6. ASSUME NEW d \in Deliveries, Reject(d) \/ Settle(d) \/ MarkFailed(d)
      PROVE  Claims!Next
  <2>1. PICK e \in Events : e = serving[d]
    BY <1>2, <1>6 DEF Handle
  <2>2. Holds(d, e) /\ runs' = runs
    BY <1>6, <2>1 DEF Reject, Settle, MarkFailed, Holds, At, Working, Guarded
  <2>3. AbsPhase' = [AbsPhase EXCEPT ![e] = Phase(e)']
    BY <1>3, <1>6, <2>1 DEF Handle
  <2>4. CASE Settle(d)
    <3>1. Phase(e) = "started"
      BY <1>0, <2>1, <2>2, <2>4 DEF HolderTells, Settle, At, IInv, Progress
    <3>2. Phase(e)' = "done"
      BY <1>0, <2>1, <2>4 DEF RowTells, Settle, SetRow, IInv, TypeOK
    <3>. QED BY <2>2, <2>3, <3>1, <3>2
             DEF Claims!Next, Claims!Complete, Claims!Become, AbsPhase
  <2>5. CASE Reject(d) \/ MarkFailed(d)
    <3>1. Phase(e) \in {"claimed", "started"}
      BY <1>0, <2>2 DEF HolderTells
    <3>2. Phase(e)' = "failed"
      BY <1>0, <2>1, <2>5 DEF RowTells, Reject, MarkFailed, SetRow, IInv, TypeOK
    <3>. QED BY <2>2, <2>3, <3>1, <3>2
             DEF Claims!Next, Claims!GiveUp, Claims!Become, AbsPhase
  <2>. QED BY <1>6, <2>4, <2>5
<1>7. ASSUME NEW d \in Deliveries, StartRun(d)
      PROVE  Claims!Next
  <2>1. PICK e \in Events : e = serving[d]
    BY <1>2, <1>7 DEF Handle
  <2>2. /\ Holds(d, e) /\ ~started[d]
        /\ Holds(d, e)' /\ started'[d]
    BY <1>7, <2>1 DEF StartRun, Holds, At, Goto, Working, Guarded, IInv, TypeOK,
       Progress
  <2>3. Phase(e) = "claimed" /\ Phase(e)' = "started"
    BY <1>0, <2>2 DEF HolderTells
  <2>4. runs' = [runs EXCEPT ![e] = @ + 1]
    BY <1>7, <2>1 DEF StartRun
  <2>. QED BY <1>3, <1>7, <2>1, <2>3, <2>4
           DEF Handle, Claims!Next, Claims!Start, Claims!Become, AbsPhase
<1>8. ASSUME NEW d \in Deliveries, Throw(d)
      PROVE  Claims!Next \/ UNCHANGED <<AbsPhase, runs>>
  <2>1. PICK e \in Events : e = serving[d]
    BY <1>2, <1>8 DEF Handle
  <2>2. /\ Aside(d) /\ row' = row /\ runs' = runs
        /\ serving' = serving /\ started' = started
    BY <1>1, <1>8 DEF Handle, Throw, db, binding
  <2>3. CASE pc[d] \in {"reject", "fail"}
    <3>1. Holds(d, e) /\ ~(pc'[d] \in Working)
      BY <1>8, <2>1, <2>3 DEF Throw, Goto, Holds, Working, Guarded, IInv, TypeOK
    <3>2. Phase(e) \in {"claimed", "started"} /\ row'[e] = "PROCESSING"
      BY <1>0, <2>2, <3>1 DEF HolderTells, IInv, RowHeld, Holds
    <3>3. ~Held(e)'
      BY <2>2, <3>1 DEF Held, Holds, IInv, OneWorker, Aside
    <3>4. Phase(e)' = "stranded"
      BY <1>0, <3>2, <3>3 DEF RowTells
    <3>5. AbsPhase' = [f \in Events |-> IF f \in {e} THEN "stranded" ELSE AbsPhase[f]]
      BY <1>3, <1>8, <2>1, <3>4 DEF Handle, AbsPhase
    <3>6. \A f \in {e} : AbsPhase[f] \in {"claimed", "started"}
      BY <3>2 DEF AbsPhase
    <3>. QED BY <2>2, <3>5, <3>6 DEF Claims!Next, Claims!Strand, AbsPhase
  <2>4. CASE ~(pc[d] \in {"reject", "fail"})
    <3>1. pc'[d] \in Working <=> pc[d] \in Working
      BY <1>8, <2>4 DEF Throw, Goto, Working, Guarded, IInv, TypeOK
    <3>. QED BY <2>2, <3>1, Quiet
  <2>. QED BY <2>3, <2>4
<1>9. ASSUME Restart
      PROVE  Claims!Next
  <2> DEFINE S == {e \in Events : Held(e)}
  <2>1. \A e \in Events : row' = row /\ runs' = runs /\ ~Held(e)'
    BY <1>9 DEF Restart, Held, Holds, Working, Guarded, db
  <2>2. \A e \in S : Phase(e) \in {"claimed", "started"} /\ row[e] = "PROCESSING"
    BY <1>0 DEF HolderTells, Held, Holds, IInv, RowHeld
  <2>3. ASSUME NEW e \in Events
        PROVE  Phase(e)' = IF e \in S THEN "stranded" ELSE Phase(e)
    <3>1. CASE e \in S
      BY <1>0, <2>1, <2>2, <3>1 DEF RowTells
    <3>2. CASE e \notin S
      BY <2>1, <3>2 DEF Phase
    <3>. QED BY <3>1, <3>2
  <2>4. AbsPhase' = [e \in Events |-> IF e \in S THEN "stranded" ELSE AbsPhase[e]]
    BY <2>3 DEF AbsPhase
  <2>5. S \in SUBSET Events /\ \A e \in S : AbsPhase[e] \in {"claimed", "started"}
    BY <2>2 DEF AbsPhase
  <2>6. runs' = runs
    BY <1>9 DEF Restart
  <2>. HIDE DEF S
  <2>. QED BY <2>4, <2>5, <2>6 DEF Claims!Next, Claims!Strand, AbsPhase
<1>10. ASSUME \/ IntegrationChanges
              \/ \E e \in Events : GiveUpWaiting(e)
              \/ UNCHANGED vars
       PROVE  UNCHANGED <<AbsPhase, runs>>
  <2>1. UNCHANGED <<row, runs, pc, serving, started>>
    BY <1>10 DEF IntegrationChanges, GiveUpWaiting, vars, db, request, binding
  <2>2. ASSUME NEW e \in Events PROVE Phase(e)' = Phase(e)
    BY <2>1 DEF Phase, Held, Holds
  <2>. QED BY <2>1, <2>2 DEF AbsPhase
<1>. QED
  BY <1>4, <1>5, <1>6, <1>7, <1>8, <1>9, <1>10 DEF Next, Handle

(* The inbox keeps the promise of the exclusive claim: whatever is         *)
(* delivered, retried or duplicated, one claim at a time, at most one run  *)
(* per claim, and a done or stranded event is never claimed again.         *)
THEOREM Refinement == Spec => ClaimSpec
BY Invariance, InitRefines, StepRefines, PTL DEF Spec, ClaimSpec, Claims!Spec
=============================================================================
