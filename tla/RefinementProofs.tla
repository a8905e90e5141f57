-------------------------- MODULE RefinementProofs --------------------------
(* Publication implements Delivery, for every value of the constants, while *)
(* locks are lost only with their process and the older retry route is      *)
(* unused; and what Delivery therefore promises.                            *)
EXTENDS PublicationRefinement, PublicationProofs

LEMMA InitMaps == ASSUME Init PROVE D!DeliveryInit
  <1>1. PICK origin \in Origins : pub = FreshPublication(origin)
    BY DEF Init
  <1>2. Len(posts) = 0
    BY DEF Init
  <1> QED
    BY <1>1, <1>2 DEF D!DeliveryInit, Stage, FreshPublication

\* A step of an executor is a step of Delivery or none.
LEMMA ExecutorMaps ==
  ASSUME TypeOK, IInv, NEW w \in Executors, Step(w)
  PROVE  [D!DeliveryNext]_(D!deliveryVars)
  <1> USE DEF rows, execs, world, budget, Stage, D!DeliveryNext, D!deliveryVars, D!Move
  <1>0. /\ pub \in Publications /\ ctx[w] \in Contexts /\ posts \in Seq(Revisions)
        /\ RowUnder(w) /\ Accountable /\ Accountable'
    BY StepRow DEF TypeOK, IInv
  <1>a. posts = <<>> <=> Len(posts) = 0
    BY <1>0
  <1>1. CASE UNCHANGED <<pub, posts>>
    BY <1>1
  <1>2. CASE HoldUnknown(w)
    BY <1>0, <1>2 DEF HoldUnknown, Publications, RowUnder, Accountable, D!LoseTrack
  <1>3. CASE Requeue(w)
    BY <1>0, <1>3 DEF Requeue, Publications, RowUnder, Accountable
  <1>4. CASE Claim(w)
    BY <1>0, <1>4 DEF Claim, Claimable, Publications, RowUnder, Accountable
  <1>5. CASE MarkSend(w)
    BY <1>0, <1>5 DEF MarkSend, Publications, RowUnder, Accountable, D!Depart
  <1>6. CASE Send(w)
    <2>1. /\ Stage = "inFlight" /\ Stage' = "inFlight" /\ Len(posts) = 0
      BY <1>0, <1>6, <1>a DEF Send, RowUnder, Accountable
    <2>2. Len(Append(posts, ctx[w].revision)) = Len(posts) + 1
      BY <1>0 DEF Contexts
    <2> HIDE DEF Stage
    <2>3. Len(posts') = Len(posts) \/ Len(posts') = 1
      BY <1>6, <2>1, <2>2 DEF Send
    <2> QED
      BY <2>1, <2>3 DEF D!Arrive
  <1>7. CASE Confirm(w) /\ pub' # pub
    BY <1>0, <1>7 DEF Confirm, Publications, RowUnder, Accountable, D!Confirmed
  <1>8. CASE ErrPublication(w)
    <2>1. /\ ctx[w].result \in {"failed", "unknown", "confirmed"}
          /\ pub.status = "publishing" /\ ~pub.externalId /\ ~pub.unknown
          /\ ctx[w].result = "failed" => posts = <<>>
          /\ ctx[w].result = "confirmed" => Len(posts) = 1
          /\ ctx[w].result \in {"unknown", "confirmed"} => pub.sendStarted
          /\ UNCHANGED posts
      BY <1>0, <1>8 DEF ErrPublication, RowUnder, Accountable, Contexts, Results
    <2>2. pub' = [pub EXCEPT
            !.status = IF ctx[w].result = "confirmed" THEN "published"
                       ELSE IF FinalAttempt(w) THEN "failed" ELSE "queued",
            !.sendStarted = @ /\ ctx[w].result # "failed",
            !.externalId = @ \/ ctx[w].result = "confirmed",
            !.unknown = (ctx[w].result = "unknown")]
      BY <1>8 DEF ErrPublication
    <2>3. /\ pub'.externalId = (ctx[w].result = "confirmed")
          /\ pub'.unknown = (ctx[w].result = "unknown")
          /\ pub'.status \in {"published", "failed", "queued"}
      BY <1>0, <2>1, <2>2 DEF Publications
    <2>4. Stage \in {"inFlight", "released"} /\ (pub.sendStarted => Stage = "inFlight")
      BY <2>1
    <2>5. CASE ctx[w].result = "confirmed"
      BY <2>1, <2>3, <2>4, <2>5 DEF D!Confirmed
    <2>6. CASE ctx[w].result = "unknown"
      BY <2>1, <2>3, <2>4, <2>6 DEF D!LoseTrack
    <2>7. CASE ctx[w].result = "failed"
      <3>1. Stage' \in {"released", "withheld"}
        BY <2>3, <2>7
      <3> QED
        BY <2>1, <2>4, <2>7, <1>a, <3>1 DEF D!Refuse, D!Decide
    <2> QED
      BY <2>1, <2>5, <2>6, <2>7
  <1>9. ~Repair(w)
    BY <1>0 DEF Repair, RowUnder
  <1> QED
    BY <1>1, <1>2, <1>3, <1>4, <1>5, <1>6, <1>7, <1>8, <1>9 DEF Step, Lock, Read, ReadVariant,
       Prepare, AssertOwned, Confirm, ErrVariant, ErrSchedule, Release

\* A calendar mutation decides, or clears an unclear item whose destination
\* has nothing.
LEMMA MutateMaps ==
  ASSUME TypeOK, IInv, NEW a \in CalendarActions, NEW checked \in BOOLEAN, Mutate(a, checked)
  PROVE  [D!DeliveryNext]_(D!deliveryVars)
  <1>0. pub \in Publications /\ Accountable /\ posts \in Seq(Revisions)
    BY DEF TypeOK, IInv
  <1>1. /\ pub.status \notin {"publishing", "published"} /\ ~pub.externalId
        /\ UNCHANGED posts /\ (checked => Len(posts) = 0)
    BY <1>0 DEF Mutate, ActionAllowed, Movable, RawStatus, Accountable
  <1>2. CASE UNCHANGED pub
    BY <1>1, <1>2 DEF Stage, D!deliveryVars
  <1>3. CASE /\ pub'.externalId = pub.externalId
             /\ pub'.unknown = (pub.unknown /\ ~checked)
             /\ pub'.status \in {"queued", "cancelled"}
    <2>1. CASE pub.unknown /\ checked
      BY <1>1, <1>3, <2>1 DEF Stage, D!DeliveryNext, D!Clear, D!Move
    <2>2. CASE pub.unknown /\ ~checked
      BY <1>1, <1>3, <2>2 DEF Stage, D!deliveryVars
    <2>3. CASE ~pub.unknown
      BY <1>0, <1>1, <1>3, <2>3 DEF Stage, Publications, D!DeliveryNext, D!Decide, D!Move
    <2> QED
      BY <1>0, <2>1, <2>2, <2>3 DEF Publications
  <1> QED
    BY <1>0, <1>2, <1>3 DEF Mutate, Publications

\* Every step is a step of Delivery or none.
LEMMA NextMaps ==
  ASSUME ConstantsAssumption, Exclusive, TypeOK, IInv, [Next]_vars
  PROVE  [D!DeliveryNext]_(D!deliveryVars)
  <1> USE DEF rows, execs, world, budget
  <1>0. pub \in Publications
    BY DEF TypeOK
  <1>1. ASSUME UNCHANGED <<pub, posts>> PROVE UNCHANGED D!deliveryVars
    BY <1>1 DEF Stage, D!deliveryVars
  <1>2. CASE Tick \/ Reconcile \/ UNCHANGED vars
    BY <1>1, <1>2 DEF Tick, Reconcile, RecoverySelect, RecoveryAdd, Stalled, vars
  <1>3. CASE Fault
    BY <1>1, <1>3 DEF Fault, Crash, DropLock, StallLive
  <1>4. CASE Worker
    BY <1>1, <1>4, ExecutorMaps DEF Worker, StartRecover, StartJob
  <1>5. ASSUME /\ pub.status = "queued" /\ UNCHANGED posts
               /\ pub'.externalId = pub.externalId /\ pub'.unknown = pub.unknown
               /\ pub'.status \in {"failed", "cancelled"}
        PROVE  [D!DeliveryNext]_(D!deliveryVars)
    BY <1>5 DEF Stage, D!DeliveryNext, D!Decide, D!Move, D!deliveryVars
  <1>6. CASE User
    <2>1. CASE CancelRoute
      BY <1>0, <1>5, <2>1 DEF CancelRoute, Publications
    <2>2. ~RetryRoute
      BY DEF Exclusive, RetryRoute
    <2> QED
      BY <1>1, <1>6, <2>1, <2>2, MutateMaps DEF User, PatchVariant, SubmitCheck, RequestChanges
  <1>7. CASE Api
    <2>1. ASSUME NEW v \in Versions, EnqueueFails(v) PROVE [D!DeliveryNext]_(D!deliveryVars)
      <3>1. ~(pub.unknown /\ pub.status = "queued")
        BY DEF IInv, Accountable
      <3> QED
        BY <1>0, <1>1, <1>5, <2>1, <3>1 DEF EnqueueFails, Publications
    <2> QED
      BY <1>1, <1>7, <2>1 DEF Api, Enqueue, EnqueueLost, SubmitInsert, SubmitUpdate
  <1> QED
    BY <1>2, <1>3, <1>4, <1>6, <1>7 DEF Next

\* The rows, jobs and executors implement the abstract delivery.
THEOREM Implements == ASSUME Exclusive PROVE Spec => ImplementsDelivery
  <1>1. Init => D!DeliveryInit
    BY InitMaps
  <1>2. TypeOK /\ IInv /\ [Next]_vars => [D!DeliveryNext]_(D!deliveryVars)
    BY NextMaps, ConstantsAssumption
  <1> QED
    BY <1>1, <1>2, TypeCorrect, Inductive, PTL DEF Spec, ImplementsDelivery, D!DeliverySpec

\* What Delivery promises holds of the rows: at most one copy, and none
\* behind an item that may still be sent.
THEOREM NoHiddenCopy == ASSUME Exclusive PROVE Spec => []D!AtMostOneCopy
  <1>1. D!DeliveryInit => D!AtMostOneCopy
    BY DEF D!DeliveryInit, D!AtMostOneCopy, D!Stages
  <1>2. D!AtMostOneCopy /\ [D!DeliveryNext]_(D!deliveryVars) => D!AtMostOneCopy'
    <2> HIDE DEF Stage
    <2> SUFFICES ASSUME D!AtMostOneCopy, [D!DeliveryNext]_(D!deliveryVars)
                 PROVE  D!AtMostOneCopy'
      OBVIOUS
    <2> QED
      BY DEF D!AtMostOneCopy, D!Stages, D!DeliveryNext, D!deliveryVars, D!Move, D!Decide, D!Depart,
         D!Arrive, D!Refuse, D!Confirmed, D!LoseTrack, D!Clear
  <1> QED
    BY <1>1, <1>2, Implements, PTL DEF ImplementsDelivery, D!DeliverySpec
=============================================================================
