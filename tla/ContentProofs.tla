----------------------------- MODULE ContentProofs -----------------------------
(* Theorems about Publication, continued: nothing is sent before its time,  *)
(* the content under an executor stands still, a published row shows what    *)
(* was delivered, and only approved content is delivered while edits wait.   *)
(* They rest on IInv of PublicationProofs.                                   *)
EXTENDS PublicationProofs

-----------------------------------------------------------------------------
(* What the steps leave alone.                                              *)

\* An executor at work changes no version, no date and no content, and of
\* the local variables only its own.
LEMMA StepKeeps ==
  ASSUME TypeOK, NEW w \in Executors, Step(w)
  PROVE  /\ pc[w] # "idle" /\ pc'[w] # "lock"
         /\ pub'.queueVersion = pub.queueVersion
         /\ sched'.when = sched.when
         /\ variant'.revision = variant.revision
         /\ UNCHANGED <<pending, recovering, submitting>>
         /\ \A u \in Executors : u # w => pc'[u] = pc[u] /\ ctx'[u] = ctx[u]
         /\ pc'[w] = "idle" \/ ctx'[w].version = ctx[w].version
  <1>0. /\ pub \in Publications /\ variant \in Variants /\ sched \in Schedules
        /\ pc \in [Executors -> PCs] /\ ctx \in [Executors -> Contexts] /\ ctx[w] \in Contexts
    BY DEF TypeOK
  <1> USE DEF rows, execs, Goto, Finish, SettleSchedule
  <1>1. CASE Lock(w)
    BY <1>0, <1>1 DEF Lock, Contexts
  <1>2. CASE Read(w)
    BY <1>0, <1>2 DEF Read, Decision, Contexts
  <1>3. CASE Repair(w)
    BY <1>0, <1>3 DEF Repair, Contexts, Publications, Variants, Schedules
  <1>4. CASE HoldUnknown(w)
    BY <1>0, <1>4 DEF HoldUnknown, Contexts, Publications, Variants, Schedules
  <1>5. CASE Requeue(w)
    BY <1>0, <1>5 DEF Requeue, Publications
  <1>6. CASE ReadVariant(w)
    BY <1>0, <1>6 DEF ReadVariant, Contexts
  <1>7. CASE Claim(w)
    <2>1. CASE Claimable(w)
      BY <1>0, <1>7, <2>1 DEF Claim, Publications
    <2>2. CASE ~Claimable(w)
      BY <1>0, <1>7, <2>2 DEF Claim, Contexts
    <2> QED
      BY <2>1, <2>2
  <1>8. CASE Prepare(w)
    BY <1>0, <1>8 DEF Prepare, Contexts
  <1>9. CASE MarkSend(w)
    BY <1>0, <1>9 DEF MarkSend, Publications
  <1>10. CASE AssertOwned(w)
    BY <1>0, <1>10 DEF AssertOwned, Contexts
  <1>11. CASE Send(w)
    BY <1>0, <1>11 DEF Send, Contexts
  <1>12. CASE Confirm(w)
    <2>1. /\ pub'.queueVersion = pub.queueVersion /\ variant'.revision = variant.revision
          /\ sched'.when = sched.when
      BY <1>0, <1>12 DEF Confirm, Publications, Variants, Schedules
    <2> QED
      BY <1>0, <1>12, <2>1 DEF Confirm, Contexts
  <1>13. CASE ErrPublication(w)
    BY <1>0, <1>13 DEF ErrPublication, Contexts, Publications
  <1>14. CASE ErrVariant(w)
    BY <1>0, <1>14 DEF ErrVariant, Variants
  <1>15. CASE ErrSchedule(w)
    BY <1>0, <1>15 DEF ErrSchedule, Contexts, Schedules
  <1>16. CASE Release(w)
    BY <1>0, <1>16 DEF Release
  <1> QED
    BY <1>1, <1>2, <1>3, <1>4, <1>5, <1>6, <1>7, <1>8, <1>9, <1>10, <1>11, <1>12, <1>13,
       <1>14, <1>15, <1>16 DEF Step

\* A calendar mutation is refused while an executor owns the row, and after
\* a receipt; it takes a new version unless there is no row yet.
LEMMA MutateMoves ==
  ASSUME TypeOK, IInv, NEW a \in CalendarActions, NEW checked \in BOOLEAN, Mutate(a, checked)
  PROVE  /\ pub.status \notin {"publishing", "published"} /\ ~pub'.externalId
         /\ pub'.status \in {"none", "queued", "cancelled"}
         /\ \/ UNCHANGED <<pub, jobs, pending>> /\ pub.status = "none"
               /\ sched'.when \in {"none", sched.when}
            \/ /\ pub'.queueVersion = pub.queueVersion + 1
               /\ pending' \subseteq pending \cup {pub.queueVersion + 1}
               /\ jobs' \in {jobs, [jobs EXCEPT ![pub.queueVersion] = NoJob]}
         /\ UNCHANGED <<execs, recovering, submitting, posts>>
  <1>0. pub \in Publications /\ variant \in Variants /\ sched \in Schedules /\ Accountable
    BY DEF TypeOK, IInv
  <1>1. pub.status \notin {"publishing", "published"}
    BY <1>0 DEF Mutate, ActionAllowed, Movable, RawStatus, Accountable
  <1>2. ~pub.externalId
    BY <1>0, <1>1 DEF Accountable
  <1>3. CASE pub.status = "none" /\ DateAfter(a) = "none" /\ ~Stops(a)
    <2>1. UNCHANGED <<pub, jobs, pending>>
      BY <1>3 DEF Mutate
    <2>2. sched'.when \in {"none", sched.when}
      BY <1>0, <1>3 DEF Mutate, ScheduleAfter, Schedules
    <2> QED
      BY <1>1, <1>2, <1>3, <2>1, <2>2 DEF Mutate
  <1>4. CASE ~(pub.status = "none" /\ DateAfter(a) = "none" /\ ~Stops(a))
    <2>1. pub' = [pub EXCEPT !.queueVersion = pub.queueVersion + 1,
                             !.status = IF Queues(a) THEN "queued" ELSE "cancelled",
                             !.unknown = @ /\ ~checked]
      BY <1>4 DEF Mutate
    <2>2. /\ pub'.queueVersion = pub.queueVersion + 1 /\ pub'.externalId = pub.externalId
          /\ pub'.status \in {"queued", "cancelled"}
      BY <1>0, <2>1 DEF Publications
    <2>3. /\ pending' \subseteq pending \cup {pub.queueVersion + 1}
          /\ jobs' \in {jobs, [jobs EXCEPT ![pub.queueVersion] = NoJob]}
      BY <1>4 DEF Mutate
    <2> QED
      BY <1>1, <1>2, <2>2, <2>3 DEF Mutate
  <1> QED
    BY <1>3, <1>4

\* Versions are numbers.
LEMMA VersionNumbers ==
  ASSUME TypeOK
  PROVE  /\ MaxVersion \in Nat /\ Versions \subseteq Int /\ pub.queueVersion \in Versions
         /\ \A w \in Executors : ctx[w].version \in Versions
         /\ recovering # NoOne => recovering \in Versions
         /\ pending \subseteq Versions
  BY ConstantsAssumption DEF TypeOK, Versions, Publications, Contexts

-----------------------------------------------------------------------------
(* Versions fence.                                                          *)

LEMMA VersionedStep ==
  ASSUME TypeOK, Versioned, NEW w \in Executors, Step(w)
  PROVE  Versioned'
  <1>0. /\ pub \in Publications /\ jobs \in [Versions -> Jobs]
        /\ pc \in [Executors -> PCs] /\ ctx \in [Executors -> Contexts]
        /\ NoOne \notin Executors
    BY ConstantsAssumption DEF TypeOK
  <1>1. /\ pc[w] # "idle" /\ pub'.queueVersion = pub.queueVersion /\ sched'.when = sched.when
        /\ UNCHANGED <<pending, recovering>>
        /\ \A u \in Executors : u # w => pc'[u] = pc[u] /\ ctx'[u] = ctx[u]
        /\ pc'[w] = "idle" \/ ctx'[w].version = ctx[w].version
    BY StepKeeps
  <1>2. ASSUME NEW v \in Versions, jobs'[v].state # "none" \/ jobs'[v].owner # NoOne
        PROVE  jobs[v].state # "none" \/ jobs[v].owner # NoOne
    <2>1. CASE Release(w)
      BY <1>0, <1>2, <2>1 DEF Release
    <2>2. CASE ~Release(w)
      BY <1>2, <2>2 DEF Step, Lock, Read, Repair, HoldUnknown, Requeue, ReadVariant, Claim,
         Prepare, MarkSend, AssertOwned, Send, Confirm, ErrPublication, ErrVariant, ErrSchedule
    <2> QED
      BY <2>1, <2>2
  <1>3. ASSUME pub'.status = "publishing" PROVE sched.when # "future"
    <2>1. CASE Claim(w) /\ Claimable(w)
      BY <1>1, <2>1 DEF Versioned, Claimable
    <2>2. CASE ~(Claim(w) /\ Claimable(w))
      <3>1. pub.status = "publishing"
        BY <1>0, <1>3, <2>2 DEF Step, Lock, Read, Repair, HoldUnknown, Requeue, ReadVariant,
           Claim, Prepare, MarkSend, AssertOwned, Send, Confirm, ErrPublication, ErrVariant,
           ErrSchedule, Release, rows, Publications
      <3> QED
        BY <3>1 DEF Versioned
    <2> QED
      BY <2>1, <2>2
  <1> QED
    BY <1>1, <1>2, <1>3 DEF Versioned

LEMMA VersionedStart ==
  ASSUME TypeOK, Versioned, NEW w \in Executors,
         StartRecover(w) \/ \E v \in Versions : StartJob(w, v)
  PROVE  Versioned'
  <1>0. /\ pub \in Publications /\ jobs \in [Versions -> Jobs]
        /\ pc \in [Executors -> PCs] /\ ctx \in [Executors -> Contexts]
    BY DEF TypeOK
  <1> USE DEF rows, Goto
  <1>1. CASE StartRecover(w)
    <2>1. /\ UNCHANGED <<pub, sched, jobs, pending, recovering>>
          /\ \A u \in Executors : u # w => pc'[u] = pc[u] /\ ctx'[u] = ctx[u]
          /\ ctx'[w].version = pub.queueVersion /\ pub.status = "publishing"
      BY <1>0, <1>1 DEF StartRecover, StartedCtx
    <2> QED
      BY <2>1, VersionNumbers DEF Versioned
  <1>2. ASSUME NEW v \in Versions, StartJob(w, v) PROVE Versioned'
    <2>1. /\ UNCHANGED <<pub, sched, pending, recovering>>
          /\ \A u \in Executors : u # w => pc'[u] = pc[u] /\ ctx'[u] = ctx[u]
          /\ ctx'[w].version = v /\ jobs[v].state = "waiting" /\ ~Delayed(v)
          /\ \A x \in Versions : x # v => jobs'[x] = jobs[x]
      BY <1>0, <1>2 DEF StartJob, StartedCtx
    <2>2. v <= pub.queueVersion
      BY <2>1 DEF Versioned
    <2> QED
      BY <2>1, <2>2 DEF Versioned, Delayed
  <1> QED
    BY <1>1, <1>2

LEMMA VersionedMutate ==
  ASSUME TypeOK, IInv, Versioned, NEW a \in CalendarActions, NEW checked \in BOOLEAN,
         Mutate(a, checked)
  PROVE  Versioned'
  <1>0. jobs \in [Versions -> Jobs]
    BY DEF TypeOK
  <1>1. pub'.status # "publishing" /\ UNCHANGED <<pc, ctx, recovering>>
    BY MutateMoves DEF execs
  <1>2. CASE UNCHANGED <<pub, jobs, pending>> /\ sched'.when \in {"none", sched.when}
    BY <1>1, <1>2 DEF Versioned
  <1>3. CASE /\ pub'.queueVersion = pub.queueVersion + 1
             /\ pending' \subseteq pending \cup {pub.queueVersion + 1}
             /\ jobs' \in {jobs, [jobs EXCEPT ![pub.queueVersion] = NoJob]}
    <2>1. \A v \in Versions : jobs'[v].state # "none" \/ jobs'[v].owner # NoOne
            => jobs[v].state # "none" \/ jobs[v].owner # NoOne
      BY <1>0, <1>3 DEF NoJob
    <2>2. \A v \in Versions : jobs'[v].state # "none" \/ jobs'[v].owner # NoOne \/ v \in pending'
            => v <= pub.queueVersion + 1
      BY <1>3, <2>1, VersionNumbers DEF Versioned
    <2>3. \A w \in Executors : pc[w] # "idle" => ctx[w].version < pub.queueVersion + 1
      BY VersionNumbers DEF Versioned
    <2>4. recovering # NoOne => recovering <= pub.queueVersion + 1
      BY VersionNumbers DEF Versioned
    <2> QED
      BY <1>1, <1>3, <2>2, <2>3, <2>4, VersionNumbers DEF Versioned
  <1> QED
    BY <1>2, <1>3, MutateMoves

LEMMA VersionedInv ==
  ASSUME Exclusive, TypeOK, IInv, Versioned, [Next]_vars
  PROVE  Versioned'
  <1> USE DEF rows, execs, world, budget
  <1>0. /\ pub \in Publications /\ sched \in Schedules /\ jobs \in [Versions -> Jobs]
        /\ pc \in [Executors -> PCs] /\ ctx \in [Executors -> Contexts]
        /\ MaxVersion \in Nat
    BY ConstantsAssumption DEF TypeOK
  <1>1. ASSUME UNCHANGED <<jobs, pc, ctx, pending, recovering>>,
               pub'.queueVersion = pub.queueVersion,
               pub'.status = "publishing" => pub.status = "publishing",
               sched'.when = "future" => sched.when = "future"
        PROVE  Versioned'
    BY <1>1 DEF Versioned
  <1>2. CASE Tick \/ PatchVariant \/ SubmitCheck \/ SubmitInsert \/ SubmitUpdate \/ RequestChanges
             \/ UNCHANGED vars
    <2>1. UNCHANGED <<pub, jobs, pc, ctx, pending, recovering>> /\ (UNCHANGED sched \/ Tick)
      BY <1>2 DEF Tick, PatchVariant, SubmitCheck, SubmitInsert, SubmitUpdate, RequestChanges, vars
    <2> QED
      BY <1>0, <1>1, <2>1 DEF Tick, Schedules
  <1>3. CASE RecoverySelect
    BY <1>3, VersionNumbers DEF RecoverySelect, Versioned
  <1>4. CASE RecoveryAdd
    <2>1. recovering \in Versions /\ recovering <= pub.queueVersion
      BY <1>4, VersionNumbers DEF RecoveryAdd, Versioned
    <2>2. /\ \A v \in Versions : v # recovering => jobs'[v] = jobs[v]
          /\ recovering' = NoOne /\ UNCHANGED <<pub, sched, pc, ctx, pending>>
      BY <1>0, <1>4 DEF RecoveryAdd
    <2> QED
      BY <2>1, <2>2 DEF Versioned
  <1>5. ASSUME NEW v \in Versions, Stalled(v) \/ StallLive(v) \/ Enqueue(v) \/ EnqueueFails(v)
               \/ EnqueueLost(v)
        PROVE  Versioned'
    <2>1. /\ jobs[v].state # "none" \/ jobs[v].owner # NoOne \/ v \in pending
          /\ \A x \in Versions : x # v => jobs'[x] = jobs[x]
          /\ pending' \subseteq pending /\ UNCHANGED <<sched, pc, ctx, recovering>>
      BY <1>0, <1>5 DEF Stalled, StallLive, Enqueue, EnqueueFails, EnqueueLost
    <2>2. /\ pub'.queueVersion = pub.queueVersion
          /\ pub'.status = "publishing" => pub.status = "publishing"
      BY <1>0, <1>5 DEF Stalled, StallLive, Enqueue, EnqueueFails, EnqueueLost, Publications
    <2> QED
      BY <2>1, <2>2 DEF Versioned
  <1>6. ASSUME NEW w \in Executors, Crash(w) PROVE Versioned'
    <2>1. /\ \A v \in Versions : jobs'[v].state = jobs[v].state
                /\ jobs'[v].owner \in {jobs[v].owner, NoOne}
          /\ pc'[w] = "idle" /\ \A u \in Executors : u # w => pc'[u] = pc[u] /\ ctx'[u] = ctx[u]
          /\ UNCHANGED <<pub, sched, pending, recovering>>
      BY <1>0, <1>6 DEF Crash, Jobs
    <2> QED
      BY <2>1 DEF Versioned
  <1>7. ASSUME NEW w \in Executors PROVE ~DropLock(w)
    BY DEF DropLock, Exclusive, TypeOK
  <1>8. CASE CancelRoute
    <2>1. /\ pub'.queueVersion = pub.queueVersion /\ pub'.status = "cancelled"
          /\ sched'.when = sched.when /\ UNCHANGED <<pc, ctx, pending, recovering>>
          /\ \A v \in Versions : jobs'[v] \in {jobs[v], NoJob}
      BY <1>0, <1>8 DEF CancelRoute, Publications, Schedules
    <2> QED
      BY <2>1 DEF Versioned, NoJob
  <1>9. ~RetryRoute
    BY DEF RetryRoute, Exclusive
  <1> QED
    BY <1>2, <1>3, <1>4, <1>5, <1>6, <1>7, <1>8, <1>9, VersionedStep, VersionedStart, VersionedMutate
       DEF Next, Worker, Fault, Reconcile, User, Api

LEMMA VersionedInit == Init => Versioned
  <1> SUFFICES ASSUME NEW origin \in Origins,
                      pub = FreshPublication(origin), sched = FreshSchedule(origin),
                      jobs = [v \in Versions |-> IF v = 0 /\ origin \in {"auto", "dated"}
                                                 THEN NewJob(MaxAttempts) ELSE NoJob],
                      pc = [w \in Executors |-> "idle"], pending = {}, recovering = NoOne
               PROVE  Versioned
    BY DEF Init
  <1> QED
    BY ConstantsAssumption DEF Versioned, FreshPublication, NoJob, NewJob, Versions

\* Only the request to the destination moves what it has.
LEMMA PostsMove ==
  ASSUME TypeOK, Next, posts' # posts
  PROVE  \E w \in Executors : Send(w)
  <1> USE DEF rows, execs, world, budget
  <1>1. ~Tick /\ ~Reconcile /\ ~Api
    BY DEF Tick, Reconcile, RecoverySelect, RecoveryAdd, Stalled, Api, Enqueue, EnqueueFails,
       EnqueueLost, SubmitInsert, SubmitUpdate
  <1>2. ~Fault
    BY DEF Fault, Crash, DropLock, StallLive
  <1>3. ~User
    BY DEF User, Mutate, PatchVariant, SubmitCheck, RequestChanges, RetryRoute, CancelRoute
  <1> QED
    BY <1>1, <1>2, <1>3 DEF Next, Worker, StartRecover, StartJob, Step, Lock, Read, Repair,
       HoldUnknown, Requeue, ReadVariant, Claim, Prepare, MarkSend, AssertOwned, Confirm,
       ErrPublication, ErrVariant, ErrSchedule, Release

\* Work of the row's version is not before its time, and older work is fenced.
THEOREM Fenced == ASSUME Exclusive PROVE Spec => []Versioned
  <1>1. TypeOK /\ IInv /\ Versioned /\ [Next]_vars => Versioned'
    BY VersionedInv
  <1> QED
    BY <1>1, VersionedInit, TypeCorrect, Inductive, PTL DEF Spec

\* Nothing is delivered before its scheduled time, by a job of any version.
THEOREM InTime == ASSUME Exclusive PROVE Spec => NeverEarly
  <1>1. TypeOK /\ IInv /\ Versioned /\ [Next]_vars => [posts' # posts => sched.when # "future"]_vars
    <2> SUFFICES ASSUME TypeOK, IInv, Versioned, Next, posts' # posts PROVE sched.when # "future"
      BY DEF vars
    <2>1. PICK w \in Executors : Send(w)
      BY PostsMove
    <2>2. pub.status = "publishing"
      BY <2>1 DEF IInv, RowUnder, Send
    <2> QED
      BY <2>2 DEF Versioned
  <1> QED
    BY <1>1, TypeCorrect, Inductive, Fenced, PTL DEF Spec, NeverEarly

-----------------------------------------------------------------------------
(* The content under a sender.                                              *)

FrozenAll == \A w \in Executors : Frozen(w)

\* Between its steps an executor at work has the row for itself.
LEMMA WorkersRow ==
  ASSUME IInv, NEW w \in Executors, pc[w] \in Sending \cup {"prepare", "errPub"}
  PROVE  pub.status = "publishing"
  BY DEF IInv, RowUnder, Sending

LEMMA FrozenStep ==
  ASSUME TypeOK, IInv, FrozenAll, NEW w \in Executors, Step(w)
  PROVE  FrozenAll'
  <1>0. /\ pub \in Publications /\ variant \in Variants /\ ctx[w] \in Contexts
        /\ pc \in [Executors -> PCs] /\ ctx \in [Executors -> Contexts]
        /\ RowUnder(w) /\ Frozen(w)
    BY DEF TypeOK, IInv, FrozenAll
  <1>1. /\ pub'.queueVersion = pub.queueVersion /\ variant'.revision = variant.revision
        /\ \A u \in Executors : u # w => pc'[u] = pc[u] /\ ctx'[u] = ctx[u]
    BY StepKeeps
  <1>2. Frozen(w)'
    <2> USE DEF rows, execs, Goto, Finish, Frozen, Sending, Claimable
    <2>1. CASE Lock(w) \/ Repair(w) \/ HoldUnknown(w) \/ ErrVariant(w) \/ ErrSchedule(w)
               \/ Release(w) \/ Requeue(w)
      BY <1>0, <2>1 DEF Lock, Repair, HoldUnknown, ErrVariant, ErrSchedule, Release, Requeue
    <2>2. CASE Read(w)
      BY <1>0, <2>2 DEF Read, Decision
    <2>3. CASE ReadVariant(w)
      BY <1>0, <2>3 DEF ReadVariant, Contexts
    <2>4. CASE Claim(w)
      <3>1. CASE Claimable(w)
        BY <1>0, <1>1, <2>4, <3>1 DEF Claim
      <3>2. CASE ~Claimable(w)
        BY <1>0, <2>4, <3>2 DEF Claim
      <3> QED
        BY <3>1, <3>2
    <2>5. CASE Prepare(w)
      BY <1>0, <2>5 DEF Prepare, Contexts
    <2>6. CASE MarkSend(w)
      BY <1>0, <1>1, <2>6 DEF MarkSend
    <2>7. CASE AssertOwned(w)
      BY <1>0, <2>7 DEF AssertOwned
    <2>8. CASE Send(w)
      BY <1>0, <2>8 DEF Send, Contexts
    <2>9. CASE Confirm(w)
      BY <1>0, <2>9 DEF Confirm
    <2>10. CASE ErrPublication(w)
      BY <1>0, <2>10 DEF ErrPublication
    <2> QED
      BY <2>1, <2>2, <2>3, <2>4, <2>5, <2>6, <2>7, <2>8, <2>9, <2>10 DEF Step
  <1>3. ASSUME NEW u \in Executors, u # w PROVE Frozen(u)'
    <2>1. pc'[u] = pc[u] /\ ctx'[u] = ctx[u] /\ Frozen(u)
      BY <1>1, <1>3 DEF FrozenAll
    <2>2. CASE pc[u] = "claim"
      <3>1. lock = u
        BY <2>2 DEF IInv, OwnsLock, Outside
      <3>2. pc[w] \in Outside
        BY <1>3, <3>1 DEF IInv, OwnsLock
      <3>3. UNCHANGED pub
        BY <3>2 DEF Outside, Step, Lock, Release, Read, Repair, HoldUnknown, Requeue,
           ReadVariant, Claim, Prepare, MarkSend, AssertOwned, Send, Confirm, ErrPublication,
           ErrVariant, ErrSchedule, rows
      <3> QED
        BY <1>1, <2>1, <2>2, <3>3 DEF Frozen, Claimable, Sending
    <2>3. CASE pc[u] # "claim"
      BY <1>1, <2>1, <2>3 DEF Frozen
    <2> QED
      BY <2>2, <2>3
  <1> QED
    BY <1>2, <1>3 DEF FrozenAll

\* Nothing else writes the content while an executor has claimed it.
LEMMA FrozenInv ==
  ASSUME Reviewless, TypeOK, IInv, Versioned, FrozenAll, [Next]_vars
  PROVE  FrozenAll'
  <1> USE DEF rows, execs, world, budget
  <1>0. /\ pub \in Publications /\ variant \in Variants
        /\ pc \in [Executors -> PCs] /\ ctx \in [Executors -> Contexts]
    BY DEF TypeOK
  <1>1. ASSUME UNCHANGED <<variant, pc, ctx>>, pub'.queueVersion = pub.queueVersion,
               pub'.status = "queued" => pub.status = "queued"
        PROVE  FrozenAll'
    BY <1>1 DEF FrozenAll, Frozen, Claimable
  <1>2. CASE Tick \/ SubmitCheck \/ SubmitInsert \/ Reconcile \/ UNCHANGED vars
    BY <1>1, <1>2 DEF Tick, SubmitCheck, SubmitInsert, Reconcile, RecoverySelect, RecoveryAdd,
       Stalled, vars
  <1>3. ASSUME NEW v \in Versions, StallLive(v) \/ Enqueue(v) \/ EnqueueFails(v) \/ EnqueueLost(v)
        PROVE  FrozenAll'
    BY <1>0, <1>1, <1>3 DEF StallLive, Enqueue, EnqueueFails, EnqueueLost, Publications
  <1>4. CASE CancelRoute
    BY <1>0, <1>1, <1>4 DEF CancelRoute, Publications
  <1>5. CASE SubmitUpdate \/ RequestChanges
    <2>1. UNCHANGED <<pub, pc, ctx>> /\ variant'.revision = variant.revision
      BY <1>0, <1>5 DEF SubmitUpdate, RequestChanges, Variants
    <2> QED
      BY <2>1 DEF FrozenAll, Frozen, Claimable
  <1>6. ~PatchVariant /\ ~RetryRoute
    BY DEF PatchVariant, RetryRoute, Reviewless, Exclusive
  <1>7. ASSUME NEW w \in Executors, pc' = [pc EXCEPT ![w] = "lock"] \/ pc' = [pc EXCEPT ![w] = "idle"],
               \A u \in Executors : u # w => ctx'[u] = ctx[u], UNCHANGED <<pub, variant>>
        PROVE  FrozenAll'
    BY <1>0, <1>7 DEF FrozenAll, Frozen, Claimable, Sending
  <1>8. ASSUME NEW w \in Executors,
               StartRecover(w) \/ (\E v \in Versions : StartJob(w, v)) \/ Crash(w)
        PROVE  FrozenAll'
    BY <1>0, <1>7, <1>8 DEF StartRecover, StartJob, Crash, Goto
  <1>9. ASSUME NEW w \in Executors PROVE ~DropLock(w)
    BY DEF DropLock, Reviewless, Exclusive, TypeOK
  <1>10. ASSUME NEW a \in CalendarActions, NEW checked \in BOOLEAN, Mutate(a, checked)
         PROVE  FrozenAll'
    <2>1. pub.status \notin {"publishing", "published"} /\ UNCHANGED <<pc, ctx>>
      BY <1>10, MutateMoves DEF Mutate
    <2>2. \A w \in Executors : pc[w] \notin Sending \cup {"prepare", "errPub"}
      BY <2>1, WorkersRow
    <2>3. ASSUME NEW w \in Executors, pc[w] = "claim", Claimable(w)' PROVE FALSE
      <3>1. ctx[w].version <= pub.queueVersion
        BY <2>3 DEF Versioned
      <3>2. \/ pub'.queueVersion = pub.queueVersion + 1
            \/ pub'.status = "none"
        BY <1>10, MutateMoves
      <3>3. pub'.status = "queued" /\ pub'.queueVersion = ctx[w].version
        BY <2>1, <2>3 DEF Claimable
      <3> QED
        BY <3>1, <3>2, <3>3, VersionNumbers
    <2> QED
      BY <2>1, <2>2, <2>3 DEF FrozenAll, Frozen
  <1> QED
    BY <1>2, <1>3, <1>4, <1>5, <1>6, <1>8, <1>9, <1>10, FrozenStep
       DEF Next, Worker, Fault, Reconcile, User, Api

LEMMA FrozenInit == Init => FrozenAll
  BY DEF Init, FrozenAll, Frozen, Sending

\* From its claim on, an executor holds the content the row holds.
THEOREM StandsStill == ASSUME Reviewless PROVE Spec => []FrozenAll
  <1>1. TypeOK /\ IInv /\ Versioned /\ FrozenAll /\ [Next]_vars => FrozenAll'
    BY FrozenInv
  <1>2. Exclusive
    BY DEF Reviewless
  <1> QED
    BY <1>1, <1>2, FrozenInit, TypeCorrect, Inductive, Fenced, PTL DEF Spec

\* While an executor is between its mark and its receipt, the row is
\* "publishing" at its version, and the content is the one it sends.
THEOREM SenderAlone == ASSUME Reviewless PROVE Spec => []FrozenUnderSender
  <1>1. IInv /\ FrozenAll => FrozenUnderSender
    BY WorkersRow DEF FrozenAll, Frozen, FrozenUnderSender
  <1>2. Exclusive
    BY DEF Reviewless
  <1> QED
    BY <1>1, <1>2, StandsStill, Inductive, PTL

-----------------------------------------------------------------------------
(* A published row shows what was delivered.                                *)

LEMMA ShownStep ==
  ASSUME TypeOK, IInv, FrozenAll, Shown, NEW w \in Executors, Step(w)
  PROVE  Shown'
  <1>0. /\ pub \in Publications /\ ctx[w] \in Contexts /\ posts \in Seq(Revisions)
        /\ pc \in [Executors -> PCs] /\ ctx \in [Executors -> Contexts]
        /\ RowUnder(w) /\ Frozen(w) /\ Accountable
    BY DEF TypeOK, IInv, FrozenAll
  <1>1. /\ variant'.revision = variant.revision
        /\ \A u \in Executors : u # w => pc'[u] = pc[u] /\ ctx'[u] = ctx[u]
    BY StepKeeps
  <1>2. CASE Send(w)
    <2>1. posts = <<>> /\ ~pub.externalId /\ UNCHANGED pub
      BY <1>0, <1>2 DEF Send, RowUnder, Accountable, rows
    <2>2. Receipted(w)' => posts' = <<ctx'[w].revision>>
      <3>1. Receipted(w)' => posts' = Append(posts, ctx[w].revision)
                              /\ ctx'[w].revision = ctx[w].revision
        BY <1>0, <1>2 DEF Send, Receipted, Goto, Contexts
      <3> QED
        BY <2>1, <3>1
    <2>3. ASSUME NEW u \in Executors, u # w PROVE ~Receipted(u)'
      <3>1. lock = w
        BY <1>2 DEF IInv, OwnsLock, Send, Outside
      <3>2. pc[u] \in Outside
        BY <2>3, <3>1 DEF IInv, OwnsLock
      <3> QED
        BY <1>1, <2>3, <3>2 DEF Receipted, Outside
    <2> QED
      BY <2>1, <2>2, <2>3 DEF Shown
  <1>3. CASE Confirm(w)
    <2>1. /\ posts = <<ctx[w].revision>> /\ ctx[w].revision = variant.revision
      BY <1>0, <1>3 DEF Confirm, Shown, Receipted, RowUnder, Frozen, Sending
    <2>2. posts' = posts
      BY <1>3 DEF Confirm, world
    <2>3. Receipted(w)' => ctx'[w].revision = ctx[w].revision
      BY <1>0, <1>3 DEF Confirm, Receipted, Goto, Finish
    <2> QED
      BY <1>1, <2>1, <2>2, <2>3 DEF Shown, Receipted
  <1>4. CASE ErrPublication(w)
    <2>1. /\ posts' = posts /\ ~Receipted(w)'
          /\ pub'.externalId = (pub.externalId \/ ctx[w].result = "confirmed")
      BY <1>0, <1>4 DEF ErrPublication, Receipted, Goto, Finish, world, Publications
    <2>2. ctx[w].result = "confirmed" => posts = <<variant.revision>>
      BY <1>0, <1>4 DEF ErrPublication, Shown, Receipted, Frozen
    <2> QED
      BY <1>1, <2>1, <2>2 DEF Shown, Receipted
  <1>5. CASE ~Send(w) /\ ~Confirm(w) /\ ~ErrPublication(w)
    <2>1. posts' = posts /\ pub'.externalId = pub.externalId /\ ~Receipted(w)'
      <3> USE DEF rows, world, Goto, Finish, Receipted, Publications
      <3>1. CASE Lock(w) \/ Read(w) \/ Repair(w) \/ HoldUnknown(w) \/ Requeue(w) \/ ReadVariant(w)
        BY <1>0, <3>1 DEF Lock, Read, Decision, Repair, HoldUnknown, Requeue, ReadVariant
      <3>2. CASE Prepare(w) \/ MarkSend(w) \/ AssertOwned(w)
        BY <1>0, <3>2 DEF Prepare, Contexts, MarkSend, AssertOwned
      <3>3. CASE Claim(w)
        BY <1>0, <3>3 DEF Claim, Claimable
      <3>4. CASE ErrVariant(w) \/ ErrSchedule(w) \/ Release(w)
        BY <1>0, <3>4 DEF ErrVariant, ErrSchedule, Release
      <3> QED
        BY <1>5, <3>1, <3>2, <3>3, <3>4 DEF Step
    <2> QED
      BY <1>1, <2>1 DEF Shown, Receipted
  <1> QED
    BY <1>2, <1>3, <1>4, <1>5

LEMMA ShownInv ==
  ASSUME Reviewless, TypeOK, IInv, FrozenAll, Shown, [Next]_vars
  PROVE  Shown'
  <1> USE DEF rows, execs, world, budget
  <1>0. /\ pub \in Publications /\ variant \in Variants
        /\ pc \in [Executors -> PCs] /\ ctx \in [Executors -> Contexts]
    BY DEF TypeOK
  <1>1. ASSUME UNCHANGED <<pc, ctx, posts>>, variant'.revision = variant.revision,
               pub'.externalId = pub.externalId
        PROVE  Shown'
    BY <1>1 DEF Shown, Receipted
  <1>2. CASE Tick \/ SubmitCheck \/ SubmitInsert \/ Reconcile \/ UNCHANGED vars
    BY <1>1, <1>2 DEF Tick, SubmitCheck, SubmitInsert, Reconcile, RecoverySelect, RecoveryAdd,
       Stalled, vars
  <1>3. ASSUME NEW v \in Versions, StallLive(v) \/ Enqueue(v) \/ EnqueueFails(v) \/ EnqueueLost(v)
        PROVE  Shown'
    BY <1>0, <1>1, <1>3 DEF StallLive, Enqueue, EnqueueFails, EnqueueLost, Publications
  <1>4. CASE CancelRoute \/ SubmitUpdate \/ RequestChanges
    BY <1>0, <1>1, <1>4 DEF CancelRoute, SubmitUpdate, RequestChanges, Publications, Variants
  <1>5. ~PatchVariant /\ ~RetryRoute
    BY DEF PatchVariant, RetryRoute, Reviewless, Exclusive
  <1>6. ASSUME NEW w \in Executors, pc' = [pc EXCEPT ![w] = "lock"] \/ pc' = [pc EXCEPT ![w] = "idle"],
               \A u \in Executors : u # w => ctx'[u] = ctx[u], UNCHANGED <<pub, variant, posts>>
        PROVE  Shown'
    BY <1>0, <1>6 DEF Shown, Receipted
  <1>7. ASSUME NEW w \in Executors,
               StartRecover(w) \/ (\E v \in Versions : StartJob(w, v)) \/ Crash(w)
        PROVE  Shown'
    BY <1>0, <1>6, <1>7 DEF StartRecover, StartJob, Crash, Goto
  <1>8. ASSUME NEW w \in Executors PROVE ~DropLock(w)
    BY DEF DropLock, Reviewless, Exclusive, TypeOK
  <1>9. ASSUME NEW a \in CalendarActions, NEW checked \in BOOLEAN, Mutate(a, checked)
        PROVE  Shown'
    <2>1. ~pub'.externalId /\ UNCHANGED <<pc, ctx, posts>>
      BY <1>9, MutateMoves
    <2> QED
      BY <2>1 DEF Shown, Receipted
  <1> QED
    BY <1>2, <1>3, <1>4, <1>5, <1>7, <1>8, <1>9, ShownStep
       DEF Next, Worker, Fault, Reconcile, User, Api

LEMMA ShownInit == Init => Shown
  BY DEF Init, Shown, Receipted, FreshPublication

\* A receipt is of the content the row shows.
THEOREM ReceiptOfContent == ASSUME Reviewless PROVE Spec => []Shown
  <1>1. TypeOK /\ IInv /\ FrozenAll /\ Shown /\ [Next]_vars => Shown'
    BY ShownInv
  <1>2. Exclusive
    BY DEF Reviewless
  <1> QED
    BY <1>1, <1>2, ShownInit, TypeCorrect, Inductive, StandsStill, PTL DEF Spec

\* A row that says "published" shows the content that was delivered.
THEOREM ShownAsDelivered == ASSUME Reviewless PROVE Spec => []PublishedAsShown
  <1>1. IInv /\ Shown => PublishedAsShown
    <2> SUFFICES ASSUME IInv, Shown, pub.status = "published"
                 PROVE  \E i \in DOMAIN posts : posts[i] = variant.revision
      BY DEF PublishedAsShown
    <2>1. posts = <<variant.revision>>
      BY DEF IInv, Accountable, Shown
    <2>2. 1 \in DOMAIN posts /\ posts[1] = variant.revision
      BY <2>1
    <2> QED
      BY <2>2
  <1>2. Exclusive
    BY DEF Reviewless
  <1> QED
    BY <1>1, <1>2, ReceiptOfContent, Inductive, PTL

-----------------------------------------------------------------------------
(* Three rows agree, while no process dies between the handler's statements *)

Unbroken == Reviewless /\ MaxFaults = 0

LEMMA ClosedStep ==
  ASSUME TypeOK, IInv, Closed, NEW w \in Executors, Step(w)
  PROVE  Closed'
  <1>0. /\ pub \in Publications /\ variant \in Variants /\ sched \in Schedules
        /\ ctx[w] \in Contexts /\ pc \in [Executors -> PCs] /\ ctx \in [Executors -> Contexts]
        /\ RowUnder(w) /\ Accountable
    BY DEF TypeOK, IInv
  <1>1. /\ submitting' = submitting
        /\ \A u \in Executors : u # w => pc'[u] = pc[u] /\ ctx'[u] = ctx[u]
    BY StepKeeps
  <1> DEFINE Done == variant.status = "published" /\ sched.status \in {"none", "completed"}
             Gone(u) == pc[u] \in {"errVariant", "errSched"} /\ ctx[u].result # "confirmed"
             At(u) == pc[u] \in {"errVariant", "errSched"}
  <1> USE DEF rows, Goto, Finish
  <1>2. CASE Lock(w) \/ Release(w)
    <2>1. UNCHANGED <<pub, variant, sched>> /\ ~At(w) /\ ~At(w)'
      BY <1>0, <1>2 DEF Lock, Release
    <2> QED
      BY <1>1, <2>1 DEF Closed, Closing
  <1>3. CASE ~Lock(w) /\ ~Release(w)
    <2>1. ASSUME NEW u \in Executors, u # w PROVE ~At(u) /\ ~At(u)'
      <3>1. pc[w] \notin Outside
        BY <1>3 DEF Step, Outside, Read, Repair, HoldUnknown, Requeue, ReadVariant, Claim,
           Prepare, MarkSend, AssertOwned, Send, Confirm, ErrPublication, ErrVariant, ErrSchedule
      <3>2. pc[u] \in Outside
        BY <2>1, <3>1, Alone DEF IInv
      <3> QED
        BY <1>1, <2>1, <3>2 DEF Outside
    <2>2. CASE \/ Read(w) \/ ReadVariant(w) \/ Prepare(w) \/ AssertOwned(w) \/ Send(w)
      <3>1. UNCHANGED <<pub, variant, sched>> /\ ~At(w) /\ ~At(w)'
        BY <1>0, <2>2 DEF Read, Decision, ReadVariant, Prepare, AssertOwned, Send
      <3> QED
        BY <1>1, <2>1, <3>1 DEF Closed, Closing
    <2>3. CASE Repair(w) \/ HoldUnknown(w) \/ Requeue(w) \/ Claim(w) \/ MarkSend(w)
      <3>1. ~At(w)' /\ (pub'.status = "published" => UNCHANGED <<pub, variant, sched>>)
        BY <1>0, <2>3 DEF Repair, RowUnder, HoldUnknown, Requeue, Claim, Claimable, MarkSend,
           Publications
      <3>2. ~At(w)
        BY <2>3 DEF Repair, HoldUnknown, Requeue, Claim, MarkSend
      <3> QED
        BY <1>1, <2>1, <3>1, <3>2 DEF Closed, Closing
    <2>4. CASE Confirm(w)
      <3>1. CASE UNCHANGED pub
        <4>1. pub.status = "publishing"
          BY <1>0, <2>4 DEF Confirm, RowUnder
        <4>2. ~At(w)'
          BY <1>0, <2>4 DEF Confirm
        <4> QED
          BY <1>1, <2>1, <3>1, <4>1, <4>2 DEF Closed, Closing
      <3>2. CASE pub' # pub
        <4>1. Done' /\ ~At(w)'
          BY <1>0, <2>4, <3>2 DEF Confirm, SettleSchedule, Variants, Schedules
        <4> QED
          BY <1>1, <2>1, <4>1 DEF Closed, Closing
      <3> QED
        BY <3>1, <3>2
    <2>5. CASE ErrPublication(w)
      <3>1. /\ pub'.status = "published" => ctx[w].result = "confirmed" /\ FinalAttempt(w)
            /\ ctx[w].result = "confirmed" => pub'.status = "published"
        BY <1>0, <2>5 DEF ErrPublication, FinalAttempt, Publications
      <3>2. /\ FinalAttempt(w) => pc'[w] = "errVariant" /\ ctx'[w] = ctx[w]
            /\ ~FinalAttempt(w) => pc'[w] = "finish"
        BY <1>0, <2>5 DEF ErrPublication
      <3> QED
        BY <1>1, <2>1, <3>1, <3>2 DEF Closed, Closing
    <2>6. CASE ErrVariant(w)
      <3>1. /\ UNCHANGED <<pub, ctx>> /\ pc[w] = "errVariant" /\ pc'[w] = "errSched"
            /\ ctx[w].result = "confirmed" => variant'.status = "published"
        BY <1>0, <2>6 DEF ErrVariant, Variants
      <3> QED
        BY <1>1, <2>1, <3>1 DEF Closed, Closing
    <2>7. CASE ErrSchedule(w)
      <3>1. /\ UNCHANGED <<pub, variant>> /\ pc[w] = "errSched" /\ ~At(w)'
            /\ ctx[w].result = "confirmed" => sched'.status \in {"none", "completed"}
        BY <1>0, <2>7 DEF ErrSchedule, SettleSchedule, Schedules
      <3>2. pub.status = "published" /\ variant.status = "published" =>
              ctx[w].result = "confirmed"
        BY <3>1 DEF Closed
      <3>3. pub.status = "published" => variant.status = "published"
        BY <2>1, <3>1 DEF Closed, Closing
      <3> QED
        BY <1>1, <2>1, <3>1, <3>2, <3>3 DEF Closed, Closing
    <2> QED
      BY <1>3, <2>2, <2>3, <2>4, <2>5, <2>6, <2>7 DEF Step
  <1> QED
    BY <1>2, <1>3

LEMMA ClosedInv ==
  ASSUME Unbroken, TypeOK, IInv, Closed, [Next]_vars
  PROVE  Closed'
  <1> USE DEF rows, execs, world, budget
  <1>0. /\ pub \in Publications /\ variant \in Variants /\ sched \in Schedules
        /\ pc \in [Executors -> PCs] /\ ctx \in [Executors -> Contexts]
        /\ Reviewless /\ Exclusive /\ faults = 0 /\ drops = 0
    BY DEF TypeOK, Unbroken, Reviewless, Exclusive
  <1>1. ASSUME UNCHANGED <<pc, ctx, submitting>>,
               pub'.status = "published" =>
                 pub.status = "published" /\ UNCHANGED variant /\ sched'.status = sched.status
        PROVE  Closed'
    BY <1>1 DEF Closed, Closing
  <1>2. CASE Tick \/ Reconcile \/ UNCHANGED vars
    BY <1>0, <1>1, <1>2 DEF Tick, Reconcile, RecoverySelect, RecoveryAdd, Stalled, vars, Schedules
  <1>3. ASSUME NEW v \in Versions, Enqueue(v) \/ EnqueueFails(v)
        PROVE  Closed'
    BY <1>0, <1>1, <1>3 DEF Enqueue, EnqueueFails, Publications
  <1>4. CASE CancelRoute
    BY <1>0, <1>1, <1>4 DEF CancelRoute, Publications
  <1>5. /\ ~PatchVariant /\ ~RetryRoute /\ ~SubmitCheck /\ ~SubmitInsert /\ ~SubmitUpdate
        /\ ~RequestChanges /\ \A v \in Versions : ~StallLive(v) /\ ~EnqueueLost(v)
        /\ \A w \in Executors : ~Crash(w) /\ ~DropLock(w)
    BY <1>0 DEF PatchVariant, RetryRoute, SubmitCheck, SubmitInsert, SubmitUpdate, RequestChanges,
       StallLive, EnqueueLost, Crash, DropLock, Unbroken, Reviewless, Exclusive, Closed
  <1>6. ASSUME NEW w \in Executors, StartRecover(w) \/ \E v \in Versions : StartJob(w, v)
        PROVE  Closed'
    <2>1. /\ pc[w] = "idle" /\ pc'[w] = "lock" /\ UNCHANGED <<pub, variant, sched, submitting>>
          /\ \A u \in Executors : u # w => pc'[u] = pc[u] /\ ctx'[u] = ctx[u]
      BY <1>0, <1>6 DEF StartRecover, StartJob, Goto
    <2> QED
      BY <2>1 DEF Closed, Closing
  <1>7. ASSUME NEW a \in CalendarActions, NEW checked \in BOOLEAN, Mutate(a, checked)
        PROVE  Closed'
    <2>1. pub'.status # "published" /\ UNCHANGED <<pc, ctx, submitting>>
      BY <1>7, MutateMoves
    <2> QED
      BY <1>1, <2>1
  <1> QED
    BY <1>2, <1>3, <1>4, <1>5, <1>6, <1>7, ClosedStep
       DEF Next, Worker, Fault, Reconcile, User, Api

LEMMA ClosedInit == Init => Closed
  BY DEF Init, Closed, Closing, FreshPublication

\* When nobody is executing, a published row has a published variant and a
\* completed schedule.
THEOREM Agreement == ASSUME Unbroken PROVE Spec => []RowsAgree
  <1>1. TypeOK /\ IInv /\ Closed /\ [Next]_vars => Closed'
    BY ClosedInv
  <1>2. Closed => RowsAgree
    BY DEF Closed, Closing, RowsAgree
  <1>3. Exclusive
    BY DEF Unbroken, Reviewless
  <1> QED
    BY <1>1, <1>2, <1>3, ClosedInit, TypeCorrect, Inductive, PTL DEF Spec
-----------------------------------------------------------------------------
(* Only approved content is delivered, as long as edits wait.                *)

\* A variant that is, or may become, approved without anyone being asked.
Holding == {"approved", "scheduled", "published", "failed"}
Beyond == Sending \cup {"claim", "prepare", "errPub"}

\* The present content was approved where the code takes it for granted.
Approved == variant.revision \in blessed
Sanctioned ==
  /\ variant.status \in Holding => Approved
  /\ pub.status = "publishing" => Approved
  /\ \A w \in Executors :
       /\ pc[w] \in Beyond => ctx[w].revision \in blessed
       /\ pc[w] = "claim" /\ Claimable(w) => Approved
       /\ pc[w] = "errVariant" => Approved
  /\ ApprovedPosts

LEMMA SanctionedStep ==
  ASSUME TypeOK, IInv, Sanctioned, NEW w \in Executors, Step(w)
  PROVE  Sanctioned'
  <1>0. /\ pub \in Publications /\ variant \in Variants /\ posts \in Seq(Revisions)
        /\ pc \in [Executors -> PCs] /\ ctx \in [Executors -> Contexts] /\ ctx[w] \in Contexts
        /\ RowUnder(w)
    BY DEF TypeOK, IInv
  <1>1. /\ variant'.revision = variant.revision
        /\ pub'.queueVersion = pub.queueVersion
        /\ \A u \in Executors : u # w => pc'[u] = pc[u] /\ ctx'[u] = ctx[u]
    BY StepKeeps
  <1>2. UNCHANGED blessed
    BY DEF Step, Lock, Read, Repair, HoldUnknown, Requeue, ReadVariant, Claim, Prepare, MarkSend,
       AssertOwned, Send, Confirm, ErrPublication, ErrVariant, ErrSchedule, Release, world
  <1>3. ASSUME variant'.status \in Holding => variant.status \in Holding \/ Approved,
               pub'.status = "publishing" => pub.status = "publishing" \/ Approved,
               pub'.status = "queued" => pub.status = "queued" \/ pc[w] \notin Outside,
               pc'[w] \in Beyond => ctx'[w].revision \in blessed,
               pc'[w] \in {"claim", "errVariant"} => Approved,
               posts' = posts \/ ApprovedPosts'
        PROVE  Sanctioned'
    <2>1. (variant'.status \in Holding \/ pub'.status = "publishing") => Approved'
      BY <1>1, <1>2, <1>3 DEF Sanctioned, Approved
    <2>2. ASSUME NEW u \in Executors, u # w
          PROVE  /\ pc'[u] \in Beyond => ctx'[u].revision \in blessed'
                 /\ pc'[u] = "claim" /\ Claimable(u)' => Approved'
                 /\ pc'[u] = "errVariant" => Approved'
      <3>1. pc[u] = "claim" => pc[w] \in Outside
        BY <2>2, Alone DEF IInv, Outside
      <3> QED
        BY <1>1, <1>2, <1>3, <2>2, <3>1 DEF Sanctioned, Approved, Claimable
    <2>3. /\ pc'[w] \in Beyond => ctx'[w].revision \in blessed'
          /\ pc'[w] = "claim" /\ Claimable(w)' => Approved'
          /\ pc'[w] = "errVariant" => Approved'
      BY <1>1, <1>2, <1>3 DEF Approved
    <2>4. ApprovedPosts'
      <3>1. CASE posts' = posts
        BY <1>2, <3>1 DEF Sanctioned, ApprovedPosts
      <3> QED
        BY <1>3, <3>1
    <2> QED
      BY <2>1, <2>2, <2>3, <2>4 DEF Sanctioned
  <1>4. pc[w] \in Beyond => ctx[w].revision \in blessed
    BY DEF Sanctioned
  <1> USE DEF rows, world, Goto, Finish
  <1>5. CASE Lock(w) \/ Read(w) \/ Repair(w) \/ Requeue(w) \/ ErrSchedule(w) \/ Release(w)
    <2>1. /\ UNCHANGED <<variant, posts>>
          /\ pub'.status # "publishing" \/ UNCHANGED pub
          /\ pub'.status = "queued" => pub.status = "queued" \/ pc[w] \notin Outside
          /\ pc'[w] \notin Beyond /\ pc'[w] \notin {"claim", "errVariant"}
      BY <1>0, <1>5 DEF Lock, Read, Decision, Repair, RowUnder, Requeue, ErrSchedule, Release, Beyond,
         Sending, Outside, Publications
    <2> QED
      BY <1>3, <2>1
  <1>6. CASE HoldUnknown(w)
    <2>1. pub.status = "publishing" /\ UNCHANGED posts /\ pc'[w] = "finish" /\ pub'.status = "failed"
      BY <1>0, <1>6 DEF HoldUnknown, RowUnder, Publications
    <2> QED
      BY <1>3, <2>1 DEF Sanctioned, Beyond, Sending
  <1>7. CASE ReadVariant(w)
    <2>1. UNCHANGED <<pub, variant, posts>>
      BY <1>7 DEF ReadVariant
    <2>2. \/ pc'[w] = "finish"
          \/ /\ pc'[w] = "claim" /\ ctx'[w].revision = variant.revision
             /\ variant.status \in {"approved", "scheduled"}
      BY <1>0, <1>7 DEF ReadVariant, Contexts
    <2>3. pc'[w] = "claim" => Approved
      BY <2>2 DEF Sanctioned, Holding
    <2> QED
      BY <1>3, <2>1, <2>2, <2>3 DEF Approved, Beyond, Sending
  <1>8. CASE Claim(w)
    <2>1. CASE Claimable(w)
      <3>1. /\ pc[w] = "claim" /\ pc'[w] = "prepare" /\ UNCHANGED <<ctx, variant, posts>>
            /\ pub'.status = "publishing"
        BY <1>0, <1>8, <2>1 DEF Claim, Publications
      <3>2. Approved
        BY <2>1, <3>1 DEF Sanctioned
      <3> QED
        BY <1>3, <1>4, <3>1, <3>2 DEF Beyond
    <2>2. CASE ~Claimable(w)
      <3>1. pc'[w] = "finish" /\ UNCHANGED <<pub, variant, posts>>
        BY <1>0, <1>8, <2>2 DEF Claim
      <3> QED
        BY <1>3, <3>1 DEF Beyond, Sending
    <2> QED
      BY <2>1, <2>2
  <1>9. CASE Prepare(w) \/ MarkSend(w) \/ AssertOwned(w)
    <2>1. /\ pc[w] \in Beyond /\ pc'[w] \in {"mark", "own", "send", "errPub", "finish"}
          /\ ctx'[w].revision = ctx[w].revision
      BY <1>0, <1>9 DEF Prepare, MarkSend, AssertOwned, Beyond, Sending, Contexts
    <2>2. UNCHANGED <<variant, posts>> /\ pub'.status = pub.status
      BY <1>0, <1>9 DEF Prepare, MarkSend, AssertOwned, Publications
    <2> QED
      BY <1>3, <1>4, <2>1, <2>2
  <1>10. CASE Send(w)
    <2>1. /\ pc[w] = "send" /\ pc'[w] \in {"confirm", "errPub"} /\ UNCHANGED <<pub, variant>>
          /\ ctx'[w].revision = ctx[w].revision
          /\ posts' = posts \/ posts' = Append(posts, ctx[w].revision)
      BY <1>0, <1>10 DEF Send, Contexts
    <2>2. ctx[w].revision \in blessed
      BY <1>4, <2>1 DEF Beyond, Sending
    <2>3. posts' = posts \/ ApprovedPosts'
      BY <1>0, <1>2, <2>1, <2>2 DEF Sanctioned, ApprovedPosts
    <2> QED
      BY <1>3, <2>1, <2>2, <2>3
  <1>11. CASE Confirm(w)
    <2>1. /\ pc[w] = "confirm" /\ pc'[w] \in {"finish", "errPub"} /\ UNCHANGED posts
          /\ ctx'[w].revision = ctx[w].revision
      BY <1>0, <1>11 DEF Confirm, Contexts
    <2>2. pub.status = "publishing" /\ pub'.status \in {"publishing", "published"}
      BY <1>0, <1>11 DEF Confirm, RowUnder, Publications
    <2>3. Approved
      BY <2>2 DEF Sanctioned
    <2> QED
      BY <1>3, <1>4, <2>1, <2>2, <2>3 DEF Beyond, Sending
  <1>12. CASE ErrPublication(w)
    <2>1. /\ pc[w] = "errPub" /\ pc'[w] \in {"finish", "errVariant"} /\ UNCHANGED <<variant, posts>>
          /\ pub'.status \in {"published", "failed", "queued"}
      BY <1>0, <1>12 DEF ErrPublication, Publications
    <2>2. pub.status = "publishing" /\ Approved
      BY <1>0, <2>1 DEF RowUnder, Sanctioned
    <2> QED
      BY <1>3, <2>1, <2>2 DEF Beyond, Sending, Outside
  <1>13. CASE ErrVariant(w)
    <2>1. pc[w] = "errVariant" /\ pc'[w] = "errSched" /\ UNCHANGED <<pub, posts>>
      BY <1>0, <1>13 DEF ErrVariant
    <2>2. Approved
      BY <2>1 DEF Sanctioned
    <2> QED
      BY <1>3, <2>1, <2>2 DEF Beyond, Sending
  <1> QED
    BY <1>5, <1>6, <1>7, <1>8, <1>9, <1>10, <1>11, <1>12, <1>13 DEF Step

\* A calendar action approves content only when someone did, or had before.
LEMMA SanctionedMutate ==
  ASSUME TypeOK, IInv, Versioned, Sanctioned, UndisturbedHandler,
         NEW a \in CalendarActions, NEW checked \in BOOLEAN, Mutate(a, checked)
  PROVE  Sanctioned'
  <1>0. /\ pub \in Publications /\ variant \in Variants
        /\ MaxVersion \in Nat /\ pub.queueVersion \in Nat
    BY ConstantsAssumption DEF TypeOK, Publications, Versions
  <1>1. /\ pub'.status # "publishing" /\ UNCHANGED <<pc, ctx, posts>>
        /\ \/ UNCHANGED pub /\ pub.status = "none"
           \/ pub'.queueVersion = pub.queueVersion + 1
    BY MutateMoves DEF execs
  <1>2. /\ variant' = VariantAfter(a)
        /\ blessed' = IF a = "approve" THEN blessed \cup {variant.revision} ELSE blessed
    BY DEF Mutate
  <1>3. /\ a # "edit" => variant'.revision = variant.revision
        /\ a = "edit" => variant'.revision # variant.revision
        /\ variant'.status \in Holding => ApprovedBy(a) /\ a # "reject"
    BY <1>0, <1>2, ConstantsAssumption DEF VariantAfter, Variants, Holding, Revisions
  <1>4. variant'.status \in Holding => Approved'
    <2>1. SUFFICES ASSUME variant'.status \in Holding PROVE Approved'
      OBVIOUS
    <2>2. CASE a = "approve"
      BY <1>2, <1>3, <2>2 DEF Approved
    <2>3. CASE a # "approve"
      BY <1>2, <1>3, <2>1, <2>3 DEF Approved, ApprovedBy, Sanctioned, Holding
    <2> QED
      BY <2>2, <2>3
  <1>5. ASSUME NEW w \in Executors PROVE ~(pc[w] = "claim" /\ Claimable(w)')
    <2>1. pc[w] = "claim" => ctx[w].version <= pub.queueVersion /\ ctx[w].version \in Int
      BY VersionNumbers DEF Versioned
    <2> QED
      BY <1>0, <1>1, <2>1 DEF Claimable
  <1>6. ASSUME NEW w \in Executors, pc[w] = "errVariant" PROVE Approved'
    <2>1. a # "edit" /\ Approved
      BY <1>3, <1>6 DEF UndisturbedHandler, Sanctioned
    <2> QED
      BY <1>2, <1>3, <2>1 DEF Approved
  <1> QED
    BY <1>1, <1>2, <1>4, <1>5, <1>6 DEF Sanctioned, ApprovedPosts

LEMMA SanctionedInv ==
  ASSUME Exclusive, TypeOK, IInv, Versioned, Sanctioned, [Next]_vars,
         [UndisturbedHandler]_vars, [UndisturbedSender]_vars
  PROVE  Sanctioned'
  <1> USE DEF rows, execs, world, budget
  <1>0. /\ pub \in Publications /\ variant \in Variants
        /\ pc \in [Executors -> PCs] /\ ctx \in [Executors -> Contexts]
    BY DEF TypeOK
  <1>1. ASSUME UNCHANGED <<pc, ctx, posts, blessed>>,
               variant'.revision = variant.revision, pub'.queueVersion = pub.queueVersion,
               variant'.status \in Holding => variant.status \in Holding,
               pub'.status \in {"publishing", "queued"} => pub'.status = pub.status
        PROVE  Sanctioned'
    BY <1>1 DEF Sanctioned, Approved, Claimable, ApprovedPosts
  <1>2. CASE Tick \/ SubmitCheck \/ SubmitInsert \/ Reconcile \/ UNCHANGED vars
    BY <1>1, <1>2 DEF Tick, SubmitCheck, SubmitInsert, Reconcile, RecoverySelect, RecoveryAdd,
       Stalled, vars
  <1>3. ASSUME NEW v \in Versions, StallLive(v) \/ Enqueue(v) \/ EnqueueFails(v) \/ EnqueueLost(v)
        PROVE  Sanctioned'
    BY <1>0, <1>1, <1>3 DEF StallLive, Enqueue, EnqueueFails, EnqueueLost, Publications
  <1>4. CASE CancelRoute \/ SubmitUpdate \/ RequestChanges
    BY <1>0, <1>1, <1>4 DEF CancelRoute, SubmitUpdate, RequestChanges, Publications, Variants, Holding
  <1>5. CASE PatchVariant
    <2>1. /\ variant'.status = variant.status /\ variant.status \notin Holding
          /\ UNCHANGED <<pub, pc, ctx, posts, blessed>>
          /\ variant'.revision = variant.revision + 1
      BY <1>0, <1>5 DEF PatchVariant, Variants, Holding
    <2>2. variant'.revision # variant.revision
      BY <1>0, <2>1, ConstantsAssumption DEF Variants, Revisions
    <2>3. /\ pub.status # "publishing"
          /\ \A w \in Executors : pc[w] # "errVariant" /\ ~(pc[w] = "claim" /\ Claimable(w))
      BY <1>5, <2>2 DEF UndisturbedHandler, UndisturbedSender, vars
    <2> QED
      BY <2>1, <2>3 DEF Sanctioned, Claimable, ApprovedPosts
  <1>6. ~RetryRoute /\ \A w \in Executors : ~DropLock(w)
    BY DEF RetryRoute, DropLock, Exclusive, TypeOK
  <1>7. ASSUME NEW w \in Executors,
               StartRecover(w) \/ (\E v \in Versions : StartJob(w, v)) \/ Crash(w)
        PROVE  Sanctioned'
    <2>1. /\ pc'[w] \in {"lock", "idle"} /\ UNCHANGED <<pub, variant, posts, blessed>>
          /\ \A u \in Executors : u # w => pc'[u] = pc[u] /\ ctx'[u] = ctx[u]
      BY <1>0, <1>7 DEF StartRecover, StartJob, Crash, Goto
    <2>2. ASSUME NEW u \in Executors
          PROVE  /\ pc'[u] \in Beyond => ctx'[u].revision \in blessed
                 /\ pc'[u] = "claim" /\ Claimable(u)' => Approved
                 /\ pc'[u] = "errVariant" => Approved
      <3>1. CASE u = w
        BY <2>1, <3>1 DEF Beyond, Sending
      <3>2. CASE u # w
        BY <2>1, <3>2 DEF Sanctioned, Claimable
      <3> QED
        BY <3>1, <3>2
    <2> QED
      BY <2>1, <2>2 DEF Sanctioned, Approved, ApprovedPosts
  <1>8. ASSUME NEW a \in CalendarActions, NEW checked \in BOOLEAN, Mutate(a, checked)
        PROVE  Sanctioned'
    <2>1. UndisturbedHandler
      BY DEF vars, UndisturbedHandler
    <2> QED
      BY <1>8, <2>1, SanctionedMutate
  <1> QED
    BY <1>2, <1>3, <1>4, <1>5, <1>6, <1>7, <1>8, SanctionedStep
       DEF Next, Worker, Fault, Reconcile, User, Api

LEMMA SanctionedInit == Init => Sanctioned
  <1> SUFFICES ASSUME NEW origin \in Origins,
                      pub = FreshPublication(origin), variant = FreshVariant(origin),
                      pc = [w \in Executors |-> "idle"], posts = <<>>,
                      blessed = IF origin \in {"auto", "dated"} THEN {0} ELSE {}
               PROVE  Sanctioned
    BY DEF Init
  <1>1. ApprovedPosts
    BY DEF ApprovedPosts
  <1> QED
    BY <1>1 DEF Sanctioned, FreshPublication, FreshVariant, Holding, Approved, Beyond, Sending

\* Only approved content reaches the destination while edits wait for the
\* error handler's second statement, and those of the review routes for the
\* sender too.
THEOREM ApprovedIfEditsWait ==
  ASSUME Exclusive
  PROVE  Spec /\ HandlersFirst /\ SendersFirst => []ApprovedPosts
  <1>1. TypeOK /\ IInv /\ Versioned /\ Sanctioned /\ [Next]_vars
        /\ [UndisturbedHandler]_vars /\ [UndisturbedSender]_vars => Sanctioned'
    BY SanctionedInv
  <1>2. Sanctioned => ApprovedPosts
    BY DEF Sanctioned
  <1> QED
    BY <1>1, <1>2, SanctionedInit, TypeCorrect, Inductive, Fenced, PTL DEF Spec, HandlersFirst, SendersFirst

\* Where the review routes are unused the error handler is the only place: the
\* schedule of the stale_approval run is the one way to send what nobody
\* approved.
COROLLARY ApprovedUnlessTorn ==
  ASSUME Reviewless
  PROVE  Spec /\ HandlersFirst => []ApprovedPosts
  <1>1. Exclusive
    BY DEF Reviewless
  <1>2. [UndisturbedSender]_vars
    BY DEF UndisturbedSender, PatchVariant, Reviewless
  <1> QED
    BY <1>1, <1>2, ApprovedIfEditsWait, PTL DEF SendersFirst
=============================================================================
