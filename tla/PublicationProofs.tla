-------------------------- MODULE PublicationProofs --------------------------
(* Theorems about Publication for every number of executors, attempts,      *)
(* versions, revisions and faults.                                          *)
EXTENDS Publication, TLAPS

\* A saturating increment stays in range.
LEMMA BumpType == \A n \in Attempts : Bump(n) \in Attempts
  BY ConstantsAssumption DEF Bump, Attempts

LEMMA InitType == Init => TypeOK
  <1> SUFFICES ASSUME NEW origin \in Origins,
                      pub = FreshPublication(origin),
                      variant = FreshVariant(origin),
                      sched = FreshSchedule(origin),
                      approvals = [pending |-> origin = "import", approved |-> FALSE],
                      jobs = [v \in Versions |-> IF v = 0 /\ origin \in {"auto", "dated"}
                                                 THEN NewJob(MaxAttempts) ELSE NoJob],
                      lock = NoOne, pc = [w \in Executors |-> "idle"],
                      ctx = [w \in Executors |-> IdleCtx], pending = {},
                      recovering = NoOne, submitting = "idle", posts = <<>>,
                      blessed = IF origin \in {"auto", "dated"} THEN {0} ELSE {},
                      faults = 0, drops = 0
               PROVE  TypeOK
    BY DEF Init
  <1>1. pub \in Publications
    BY ConstantsAssumption DEF Publications, FreshPublication, Versions, Attempts
  <1>2. variant \in Variants
    BY ConstantsAssumption DEF Variants, FreshVariant, Revisions
  <1>3. sched \in Schedules
    BY DEF Schedules, FreshSchedule, When
  <1>4. jobs \in [Versions -> Jobs]
    BY ConstantsAssumption DEF Jobs, NewJob, NoJob, Attempts
  <1>5. ctx \in [Executors -> Contexts]
    BY ConstantsAssumption DEF Contexts, IdleCtx, StartedCtx, Versions, Attempts, Revisions, Results
  <1>6. posts \in Seq(Revisions) /\ blessed \subseteq Revisions
    BY ConstantsAssumption DEF Revisions
  <1>7. approvals \in [pending : BOOLEAN, approved : BOOLEAN]
    OBVIOUS
  <1> QED
    BY <1>1, <1>2, <1>3, <1>4, <1>5, <1>6, <1>7, ConstantsAssumption DEF TypeOK, PCs

-----------------------------------------------------------------------------
(* Type correctness: one lemma per group of actions.                        *)

PcsTyped == pc \in [Executors -> PCs]
CtxTyped == ctx \in [Executors -> Contexts]

\* Moving an executor, or writing one of its local variables, keeps the types
\* of all executors.
LEMMA GotoType ==
  ASSUME PcsTyped, NEW w \in Executors, NEW step \in PCs, Goto(w, step)
  PROVE  PcsTyped'
  BY DEF PcsTyped, Goto

LEMMA ContextType ==
  ASSUME CtxTyped, NEW w \in Executors, NEW c \in Contexts, ctx' = [ctx EXCEPT ![w] = c]
  PROVE  CtxTyped'
  BY DEF CtxTyped

LEMMA FinishType ==
  ASSUME PcsTyped, CtxTyped, NEW w \in Executors, NEW threw \in BOOLEAN, Finish(w, threw)
  PROVE  PcsTyped' /\ CtxTyped'
  <1>1. [ctx[w] EXCEPT !.threw = threw] \in Contexts
    BY DEF CtxTyped, Contexts
  <1> QED
    BY <1>1 DEF PcsTyped, CtxTyped, Finish, PCs

LEMMA ResultType ==
  ASSUME CtxTyped, NEW w \in Executors, NEW r \in Results, ctx' = [ctx EXCEPT ![w].result = r]
  PROVE  CtxTyped'
  <1>1. [ctx[w] EXCEPT !.result = r] \in Contexts
    BY DEF CtxTyped, Contexts
  <1> QED
    BY <1>1 DEF CtxTyped

\* A step of an executor keeps every type.
LEMMA StepType == ASSUME TypeOK, NEW w \in Executors, Step(w) PROVE TypeOK'
  <1>0. PcsTyped /\ CtxTyped /\ pub \in Publications /\ variant \in Variants /\ ctx[w] \in Contexts
    BY DEF TypeOK, PcsTyped, CtxTyped
  <1> DEFINE Others == /\ pub' \in Publications
                       /\ variant' \in Variants
                       /\ sched' \in Schedules
                       /\ jobs' \in [Versions -> Jobs]
                       /\ lock' \in Executors \cup {NoOne}
                       /\ posts' \in Seq(Revisions)
                       /\ UNCHANGED <<approvals, pending, recovering, submitting, blessed, budget>>
  <1> SUFFICES PcsTyped' /\ CtxTyped' /\ Others
    BY DEF TypeOK, PcsTyped, CtxTyped, budget
  <1> USE DEF rows, execs, world, budget
  <1>1. CASE Lock(w)
    <2>1. Others
      BY <1>1, <1>0 DEF TypeOK, Lock
    <2>2. PcsTyped' /\ CtxTyped'
      BY <1>0, <1>1, GotoType, FinishType DEF Lock, PCs, CtxTyped
    <2> QED
      BY <2>1, <2>2
  <1>2. CASE Read(w)
    <2>1. Others
      BY <1>2, <1>0 DEF TypeOK, Read
    <2>2. [ctx[w] EXCEPT !.base = pub.attempt] \in Contexts
      BY <1>0, <1>2 DEF Contexts, Publications
    <2>3. Decision \in PCs
      BY <1>0, <1>2 DEF Decision, PCs
    <2>4. PcsTyped' /\ CtxTyped'
      BY <1>0, <1>2, <2>2, <2>3, GotoType, ContextType, FinishType DEF Read
    <2> QED
      BY <2>1, <2>4
  <1>3. CASE Repair(w)
    <2>1. Others
      BY <1>3, <1>0 DEF TypeOK, Repair, SettleSchedule, Publications, Variants, Schedules
    <2>2. PcsTyped' /\ CtxTyped'
      BY <1>0, <1>3, FinishType DEF Repair
    <2> QED
      BY <2>1, <2>2
  <1>4. CASE HoldUnknown(w)
    <2>1. Others
      BY <1>4, <1>0 DEF TypeOK, HoldUnknown, SettleSchedule, Publications, Variants, Schedules
    <2>2. PcsTyped' /\ CtxTyped'
      BY <1>0, <1>4, FinishType DEF HoldUnknown
    <2> QED
      BY <2>1, <2>2
  <1>5. CASE Requeue(w)
    <2>1. Others
      BY <1>5, <1>0 DEF TypeOK, Requeue, Publications
    <2>2. PcsTyped' /\ CtxTyped'
      BY <1>0, <1>5, GotoType DEF Requeue, PCs, CtxTyped
    <2> QED
      BY <2>1, <2>2
  <1>6. CASE ReadVariant(w)
    <2>1. Others
      BY <1>6, <1>0 DEF TypeOK, ReadVariant
    <2>2. [ctx[w] EXCEPT !.revision = variant.revision] \in Contexts
      BY <1>0, <1>6 DEF Contexts, Variants
    <2>3. PcsTyped' /\ CtxTyped'
      BY <1>0, <1>6, <2>2, GotoType, ContextType, FinishType DEF ReadVariant, PCs
    <2> QED
      BY <2>1, <2>3
  <1>7. CASE Claim(w)
    <2>0. Bump(ctx[w].base) \in Attempts
      BY <1>0, BumpType DEF Contexts
    <2>1. Others
      BY <1>7, <2>0 DEF TypeOK, Claim, Publications
    <2>2. PcsTyped' /\ CtxTyped'
      BY <1>0, <1>7, GotoType, FinishType DEF Claim, Claimable, PCs, CtxTyped
    <2> QED
      BY <2>1, <2>2
  <1>8. CASE Prepare(w)
    <2>1. Others
      BY <1>8, <1>0 DEF TypeOK, Prepare
    <2>2. PcsTyped' /\ CtxTyped'
      BY <1>0, <1>8, GotoType, FinishType, ResultType DEF Prepare, PCs, Results, CtxTyped
    <2> QED
      BY <2>1, <2>2
  <1>9. CASE MarkSend(w)
    <2>1. Others
      BY <1>9, <1>0 DEF TypeOK, MarkSend, Publications
    <2>2. PcsTyped' /\ CtxTyped'
      BY <1>0, <1>9, GotoType DEF MarkSend, PCs, CtxTyped
    <2> QED
      BY <2>1, <2>2
  <1>10. CASE AssertOwned(w)
    <2>1. Others
      BY <1>10, <1>0 DEF TypeOK, AssertOwned
    <2>2. PcsTyped' /\ CtxTyped'
      BY <1>0, <1>10, GotoType, FinishType DEF AssertOwned, PCs, CtxTyped
    <2> QED
      BY <2>1, <2>2
  <1>11. CASE Send(w)
    <2>0. posts' \in Seq(Revisions)
      <3>1. posts \in Seq(Revisions) /\ ctx[w].revision \in Revisions
        BY <1>0 DEF TypeOK, Contexts
      <3>2. Append(posts, ctx[w].revision) \in Seq(Revisions)
        BY <3>1
      <3> QED
        BY <1>11, <3>1, <3>2 DEF Send
    <2>1. Others
      BY <1>11, <2>0 DEF TypeOK, Send
    <2>2. PcsTyped' /\ CtxTyped'
      BY <1>0, <1>11, GotoType, ResultType DEF Send, PCs, Results
    <2> QED
      BY <2>1, <2>2
  <1>12. CASE Confirm(w)
    <2>1. Others
      <3>1. pub' \in Publications /\ variant' \in Variants
        BY <1>12, <1>0 DEF Confirm, Publications, Variants
      <3>2. sched' \in Schedules
        <4>1. sched \in Schedules /\ [sched EXCEPT !.status = "completed"] \in Schedules
          BY DEF TypeOK, Schedules
        <4> QED
          BY <1>12, <4>1 DEF Confirm, SettleSchedule
      <3>3. UNCHANGED <<jobs, lock, posts, approvals, pending, recovering, submitting, blessed, faults, drops>>
        BY <1>12 DEF Confirm
      <3> HIDE DEF rows, execs, world, budget
      <3> QED
        BY <3>1, <3>2, <3>3 DEF TypeOK, budget
    <2>2. PcsTyped' /\ CtxTyped'
      BY <1>0, <1>12, GotoType, FinishType DEF Confirm, PCs, CtxTyped
    <2> QED
      BY <2>1, <2>2
  <1>13. CASE ErrPublication(w)
    <2>1. Others
      <3>1. /\ pub' \in Publications
            /\ UNCHANGED <<variant, sched, jobs, lock, posts>>
        BY <1>13, <1>0 DEF ErrPublication, Publications, Contexts
      <3>2. UNCHANGED <<approvals, pending, recovering, submitting, blessed, budget>>
        BY <1>13 DEF ErrPublication
      <3> QED
        BY <3>1, <3>2 DEF TypeOK
    <2>2. PcsTyped' /\ CtxTyped'
      BY <1>0, <1>13, GotoType, FinishType DEF ErrPublication, PCs, CtxTyped
    <2> QED
      BY <2>1, <2>2
  <1>14. CASE ErrVariant(w)
    <2>1. Others
      BY <1>14, <1>0 DEF TypeOK, ErrVariant, Variants
    <2>2. PcsTyped' /\ CtxTyped'
      BY <1>0, <1>14, GotoType DEF ErrVariant, PCs, CtxTyped
    <2> QED
      BY <2>1, <2>2
  <1>15. CASE ErrSchedule(w)
    <2>1. Others
      BY <1>15, <1>0 DEF TypeOK, ErrSchedule, SettleSchedule, Schedules
    <2>2. PcsTyped' /\ CtxTyped'
      BY <1>0, <1>15, FinishType DEF ErrSchedule
    <2> QED
      BY <2>1, <2>2
  <1>16. CASE Release(w)
    <2>0. ASSUME NEW v \in Versions PROVE jobs'[v] \in Jobs
      <3>1. jobs[v] \in Jobs /\ Bump(jobs[v].made) \in Attempts
        BY BumpType DEF TypeOK, Jobs
      <3>2. [jobs[v] EXCEPT !.state = "completed", !.owner = NoOne] \in Jobs
        BY <3>1 DEF Jobs
      <3>3. [jobs[v] EXCEPT !.made = Bump(@), !.owner = NoOne,
               !.state = IF jobs[v].made + 1 < jobs[v].attempts THEN "waiting" ELSE "failed"] \in Jobs
        BY <3>1 DEF Jobs
      <3> QED
        BY <1>16, <3>1, <3>2, <3>3 DEF Release
    <2>1. Others
      BY <1>16, <2>0 DEF TypeOK, Release, Unlock
    <2>2. IdleCtx \in Contexts
      BY <1>0, <1>16, ConstantsAssumption DEF Contexts, IdleCtx, StartedCtx, Versions, Attempts, Revisions, Results
    <2>3. PcsTyped' /\ CtxTyped'
      BY <1>0, <1>16, <2>2, GotoType, ContextType DEF Release, PCs
    <2> QED
      BY <2>1, <2>3
  <1> QED
    BY <1>1, <1>2, <1>3, <1>4, <1>5, <1>6, <1>7, <1>8, <1>9, <1>10, <1>11, <1>12, <1>13,
       <1>14, <1>15, <1>16 DEF Step

\* A job that a new request or another owner writes keeps its type.
LEMMA NewJobType ==
  ASSUME ConstantsAssumption, NEW n \in {1, MaxAttempts}
  PROVE  NewJob(n) \in Jobs /\ NoJob \in Jobs
  BY DEF NewJob, NoJob, Jobs, Attempts

\* Starting an execution, a crash and a lost lock keep every type.
LEMMA StartAndFaultType ==
  ASSUME TypeOK, NEW w \in Executors,
         StartRecover(w) \/ (\E v \in Versions : StartJob(w, v)) \/ Crash(w) \/ DropLock(w)
  PROVE  TypeOK'
  <1>0. PcsTyped /\ CtxTyped /\ pub \in Publications /\ jobs \in [Versions -> Jobs]
    BY DEF TypeOK, PcsTyped, CtxTyped
  <1> SUFFICES /\ PcsTyped' /\ CtxTyped'
               /\ jobs' \in [Versions -> Jobs]
               /\ lock' \in Executors \cup {NoOne}
               /\ faults' \in 0 .. MaxFaults /\ drops' \in 0 .. MaxDrops
               /\ UNCHANGED <<rows, pending, recovering, submitting, world>>
    BY DEF TypeOK, PcsTyped, CtxTyped, rows, world
  <1> USE DEF rows, execs, world, budget
  <1>1. ASSUME NEW v \in Versions, NEW n \in Attempts PROVE StartedCtx(v, n) \in Contexts
    BY ConstantsAssumption DEF StartedCtx, Contexts, Attempts, Revisions, Results
  <1>2. IdleCtx \in Contexts
    BY <1>1, ConstantsAssumption DEF IdleCtx, Versions, Attempts
  <1>3. CASE StartRecover(w)
    <2>1. pub.queueVersion \in Versions /\ Bump(pub.attempt) \in Attempts
      BY <1>0, BumpType DEF Publications
    <2>2. PcsTyped' /\ CtxTyped'
      BY <1>0, <1>1, <1>3, <2>1, GotoType, ContextType DEF StartRecover, PCs
    <2> QED
      BY <1>3, <2>2 DEF StartRecover, TypeOK
  <1>4. ASSUME NEW v \in Versions, StartJob(w, v)
        PROVE  /\ PcsTyped' /\ CtxTyped'
               /\ jobs' \in [Versions -> Jobs]
               /\ UNCHANGED <<rows, lock, pending, recovering, submitting, world, budget>>
    <2>1. Bump(jobs[v].made) \in Attempts
      BY <1>0, BumpType DEF Jobs
    <2>2. PcsTyped' /\ CtxTyped'
      BY <1>0, <1>1, <1>4, <2>1, GotoType, ContextType DEF StartJob, PCs
    <2>3. [jobs[v] EXCEPT !.state = "active", !.owner = w] \in Jobs
      BY <1>0 DEF Jobs
    <2>4. jobs' = [jobs EXCEPT ![v] = [jobs[v] EXCEPT !.state = "active", !.owner = w]]
      BY <1>0, <1>4 DEF StartJob
    <2> QED
      BY <1>0, <1>4, <2>2, <2>3, <2>4 DEF StartJob
  <1>5. CASE Crash(w)
    <2>1. ASSUME NEW v \in Versions PROVE jobs'[v] \in Jobs
      <3>1. jobs[v] \in Jobs /\ [jobs[v] EXCEPT !.owner = NoOne] \in Jobs
        BY <1>0 DEF Jobs
      <3> QED
        BY <1>5, <3>1 DEF Crash
    <2>2. PcsTyped' /\ CtxTyped'
      <3>1. pc' = [pc EXCEPT ![w] = "idle"] /\ ctx' = [ctx EXCEPT ![w] = IdleCtx]
        BY <1>5 DEF Crash
      <3> QED
        BY <1>0, <1>2, <3>1 DEF PcsTyped, CtxTyped, PCs
    <2> QED
      BY <1>5, <2>1, <2>2, ConstantsAssumption DEF Crash, Unlock, TypeOK
  <1>6. CASE DropLock(w)
    BY <1>0, <1>6, ConstantsAssumption DEF DropLock, TypeOK, PcsTyped, CtxTyped
  <1>7. CASE \E v \in Versions : StartJob(w, v)
    BY <1>4, <1>7 DEF TypeOK
  <1> QED
    BY <1>3, <1>5, <1>6, <1>7

LEMMA StateWritten ==
  ASSUME NEW job \in Jobs, NEW s \in {"waiting", "failed"}
  PROVE  [job EXCEPT !.state = s] \in Jobs /\ [job EXCEPT !.state = s, !.owner = NoOne] \in Jobs
  BY DEF Jobs

\* The actions on jobs alone keep every type.
LEMMA JobType ==
  ASSUME TypeOK,
         \/ RecoverySelect \/ RecoveryAdd
         \/ \E v \in Versions : \/ Stalled(v) \/ StallLive(v) \/ Enqueue(v)
                                  \/ EnqueueFails(v) \/ EnqueueLost(v)
  PROVE  TypeOK'
  <1> USE DEF rows, execs, world, budget
  <1>1. NewJob(MaxAttempts) \in Jobs
    BY NewJobType, ConstantsAssumption
  <1>j. \A v \in Versions : jobs[v] \in Jobs
    BY DEF TypeOK
  <1>2. CASE RecoverySelect
    BY <1>2 DEF RecoverySelect, TypeOK, Publications
  <1>3. CASE RecoveryAdd
    BY <1>1, <1>3 DEF RecoveryAdd, TypeOK
  <1>4. ASSUME NEW v \in Versions, Stalled(v) PROVE TypeOK'
    <2>1. PICK s \in {"waiting", "failed"} : jobs' = [jobs EXCEPT ![v].state = s]
      BY <1>4 DEF Stalled
    <2>2. [jobs[v] EXCEPT !.state = s] \in Jobs
      BY <1>j, StateWritten
    <2>3. jobs' \in [Versions -> Jobs]
      BY <2>1, <2>2 DEF TypeOK
    <2>4. UNCHANGED <<rows, execs, pending, recovering, submitting, world, budget>>
      BY <1>4 DEF Stalled
    <2> QED
      BY <2>3, <2>4 DEF TypeOK
  <1>5. ASSUME NEW v \in Versions, StallLive(v) PROVE TypeOK'
    <2>1. [jobs[v] EXCEPT !.state = "waiting", !.owner = NoOne] \in Jobs
      BY <1>j, StateWritten
    <2>2. jobs' = [jobs EXCEPT ![v] = [jobs[v] EXCEPT !.state = "waiting", !.owner = NoOne]]
      BY <1>5 DEF StallLive, TypeOK
    <2>3. jobs' \in [Versions -> Jobs]
      BY <2>1, <2>2 DEF TypeOK
    <2>4. faults' \in 0 .. MaxFaults
      BY <1>5, ConstantsAssumption DEF TypeOK, StallLive
    <2>5. UNCHANGED <<rows, execs, pending, recovering, submitting, world, drops>>
      BY <1>5 DEF StallLive
    <2> QED
      BY <2>3, <2>4, <2>5 DEF TypeOK
  <1>6. ASSUME NEW v \in Versions, Enqueue(v) PROVE TypeOK'
    BY <1>1, <1>6 DEF Enqueue, TypeOK
  <1>7. ASSUME NEW v \in Versions, EnqueueFails(v) PROVE TypeOK'
    BY <1>7 DEF EnqueueFails, TypeOK, Publications
  <1>8. ASSUME NEW v \in Versions, EnqueueLost(v) PROVE TypeOK'
    BY <1>8, ConstantsAssumption DEF EnqueueLost, TypeOK
  <1> QED
    BY <1>2, <1>3, <1>4, <1>5, <1>6, <1>7, <1>8

\* The rows a calendar mutation computes are rows.
LEMMA MutateRows ==
  ASSUME TypeOK, NEW a \in CalendarActions, a = "edit" => variant.revision < MaxRevision
  PROVE  /\ VariantAfter(a) \in Variants
         /\ ScheduleAfter(a) \in Schedules
         /\ ApprovalsAfter(a) \in [pending : BOOLEAN, approved : BOOLEAN]
  <1>1. DateAfter(a) \in When
    BY DEF DateAfter, DateBefore, When, TypeOK, Schedules
  <1>2. variant \in Variants /\ sched \in Schedules
    BY DEF TypeOK
  <1>3. (IF a = "edit" THEN variant.revision + 1 ELSE variant.revision) \in Revisions
    BY <1>2, ConstantsAssumption DEF Variants, Revisions
  <1>4. VariantAfter(a) \in Variants
    <2> DEFINE status == IF a = "reject" THEN "rejected"
                         ELSE IF ~ApprovedBy(a) THEN "waiting_approval"
                         ELSE IF Queues(a) THEN "scheduled" ELSE "approved"
               revision == IF a = "edit" THEN variant.revision + 1 ELSE variant.revision
               paused == Stops(a)
               unscheduled == DateAfter(a) = "none"
               hold == ~Queues(a) /\ ~Stops(a)
    <2>1. /\ status \in {"rejected", "waiting_approval", "scheduled", "approved"}
          /\ revision \in Revisions
          /\ paused \in BOOLEAN /\ unscheduled \in BOOLEAN /\ hold \in BOOLEAN
      BY <1>3 DEF Stops, Queues
    <2>2. VariantAfter(a) = [variant EXCEPT !.status = status, !.revision = revision,
                               !.paused = paused, !.unscheduled = unscheduled, !.hold = hold]
      BY <1>2 DEF VariantAfter, Variants
    <2> HIDE DEF status, revision, paused, unscheduled, hold
    <2> QED
      BY <1>2, <2>1, <2>2 DEF Variants
  <1>5. ScheduleAfter(a) \in Schedules
    BY <1>1, <1>2 DEF ScheduleAfter, Schedules, When
  <1>6. ApprovalsAfter(a) \in [pending : BOOLEAN, approved : BOOLEAN]
    BY DEF ApprovalsAfter, TypeOK
  <1> QED
    BY <1>4, <1>5, <1>6

\* The actions of people and of the API keep every type.
LEMMA UserType == ASSUME TypeOK, User \/ SubmitInsert \/ SubmitUpdate PROVE TypeOK'
  <1> USE DEF rows, execs, world, budget
  <1>0. /\ pub \in Publications /\ variant \in Variants /\ sched \in Schedules
        /\ jobs \in [Versions -> Jobs]
    BY DEF TypeOK
  <1>1. ASSUME NEW a \in CalendarActions, NEW checked \in BOOLEAN, Mutate(a, checked)
        PROVE  TypeOK'
    <2>1. a = "edit" => variant.revision < MaxRevision
      BY <1>1 DEF Mutate
    <2>2. /\ variant' \in Variants /\ sched' \in Schedules
          /\ approvals' \in [pending : BOOLEAN, approved : BOOLEAN]
      BY <1>1, <2>1, MutateRows DEF Mutate
    <2>3. pub.queueVersion < MaxVersion /\ pub.queueVersion \in Versions
          /\ pub.queueVersion + 1 \in Versions
      BY <1>0, <1>1, ConstantsAssumption DEF Mutate, Publications, Versions
    <2>4. pub' \in Publications
      BY <1>0, <1>1, <2>3 DEF Mutate, Publications
    <2>5. pending' \subseteq Versions
      BY <1>1, <2>3 DEF Mutate, TypeOK
    <2>6. jobs' \in [Versions -> Jobs]
      BY <1>0, <1>1, <2>3, NewJobType, ConstantsAssumption DEF Mutate
    <2>7. blessed' \subseteq Revisions
      BY <1>0, <1>1 DEF Mutate, Variants, TypeOK
    <2> QED
      BY <1>1, <2>2, <2>4, <2>5, <2>6, <2>7 DEF Mutate, TypeOK
  <1>2. CASE PatchVariant
    <2>1. variant.revision + 1 \in Revisions
      BY <1>0, <1>2, ConstantsAssumption DEF PatchVariant, Variants, Revisions
    <2>2. variant' \in Variants
      BY <1>0, <1>2, <2>1 DEF PatchVariant, Variants
    <2> QED
      BY <1>2, <2>2 DEF PatchVariant, TypeOK
  <1>3. CASE SubmitCheck
    BY <1>3 DEF SubmitCheck, TypeOK
  <1>4. CASE SubmitInsert
    BY <1>4 DEF SubmitInsert, TypeOK
  <1>5. CASE SubmitUpdate
    BY <1>0, <1>5 DEF SubmitUpdate, TypeOK, Variants
  <1>6. CASE RequestChanges
    BY <1>0, <1>6 DEF RequestChanges, TypeOK, Variants
  <1>7. CASE RetryRoute
    <2>1. NewJob(1) \in Jobs /\ NoJob \in Jobs
      BY NewJobType, ConstantsAssumption
    <2> QED
      <3>1. pub' \in Publications
        BY <1>0, <1>7 DEF RetryRoute, Publications
      <3>2. jobs' \in [Versions -> Jobs]
        BY <1>0, <1>7, <2>1 DEF RetryRoute
      <3> QED
        BY <1>7, <3>1, <3>2 DEF RetryRoute, TypeOK
  <1>8. CASE CancelRoute
    <2>1. NoJob \in Jobs
      BY NewJobType, ConstantsAssumption
    <2> QED
      BY <1>0, <1>8, <2>1 DEF CancelRoute, TypeOK, Publications, Schedules
  <1> QED
    BY <1>1, <1>2, <1>3, <1>4, <1>5, <1>6, <1>7, <1>8 DEF User

\* Every row, job and local variable has its type in every reachable state.
THEOREM TypeCorrect == Spec => []TypeOK
  <1>1. Init => TypeOK
    BY InitType
  <1>2. TypeOK /\ [Next]_vars => TypeOK'
    <2> SUFFICES ASSUME TypeOK, [Next]_vars PROVE TypeOK'
      OBVIOUS
    <2>1. CASE Tick
      BY <2>1 DEF Tick, TypeOK, Schedules, When, execs, world, budget
    <2>2. CASE Worker
      BY <2>2, StepType, StartAndFaultType DEF Worker
    <2>3. CASE Fault
      BY <2>3, StartAndFaultType, JobType DEF Fault
    <2>4. CASE Reconcile
      BY <2>4, JobType DEF Reconcile
    <2>5. CASE User
      BY <2>5, UserType
    <2>6. CASE Api
      BY <2>6, JobType, UserType DEF Api
    <2>7. CASE UNCHANGED vars
      BY <2>7 DEF vars, TypeOK
    <2> QED
      BY <2>1, <2>2, <2>3, <2>4, <2>5, <2>6, <2>7 DEF Next
  <1> QED
    BY <1>1, <1>2, PTL DEF Spec

-----------------------------------------------------------------------------
(* Safety, while locks are lost only with their process and the older retry *)
(* route is unused: the inductive invariant IInv.                           *)

\* Nobody is inside executePublication beside the holder of the lock.
LEMMA Alone ==
  ASSUME OwnsLock, NEW w \in Executors, pc[w] \notin Outside,
         NEW u \in Executors, u # w
  PROVE  pc[u] \in Outside
  BY DEF OwnsLock

\* An executor outside owes nothing to the row.
LEMMA OutsideRow ==
  ASSUME NEW w \in Executors, pc[w] \in Outside
  PROVE  RowUnder(w)
  BY DEF RowUnder, Outside

\* A step moves one executor and leaves the others where they are.
LEMMA StepMoves ==
  ASSUME TypeOK, NEW w \in Executors, Step(w)
  PROVE  \E step \in PCs : pc' = [pc EXCEPT ![w] = step]
  <1> USE DEF Goto, Finish, PCs, Decision
  <1>1. pc \in [Executors -> PCs]
    BY DEF TypeOK
  <1>2. CASE Lock(w) \/ Read(w) \/ Repair(w) \/ HoldUnknown(w)
    BY <1>1, <1>2 DEF Lock, Read, Repair, HoldUnknown
  <1>3. CASE Requeue(w) \/ ReadVariant(w) \/ Claim(w) \/ Prepare(w)
    BY <1>1, <1>3 DEF Requeue, ReadVariant, Claim, Prepare
  <1>4. CASE MarkSend(w) \/ AssertOwned(w) \/ Send(w) \/ Confirm(w)
    BY <1>1, <1>4 DEF MarkSend, AssertOwned, Send, Confirm
  <1>5. CASE ErrPublication(w) \/ ErrVariant(w) \/ ErrSchedule(w) \/ Release(w)
    BY <1>1, <1>5 DEF ErrPublication, ErrVariant, ErrSchedule, Release
  <1> QED
    BY <1>2, <1>3, <1>4, <1>5 DEF Step

\* Only Lock and Release move the lock, and only for the executor itself.
LEMMA StepOwns ==
  ASSUME ConstantsAssumption, TypeOK, OwnsLock, NEW w \in Executors, Step(w)
  PROVE  OwnsLock'
  <1>1. pc \in [Executors -> PCs] /\ NoOne \notin Executors
    BY DEF TypeOK, ConstantsAssumption
  <1>2. PICK step \in PCs : pc' = [pc EXCEPT ![w] = step]
    BY StepMoves
  <1>3. CASE Lock(w)
    BY <1>1, <1>2, <1>3 DEF Lock, OwnsLock, Outside, Goto, Finish
  <1>4. CASE Release(w)
    BY <1>1, <1>2, <1>4 DEF Release, OwnsLock, Outside, Goto, Unlock
  <1>5. CASE lock' = lock /\ pc[w] \notin Outside
    BY <1>1, <1>2, <1>5 DEF OwnsLock
  <1>6. CASE Read(w) \/ Repair(w) \/ HoldUnknown(w) \/ Requeue(w) \/ ReadVariant(w)
    BY <1>5, <1>6 DEF Read, Repair, HoldUnknown, Requeue, ReadVariant, Outside
  <1>7. CASE Claim(w) \/ Prepare(w) \/ MarkSend(w) \/ AssertOwned(w) \/ Send(w)
    BY <1>5, <1>7 DEF Claim, Claimable, Prepare, MarkSend, AssertOwned, Send, Outside
  <1>8. CASE Confirm(w) \/ ErrPublication(w) \/ ErrVariant(w) \/ ErrSchedule(w)
    BY <1>5, <1>8 DEF Confirm, ErrPublication, ErrVariant, ErrSchedule, Outside
  <1> QED
    BY <1>3, <1>4, <1>6, <1>7, <1>8 DEF Step

\* What one step of the executor does to its row and to the destination.
LEMMA StepRow ==
  ASSUME TypeOK, IInv, NEW w \in Executors, Step(w)
  PROVE  RowUnder(w)' /\ Accountable'
  <1>0. /\ pub \in Publications /\ variant \in Variants /\ ctx[w] \in Contexts
        /\ pc \in [Executors -> PCs] /\ ctx \in [Executors -> Contexts]
        /\ posts \in Seq(Revisions)
        /\ RowUnder(w) /\ Accountable
    BY DEF TypeOK, IInv
  <1> USE DEF rows, execs, world, budget, RowUnder, Accountable, Goto, Finish
  <1>1. CASE Lock(w)
    BY <1>0, <1>1 DEF Lock
  <1>2. CASE Read(w)
    BY <1>0, <1>2 DEF Read, Decision
  <1>3. CASE Repair(w)
    BY <1>0, <1>3 DEF Repair
  <1>4. CASE HoldUnknown(w)
    BY <1>0, <1>4 DEF HoldUnknown, Publications, Variants
  <1>5. CASE Requeue(w)
    BY <1>0, <1>5 DEF Requeue, Publications, Variants
  <1>6. CASE ReadVariant(w)
    BY <1>0, <1>6 DEF ReadVariant
  <1>7. CASE Claim(w)
    BY <1>0, <1>7 DEF Claim, Claimable, Publications
  <1>8. CASE Prepare(w)
    BY <1>0, <1>8 DEF Prepare, Contexts
  <1>9. CASE MarkSend(w)
    BY <1>0, <1>9 DEF MarkSend, Publications
  <1>10. CASE AssertOwned(w)
    BY <1>0, <1>10 DEF AssertOwned
  <1>11. CASE Send(w)
    <2>1. /\ posts = <<>> /\ UNCHANGED <<pub, variant>>
          /\ pub.status = "publishing" /\ pub.sendStarted
      BY <1>0, <1>11 DEF Send
    <2>2. Append(posts, ctx[w].revision) # posts /\ Len(Append(posts, ctx[w].revision)) = 1
      <3>1. Len(posts) = 0 /\ Len(Append(posts, ctx[w].revision)) = Len(posts) + 1
        BY <1>0, <2>1 DEF Contexts
      <3> QED
        BY <3>1
    <2>3. Len(posts') <= 1
      <3>1. posts' = posts \/ posts' = Append(posts, ctx[w].revision)
        BY <1>11 DEF Send
      <3>2. Len(posts) <= 1
        BY <1>0
      <3>3. CASE posts' = posts
        BY <3>2, <3>3
      <3>4. CASE posts' = Append(posts, ctx[w].revision)
        BY <2>2, <3>4
      <3> QED
        BY <3>1, <3>3, <3>4
    <2>4. Accountable'
      BY <1>0, <2>1, <2>3
    <2>5. CASE posts' = Append(posts, ctx[w].revision)
      <3>1. \/ pc'[w] = "confirm" /\ ctx'[w].result = "confirmed"
            \/ pc'[w] = "errPub" /\ ctx'[w].result \in {"unknown", "failed"}
               /\ (posts' # posts => ctx'[w].result = "unknown")
        BY <1>0, <1>11, <2>5 DEF Send, Contexts
      <3> QED
        BY <1>0, <2>1, <2>2, <2>4, <2>5, <3>1
    <2>6. CASE posts' = posts
      <3>1. \/ pc'[w] = "errPub" /\ ctx'[w].result \in {"unknown", "failed"}
            \/ posts' = Append(posts, ctx[w].revision)
        BY <1>0, <1>11 DEF Send, Contexts
      <3>2. pub' = pub /\ variant' = variant
        BY <2>1
      <3>3. pc'[w] = "errPub"
        BY <2>2, <2>6, <3>1
      <3>4. ctx'[w].result \in {"unknown", "failed"}
        BY <2>2, <2>6, <3>1
      <3>5. RowUnder(w)'
        BY <1>0, <2>1, <2>6, <3>2, <3>3, <3>4
      <3> QED
        BY <2>4, <3>5
    <2> QED
      BY <1>11, <2>5, <2>6 DEF Send
  <1>12. CASE Confirm(w)
    BY <1>0, <1>12 DEF Confirm, Publications, Variants
  <1>13. CASE ErrPublication(w)
    <2>1. /\ ctx[w].result \in {"failed", "unknown", "confirmed"}
          /\ pub.status = "publishing" /\ ~pub.externalId /\ ~variant.paused
          /\ ctx[w].result = "failed" => posts = <<>>
          /\ ctx[w].result = "confirmed" => Len(posts) = 1
          /\ UNCHANGED <<posts, variant>> /\ pc'[w] \in {"errVariant", "finish"}
      BY <1>0, <1>13 DEF ErrPublication, Contexts, Results
    <2>2. pub' = [pub EXCEPT
            !.status = IF ctx[w].result = "confirmed" THEN "published"
                       ELSE IF FinalAttempt(w) THEN "failed" ELSE "queued",
            !.sendStarted = @ /\ ctx[w].result # "failed",
            !.externalId = @ \/ ctx[w].result = "confirmed",
            !.unknown = (ctx[w].result = "unknown")]
      BY <1>13 DEF ErrPublication
    <2>3. /\ pub'.externalId = (ctx[w].result = "confirmed")
          /\ pub'.unknown = (ctx[w].result = "unknown")
          /\ pub'.status = IF ctx[w].result = "confirmed" THEN "published"
                           ELSE IF FinalAttempt(w) THEN "failed" ELSE "queued"
      BY <1>0, <2>1, <2>2 DEF Publications
    <2>4. ctx[w].result = "unknown" => FinalAttempt(w)
      BY DEF FinalAttempt
    <2> QED
      BY <1>0, <2>1, <2>3, <2>4
  <1>14. CASE ErrVariant(w)
    BY <1>0, <1>14 DEF ErrVariant, Variants
  <1>15. CASE ErrSchedule(w)
    BY <1>0, <1>15 DEF ErrSchedule
  <1>16. CASE Release(w)
    BY <1>0, <1>16 DEF Release
  <1> QED
    BY <1>1, <1>2, <1>3, <1>4, <1>5, <1>6, <1>7, <1>8, <1>9, <1>10, <1>11, <1>12, <1>13,
       <1>14, <1>15, <1>16 DEF Step

\* A step of an executor keeps the invariant: the others are outside.
LEMMA StepSafe ==
  ASSUME ConstantsAssumption, TypeOK, IInv, NEW w \in Executors, Step(w)
  PROVE  IInv'
  <1>1. OwnsLock'
    BY StepOwns DEF IInv
  <1>2. RowUnder(w)' /\ Accountable'
    BY StepRow
  <1>3. ASSUME NEW u \in Executors, u # w PROVE RowUnder(u)'
    <2>1. pc'[u] = pc[u]
      BY <1>3, StepMoves DEF TypeOK
    <2>2. CASE pc[w] \notin Outside
      <3>1. pc[u] \in Outside
        BY <1>3, <2>2, Alone DEF IInv
      <3> QED
        BY <2>1, <3>1 DEF RowUnder, Outside
    <2>3. CASE pc[w] \in Outside
      <3>1. UNCHANGED <<pub, posts>> /\ ctx'[u] = ctx[u]
        <4>1. Lock(w) \/ Release(w)
          BY <2>3 DEF Step, Outside, Read, Repair, HoldUnknown, Requeue, ReadVariant, Claim,
             Prepare, MarkSend, AssertOwned, Send, Confirm, ErrPublication, ErrVariant, ErrSchedule
        <4> QED
          BY <1>3, <4>1 DEF TypeOK, Lock, Release, Finish, rows, world
      <3>2. RowUnder(u)
        BY DEF IInv
      <3> QED
        BY <2>1, <3>1, <3>2 DEF RowUnder
    <2> QED
      BY <2>2, <2>3
  <1> QED
    BY <1>1, <1>2, <1>3 DEF IInv

\* Away from "publishing" no executor depends on what the row says.
LEMMA AtRest ==
  ASSUME IInv, pub.status # "publishing", UNCHANGED <<pc, lock>>
  PROVE  OwnsLock' /\ \A w \in Executors : RowUnder(w)'
  BY DEF IInv, OwnsLock, RowUnder

\* A calendar mutation leaves a row it may touch, and a copy at the
\* destination, accounted for.
LEMMA MutateSafe ==
  ASSUME TypeOK, IInv, NEW a \in CalendarActions, NEW checked \in BOOLEAN, Mutate(a, checked)
  PROVE  IInv'
  <1>0. /\ pub \in Publications /\ variant \in Variants /\ posts \in Seq(Revisions)
        /\ Accountable
    BY DEF TypeOK, IInv
  <1>1. pub.status \notin {"publishing", "published"}
    BY <1>0 DEF Mutate, ActionAllowed, Movable, RawStatus, Accountable
  <1>2. OwnsLock' /\ \A w \in Executors : RowUnder(w)'
    BY <1>1, AtRest DEF Mutate, execs
  <1>3. /\ ~pub.externalId /\ posts' = posts
        /\ posts # <<>> => pub.unknown /\ ~checked
        /\ variant'.paused = Stops(a)
    BY <1>0, <1>1 DEF Accountable, Mutate, VariantAfter, Variants
  <1>4. Stops(a) => ~Queues(a)
    BY DEF Queues
  <1>5. pub.unknown /\ ~checked => ~Queues(a)
    BY <1>0 DEF Mutate, ActionAllowed, DestinationKnown, Queues, ApprovedBy, DateAfter, CalendarActions, Stops
  <1>6. CASE UNCHANGED pub /\ ~Stops(a)
    BY <1>0, <1>2, <1>3, <1>6 DEF Accountable, IInv
  <1>7. CASE pub' = [pub EXCEPT !.queueVersion = pub.queueVersion + 1,
                                !.status = IF Queues(a) THEN "queued" ELSE "cancelled",
                                !.unknown = @ /\ ~checked]
    <2>1. /\ pub'.status = IF Queues(a) THEN "queued" ELSE "cancelled"
          /\ pub'.unknown = (pub.unknown /\ ~checked)
          /\ pub'.externalId = pub.externalId
      BY <1>0, <1>7 DEF Publications
    <2> QED
      BY <1>0, <1>2, <1>3, <1>4, <1>5, <2>1 DEF Accountable, IInv
  <1> QED
    BY <1>2, <1>6, <1>7 DEF Mutate, IInv

\* Every step keeps the invariant.
LEMMA IInvStep ==
  ASSUME ConstantsAssumption, Exclusive, TypeOK, IInv, [Next]_vars
  PROVE  IInv'
  <1> USE DEF rows, execs, world, budget
  <1>0. /\ pub \in Publications /\ variant \in Variants /\ pc \in [Executors -> PCs]
        /\ ctx \in [Executors -> Contexts] /\ Accountable /\ OwnsLock
        /\ NoOne \notin Executors
    BY DEF TypeOK, IInv, ConstantsAssumption
  <1>1. ASSUME UNCHANGED <<pub, variant, posts, pc, ctx, lock>> PROVE IInv'
    BY <1>1 DEF IInv, OwnsLock, RowUnder, Accountable
  <1>2. CASE Tick \/ SubmitCheck \/ SubmitInsert \/ Reconcile \/ UNCHANGED vars
    BY <1>1, <1>2 DEF Tick, SubmitCheck, SubmitInsert, Reconcile, RecoverySelect, RecoveryAdd,
       Stalled, vars
  <1>3. ASSUME NEW v \in Versions, StallLive(v) \/ Enqueue(v) \/ EnqueueLost(v) PROVE IInv'
    BY <1>1, <1>3 DEF StallLive, Enqueue, EnqueueLost
  <1>4. ASSUME NEW w \in Executors, pc' = [pc EXCEPT ![w] = "lock"] \/ pc' = [pc EXCEPT ![w] = "idle"],
               \A u \in Executors : u # w => ctx'[u] = ctx[u],
               UNCHANGED <<pub, variant, posts>>,
               (lock' = lock /\ pc[w] = "idle") \/ Unlock(w)
        PROVE  IInv'
    <2>1. OwnsLock'
      BY <1>0, <1>4 DEF OwnsLock, Unlock, Outside
    <2>2. ASSUME NEW u \in Executors PROVE RowUnder(u)'
      BY <1>0, <1>4 DEF IInv, RowUnder
    <2> QED
      BY <1>0, <1>4, <2>1, <2>2 DEF IInv, Accountable
  <1>5. ASSUME NEW w \in Executors, StartRecover(w) PROVE IInv'
    BY <1>0, <1>4, <1>5 DEF StartRecover, Goto
  <1>6. ASSUME NEW w \in Executors, NEW v \in Versions, StartJob(w, v) PROVE IInv'
    BY <1>0, <1>4, <1>6 DEF StartJob, Goto
  <1>7. ASSUME NEW w \in Executors, Crash(w) PROVE IInv'
    BY <1>0, <1>4, <1>7 DEF Crash
  <1>8. ASSUME NEW w \in Executors PROVE ~DropLock(w)
    BY DEF DropLock, Exclusive, TypeOK
  <1>9. ASSUME NEW v \in Versions, EnqueueFails(v) PROVE IInv'
    BY <1>0, <1>1, <1>9, AtRest DEF EnqueueFails, IInv, Accountable, Publications
  <1>10. CASE CancelRoute
    BY <1>0, <1>10, AtRest DEF CancelRoute, IInv, Accountable, Publications
  <1>11. CASE PatchVariant \/ SubmitUpdate \/ RequestChanges
    <2>1. /\ UNCHANGED <<pub, posts, pc, ctx, lock>>
          /\ variant'.paused = variant.paused
      BY <1>0, <1>11 DEF PatchVariant, SubmitUpdate, RequestChanges, Variants
    <2> QED
      BY <2>1 DEF IInv, OwnsLock, RowUnder, Accountable
  <1>12. ~RetryRoute
    BY DEF Exclusive, RetryRoute
  <1>13. CASE Worker
    BY <1>5, <1>6, <1>13, StepSafe DEF Worker
  <1>14. CASE Fault
    BY <1>3, <1>7, <1>8, <1>14 DEF Fault
  <1>15. CASE User
    BY <1>2, <1>10, <1>11, <1>12, <1>15, MutateSafe DEF User
  <1>16. CASE Api
    BY <1>2, <1>3, <1>9, <1>11, <1>16 DEF Api
  <1> QED
    BY <1>2, <1>13, <1>14, <1>15, <1>16 DEF Next

LEMMA IInvInit == ASSUME ConstantsAssumption, Init PROVE IInv
  <1> SUFFICES ASSUME NEW origin \in Origins,
                      pub = FreshPublication(origin), variant = FreshVariant(origin),
                      pc = [w \in Executors |-> "idle"], posts = <<>>
               PROVE  IInv
    BY DEF Init
  <1>1. OwnsLock /\ \A w \in Executors : RowUnder(w)
    BY DEF OwnsLock, Outside, RowUnder
  <1>2. Len(posts) = 0
    OBVIOUS
  <1>3. Accountable
    BY <1>2 DEF Accountable, FreshPublication, FreshVariant
  <1> QED
    BY <1>1, <1>3 DEF IInv

\* Past its lock step an executor owns the lock, the row says what its
\* executor is doing, and a copy at the destination is accounted for.
THEOREM Inductive == ASSUME Exclusive PROVE Spec => []IInv
  <1>1. Init => IInv
    BY IInvInit, ConstantsAssumption
  <1>2. TypeOK /\ IInv /\ [Next]_vars => IInv'
    BY IInvStep, ConstantsAssumption
  <1> QED
    BY <1>1, <1>2, TypeCorrect, PTL DEF Spec

\* The destination gets the content at most once, for every number of
\* workers, jobs, crashes, recoveries and calendar decisions.
THEOREM PostedOnce == ASSUME Exclusive PROVE Spec => []AtMostOnePost
  <1>1. IInv => AtMostOnePost
    BY DEF IInv, Accountable, AtMostOnePost
  <1> QED
    BY <1>1, Inductive, PTL

\* "Delivery unknown" goes only with a receipt, or after a person found that
\* the destination has nothing.
THEOREM UnknownKept == ASSUME Exclusive PROVE Spec => UnknownHeld
  <1>1. TypeOK /\ IInv /\ [Next]_vars
          => [pub.unknown /\ ~pub'.unknown => pub'.externalId \/ posts = <<>>]_vars
    <2> SUFFICES ASSUME TypeOK, IInv, Next, pub.unknown, ~pub'.unknown PROVE posts = <<>>
      BY DEF vars
    <2> USE DEF rows
    <2>1. pub.status \in {"failed", "cancelled"}
      BY DEF IInv, Accountable
    <2>2. ASSUME NEW w \in Executors, Step(w) PROVE FALSE
      <3>1. pub' = pub
        <4>1. ~Repair(w) /\ ~HoldUnknown(w) /\ ~Requeue(w) /\ ~MarkSend(w) /\ ~Confirm(w)
              /\ ~ErrPublication(w)
          BY <2>1 DEF IInv, RowUnder, Repair, HoldUnknown, Requeue, MarkSend, Confirm, ErrPublication
        <4> QED
          BY <2>1, <2>2, <4>1 DEF Step, Lock, Read, ReadVariant, Claim, Claimable, Prepare, AssertOwned, Send,
             ErrVariant, ErrSchedule, Release
      <3> QED
        BY <3>1
    <2>3. ASSUME NEW w \in Executors,
                 StartRecover(w) \/ (\E v \in Versions : StartJob(w, v)) \/ Crash(w) \/ DropLock(w)
          PROVE FALSE
      BY <2>3 DEF StartRecover, StartJob, Crash, DropLock
    <2>4. CASE \E a \in CalendarActions, checked \in BOOLEAN : Mutate(a, checked)
      BY <2>4 DEF Mutate, TypeOK, Publications
    <2>5. ~CancelRoute /\ ~RetryRoute
      BY <2>1 DEF CancelRoute, RetryRoute, Exclusive
    <2>6. ASSUME Tick \/ PatchVariant \/ SubmitCheck \/ RequestChanges \/ Reconcile
          PROVE FALSE
      BY <2>6 DEF Tick, PatchVariant, SubmitCheck, RequestChanges, Reconcile, RecoverySelect,
         RecoveryAdd, Stalled
    <2>7. ASSUME Api \/ \E v \in Versions : StallLive(v) PROVE FALSE
      BY <2>1, <2>7 DEF Api, Enqueue, EnqueueFails, EnqueueLost, SubmitInsert, SubmitUpdate, StallLive
    <2> QED
      BY <2>2, <2>3, <2>4, <2>5, <2>6, <2>7 DEF Next, Worker, Fault, User
  <1> QED
    BY <1>1, TypeCorrect, Inductive, PTL DEF Spec, UnknownHeld
=============================================================================
