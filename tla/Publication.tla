---------------------------- MODULE Publication ----------------------------
(***************************************************************************)
(* One publication of one content variant: the database rows, the BullMQ   *)
(* jobs that ask for its delivery, the executors that deliver it           *)
(* (apps/worker/src/publisher.ts), the recovery pass that reconciles rows  *)
(* with jobs (dispatch-recovery.ts), the calendar mutations of the API     *)
(* (routes/calendar.ts), the review routes (content.ts, approvals.ts) and  *)
(* the older retry and cancel routes (analytics.ts).                       *)
(*                                                                         *)
(* A database statement or transaction is one action; an executor step     *)
(* runs from one await to the next.                                        *)
(***************************************************************************)
EXTENDS Integers, Sequences

CONSTANTS
  Workers,      \* BullMQ slots that process publication jobs
  Recoverers,   \* recovery passes, one per worker process
  NoOne,        \* nobody holds the lock or owns the job
  MaxAttempts,  \* attempts of a job, and of a recovered execution
  MaxVersion,   \* bound: queueVersion
  MaxRevision,  \* bound: edits of the content
  MaxFaults,    \* bound: process crashes and stalled live jobs
  MaxDrops,     \* bound: lock connections lost under a live executor
  Origins,      \* how the item came to exist, a subset of OriginKinds
  Routes        \* which API routes clients call, a subset of RouteKinds

Executors == Workers \cup Recoverers   \* whoever may run executePublication

OriginKinds == {"manual", "auto", "dated", "review", "import"}
RouteKinds == {"calendar", "review", "retry", "cancel"}

ASSUME ConstantsAssumption ==
  /\ NoOne \notin Executors /\ Workers \cap Recoverers = {}
  /\ MaxAttempts \in Nat \ {0}
  /\ MaxVersion \in Nat /\ MaxRevision \in Nat
  /\ MaxFaults \in Nat /\ MaxDrops \in Nat
  /\ Origins \subseteq OriginKinds /\ Routes \subseteq RouteKinds

VARIABLES
  \* rows
  pub,        \* the publications row; status "none" when there is none
  variant,    \* the contentVariants row: status, body revision, settings
  sched,      \* the schedules row the publication points at
  approvals,  \* whether a pending and an approved approvals row exist
  \* Redis
  jobs,       \* version -> BullMQ job of that version
  \* processes
  lock,       \* holder of the advisory lock publication:<id>
  pc, ctx,    \* an executor's next step and local variables
  pending,    \* versions a calendar request committed and has yet to enqueue
  recovering, \* version the recovery pass selected to enqueue, or NoOne
  submitting, \* progress of one POST .../approval request
  \* the world
  posts,      \* revisions delivered to the destination, in order
  blessed,    \* revisions a person approved or the workflow needed no one for
  faults, drops

rows == <<pub, variant, sched, approvals>>
execs == <<lock, pc, ctx>>
world == <<posts, blessed>>
budget == <<faults, drops>>
vars == <<pub, variant, sched, approvals, jobs, lock, pc, ctx, pending,
          recovering, submitting, posts, blessed, faults, drops>>

Versions == 0 .. MaxVersion
Revisions == 0 .. MaxRevision
Attempts == 0 .. MaxAttempts
When == {"none", "future", "due"}
PCs == {"idle", "lock", "read", "repair", "hold", "requeue", "variant", "claim",
        "prepare", "mark", "own", "send", "confirm", "errPub", "errVariant",
        "errSched", "finish"}
Results == {"none", "failed", "unknown", "confirmed"}

\* Attempt counters are only compared with MaxAttempts: they saturate there.
Bump(n) == IF n < MaxAttempts THEN n + 1 ELSE n

NoJob == [state |-> "none", made |-> 0, attempts |-> MaxAttempts, owner |-> NoOne]
NewJob(n) == [state |-> "waiting", made |-> 0, attempts |-> n, owner |-> NoOne]

\* The local variables of an execution of version v, its n-th attempt.
StartedCtx(v, n) == [version |-> v, attempt |-> n, base |-> 0, revision |-> 0,
                     result |-> "none", threw |-> FALSE]
IdleCtx == StartedCtx(0, 0)

-----------------------------------------------------------------------------
(* Initial rows: what auto-publish.ts, content.ts and the collection import *)
(* leave behind when they create a variant for a destination.               *)

FreshPublication(origin) ==
  [status |-> IF origin = "manual" THEN "none"
              ELSE IF origin \in {"auto", "dated"} THEN "queued" ELSE "cancelled",
   queueVersion |-> 0, attempt |-> 0,
   sendStarted |-> FALSE, externalId |-> FALSE, unknown |-> FALSE]

FreshVariant(origin) ==
  [status |-> IF origin = "manual" THEN "draft"
              ELSE IF origin \in {"auto", "dated"} THEN "approved" ELSE "waiting_approval",
   revision |-> 0,
   ai |-> origin \in {"auto", "dated", "review"},
   hold |-> origin \in {"review", "import"},
   paused |-> FALSE,
   unscheduled |-> FALSE,
   immediate |-> origin = "review"]

FreshSchedule(origin) ==
  IF origin \in {"dated", "import"} THEN [status |-> "scheduled", when |-> "future"]
  ELSE [status |-> "none", when |-> "none"]

Init ==
  \E origin \in Origins :
    /\ pub = FreshPublication(origin)
    /\ variant = FreshVariant(origin)
    /\ sched = FreshSchedule(origin)
    /\ approvals = [pending |-> origin = "import", approved |-> FALSE]
    /\ jobs = [v \in Versions |-> IF v = 0 /\ origin \in {"auto", "dated"}
                                  THEN NewJob(MaxAttempts) ELSE NoJob]
    /\ lock = NoOne
    /\ pc = [w \in Executors |-> "idle"]
    /\ ctx = [w \in Executors |-> IdleCtx]
    /\ pending = {}
    /\ recovering = NoOne
    /\ submitting = "idle"
    /\ posts = <<>>
    /\ blessed = IF origin \in {"auto", "dated"} THEN {0} ELSE {}
    /\ faults = 0
    /\ drops = 0

\* The scheduled time arrives.
Tick ==
  /\ sched.when = "future"
  /\ sched' = [sched EXCEPT !.when = "due"]
  /\ UNCHANGED <<pub, variant, approvals, jobs, execs, pending, recovering,
                 submitting, world, budget>>

-----------------------------------------------------------------------------
(* The executor: executePublication and the job or recovery that calls it.  *)

Goto(w, step) == pc' = [pc EXCEPT ![w] = step]

Finish(w, threw) ==
  /\ pc' = [pc EXCEPT ![w] = "finish"]
  /\ ctx' = [ctx EXCEPT ![w].threw = threw]

\* The delay of the current version's job ends when its time arrives.
Delayed(v) == v = pub.queueVersion /\ sched.when = "future"

\* A BullMQ worker takes a waiting job.
StartJob(w, v) ==
  /\ w \in Workers /\ pc[w] = "idle"
  /\ jobs[v].state = "waiting" /\ ~Delayed(v)
  /\ jobs' = [jobs EXCEPT ![v].state = "active", ![v].owner = w]
  /\ ctx' = [ctx EXCEPT ![w] = StartedCtx(v, Bump(jobs[v].made))]
  /\ Goto(w, "lock")
  /\ UNCHANGED <<rows, lock, pending, recovering, submitting, world, budget>>

\* The recovery pass selected a row that stayed in "publishing".
StartRecover(w) ==
  /\ w \in Recoverers /\ pc[w] = "idle"
  /\ pub.status = "publishing"
  /\ ctx' = [ctx EXCEPT ![w] = StartedCtx(pub.queueVersion, Bump(pub.attempt))]
  /\ Goto(w, "lock")
  /\ UNCHANGED <<rows, jobs, lock, pending, recovering, submitting, world, budget>>

\* pg_try_advisory_lock: a held lock makes the call throw.
Lock(w) ==
  /\ pc[w] = "lock"
  /\ \/ /\ lock = NoOne
        /\ lock' = w
        /\ Goto(w, "read")
        /\ UNCHANGED ctx
     \/ /\ lock # NoOne
        /\ Finish(w, TRUE)
        /\ UNCHANGED lock
  /\ UNCHANGED <<rows, jobs, pending, recovering, submitting, world, budget>>

Decision_Resend ==
  IF pub.externalId THEN "repair" ELSE IF pub.status # "publishing" THEN "variant" ELSE "requeue"
Decision_Believe ==
  IF pub.externalId \/ pub.sendStarted THEN "repair" ELSE IF pub.status # "publishing" THEN "variant" ELSE "requeue"
Decision_Ignore == IF pub.externalId THEN "repair" ELSE "variant"

\* What the row just read asks for: a receipt is on file, a former sender got
\* as far as its mark, or not so far, or nobody is sending.
Decision ==
  IF pub.externalId THEN "repair"
  ELSE IF pub.status # "publishing" THEN "variant"
  ELSE IF pub.sendStarted THEN "hold" ELSE "requeue"

\* Reads the row and decides; the decision is acted on in a later step.
Read(w) ==
  /\ pc[w] = "read"
  /\ IF pub.status \in {"published", "cancelled"} \/ pub.queueVersion # ctx[w].version
     THEN Finish(w, FALSE)
     ELSE /\ Goto(w, Decision)
          /\ ctx' = [ctx EXCEPT ![w].base = pub.attempt]
  /\ UNCHANGED <<rows, jobs, lock, pending, recovering, submitting, world, budget>>

SettleSchedule(status) ==
  sched' = IF sched.status = "none" THEN sched ELSE [sched EXCEPT !.status = status]

\* A receipt is on file: only the local rows are repaired.
Repair(w) ==
  /\ pc[w] = "repair"
  /\ pub' = [pub EXCEPT !.status = "published", !.unknown = FALSE]
  /\ variant' = [variant EXCEPT !.status = "published"]
  /\ SettleSchedule("completed")
  /\ Finish(w, FALSE)
  /\ UNCHANGED <<approvals, jobs, lock, pending, recovering, submitting, world, budget>>

\* Sending had begun and no receipt exists: hold for a person to look.
HoldUnknown(w) ==
  /\ pc[w] = "hold"
  /\ pub' = [pub EXCEPT !.status = "failed", !.unknown = TRUE]
  /\ variant' = [variant EXCEPT !.status = "failed"]
  /\ SettleSchedule("failed")
  /\ Finish(w, FALSE)
  /\ UNCHANGED <<approvals, jobs, lock, pending, recovering, submitting, world, budget>>

\* The former sender never began: the row goes back to the queue.
Requeue(w) ==
  /\ pc[w] = "requeue"
  /\ pub' = [pub EXCEPT !.status = "queued"]
  /\ Goto(w, "variant")
  /\ UNCHANGED <<variant, sched, approvals, jobs, lock, ctx, pending, recovering,
                 submitting, world, budget>>

\* Reads the variant; what is sent later is this snapshot.
ReadVariant(w) ==
  /\ pc[w] = "variant"
  /\ IF variant.status \in {"approved", "scheduled"}
     THEN /\ ctx' = [ctx EXCEPT ![w].revision = variant.revision]
          /\ Goto(w, "claim")
     ELSE Finish(w, FALSE)
  /\ UNCHANGED <<rows, jobs, lock, pending, recovering, submitting, world, budget>>

\* UPDATE ... WHERE status = 'queued' AND queue_version = input.
Claimable_AnyVersion(w) == pub.status = "queued"
Claimable(w) == pub.status = "queued" /\ pub.queueVersion = ctx[w].version

Claim(w) ==
  /\ pc[w] = "claim"
  /\ IF Claimable(w)
     THEN /\ pub' = [pub EXCEPT !.status = "publishing", !.sendStarted = FALSE,
                                !.attempt = Bump(ctx[w].base), !.unknown = FALSE]
          /\ Goto(w, "prepare")
          /\ UNCHANGED ctx
     ELSE /\ Finish(w, FALSE)
          /\ UNCHANGED pub
  /\ UNCHANGED <<variant, sched, approvals, jobs, lock, pending, recovering,
                 submitting, world, budget>>

\* Account, transport and media; then assertOwned and the workspace check.
Prepare(w) ==
  /\ pc[w] = "prepare"
  /\ \/ /\ lock = w
        /\ Goto(w, "mark")
        /\ UNCHANGED ctx
     \/ /\ lock # w
        /\ Finish(w, TRUE)
     \/ /\ ctx' = [ctx EXCEPT ![w].result = "failed"]
        /\ Goto(w, "errPub")
  /\ UNCHANGED <<rows, jobs, lock, pending, recovering, submitting, world, budget>>

\* UPDATE send_started_at ... WHERE id = $id.
MarkSend(w) ==
  /\ pc[w] = "mark"
  /\ pub' = [pub EXCEPT !.sendStarted = TRUE]
  /\ Goto(w, "own")
  /\ UNCHANGED <<variant, sched, approvals, jobs, lock, ctx, pending, recovering,
                 submitting, world, budget>>

AssertOwned(w) ==
  /\ pc[w] = "own"
  /\ \/ /\ lock = w
        /\ Goto(w, "send")
        /\ UNCHANGED ctx
     \/ /\ lock # w
        /\ Finish(w, TRUE)
  /\ UNCHANGED <<rows, jobs, lock, pending, recovering, submitting, world, budget>>

\* publishToChannel: a receipt, a definite refusal, or no usable answer, in
\* which case the destination may or may not have the post.
Send(w) ==
  /\ pc[w] = "send"
  /\ \/ /\ posts' = Append(posts, ctx[w].revision)
        /\ ctx' = [ctx EXCEPT ![w].result = "confirmed"]
        /\ Goto(w, "confirm")
     \/ /\ posts' = Append(posts, ctx[w].revision)
        /\ ctx' = [ctx EXCEPT ![w].result = "unknown"]
        /\ Goto(w, "errPub")
     \/ /\ \E r \in {"unknown", "failed"} : ctx' = [ctx EXCEPT ![w].result = r]
        /\ Goto(w, "errPub")
        /\ UNCHANGED posts
  /\ UNCHANGED <<rows, jobs, lock, pending, recovering, submitting, blessed, budget>>

\* The receipt's transaction; an error in it, or in the connection event
\* written before it, goes to the handler with the receipt in hand.
Confirm(w) ==
  /\ pc[w] = "confirm"
  /\ \/ /\ pub' = [pub EXCEPT !.status = "published", !.externalId = TRUE, !.unknown = FALSE]
        /\ variant' = [variant EXCEPT !.status = "published"]
        /\ SettleSchedule("completed")
        /\ Finish(w, FALSE)
     \/ /\ Goto(w, "errPub")
        /\ UNCHANGED <<pub, variant, sched, ctx>>
  /\ UNCHANGED <<approvals, jobs, lock, pending, recovering, submitting, world, budget>>

FinalAttempt(w) ==
  ctx[w].result \in {"unknown", "confirmed"} \/ ctx[w].attempt >= MaxAttempts

\* The handler's update of the publication: WHERE id only.
ErrPublication(w) ==
  /\ pc[w] = "errPub"
  /\ LET r == ctx[w].result IN
     pub' = [pub EXCEPT
       !.status = IF r = "confirmed" THEN "published"
                  ELSE IF FinalAttempt(w) THEN "failed" ELSE "queued",
       !.sendStarted = @ /\ r # "failed",
       !.externalId = @ \/ r = "confirmed",
       !.unknown = (r = "unknown")]
  /\ IF FinalAttempt(w) THEN Goto(w, "errVariant") /\ UNCHANGED ctx
                        ELSE Finish(w, TRUE)
  /\ UNCHANGED <<variant, sched, approvals, jobs, lock, pending, recovering,
                 submitting, world, budget>>

ErrVariant_Failed(w) ==
  /\ pc[w] = "errVariant"
  /\ variant' = [variant EXCEPT !.status = "failed"]
  /\ Goto(w, "errSched")
  /\ UNCHANGED <<pub, sched, approvals, jobs, lock, ctx, pending, recovering,
                 submitting, world, budget>>

ErrVariant(w) ==
  /\ pc[w] = "errVariant"
  /\ variant' = [variant EXCEPT !.status =
                   IF ctx[w].result = "confirmed" THEN "published" ELSE "failed"]
  /\ Goto(w, "errSched")
  /\ UNCHANGED <<pub, sched, approvals, jobs, lock, ctx, pending, recovering,
                 submitting, world, budget>>

ErrSchedule(w) ==
  /\ pc[w] = "errSched"
  /\ SettleSchedule(IF ctx[w].result = "confirmed" THEN "completed" ELSE "failed")
  /\ Finish(w, ctx[w].result # "confirmed")
  /\ UNCHANGED <<pub, variant, approvals, jobs, lock, pending, recovering,
                 submitting, world, budget>>

Unlock(w) == lock' = IF lock = w THEN NoOne ELSE lock

\* Unlock; BullMQ completes the job, retries it or fails it, unless the job
\* was taken from this worker meanwhile.
Release(w) ==
  /\ pc[w] = "finish"
  /\ Unlock(w)
  /\ jobs' = [v \in Versions |->
       IF jobs[v].owner # w THEN jobs[v]
       ELSE IF ~ctx[w].threw THEN [jobs[v] EXCEPT !.state = "completed", !.owner = NoOne]
       ELSE [jobs[v] EXCEPT !.made = Bump(@), !.owner = NoOne,
               !.state = IF jobs[v].made + 1 < jobs[v].attempts THEN "waiting" ELSE "failed"]]
  /\ ctx' = [ctx EXCEPT ![w] = IdleCtx]
  /\ Goto(w, "idle")
  /\ UNCHANGED <<rows, pending, recovering, submitting, world, budget>>

Step(w) ==
  \/ Lock(w) \/ Read(w) \/ Repair(w) \/ HoldUnknown(w) \/ Requeue(w)
  \/ ReadVariant(w) \/ Claim(w) \/ Prepare(w) \/ MarkSend(w) \/ AssertOwned(w)
  \/ Send(w) \/ Confirm(w) \/ ErrPublication(w) \/ ErrVariant(w) \/ ErrSchedule(w)
  \/ Release(w)

-----------------------------------------------------------------------------
(* Faults.                                                                  *)

\* The process dies: its session ends, its lock with it; its job stays active.
Crash(w) ==
  /\ pc[w] # "idle"
  /\ faults < MaxFaults
  /\ faults' = faults + 1
  /\ Unlock(w)
  /\ pc' = [pc EXCEPT ![w] = "idle"]
  /\ ctx' = [ctx EXCEPT ![w] = IdleCtx]
  /\ jobs' = [v \in Versions |-> IF jobs[v].owner = w THEN [jobs[v] EXCEPT !.owner = NoOne]
                                 ELSE jobs[v]]
  /\ UNCHANGED <<rows, pending, recovering, submitting, world, drops>>

\* BullMQ finds an active job without a living owner and moves it.
Stalled(v) ==
  /\ jobs[v].state = "active" /\ jobs[v].owner = NoOne
  /\ \E s \in {"waiting", "failed"} : jobs' = [jobs EXCEPT ![v].state = s]
  /\ UNCHANGED <<rows, execs, pending, recovering, submitting, world, budget>>

\* A live worker missed its renewals: the job is given to another.
StallLive(v) ==
  /\ jobs[v].owner # NoOne
  /\ faults < MaxFaults
  /\ faults' = faults + 1
  /\ jobs' = [jobs EXCEPT ![v].state = "waiting", ![v].owner = NoOne]
  /\ UNCHANGED <<rows, execs, pending, recovering, submitting, world, drops>>

\* PostgreSQL ends the session of a live executor and frees its lock.
DropLock(w) ==
  /\ lock = w
  /\ drops < MaxDrops
  /\ drops' = drops + 1
  /\ lock' = NoOne
  /\ UNCHANGED <<rows, jobs, pc, ctx, pending, recovering, submitting, world, faults>>

-----------------------------------------------------------------------------
(* The recovery pass re-adds the job of a queued, approved, due row. It     *)
(* selects the row first and adds the job later.                            *)

RecoverySelect ==
  /\ recovering = NoOne
  /\ pub.status = "queued"
  /\ variant.status \in {"approved", "scheduled"}
  /\ sched.when # "future"
  /\ recovering' = pub.queueVersion
  /\ UNCHANGED <<rows, jobs, execs, pending, submitting, world, budget>>

RecoveryAdd ==
  /\ recovering # NoOne
  /\ jobs' = IF jobs[recovering].state \in {"none", "completed", "failed"}
             THEN [jobs EXCEPT ![recovering] = NewJob(MaxAttempts)] ELSE jobs
  /\ recovering' = NoOne
  /\ UNCHANGED <<rows, execs, pending, submitting, world, budget>>

-----------------------------------------------------------------------------
(* The calendar: one transaction under row locks, then the queue.           *)

CalendarActions == {"schedule", "unschedule", "stop", "edit", "approve", "reject", "retry"}

DateBefore == IF variant.unscheduled THEN "none" ELSE sched.when

RawStatus ==
  IF variant.paused THEN "cancelled"
  ELSE IF pub.status = "none" \/ (pub.status = "cancelled" /\ variant.hold)
       THEN variant.status ELSE pub.status

Movable_WhileSending == RawStatus # "published"
Movable == RawStatus \notin {"publishing", "published"}

DestinationKnown_Unasked(a, checked) == TRUE
DestinationKnown(a, checked) ==
  a \in {"retry", "schedule", "approve"} => (pub.unknown => checked)

\* assertCalendarAction, and the two checks mutateCalendarItem adds to it.
ActionAllowed(a, checked) ==
  /\ Movable
  /\ a \in {"schedule", "edit", "unschedule", "retry", "approve"} => ~pub.externalId
  /\ DestinationKnown(a, checked)
  /\ a = "approve" => DateBefore # "due"
  /\ a = "retry" => pub.status = "failed"
  /\ a \in {"approve", "reject"} => variant.status = "waiting_approval"

\* Whether the content counts as approved after action a. A failed variant
\* has lost the word "approved": it is derived again.
ApprovedBy(a) ==
  \/ a = "approve"
  \/ /\ a \notin {"edit", "reject"}
     /\ \/ variant.status \in {"approved", "scheduled", "published"}
        \/ /\ variant.status = "failed"
           /\ approvals.approved \/ (variant.ai /\ ~variant.hold)

DateAfter(a) ==
  IF a = "schedule" THEN "future"
  ELSE IF a = "unschedule" THEN "none"
  ELSE IF a = "retry" THEN (IF DateBefore = "future" THEN "future" ELSE "due")
  ELSE IF a = "approve" /\ variant.immediate /\ DateBefore = "none" THEN "future"
  ELSE DateBefore

Stops(a) == a \in {"stop", "reject"}
Queues(a) == ApprovedBy(a) /\ DateAfter(a) # "none" /\ ~Stops(a)

VariantAfter(a) ==
  [variant EXCEPT
    !.status = IF a = "reject" THEN "rejected"
               ELSE IF ~ApprovedBy(a) THEN "waiting_approval"
               ELSE IF Queues(a) THEN "scheduled" ELSE "approved",
    !.revision = IF a = "edit" THEN @ + 1 ELSE @,
    !.paused = Stops(a),
    !.unscheduled = (DateAfter(a) = "none"),
    !.hold = ~Queues(a) /\ ~Stops(a)]

ScheduleAfter(a) ==
  IF DateAfter(a) # "none"
  THEN [status |-> IF Stops(a) THEN "cancelled" ELSE "scheduled", when |-> DateAfter(a)]
  ELSE IF sched.status = "none" THEN sched ELSE [sched EXCEPT !.status = "cancelled"]

\* A decision closes the pending approval; anything that leaves the content
\* unapproved opens one.
ApprovalsAfter(a) ==
  [pending |-> a \notin {"approve", "reject"}
               /\ (approvals.pending \/ ~(ApprovedBy(a) \/ Stops(a))),
   approved |-> approvals.approved \/ a = "approve"]

Mutate(a, checked) ==
  /\ "calendar" \in Routes
  /\ ActionAllowed(a, checked)
  /\ a = "retry" => ApprovedBy(a)
  /\ checked => posts = <<>>          \* a person who checks reports what is there
  /\ pub.queueVersion < MaxVersion
  /\ a = "edit" => variant.revision < MaxRevision
  /\ variant' = VariantAfter(a)
  /\ sched' = ScheduleAfter(a)
  /\ approvals' = ApprovalsAfter(a)
  /\ IF pub.status = "none" /\ DateAfter(a) = "none" /\ ~Stops(a)
     THEN UNCHANGED <<pub, jobs, pending>>
     ELSE LET old == pub.queueVersion IN
          /\ pub' = [pub EXCEPT !.queueVersion = old + 1,
                                !.status = IF Queues(a) THEN "queued" ELSE "cancelled",
                                !.unknown = @ /\ ~checked]
          /\ pending' = IF Queues(a) THEN pending \cup {old + 1} ELSE pending
          /\ \/ UNCHANGED jobs        \* Redis is away: the version fences the old job
             \/ jobs[old].state # "active" /\ jobs' = [jobs EXCEPT ![old] = NoJob]
  /\ blessed' = IF a = "approve" THEN blessed \cup {variant.revision} ELSE blessed
  /\ UNCHANGED <<execs, recovering, submitting, posts, budget>>

\* queue.add of the committed version; a job that exists is left alone.
Enqueue(v) ==
  /\ v \in pending
  /\ pending' = pending \ {v}
  /\ jobs' = IF jobs[v].state = "none" THEN [jobs EXCEPT ![v] = NewJob(MaxAttempts)] ELSE jobs
  /\ UNCHANGED <<rows, execs, recovering, submitting, world, budget>>

\* Redis refused: the row is failed if it is still queued at that version.
EnqueueFails(v) ==
  /\ v \in pending
  /\ pending' = pending \ {v}
  /\ pub' = IF pub.status = "queued" /\ pub.queueVersion = v
            THEN [pub EXCEPT !.status = "failed", !.unknown = FALSE] ELSE pub
  /\ UNCHANGED <<variant, sched, approvals, jobs, execs, recovering, submitting, world, budget>>

\* The API process died after its commit.
EnqueueLost(v) ==
  /\ v \in pending
  /\ faults < MaxFaults
  /\ faults' = faults + 1
  /\ pending' = pending \ {v}
  /\ UNCHANGED <<rows, jobs, execs, recovering, submitting, world, drops>>

-----------------------------------------------------------------------------
(* Review routes: no calendar version, no transaction for a submission.     *)

\* PATCH /content-variants/:id.
PatchVariant ==
  /\ "review" \in Routes
  /\ variant.status \in {"draft", "rejected"}
  /\ variant.revision < MaxRevision
  /\ variant' = [variant EXCEPT !.revision = @ + 1]
  /\ UNCHANGED <<pub, sched, approvals, jobs, execs, pending, recovering, submitting,
                 world, budget>>

\* POST /content-variants/:id/approval: read and check, insert, then update.
SubmitCheck ==
  /\ "review" \in Routes
  /\ submitting = "idle"
  /\ variant.status \in {"draft", "rejected"}
  /\ submitting' = "checked"
  /\ UNCHANGED <<rows, jobs, execs, pending, recovering, world, budget>>

SubmitInsert ==
  /\ submitting = "checked"
  /\ approvals' = [approvals EXCEPT !.pending = TRUE]
  /\ submitting' = "inserted"
  /\ UNCHANGED <<pub, variant, sched, jobs, execs, pending, recovering, world, budget>>

SubmitUpdate ==
  /\ submitting = "inserted"
  /\ variant' = [variant EXCEPT !.status = "waiting_approval"]
  /\ submitting' = "idle"
  /\ UNCHANGED <<pub, sched, approvals, jobs, execs, pending, recovering, world, budget>>

\* POST /approvals/:id/resolve with changes_requested.
RequestChanges ==
  /\ "review" \in Routes
  /\ approvals.pending
  /\ approvals' = [approvals EXCEPT !.pending = FALSE]
  /\ variant' = [variant EXCEPT !.status = "draft"]
  /\ UNCHANGED <<pub, sched, jobs, execs, pending, recovering, submitting, world, budget>>

-----------------------------------------------------------------------------
(* Older routes: they know job publication-<id> only, that of version 0.    *)

\* POST /publications/:id/retry; job.remove refuses an active job.
RetryRoute ==
  /\ "retry" \in Routes
  /\ pub.status = "failed"
  /\ jobs[0].state # "active"
  /\ \/ /\ pub' = [pub EXCEPT !.status = "queued", !.unknown = FALSE]
        /\ jobs' = [jobs EXCEPT ![0] = NewJob(1)]
     \/ /\ pub' = [pub EXCEPT !.unknown = FALSE]        \* Redis refused: failed again
        /\ jobs' = [jobs EXCEPT ![0] = NoJob]
  /\ UNCHANGED <<variant, sched, approvals, execs, pending, recovering, submitting,
                 world, budget>>

\* POST /publications/:id/cancel.
CancelRoute ==
  /\ "cancel" \in Routes
  /\ pub.status = "queued"
  /\ pub' = [pub EXCEPT !.status = "cancelled"]
  /\ sched' = IF sched.status = "scheduled" THEN [sched EXCEPT !.status = "cancelled"] ELSE sched
  /\ jobs' = IF jobs[0].state = "active" THEN jobs ELSE [jobs EXCEPT ![0] = NoJob]
  /\ UNCHANGED <<variant, approvals, execs, pending, recovering, submitting, world, budget>>

-----------------------------------------------------------------------------
Worker == \E w \in Executors :
  \/ Step(w)
  \/ StartRecover(w)
  \/ \E v \in Versions : StartJob(w, v)

Fault ==
  \/ \E w \in Executors : (Crash(w) \/ DropLock(w))
  \/ \E v \in Versions : StallLive(v)

Reconcile ==
  \/ RecoverySelect
  \/ RecoveryAdd
  \/ \E v \in Versions : Stalled(v)

User ==
  \/ \E a \in CalendarActions, checked \in BOOLEAN : Mutate(a, checked)
  \/ PatchVariant \/ SubmitCheck \/ RequestChanges \/ RetryRoute \/ CancelRoute

Api ==
  \/ \E v \in Versions : (Enqueue(v) \/ EnqueueFails(v) \/ EnqueueLost(v))
  \/ SubmitInsert \/ SubmitUpdate

Next == Tick \/ Worker \/ Fault \/ Reconcile \/ User \/ Api

Spec == Init /\ [][Next]_vars

\* Started executions run on, BullMQ delivers, the recovery interval keeps
\* firing and time passes. Users, faults and API handlers owe nothing.
Fairness ==
  /\ \A w \in Executors : WF_vars(Step(w))
  /\ \A w \in Workers : \A v \in Versions : WF_vars(StartJob(w, v))
  /\ \A w \in Recoverers : WF_vars(StartRecover(w))
  /\ \A v \in Versions : WF_vars(Stalled(v))
  /\ WF_vars(RecoverySelect) /\ WF_vars(RecoveryAdd) /\ WF_vars(Tick)

FairSpec == Spec /\ Fairness

-----------------------------------------------------------------------------
(* Properties.                                                              *)

Publications == [status : {"none", "queued", "publishing", "published", "failed", "cancelled"},
                 queueVersion : Versions, attempt : Attempts, sendStarted : BOOLEAN,
                 externalId : BOOLEAN, unknown : BOOLEAN]
Variants == [status : {"draft", "waiting_approval", "approved", "scheduled", "published",
                       "failed", "rejected"},
             revision : Revisions, ai : BOOLEAN, hold : BOOLEAN, paused : BOOLEAN,
             unscheduled : BOOLEAN, immediate : BOOLEAN]
Schedules == [status : {"none", "scheduled", "completed", "failed", "cancelled"}, when : When]
Jobs == [state : {"none", "waiting", "active", "completed", "failed"}, made : Attempts,
         attempts : {1, MaxAttempts}, owner : Executors \cup {NoOne}]
Contexts == [version : Versions, attempt : Attempts, base : Attempts, revision : Revisions,
             result : Results, threw : BOOLEAN]

\* The type invariant: every row, job and local variable has its type.
TypeOK ==
  /\ pub \in Publications
  /\ variant \in Variants
  /\ sched \in Schedules
  /\ approvals \in [pending : BOOLEAN, approved : BOOLEAN]
  /\ jobs \in [Versions -> Jobs]
  /\ lock \in Executors \cup {NoOne}
  /\ pc \in [Executors -> PCs]
  /\ ctx \in [Executors -> Contexts]
  /\ pending \subseteq Versions
  /\ recovering \in Versions \cup {NoOne}
  /\ submitting \in {"idle", "checked", "inserted"}
  /\ posts \in Seq(Revisions)
  /\ blessed \subseteq Revisions
  /\ faults \in 0 .. MaxFaults
  /\ drops \in 0 .. MaxDrops

\* The destination gets the content at most once, whatever crashes, retries,
\* recovered executions and human decisions follow one another.
AtMostOnePost == Len(posts) <= 1

\* Only content someone approved, or a workflow that needs no one released,
\* reaches the destination (docs/calendar.md: an edit cancels the approval).
ApprovedPosts == \A i \in DOMAIN posts : posts[i] \in blessed

\* The mark "delivery unknown" disappears only with a receipt, or after a
\* person found that the destination has nothing (docs/calendar.md:25).
UnknownHeld ==
  [][pub.unknown /\ ~pub'.unknown => pub'.externalId \/ posts = <<>>]_vars

\* Nothing is delivered before its scheduled time, by a job of any version.
NeverEarly == [][posts' # posts => sched.when # "future"]_vars

\* While an executor that still holds the lock is between its mark and its
\* receipt, the row is "publishing" at the version it was given and the
\* content in the database is the content it is sending.
Sending == {"mark", "own", "send", "confirm"}
FrozenUnderSender ==
  \A w \in Executors : pc[w] \in Sending /\ lock = w =>
    /\ pub.status = "publishing" /\ pub.queueVersion = ctx[w].version
    /\ variant.revision = ctx[w].revision

\* A row that says "published" shows the content that was delivered.
PublishedAsShown ==
  pub.status = "published" => \E i \in DOMAIN posts : posts[i] = variant.revision

\* Work released to the queue ends: delivered, failed where people see it, or
\* withdrawn by them.
Released == pub.status \in {"queued", "publishing"} /\ variant.status \in {"approved", "scheduled"}
ReleasedEnds == Released ~> ~Released

\* When nobody is executing, a published row has a published variant and a
\* completed schedule.
RowsAgree ==
  (\A w \in Executors : pc[w] = "idle") /\ pub.status = "published" =>
    variant.status = "published" /\ sched.status \in {"none", "completed"}

-----------------------------------------------------------------------------
(* The inductive invariant behind AtMostOnePost, for instances in which no  *)
(* lock is lost under a live executor and the older retry route is unused.  *)

Exclusive == MaxDrops = 0 /\ "retry" \notin Routes

\* Past its lock step an executor owns the lock until it finishes.
Outside == {"idle", "lock", "finish"}
OwnsLock == \A w \in Executors : pc[w] \notin Outside => lock = w

\* What the row says while an executor stands between its steps.
RowUnder(w) ==
  /\ pc[w] # "repair"      \* a receipt and "published" are written together
  /\ pc[w] \in {"hold", "own", "send", "confirm"} => pub.status = "publishing" /\ pub.sendStarted
  /\ pc[w] \in {"requeue", "prepare", "mark"} => pub.status = "publishing" /\ ~pub.sendStarted
  /\ pc[w] \in {"own", "send"} => posts = <<>>
  /\ pc[w] = "confirm" => ctx[w].result = "confirmed" /\ Len(posts) = 1
  /\ pc[w] = "errPub" =>
       /\ pub.status = "publishing"
       /\ ctx[w].result = "failed" => posts = <<>>
       /\ ctx[w].result \in {"unknown", "confirmed"} => pub.sendStarted
       /\ ctx[w].result = "confirmed" => Len(posts) = 1
       /\ ctx[w].result # "none"

\* A copy at the destination is always behind a receipt, a mark or a sender.
Accountable ==
  /\ Len(posts) <= 1
  /\ posts # <<>> => \/ pub.externalId \/ pub.unknown
                     \/ (pub.status = "publishing" /\ pub.sendStarted)
  /\ pub.externalId => pub.status = "published" /\ Len(posts) = 1
  /\ pub.status = "published" => pub.externalId
  /\ pub.unknown => pub.status \in {"failed", "cancelled"}
  /\ variant.paused => pub.status = "cancelled"

IInv == OwnsLock /\ (\A w \in Executors : RowUnder(w)) /\ Accountable
-----------------------------------------------------------------------------
(* Why the other properties hold, under Exclusive and, but for the first,   *)
(* where the review routes are unused.                                      *)

\* No job, request, recovery or execution is of a version the row has not
\* reached; work of its present version is not before its time.
Versioned ==
  /\ \A v \in Versions :
       jobs[v].state # "none" \/ jobs[v].owner # NoOne \/ v \in pending =>
         v <= pub.queueVersion
  /\ recovering # NoOne => recovering <= pub.queueVersion
  /\ \A w \in Executors : pc[w] # "idle" =>
       /\ ctx[w].version <= pub.queueVersion
       /\ ctx[w].version = pub.queueVersion => sched.when # "future"
  /\ pub.status = "publishing" => sched.when # "future"

\* The content an executor read is the row's content from its claim on.
Frozen(w) ==
  /\ pc[w] = "claim" /\ Claimable(w) => variant.revision = ctx[w].revision
  /\ pc[w] \in Sending \cup {"prepare", "errPub"} =>
       pub.queueVersion = ctx[w].version /\ variant.revision = ctx[w].revision

Receipted(w) == pc[w] \in {"confirm", "errPub"} /\ ctx[w].result = "confirmed"

Shown ==
  /\ pub.externalId => posts = <<variant.revision>>
  /\ \A w \in Executors : Receipted(w) => posts = <<ctx[w].revision>>

\* The handler that holds a receipt writes three rows, one after the other.
Closing(w) ==
  /\ ctx[w].result = "confirmed"
  /\ \/ pc[w] = "errVariant"
     \/ pc[w] = "errSched" /\ variant.status = "published"

Closed ==
  /\ pub.status = "published" =>
       \/ variant.status = "published" /\ sched.status \in {"none", "completed"}
       \/ \E w \in Executors : Closing(w)
  /\ \A w \in Executors :
       pc[w] \in {"errVariant", "errSched"} /\ ctx[w].result # "confirmed" =>
         pub.status # "published"
  /\ submitting = "idle"

Reviewless == Exclusive /\ "review" \notin Routes

-----------------------------------------------------------------------------
(* What ApprovedPosts needs besides: edits that wait. A calendar edit waits  *)
(* for an error handler between its two statements, a PATCH of the review    *)
(* routes for the sender, or for the executor that is about to become one.   *)

UndisturbedHandler ==
  variant'.revision # variant.revision => \A w \in Executors : pc[w] # "errVariant"

UndisturbedSender ==
  PatchVariant => pub.status # "publishing" /\ \A w \in Executors : ~(pc[w] = "claim" /\ Claimable(w))

HandlersFirst == [][UndisturbedHandler]_vars
SendersFirst == [][UndisturbedSender]_vars
=============================================================================
