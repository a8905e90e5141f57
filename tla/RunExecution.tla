---------------------------- MODULE RunExecution ----------------------------
(***************************************************************************)
(* One run of a workflow: its row and its step records, the BullMQ jobs    *)
(* that ask for its execution, the executors that walk its graph           *)
(* (packages/workflow/src/index.ts) and then prepare its publications      *)
(* (apps/worker/src/auto-publish.ts), the routes that create it, resolve   *)
(* its approvals and retry its replies (routes/runs.ts), and the recovery  *)
(* pass (dispatch-recovery.ts). Replies go through youtube-comments.ts.    *)
(*                                                                         *)
(* A database statement or transaction is one action; an executor step     *)
(* runs from one await to the next.                                        *)
(***************************************************************************)
EXTENDS Integers, Sequences

CONSTANTS
  Steps,        \* the step names graphs may use
  Graphs,       \* workflow versions: [order, kind, parents]
  Workers,      \* BullMQ slots that process workflow runs
  Recoverers,   \* recovery passes, one per worker process
  NoOne,        \* nobody holds the lock or owns the job
  MaxAttempts,  \* attempts of a job
  MaxDispatch,  \* bound: dispatchVersion
  MaxFaults     \* bound: process crashes and stalled live jobs

Kinds == {"plain", "approval", "action", "reply", "publish"}
Executors == Workers \cup Recoverers

\* order lists a graph's steps, every parent before its children.
IsGraph(g) ==
  /\ g.order \in Seq(Steps)
  /\ g.kind \in [Steps -> Kinds]
  /\ g.parents \in [Steps -> SUBSET Steps]

ASSUME RunConstants ==
  /\ \A g \in Graphs : IsGraph(g)
  /\ NoOne \notin Executors /\ Workers \cap Recoverers = {}
  /\ MaxAttempts \in Nat \ {0} /\ MaxDispatch \in Nat /\ MaxFaults \in Nat

VARIABLES
  graph,      \* the workflow version of the run
  run,        \* the runs row
  rec,        \* the runSteps row of each step
  claim,      \* the commentActions or youtubeCommentReplies row of each step
  items,      \* content items and publications prepared for each publish step
  jobs,       \* ticket -> BullMQ job
  lock,       \* holder of the advisory lock run:<id>
  pc, ctx,    \* an executor's next step and local variables
  creating,   \* POST .../runs committed its row and has yet to enqueue
  pending,    \* dispatch versions an approval committed and has yet to enqueue
  effects,    \* times the destination performed a step's action or reply
  agreed,     \* steps whose action or reply a person agreed to
  faults

rows == <<run, rec, claim, items>>
execs == <<lock, pc, ctx>>
api == <<creating, pending>>
world == <<effects, agreed>>
vars == <<graph, run, rec, claim, items, jobs, lock, pc, ctx, creating, pending,
          effects, agreed, faults>>

FirstJob == -1                        \* job <runId> of the create route
Dispatches == 0 .. MaxDispatch
Tickets == {FirstJob} \cup Dispatches

States == {"none", "completed", "skipped", "failed", "waiting"}
PCs == {"idle", "lock", "read", "claim", "abort", "visit", "perform",
        "inspect", "reserve", "recheck", "send", "noteDone", "noteRefused", "noteUnclear",
        "done", "fail", "limitStep", "limitRun", "unlock", "prepLock", "prepRead",
        "prepMake", "prepItem", "prepFind", "prepEntry", "prepQueue", "finish"}

NoJob == [state |-> "none", made |-> 0, stalled |-> FALSE, owner |-> NoOne]
NewJob == [NoJob EXCEPT !.state = "waiting"]
OverJob == [NoJob EXCEPT !.state = "over"]   \* completed or failed, kept by BullMQ
IdleCtx == [seen |-> "queued", dispatch |-> 0, wanted |-> {}, branch |-> NoOne,
            at |-> 1, states |-> [s \in Steps |-> "none"], threw |-> FALSE]

\* POST /workflows/:id/runs committed; its queue.add comes next.
Init ==
  /\ graph \in Graphs
  /\ run = [status |-> "queued", dispatch |-> 0, later |-> FALSE, prepared |-> FALSE,
            publishes |-> {}]
  /\ rec = [s \in Steps |-> [status |-> "none", drafted |-> FALSE, approved |-> FALSE]]
  /\ claim = [s \in Steps |-> "none"]
  /\ items = [s \in Steps |-> [content |-> 0, publication |-> 0]]
  /\ jobs = [t \in Tickets |-> NoJob]
  /\ lock = NoOne
  /\ pc = [w \in Executors |-> "idle"]
  /\ ctx = [w \in Executors |-> IdleCtx]
  /\ creating = TRUE /\ pending = {}
  /\ effects = [s \in Steps |-> 0]
  /\ agreed = {}
  /\ faults = 0

-----------------------------------------------------------------------------
(* Executors: executeRun, then enqueueAutoPublication.                      *)

Goto(w, step) == pc' = [pc EXCEPT ![w] = step]

Finish(w, threw) ==
  /\ pc' = [pc EXCEPT ![w] = "finish"]
  /\ ctx' = [ctx EXCEPT ![w] = [IdleCtx EXCEPT !.threw = threw]]

StartJob(w, t) ==
  /\ w \in Workers /\ pc[w] = "idle"
  /\ jobs[t].state = "waiting"
  /\ jobs' = [jobs EXCEPT ![t].state = "active", ![t].owner = w]
  /\ Goto(w, "lock")
  /\ UNCHANGED <<graph, rows, lock, ctx, api, world, faults>>

\* The recovery pass prepares a finished run whose publish steps wait for it.
Unprepared_Completed == run.status = "completed" /\ ~run.prepared /\ run.publishes # {}
Unprepared == run.status \in {"completed", "failed"} /\ ~run.prepared /\ run.publishes # {}

StartPrepare(w) ==
  /\ w \in Recoverers /\ pc[w] = "idle"
  /\ Unprepared
  /\ Goto(w, "prepLock")
  /\ UNCHANGED <<graph, rows, jobs, lock, ctx, api, world, faults>>

\* Both calls take the same lock; a held lock makes them throw.
Lock(w) ==
  /\ pc[w] \in {"lock", "prepLock"}
  /\ \/ /\ lock = NoOne
        /\ lock' = w
        /\ Goto(w, IF pc[w] = "lock" THEN "read" ELSE "prepRead")
        /\ UNCHANGED ctx
     \/ /\ lock # NoOne
        /\ Finish(w, TRUE)
        /\ UNCHANGED lock
  /\ UNCHANGED <<graph, rows, jobs, api, world, faults>>

Over == run.status \in {"completed", "waiting_approval"}

Read(w) ==
  /\ pc[w] = "read"
  /\ IF Over THEN Goto(w, "unlock") /\ UNCHANGED ctx
     ELSE Goto(w, "claim") /\ ctx' = [ctx EXCEPT ![w].seen = run.status]
  /\ UNCHANGED <<graph, rows, jobs, lock, api, world, faults>>

\* UPDATE runs SET status = 'running' WHERE status is the one just read. Then
\* the workspace must be active, and the steps and records are loaded.
Claim(w) ==
  /\ pc[w] = "claim"
  /\ IF run.status = ctx[w].seen
     THEN run' = [run EXCEPT !.status = "running"] /\ (Goto(w, "visit") \/ Goto(w, "abort"))
     ELSE UNCHANGED run /\ Goto(w, "unlock")
  /\ ctx' = [ctx EXCEPT ![w] = IdleCtx]
  /\ UNCHANGED <<graph, rec, claim, items, jobs, lock, api, world, faults>>

\* The outer handler replaces the output of the run.
Abort(w) ==
  /\ pc[w] = "abort"
  /\ run' = [run EXCEPT !.status = "failed", !.later = FALSE, !.prepared = FALSE,
                        !.publishes = {}]
  /\ Finish(w, TRUE)
  /\ UNCHANGED <<graph, rec, claim, items, jobs, lock, api, world, faults>>

-----------------------------------------------------------------------------
(* The walk over the graph.                                                 *)

Current(w) == graph.order[ctx[w].at]

Settled == {"completed", "skipped", "failed"}

\* What an unvisited step's parents leave it: "run" when one of them delivered.
FromParents(states, s) ==
  LET parents == graph.parents[s] IN
  IF parents = {} \/ \E p \in parents : states[p] = "completed" THEN "run"
  ELSE IF \E p \in parents : states[p] = "waiting" THEN "waiting" ELSE "skipped"

\* What a step is when the walk reaches it; a step that was running, queued
\* or to be retried runs again.
Outcome_Reopen(states, s) ==
  IF rec[s].status \in {"completed", "failed", "waiting"} THEN rec[s].status
  ELSE FromParents(states, s)
Outcome(states, s) ==
  IF rec[s].status \in Settled \cup {"waiting"} THEN rec[s].status
  ELSE FromParents(states, s)

Pass(w, state) ==
  ctx' = [ctx EXCEPT ![w].at = @ + 1, ![w].states[Current(w)] = state]

AtEnd(w) == ctx[w].at > Len(graph.order)

\* The next step is passed over, or its record says it is running.
Visit(w) ==
  /\ pc[w] = "visit" /\ ~AtEnd(w)
  /\ LET outcome == Outcome(ctx[w].states, Current(w)) IN
     IF outcome = "run"
     THEN /\ rec' = [rec EXCEPT ![Current(w)].status = "running"]
          /\ Goto(w, "perform")
          /\ UNCHANGED ctx
     ELSE Pass(w, outcome) /\ UNCHANGED <<rec, pc>>
  /\ UNCHANGED <<graph, run, claim, items, jobs, lock, api, world, faults>>

\* The record gets its final status and the walk goes on.
Settle(w, status) ==
  /\ rec' = [rec EXCEPT ![Current(w)].status = status]
  /\ Pass(w, status)
  /\ Goto(w, "visit")

\* Sources, AI, filters, drafts and publish steps: no effect outside.
PerformPlain(w) ==
  /\ pc[w] = "perform" /\ graph.kind[Current(w)] \in {"plain", "publish"}
  /\ \/ Settle(w, "completed")
     \/ Settle(w, "failed")
     \/ graph.kind[Current(w)] = "plain" /\ Settle(w, "skipped")
  /\ UNCHANGED <<graph, run, claim, items, jobs, lock, api, world, faults>>

PerformApproval(w) ==
  /\ pc[w] = "perform" /\ graph.kind[Current(w)] = "approval"
  /\ Settle(w, "waiting") \/ Settle(w, "failed")     \* nothing to approve
  /\ UNCHANGED <<graph, run, claim, items, jobs, lock, api, world, faults>>

\* api_action with action reply: only after a person approved that comment.
PersonApproved(s) ==
  \E p \in graph.parents[s] : graph.kind[p] = "approval" /\ rec[p].approved

\* INSERT ... ON CONFLICT DO NOTHING into comment_actions.
Fresh(s) == claim[s] = "none"

PerformAction(w) ==
  /\ pc[w] = "perform" /\ graph.kind[Current(w)] = "action"
  /\ LET s == Current(w) IN
     \/ Goto(w, "fail") /\ UNCHANGED claim     \* no comment, no connection
     \/ /\ PersonApproved(s) /\ Fresh(s)
        /\ claim' = [claim EXCEPT ![s] = "sending"]
        /\ Goto(w, "recheck")
     \/ /\ PersonApproved(s) /\ ~Fresh(s)
        /\ Goto(w, IF claim[s] = "succeeded" THEN "done" ELSE "fail")
        /\ UNCHANGED claim
  /\ UNCHANGED <<graph, run, rec, items, jobs, lock, ctx, api, world, faults>>

\* youtube_reply: draft an answer, hold it for approval, then look whether
\* the comment has been answered.
DraftReply(w) ==
  /\ pc[w] = "perform" /\ graph.kind[Current(w)] = "reply"
  /\ ~rec[Current(w)].drafted
  /\ \/ rec' = [rec EXCEPT ![Current(w)].drafted = TRUE] /\ UNCHANGED <<pc, ctx>>
     \/ Settle(w, "failed")       \* no model, no allowance, no answer
     \/ Settle(w, "completed")    \* nothing to answer
  /\ UNCHANGED <<graph, run, claim, items, jobs, lock, api, world, faults>>

Approved_Drafted(s) == rec[s].drafted
Approved(s) == rec[s].approved

HoldReply(w) ==
  /\ pc[w] = "perform" /\ graph.kind[Current(w)] = "reply"
  /\ rec[Current(w)].drafted
  /\ \/ Approved(Current(w)) /\ Goto(w, "inspect") /\ UNCHANGED <<rec, ctx>>
     \/ ~Approved(Current(w)) /\ Settle(w, "waiting")
     \/ Settle(w, "failed")      \* the workflow was stopped
  /\ UNCHANGED <<graph, run, claim, items, jobs, lock, api, world, faults>>

\* Is the comment answered already, by us or by hand? Our own answer may not
\* be listed yet, and the look itself may fail.
Inspect(w) ==
  /\ pc[w] = "inspect"
  /\ \E next \in {"done", "reserve", "fail"} : Goto(w, next)
  /\ UNCHANGED <<graph, rows, jobs, lock, ctx, api, world, faults>>

\* claimYoutubeReply, one transaction under the account's row lock.
Reservable_Unclear(s) == claim[s] \in {"none", "failed", "unclear"}
Reservable(s) == claim[s] \in {"none", "failed"}

Reserve(w) ==
  /\ pc[w] = "reserve"
  /\ LET s == Current(w) IN
     \/ Reservable(s) /\ claim' = [claim EXCEPT ![s] = "sending"] /\ Goto(w, "recheck")
     \/ /\ Reservable(s) /\ run.dispatch < MaxDispatch
        /\ Goto(w, "limitStep") /\ UNCHANGED claim
     \/ /\ ~Reservable(s)
        /\ Goto(w, IF claim[s] = "succeeded" THEN "done" ELSE "fail")
        /\ UNCHANGED claim
  /\ UNCHANGED <<graph, run, rec, items, jobs, lock, ctx, api, world, faults>>

\* The last look before the request: an inactive workspace or workflow
\* releases a reply's claim, and leaves an action's claim unclear.
Recheck(w) ==
  /\ pc[w] = "recheck"
  /\ LET s == Current(w) IN
     \/ Goto(w, "send") /\ UNCHANGED claim
     \/ /\ graph.kind[s] = "reply"
        /\ claim' = [claim EXCEPT ![s] = "none"] /\ Goto(w, "fail")
     \/ /\ graph.kind[s] = "action"
        /\ Goto(w, "noteUnclear") /\ UNCHANGED claim
  /\ UNCHANGED <<graph, run, rec, items, jobs, lock, ctx, api, world, faults>>

\* The request: performed and answered, performed or not without a usable
\* answer, or refused. Only replies tell a definite refusal apart.
Send(w) ==
  /\ pc[w] = "send"
  /\ LET s == Current(w) IN
     \/ /\ effects' = [effects EXCEPT ![s] = @ + 1]
        /\ Goto(w, "noteDone") \/ Goto(w, "noteUnclear")
     \/ /\ UNCHANGED effects
        /\ \/ Goto(w, "noteUnclear")
           \/ graph.kind[s] = "reply" /\ Goto(w, "noteRefused")
  /\ UNCHANGED <<graph, rows, jobs, lock, ctx, api, agreed, faults>>

\* The claim's outcome; a success that cannot be stored is stored as unclear.
ClaimAfter_Answerless(step) == IF step = "noteRefused" THEN "failed" ELSE "succeeded"
ClaimAfter(step) ==
  CASE step = "noteDone" -> "succeeded"
    [] step = "noteRefused" -> "failed"
    [] step = "noteUnclear" -> "unclear"

Note(w) ==
  /\ pc[w] \in {"noteDone", "noteRefused", "noteUnclear"}
  /\ \/ /\ claim' = [claim EXCEPT ![Current(w)] = ClaimAfter(pc[w])]
        /\ Goto(w, IF pc[w] = "noteDone" THEN "done" ELSE "fail")
     \/ pc[w] = "noteDone" /\ Goto(w, "noteUnclear") /\ UNCHANGED claim
  /\ UNCHANGED <<graph, run, rec, items, jobs, lock, ctx, api, world, faults>>

Done(w) ==
  /\ \/ pc[w] = "done" /\ Settle(w, "completed")
     \/ pc[w] = "fail" /\ Settle(w, "failed")
  /\ UNCHANGED <<graph, run, claim, items, jobs, lock, api, world, faults>>

\* The publish steps whose output the walk has collected.
Collected(w) == {s \in Steps : graph.kind[s] = "publish" /\ ctx[w].states[s] = "completed"}

\* The account's daily limit is reached: the step and the run wait for the
\* next day under a new dispatch version.
LimitStep(w) ==
  /\ pc[w] = "limitStep"
  /\ rec' = [rec EXCEPT ![Current(w)].status = "retrying"]
  /\ Goto(w, "limitRun")
  /\ UNCHANGED <<graph, run, claim, items, jobs, lock, ctx, api, world, faults>>

LimitRun(w) ==
  /\ pc[w] = "limitRun" /\ run.dispatch < MaxDispatch
  /\ run' = [status |-> "queued", dispatch |-> run.dispatch + 1, later |-> TRUE,
             prepared |-> FALSE, publishes |-> Collected(w)]
  /\ Goto(w, "unlock")
  /\ ctx' = [ctx EXCEPT ![w] = IdleCtx]
  /\ UNCHANGED <<graph, rec, claim, items, jobs, lock, api, world, faults>>

Some(w, state) == \E s \in Steps : ctx[w].states[s] = state

FinalStatus(w) ==
  IF Some(w, "waiting") THEN "waiting_approval"
  ELSE IF Some(w, "failed") THEN "failed" ELSE "completed"

\* The run's status and output; preparation starts anew.
Report_Prepared(w) == [run EXCEPT !.status = FinalStatus(w), !.later = FALSE,
                                  !.publishes = Collected(w)]
Report(w) == [run EXCEPT !.status = FinalStatus(w), !.later = FALSE, !.prepared = FALSE,
                         !.publishes = Collected(w)]

Final(w) ==
  /\ pc[w] = "visit" /\ AtEnd(w)
  /\ run' = Report(w)
  /\ Goto(w, "unlock")
  /\ ctx' = [ctx EXCEPT ![w] = IdleCtx]
  /\ UNCHANGED <<graph, rec, claim, items, jobs, lock, api, world, faults>>

\* executeRun returns; enqueueAutoPublication takes the lock anew.
Unlock(w) ==
  /\ pc[w] = "unlock"
  /\ lock' = NoOne
  /\ Goto(w, "prepLock")
  /\ UNCHANGED <<graph, rows, jobs, ctx, api, world, faults>>

-----------------------------------------------------------------------------
(* enqueueAutoPublication.                                                  *)

PrepRead(w) ==
  /\ pc[w] = "prepRead"
  /\ IF run.status \in {"completed", "waiting_approval", "failed"}
     THEN /\ ctx' = [ctx EXCEPT ![w].seen = run.status, ![w].dispatch = run.dispatch,
                                ![w].wanted = run.publishes]
          /\ Goto(w, "prepMake")
     ELSE Finish(w, FALSE)
  /\ UNCHANGED <<graph, rows, jobs, lock, api, world, faults>>

\* A branch at a time: its content item, then its publication, each looked for
\* and inserted unless it is there already.
Branching == {"prepItem", "prepFind", "prepEntry", "prepQueue"}

Missing_Publication(s) == items[s].publication = 0
Missing(s) == items[s].content = 0

PrepLook(w) ==
  /\ pc[w] = "prepMake"
  /\ \E s \in ctx[w].wanted :
       /\ ctx' = [ctx EXCEPT ![w].branch = s]
       /\ Goto(w, IF Missing(s) THEN "prepItem" ELSE "prepFind")
  /\ UNCHANGED <<graph, rows, jobs, lock, api, world, faults>>

PrepItem(w) ==
  /\ pc[w] = "prepItem"
  /\ items' = [items EXCEPT ![ctx[w].branch].content = @ + 1]
  /\ Goto(w, "prepFind")
  /\ UNCHANGED <<graph, run, rec, claim, jobs, lock, ctx, api, world, faults>>

PrepFind(w) ==
  /\ pc[w] = "prepFind"
  /\ Goto(w, IF items[ctx[w].branch].publication > 0 THEN "prepQueue" ELSE "prepEntry")
  /\ UNCHANGED <<graph, rows, jobs, lock, ctx, api, world, faults>>

PrepEntry(w) ==
  /\ pc[w] = "prepEntry"
  /\ items' = [items EXCEPT ![ctx[w].branch].publication = @ + 1]
  /\ Goto(w, "prepQueue")
  /\ UNCHANGED <<graph, run, rec, claim, jobs, lock, ctx, api, world, faults>>

\* The loop goes on to the next branch.
NextBranch(w) ==
  /\ ctx' = [ctx EXCEPT ![w].wanted = @ \ {ctx[w].branch}, ![w].branch = NoOne]
  /\ Goto(w, "prepMake")

\* The publication has its job (Publication models it).
PrepQueue(w) ==
  /\ pc[w] = "prepQueue"
  /\ NextBranch(w)
  /\ UNCHANGED <<graph, rows, jobs, lock, api, world, faults>>

\* The destination is unusable or a call failed: the run says so, unless it was
\* dispatched meanwhile.
Unchanged(w) == run.status = ctx[w].seen /\ run.dispatch = ctx[w].dispatch

PrepFail(w) ==
  /\ pc[w] \in Branching
  /\ run' = IF Unchanged(w) /\ run.status # "waiting_approval"
            THEN [run EXCEPT !.status = "failed"] ELSE run
  /\ NextBranch(w)
  /\ UNCHANGED <<graph, rec, claim, items, jobs, lock, api, world, faults>>

PrepMake(w) ==
  \/ PrepLook(w) \/ PrepItem(w) \/ PrepFind(w) \/ PrepEntry(w) \/ PrepQueue(w) \/ PrepFail(w)

\* The mark belongs to the dispatch that was prepared.
SameDispatch(w) == run.status \in {ctx[w].seen, "failed"} /\ run.dispatch = ctx[w].dispatch

PrepMark(w) ==
  /\ pc[w] = "prepMake" /\ ctx[w].wanted = {}
  /\ run' = IF SameDispatch(w) THEN [run EXCEPT !.prepared = TRUE] ELSE run
  /\ Finish(w, FALSE)
  /\ UNCHANGED <<graph, rec, claim, items, jobs, lock, api, world, faults>>

\* withExecutionLock frees the lock however the operation ends.
LockAfter_Kept(w) == IF lock = w /\ ~ctx[w].threw THEN NoOne ELSE lock
LockAfter(w) == IF lock = w THEN NoOne ELSE lock

\* BullMQ completes, retries or fails the job of a worker that still has it.
Release(w) ==
  /\ pc[w] = "finish"
  /\ lock' = LockAfter(w)
  /\ jobs' = [t \in Tickets |->
       IF jobs[t].owner # w THEN jobs[t]
       ELSE IF ~ctx[w].threw \/ jobs[t].made + 1 = MaxAttempts THEN OverJob
       ELSE [jobs[t] EXCEPT !.made = @ + 1, !.owner = NoOne, !.state = "waiting"]]
  /\ ctx' = [ctx EXCEPT ![w] = IdleCtx]
  /\ Goto(w, "idle")
  /\ UNCHANGED <<graph, rows, api, world, faults>>

Step(w) ==
  \/ Lock(w) \/ Read(w) \/ Claim(w) \/ Abort(w)
  \/ Visit(w) \/ PerformPlain(w) \/ PerformApproval(w) \/ PerformAction(w)
  \/ DraftReply(w) \/ HoldReply(w) \/ Inspect(w) \/ Reserve(w) \/ Recheck(w) \/ Send(w)
  \/ Note(w) \/ Done(w) \/ LimitStep(w) \/ LimitRun(w) \/ Final(w) \/ Unlock(w)
  \/ PrepRead(w) \/ PrepMake(w) \/ PrepMark(w) \/ Release(w)

-----------------------------------------------------------------------------
(* Faults.                                                                  *)

Crash(w) ==
  /\ pc[w] # "idle" /\ faults < MaxFaults
  /\ faults' = faults + 1
  /\ lock' = IF lock = w THEN NoOne ELSE lock
  /\ Goto(w, "idle")
  /\ ctx' = [ctx EXCEPT ![w] = IdleCtx]
  /\ jobs' = [t \in Tickets |-> IF jobs[t].owner = w THEN [jobs[t] EXCEPT !.owner = NoOne]
                                ELSE jobs[t]]
  /\ UNCHANGED <<graph, rows, api, world>>

\* BullMQ moves an active job without a living owner back once, then fails it.
Stalled(t) ==
  /\ jobs[t].state = "active" /\ jobs[t].owner = NoOne
  /\ jobs' = [jobs EXCEPT ![t] = IF @.stalled THEN OverJob
                                 ELSE [@ EXCEPT !.stalled = TRUE, !.state = "waiting"]]
  /\ UNCHANGED <<graph, rows, execs, api, world, faults>>

\* A live worker missed its renewals: the job is given to another.
StallLive(t) ==
  /\ jobs[t].owner # NoOne /\ ~jobs[t].stalled
  /\ faults < MaxFaults
  /\ faults' = faults + 1
  /\ jobs' = [jobs EXCEPT ![t].state = "waiting", ![t].owner = NoOne, ![t].stalled = TRUE]
  /\ UNCHANGED <<graph, rows, execs, api, world>>

-----------------------------------------------------------------------------
(* Dispatch: the create route, the recovery pass, time.                     *)

\* queue.add of the create route: done, refused, done but its answer lost, or
\* never reached.
CreateEnqueue ==
  /\ creating
  /\ creating' = FALSE
  /\ \E added, refused \in BOOLEAN :
       /\ jobs' = IF added THEN [jobs EXCEPT ![FirstJob] = NewJob] ELSE jobs
       /\ run' = IF refused THEN [run EXCEPT !.status = "failed"] ELSE run
  /\ UNCHANGED <<graph, rec, claim, items, execs, pending, world, faults>>

\* The recovery pass gives a run queued for more than ten seconds its job
\* again; the create route is taken to have its answer from Redis by then. A
\* job may wait for as long as it likes, so reading the row and adding the
\* job is one step.
Redispatch ==
  /\ ~creating
  /\ run.status = "queued" /\ ~run.later
  /\ jobs[run.dispatch].state \in {"none", "over"}
  /\ jobs' = [jobs EXCEPT ![run.dispatch] = NewJob]
  /\ UNCHANGED <<graph, rows, execs, api, world, faults>>

NextDay ==
  /\ run.later
  /\ run' = [run EXCEPT !.later = FALSE]
  /\ UNCHANGED <<graph, rec, claim, items, jobs, execs, api, world, faults>>

-----------------------------------------------------------------------------
(* People.                                                                  *)

\* POST /runs/:id/approval, one transaction guarded by the run's status.
Resolvable_AnyRun(s) == rec[s].status = "waiting"
Resolvable(s) == run.status = "waiting_approval" /\ rec[s].status = "waiting"

Resolve(s, approve) ==
  /\ Resolvable(s)
  /\ run.dispatch < MaxDispatch
  /\ run' = [run EXCEPT !.status = "queued", !.dispatch = @ + 1]
  /\ rec' = [rec EXCEPT ![s].approved = approve,
               ![s].status = IF ~approve THEN "skipped"
                             ELSE IF graph.kind[s] = "reply" THEN "queued" ELSE "completed"]
  /\ agreed' = IF ~approve THEN agreed
               ELSE agreed \cup {t \in Steps : t = s \/ s \in graph.parents[t]}
  /\ pending' = pending \cup {run.dispatch + 1}
  /\ UNCHANGED <<graph, claim, items, jobs, execs, creating, effects, faults>>

\* Its queue.add: done, or Redis refused and the row waits for recovery.
Enqueue(v) ==
  /\ v \in pending
  /\ pending' = pending \ {v}
  /\ \/ jobs' = IF jobs[v].state = "none" THEN [jobs EXCEPT ![v] = NewJob] ELSE jobs
     \/ UNCHANGED jobs
  /\ UNCHANGED <<graph, rows, execs, creating, world, faults>>

\* POST /runs/:id/youtube-reply/retry; the recovery pass enqueues it.
RetryReply(s) ==
  /\ run.status = "failed" /\ graph.kind[s] = "reply" /\ rec[s].status = "failed"
  /\ run.dispatch < MaxDispatch
  /\ run' = [run EXCEPT !.status = "queued", !.dispatch = @ + 1]
  /\ rec' = [rec EXCEPT ![s].status = "queued"]
  /\ UNCHANGED <<graph, claim, items, jobs, execs, api, world, faults>>

-----------------------------------------------------------------------------
Worker == \E w \in Executors :
  Step(w) \/ StartPrepare(w) \/ (\E t \in Tickets : StartJob(w, t))

Environment ==
  \/ \E w \in Executors : Crash(w)
  \/ \E t \in Tickets : Stalled(t) \/ StallLive(t)
  \/ NextDay

Dispatch == CreateEnqueue \/ Redispatch \/ (\E v \in Dispatches : Enqueue(v))

People == \E s \in Steps : RetryReply(s) \/ (\E approve \in BOOLEAN : Resolve(s, approve))

Next == Worker \/ Environment \/ Dispatch \/ People

Spec == Init /\ [][Next]_vars

\* Started executions run on, BullMQ delivers, the recovery interval keeps
\* firing, the create route ends and days pass. People owe nothing.
Fairness ==
  /\ \A w \in Executors : WF_vars(Step(w))
  /\ \A w \in Workers : \A t \in Tickets : WF_vars(StartJob(w, t))
  /\ \A w \in Recoverers : WF_vars(StartPrepare(w))
  /\ \A t \in Tickets : WF_vars(Stalled(t))
  /\ WF_vars(CreateEnqueue) /\ WF_vars(Redispatch) /\ WF_vars(NextDay)

FairSpec == Spec /\ Fairness

-----------------------------------------------------------------------------
(* Properties.                                                              *)

Runs == [status : {"queued", "running", "waiting_approval", "completed", "failed"},
         dispatch : Dispatches, later : BOOLEAN, prepared : BOOLEAN,
         publishes : SUBSET Steps]
Records == [status : {"none", "queued", "running", "retrying", "waiting"} \cup Settled,
            drafted : BOOLEAN, approved : BOOLEAN]
Jobs == [state : {"none", "waiting", "active", "over"},
         made : 0 .. MaxAttempts - 1, stalled : BOOLEAN, owner : Executors \cup {NoOne}]
Contexts == [seen : {"queued", "running", "waiting_approval", "completed", "failed"},
             dispatch : Dispatches, wanted : SUBSET Steps, branch : Steps \cup {NoOne},
             at : Nat \ {0}, states : [Steps -> States], threw : BOOLEAN]

\* The type invariant: every row, job and local variable has its type.
TypeOK ==
  /\ graph \in Graphs
  /\ run \in Runs
  /\ rec \in [Steps -> Records]
  /\ claim \in [Steps -> {"none", "sending", "succeeded", "failed", "unclear"}]
  /\ items \in [Steps -> [content : Nat, publication : Nat]]
  /\ jobs \in [Tickets -> Jobs]
  /\ lock \in Executors \cup {NoOne}
  /\ pc \in [Executors -> PCs]
  /\ ctx \in [Executors -> Contexts]
  /\ creating \in BOOLEAN /\ pending \subseteq Dispatches
  /\ effects \in [Steps -> Nat]
  /\ agreed \subseteq Steps
  /\ faults \in 0 .. MaxFaults

\* An action or reply is performed at most once, whatever crashes,
\* redeliveries, duplicate jobs and retries follow one another.
EffectOnce == \A s \in Steps : effects[s] <= 1

\* Nothing is answered outside before a person agreed to it.
EffectAgreed == \A s \in Steps : effects[s] > 0 => s \in agreed

\* What was performed is never behind a claim that may be taken again.
EffectClaimed == \A s \in Steps : effects[s] > 0 => claim[s] \notin {"none", "failed"}

\* Why: past its lock step an executor owns the lock, so one stands between
\* claim and outcome at most. There the claim is taken, nothing is performed
\* before the request, people agreed, and success is recorded of what was
\* performed; that stays behind a claim that nobody may take again.
Outside == {"idle", "lock", "prepLock", "finish"}
AtStep == {"perform", "inspect", "reserve", "recheck", "send", "noteDone", "noteRefused",
           "noteUnclear", "done", "fail", "limitStep"}

OwnsLock == \A w \in Executors : pc[w] \notin Outside => lock = w
StandsAtStep == \A w \in Executors : pc[w] \in AtStep => ctx[w].at \in 1 .. Len(graph.order)

ClaimUnder ==
  \A w \in Executors :
    /\ pc[w] \in {"recheck", "send", "noteDone", "noteRefused", "noteUnclear"} =>
         claim[Current(w)] = "sending"
    /\ pc[w] \in {"recheck", "send", "noteRefused"} => effects[Current(w)] = 0
    /\ pc[w] = "noteDone" => effects[Current(w)] > 0
    /\ pc[w] \in {"inspect", "reserve", "recheck", "send"} => Current(w) \in agreed

Consents ==
  \A s \in Steps : rec[s].approved =>
    s \in agreed /\ \A t \in Steps : s \in graph.parents[t] => t \in agreed

IInv ==
  /\ OwnsLock /\ StandsAtStep /\ ClaimUnder /\ Consents
  /\ EffectOnce /\ EffectClaimed /\ EffectAgreed

\* A publish step gets one content item and one publication, however often
\* and up to wherever it is prepared.
OneItem == \A s \in Steps : items[s].content <= 1 /\ items[s].publication <= 1

\* A run that waits for approval has a step someone can resolve.
SomeoneCan == \E s \in Steps : rec[s].status = "waiting"
WaitsForSomeone == run.status = "waiting_approval" => SomeoneCan

\* What a person decided and what a step delivered is not taken back; only
\* the retry of a reply reopens a failed step.
DecisionsStand ==
  [][\A s \in Steps :
       /\ rec[s].status \in {"completed", "skipped"} => rec'[s].status = rec[s].status
       /\ rec[s].approved => rec'[s].approved]_vars

\* A run marked prepared has an item for every branch that delivered, or
\* says that it failed or still waits.
PreparedMeansItems ==
  run.prepared /\ run.status = "completed" =>
    \A s \in run.publishes : items[s].publication > 0

\* Why: while a graph is walked its run has no outcome, the current record is
\* running, and a step the walk remembers as waiting waits in its record. An
\* approved approval is completed and an approved reply waits no more. What
\* the preparer found of its branch is still so, and the branches behind it
\* have their publication, or the run it prepares is not what it read.
Walking == AtStep \cup {"visit", "limitRun"}
Preparing == Branching \cup {"prepMake"}

Walked ==
  \A w \in Executors : pc[w] \in Walking =>
    /\ run.status \notin {"waiting_approval", "completed"}
    /\ Some(w, "waiting") => SomeoneCan
    /\ pc[w] \in AtStep => rec[Current(w)].status = "running"

Decided ==
  \A s \in Steps : rec[s].approved =>
    /\ rec[s].status # "waiting"
    /\ graph.kind[s] # "reply" => rec[s].status = "completed"

Prepares ==
  \A w \in Executors :
    /\ pc[w] \in Branching => ctx[w].branch \in Steps
    /\ pc[w] = "prepItem" => items[ctx[w].branch].content = 0
    /\ pc[w] = "prepEntry" => items[ctx[w].branch].publication = 0
    /\ pc[w] = "prepQueue" => items[ctx[w].branch].publication > 0
    /\ pc[w] \in Preparing /\ Unchanged(w) /\ run.status = "completed" =>
         \A s \in run.publishes \ ctx[w].wanted : items[s].publication > 0

WInv == Walked /\ Decided /\ WaitsForSomeone
PInv == Prepares /\ OneItem /\ PreparedMeansItems

\* A run that was created, resolved or put off is taken up again, whatever
\* Redis refused or lost (docs/execution-reliability.md).
TakenUp == run.status = "queued" ~> run.status # "queued"

\* A run that ended is prepared, also when its process died in between
\* (docs/execution-reliability.md).
PreparedAtLast ==
  (run.status \in {"completed", "failed"} /\ ~run.prepared /\ run.publishes # {})
    ~> (run.prepared \/ run.status \notin {"completed", "failed"})
=============================================================================
