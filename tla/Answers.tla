-------------------------------- MODULE Answers --------------------------------
(***************************************************************************)
(* Comments of one account and the runs that answer them: the poller that  *)
(* makes runs of comments (apps/worker/src/news-poller.ts), the answering  *)
(* step of a run (packages/workflow/src/index.ts youtube_reply, instagram.ts*)
(* instagram_action and instagram_inbox), the claims under the account's   *)
(* daily limit (packages/db/src/youtube-comments.ts and instagram.ts), and *)
(* the credit its requests to a model take (AiCredits).                    *)
(*                                                                         *)
(* RunExecution says when a run is executed; here one that is not over may *)
(* be, under its lock. A "hide" is an Instagram action that needs no model.*)
(***************************************************************************)
EXTENDS AiCredits

CONSTANTS
  Workflows,   \* workflows that read the account's comments
  Supervised,  \* those whose card says requireApproval
  DailyLimit,  \* workflow -> dailyLimit of its card
  Comments,
  Runs,        \* bound: ids of runs
  Pollers,     \* one per worker process
  Nothing,     \* no run, no workflow, no comment, no request
  Cards,       \* what the card may do, a part of {youtube, instagram, hide}
  MaxDay,      \* bound: days
  MaxUpsets,   \* bound: process deaths, and pauses, activations, administrations
  LosesClaims  \* bound: whether workflows that hold claims may be deleted

ASSUME AnswerConstants ==
  /\ Supervised \subseteq Workflows /\ Workflows # {} /\ IsFiniteSet(Comments)
  /\ DailyLimit \in [Workflows -> Nat \ {0}]
  /\ Nothing \notin Runs \cup Workflows \cup Comments \cup Requests
  /\ Cards \subseteq {"youtube", "instagram", "hide"} /\ Cards # {}
  /\ MaxDay \in Nat \ {0} /\ MaxUpsets \in Nat /\ LosesClaims \in BOOLEAN

VARIABLES
  channel,  \* what the card does: answer on YouTube, on Instagram, or hide
  flow,     \* workflows.status
  news,     \* newsItems: the comments a workflow has taken
  run,      \* runs row and the runSteps row of its answering step
  claim,    \* comment -> youtubeCommentReplies or instagramActions row
  lock,     \* holder of instagram-send:<account>
  answers,  \* times the platform performed the answer to a comment
  pc, ctx,  \* an execution's next step and local variables
  poll,     \* the run whose job a poller was refused
  day, upsets

rows == <<flow, news, run, claim>>
execs == <<lock, pc, ctx>>
vars == <<credits, channel, rows, execs, answers, poll, day, upsets>>

Days == 1 .. MaxDay + 1
Settled == {"completed", "skipped", "failed"}
RunRows == [workflow : Workflows \cup {Nothing}, comment : Comments \cup {Nothing},
            status : {"none", "queued", "running", "waiting_approval", "completed", "failed",
                      "deleted"},
            step : {"none", "queued", "running", "retrying", "waiting_approval"} \cup Settled,
            reply : {"none", "draft", "approved", "referred"},
            done : BOOLEAN,          \* the output says the comment was answered
            until : Days]            \* retryAt
Claims == [status : {"none", "sending", "succeeded", "failed", "uncertain"},
           day : Days, run : Runs \cup {Nothing}]
Places == {"idle", "ask", "asked", "settle", "draft", "hold", "inspect", "claim",
           "lock", "look", "insert", "recheck", "post", "noteDone", "noteRefused",
           "noteUnclear", "limit", "done", "skip", "fail", "wait", "finish"}
Contexts == [request : Requests \cup {Nothing}, tries : 0 .. 3, day : Days,
             ended : {"none", "waiting_approval"} \cup Settled]   \* what the walk found

RunRow(w, c, status, step, reply) ==
  [workflow |-> w, comment |-> c, status |-> status, step |-> step, reply |-> reply,
   done |-> FALSE, until |-> 1]
NoRun == RunRow(Nothing, Nothing, "none", "none", "none")
NoClaim == [status |-> "none", day |-> 1, run |-> Nothing]
IdleCtx == [request |-> Nothing, tries |-> 0, day |-> 1, ended |-> "none"]

\* Runs whose process died at the answering step: YouTube's reply is stored.
Interrupted ==
  {RunRow(w, c, "running", "running", IF channel = "youtube" THEN "draft" ELSE "none") :
     w \in Workflows, c \in Comments}

Taken == {<<run[r].workflow, run[r].comment>> : r \in {s \in Runs : run[s] # NoRun}}

NewTo(readers, c) == news = (Workflows \X Comments) \ (readers \X {c})

\* Either a comment is new to some workflows, on the last day, or executions
\* were interrupted.
Init ==
  /\ CreditInit
  /\ channel \in Cards
  /\ flow = [w \in Workflows |-> "active"]
  /\ \/ /\ run = [r \in Runs |-> NoRun] /\ day = MaxDay
        /\ \E readers \in SUBSET Workflows, c \in Comments : NewTo(readers, c)
     \/ run \in [Runs -> Interrupted] /\ day = 1 /\ news = Taken
  /\ claim = [c \in Comments |-> NoClaim]
  /\ lock = Nothing
  /\ answers = [c \in Comments |-> 0]
  /\ pc = [r \in Runs |-> "idle"]
  /\ ctx = [r \in Runs |-> IdleCtx]
  /\ poll = [p \in Pollers |-> Nothing]
  /\ upsets = 0

Target(r) == run[r].comment
Limit(r) == DailyLimit[run[r].workflow]
Goto(r, place) == pc' = [pc EXCEPT ![r] = place]

\* assertAllowed of a reply, allowed of an action.
Allowed(r) == operational /\ flow[run[r].workflow] = "active"

Upset == upsets < MaxUpsets /\ upsets' = upsets + 1

-----------------------------------------------------------------------------
(* The poller.                                                              *)

\* queueItem, from a list of comments read when the workflow was active: an item
\* another poll has taken is passed over. The poller claims the item, makes a
\* run of it and adds its job, which may fail; if it dies in between, the item
\* has no run.
TakeComment(p, w, c) ==
  /\ poll[p] = Nothing /\ flow[w] # "deleted"
  /\ <<w, c>> \notin news
  /\ news' = news \cup {<<w, c>>}
  /\ \/ \E r \in Runs :
          /\ run[r].status = "none"
          /\ run' = [run EXCEPT ![r] = RunRow(w, c, "queued", "none", "none")]
          /\ poll' = poll \/ poll' = [poll EXCEPT ![p] = r]
          /\ UNCHANGED upsets
     \/ Upset /\ UNCHANGED <<run, poll>>
  /\ UNCHANGED <<credits, channel, flow, claim, execs, answers, day>>

\* The job was refused, or added all the same. The run is failed, and the
\* item is deleted for later polls, unless the poller dies first.
Forget(p) ==
  /\ poll[p] \in Runs
  /\ LET r == poll[p] IN
     /\ run' = [run EXCEPT ![r].status = IF @ = "deleted" THEN @ ELSE "failed"]
     /\ \/ news' = news \ {<<run[r].workflow, run[r].comment>>} /\ UNCHANGED upsets
        \/ Upset /\ UNCHANGED news
  /\ poll' = [poll EXCEPT ![p] = Nothing]
  /\ UNCHANGED <<credits, channel, flow, claim, execs, answers, day>>

-----------------------------------------------------------------------------
(* An execution reaches the answering step.                                 *)

Startable(r) ==
  /\ run[r].status \in {"queued", "running", "failed"}
  /\ run[r].step \notin Settled \cup {"waiting_approval"}
  /\ run[r].until <= day

\* A reply to be approved is held; one that is stored is used again, a
\* comment is hidden without one.
Held_Drafted(r) == run[r].workflow \in Supervised /\ run[r].reply = "none"
Held(r) == run[r].workflow \in Supervised /\ run[r].reply # "approved"

Answering(r) ==
  IF Held(r) THEN "hold" ELSE IF channel = "youtube" THEN "inspect" ELSE "lock"

FirstPlace(r) ==
  IF channel = "youtube" /\ ~Allowed(r) THEN "fail"
  ELSE IF run[r].reply = "referred" THEN "wait"
  ELSE IF run[r].reply # "none" \/ channel = "hide" THEN Answering(r) ELSE "ask"

Start(r) ==
  /\ pc[r] = "idle" /\ Startable(r)
  /\ \/ /\ operational
        /\ run' = [run EXCEPT ![r].status = "running", ![r].step = "running"]
        /\ Goto(r, FirstPlace(r))
     \/ /\ ~operational /\ run[r].status # "failed"
        /\ run' = [run EXCEPT ![r].status = "failed"]
        /\ UNCHANGED pc
  /\ UNCHANGED <<credits, channel, flow, news, claim, lock, ctx, answers, poll, day, upsets>>

\* retryAI: YouTube asks again, twice at most, after a transient error.
MayAskAgain(r) == channel = "youtube" /\ ctx[r].tries < 3

\* The locals of the requests are no longer needed.
AskAgain(r) == MayAskAgain(r) /\ Goto(r, "ask") /\ UNCHANGED ctx
EndAsking(r, place) == Goto(r, place) /\ ctx' = [ctx EXCEPT ![r] = IdleCtx]

\* A request to the model, under a reservation of its own.
Ask(r) ==
  /\ pc[r] = "ask" /\ open # Requests
  /\ \/ /\ Reserve(FreshRequest)
        /\ ctx' = [ctx EXCEPT ![r].request = FreshRequest, ![r].tries = @ + 1]
        /\ Goto(r, "asked")
     \/ /\ ~operational \/ ~Affordable
        /\ EndAsking(r, "fail")
        /\ UNCHANGED credits
  /\ UNCHANGED <<channel, rows, lock, answers, poll, day, upsets>>

Replied(r) ==
  /\ pc[r] = "asked"
  /\ \E tokens \in Tokens : Charge(ctx[r].request, tokens)
  /\ Goto(r, "settle")
  /\ UNCHANGED <<channel, rows, lock, ctx, answers, poll, day, upsets>>

RefusedByModel(r) ==
  /\ pc[r] = "asked"
  /\ ReleaseCredit(ctx[r].request)
  /\ AskAgain(r) \/ EndAsking(r, "fail")
  /\ UNCHANGED <<channel, rows, lock, answers, poll, day, upsets>>

\* A timeout, a lost connection, a rejection that is no JSON: the reservation
\* stays, and the next attempt makes another.
Unanswering(r) ==
  /\ pc[r] = "asked"
  /\ \E tokens \in Tokens : Unanswered(ctx[r].request, tokens)
  /\ AskAgain(r) \/ EndAsking(r, "fail")
  /\ UNCHANGED <<channel, rows, lock, answers, poll, day, upsets>>

SettleUsage(r) ==
  /\ pc[r] = "settle"
  /\ Settle(ctx[r].request)
  /\ EndAsking(r, "draft") \/ EndAsking(r, "fail")    \* no text, or not what was asked for
  /\ UNCHANGED <<channel, rows, lock, answers, poll, day, upsets>>

\* YouTube stores the reply before anything else; Instagram only when the
\* step is held. With nothing to answer YouTube is done, and Instagram refers
\* the comment to a person. An inbox in draft mode is done with its draft.
Draft(r) ==
  /\ pc[r] = "draft"
  /\ \/ /\ channel = "youtube"
        /\ run' = [run EXCEPT ![r].reply = "draft"]
        /\ Goto(r, Answering(r))
     \/ channel = "instagram" /\ Goto(r, Answering(r)) /\ UNCHANGED run
     \/ /\ channel = "instagram"
        /\ run' = [run EXCEPT ![r].reply = "referred"]
        /\ Goto(r, "wait")
     \/ Goto(r, "skip") /\ UNCHANGED run
  /\ UNCHANGED <<credits, channel, flow, news, claim, lock, ctx, answers, poll, day, upsets>>

-----------------------------------------------------------------------------
(* sendYoutubeCommentReply.                                                 *)

\* The thread is answered already, by us or by hand, or it is not; our own
\* answer may not be listed yet, and the look itself may fail.
Inspect(r) ==
  /\ pc[r] = "inspect"
  /\ \/ Goto(r, "skip") \/ Goto(r, "fail")
     \/ Goto(r, IF Allowed(r) THEN "claim" ELSE "fail")
  /\ UNCHANGED <<credits, channel, rows, lock, ctx, answers, poll, day, upsets>>

Counting == {"sending", "succeeded", "uncertain"}
Counted_Certain(d) ==
  {c \in Comments : claim[c].status \in {"sending", "succeeded"} /\ claim[c].day = d}
Counted(d) == {c \in Comments : claim[c].status \in Counting /\ claim[c].day = d}

Claimed(r, d) ==
  claim' = [claim EXCEPT ![Target(r)] = [status |-> "sending", day |-> d, run |-> r]]

\* A row that failed for certain may be claimed again.
Claimable_Uncertain(c) == claim[c].status \in {"none", "failed", "uncertain"}
Claimable(c) == claim[c].status \in {"none", "failed"}

\* claimYoutubeReply, one transaction under the account's row lock.
ClaimReply(r) ==
  /\ pc[r] = "claim"
  /\ LET c == Target(r) IN
     \/ /\ ~Claimable(c)
        /\ Goto(r, IF claim[c].status = "succeeded" THEN "done" ELSE "fail")
        /\ UNCHANGED claim
     \/ /\ Claimable(c) /\ Cardinality(Counted(day)) >= Limit(r)
        /\ Goto(r, "limit")
        /\ UNCHANGED claim
     \/ /\ Claimable(c) /\ Cardinality(Counted(day)) < Limit(r)
        /\ Claimed(r, day)
        /\ Goto(r, "recheck")
  /\ UNCHANGED <<credits, channel, flow, news, run, lock, ctx, answers, poll, day, upsets>>

\* YoutubeDailyLimitError: the run waits for the next day.
WaitForDay(r) ==
  /\ pc[r] = "limit"
  /\ run' = [run EXCEPT ![r].status = "queued", ![r].step = "retrying", ![r].until = day + 1]
  /\ Goto(r, "idle")
  /\ ctx' = [ctx EXCEPT ![r] = IdleCtx]
  /\ UNCHANGED <<credits, channel, flow, news, claim, lock, answers, poll, day, upsets>>

-----------------------------------------------------------------------------
(* sendInstagramAction.                                                     *)

LockAccount(r) ==
  /\ pc[r] = "lock"
  /\ \/ lock = Nothing /\ lock' = r /\ Goto(r, "look")
     \/ lock # Nothing /\ Goto(r, "fail") /\ UNCHANGED lock
  /\ UNCHANGED <<credits, channel, rows, ctx, answers, poll, day, upsets>>

\* An earlier action on the comment, then the comment itself.
Known(c) == claim[c].status # "none"

\* Every row of the day counts.
RowsOf(d) == {c \in Comments : claim[c].status # "none" /\ claim[c].day = d}

Look(r) ==
  /\ pc[r] = "look"
  /\ LET c == Target(r) IN
     \/ Goto(r, "fail") /\ UNCHANGED ctx     \* stopped, not this account's comment, limit
     \/ /\ Allowed(r) /\ Known(c)
        /\ Goto(r, IF claim[c].status = "succeeded" THEN "done" ELSE "fail")
        /\ UNCHANGED ctx
     \/ /\ Allowed(r) /\ ~Known(c) /\ Cardinality(RowsOf(day)) < Limit(r)
        /\ Goto(r, "insert")
        /\ ctx' = [ctx EXCEPT ![r].day = day]
  /\ UNCHANGED <<credits, channel, rows, lock, answers, poll, day, upsets>>

\* INSERT ... ON CONFLICT DO NOTHING.
InsertAction(r) ==
  /\ pc[r] = "insert"
  /\ \/ /\ Allowed(r) /\ claim[Target(r)].status = "none"
        /\ Claimed(r, ctx[r].day)
        /\ Goto(r, "recheck")
     \/ /\ ~Allowed(r) \/ claim[Target(r)].status # "none"
        /\ Goto(r, "fail")
        /\ UNCHANGED claim
  /\ UNCHANGED <<credits, channel, flow, news, run, lock, ctx, answers, poll, day, upsets>>

-----------------------------------------------------------------------------
(* The request to the platform and its outcome.                             *)

\* The last look before the request. Stopped now, a reply's claim is deleted
\* and an action's stays behind as uncertain.
Recheck(r) ==
  /\ pc[r] = "recheck"
  /\ \/ Allowed(r) /\ Goto(r, "post") /\ UNCHANGED claim
     \/ /\ ~Allowed(r) /\ channel = "youtube"
        /\ claim' = [claim EXCEPT ![Target(r)] = NoClaim]
        /\ Goto(r, "fail")
     \/ /\ ~Allowed(r) /\ channel # "youtube"
        /\ Goto(r, "noteUnclear")
        /\ UNCHANGED claim
  /\ UNCHANGED <<credits, channel, flow, news, run, lock, ctx, answers, poll, day, upsets>>

\* Performed and answered; performed or not without a usable answer; refused.
\* Only YouTube's refusals are told apart.
Post(r) ==
  /\ pc[r] = "post"
  /\ \/ /\ answers' = [answers EXCEPT ![Target(r)] = @ + 1]
        /\ Goto(r, "noteDone") \/ Goto(r, "noteUnclear")
     \/ /\ UNCHANGED answers
        /\ \/ Goto(r, "noteUnclear")
           \/ channel = "youtube" /\ Goto(r, "noteRefused")
  /\ UNCHANGED <<credits, channel, rows, lock, ctx, poll, day, upsets>>

OutcomeOf_Answerless(place) == IF place = "noteRefused" THEN "failed" ELSE "succeeded"
OutcomeOf(place) ==
  CASE place = "noteDone" -> "succeeded"
    [] place = "noteRefused" -> "failed"
    [] place = "noteUnclear" -> "uncertain"

Note(r) ==
  /\ pc[r] \in {"noteDone", "noteRefused", "noteUnclear"}
  /\ claim' = [claim EXCEPT ![Target(r)].status = OutcomeOf(pc[r])]
  /\ Goto(r, IF pc[r] = "noteDone" THEN "done" ELSE "fail")
  /\ UNCHANGED <<credits, channel, flow, news, run, lock, ctx, answers, poll, day, upsets>>

\* The lock is freed and the step gets its status.
StepAfter == [done |-> "completed", skip |-> "completed", fail |-> "failed",
              wait |-> "waiting_approval", hold |-> "waiting_approval"]

EndStep(r) ==
  /\ pc[r] \in DOMAIN StepAfter
  /\ run' = [run EXCEPT ![r].step = StepAfter[pc[r]], ![r].done = pc[r] = "done",
                         ![r].reply = IF pc[r] = "hold" THEN "draft" ELSE @]
  /\ lock' = IF lock = r THEN Nothing ELSE lock
  /\ Goto(r, "finish")
  /\ ctx' = [ctx EXCEPT ![r] = [IdleCtx EXCEPT !.ended = StepAfter[pc[r]]]]
  /\ UNCHANGED <<credits, channel, flow, news, claim, answers, poll, day, upsets>>

\* The walk ends: the run is what the walk found its step to be. A run that is
\* executed again over such a step finds the same.
StatusAfter == [completed |-> "completed", skipped |-> "completed", failed |-> "failed",
                waiting_approval |-> "waiting_approval"]

FinishRun(r) ==
  /\ pc[r] = "finish"
  /\ run' = [run EXCEPT ![r].status = StatusAfter[ctx[r].ended]]
  /\ Goto(r, "idle")
  /\ ctx' = [ctx EXCEPT ![r] = IdleCtx]
  /\ UNCHANGED <<credits, channel, flow, news, claim, lock, answers, poll, day, upsets>>

Pass(r) ==
  /\ pc[r] = "idle" /\ run[r].status \in {"queued", "running"} /\ operational
  /\ run[r].step \in DOMAIN StatusAfter
  /\ run' = [run EXCEPT ![r].status = "running"]
  /\ Goto(r, "finish")
  /\ ctx' = [ctx EXCEPT ![r].ended = run[r].step]
  /\ UNCHANGED <<credits, channel, flow, news, claim, lock, answers, poll, day, upsets>>

-----------------------------------------------------------------------------
(* People, time, faults.                                                    *)

\* POST /runs/:id/approval.
Approve(r) ==
  /\ run[r].status = "waiting_approval" /\ run[r].step = "waiting_approval"
  /\ run' = [run EXCEPT ![r].status = "queued",
       ![r].step = IF run[r].reply = "referred" THEN "completed" ELSE "queued",
       ![r].reply = IF run[r].reply = "referred" THEN "referred" ELSE "approved"]
  /\ UNCHANGED <<credits, channel, flow, news, claim, execs, answers, poll, day, upsets>>

Reject(r) ==
  /\ run[r].status = "waiting_approval" /\ run[r].step = "waiting_approval"
  /\ run' = [run EXCEPT ![r].status = "queued", ![r].step = "skipped"]
  /\ UNCHANGED <<credits, channel, flow, news, claim, execs, answers, poll, day, upsets>>

\* POST /runs/:id/youtube-reply/retry.
RetryReply(r) ==
  /\ channel = "youtube" /\ run[r].status = "failed" /\ run[r].step = "failed"
  /\ flow[run[r].workflow] = "active"
  /\ run' = [run EXCEPT ![r].status = "queued", ![r].step = "queued"]
  /\ UNCHANGED <<credits, channel, flow, news, claim, execs, answers, poll, day, upsets>>

\* PUT /workflows/:workflowId pauses or activates.
SetActive(w) ==
  /\ Upset /\ operational /\ flow[w] # "deleted"
  /\ flow' = [flow EXCEPT ![w] = IF @ = "active" THEN "paused" ELSE "active"]
  /\ UNCHANGED <<credits, channel, news, run, claim, execs, answers, poll, day>>

\* DELETE /workflows/:workflowId, when no run waits or runs and, a bound, none
\* is executed. The workflow's runs, items and claims go with it.
ClaimsOf(w) ==
  {c \in Comments : claim[c].status # "none" /\ run[claim[c].run].workflow = w}

DeleteWorkflow(w) ==
  LET gone == {r \in Runs : run[r].workflow = w} IN
  /\ flow[w] = "paused"
  /\ \A r \in gone : run[r].status \in {"completed", "failed"} /\ pc[r] = "idle"
  /\ ClaimsOf(w) # {} => LosesClaims
  /\ flow' = [flow EXCEPT ![w] = "deleted"]
  /\ run' = [r \in Runs |-> IF r \in gone THEN [run[r] EXCEPT !.status = "deleted"] ELSE run[r]]
  /\ news' = {item \in news : item[1] # w}
  /\ claim' = [c \in Comments |-> IF c \in ClaimsOf(w) THEN NoClaim ELSE claim[c]]
  /\ UNCHANGED <<credits, channel, execs, answers, poll, day, upsets>>

AdministerCredit ==
  /\ Upset
  /\ Administer
  /\ UNCHANGED <<channel, rows, execs, answers, poll, day>>

NextDay ==
  /\ day < MaxDay
  /\ day' = day + 1
  /\ UNCHANGED <<credits, channel, rows, execs, answers, poll, upsets>>

\* An execution dies: PostgreSQL frees its lock, a reservation stays.
Crash(r) ==
  /\ pc[r] # "idle" /\ Upset
  /\ Goto(r, "idle")
  /\ ctx' = [ctx EXCEPT ![r] = IdleCtx]
  /\ lock' = IF lock = r THEN Nothing ELSE lock
  /\ UNCHANGED <<credits, channel, rows, answers, poll, day>>

CrashPoll(p) ==
  /\ poll[p] \in Runs /\ Upset
  /\ poll' = [poll EXCEPT ![p] = Nothing]
  /\ UNCHANGED <<credits, channel, rows, execs, answers, day>>

-----------------------------------------------------------------------------
Polling(p) ==
  \/ \E w \in Workflows, c \in Comments : TakeComment(p, w, c)
  \/ Forget(p) \/ CrashPoll(p)

Asking(r) ==
  \/ Ask(r) \/ Replied(r) \/ RefusedByModel(r) \/ Unanswering(r) \/ SettleUsage(r)

Executing(r) ==
  \/ Start(r) \/ Asking(r) \/ Draft(r)
  \/ Inspect(r) \/ ClaimReply(r) \/ WaitForDay(r)
  \/ LockAccount(r) \/ Look(r) \/ InsertAction(r)
  \/ Recheck(r) \/ Post(r) \/ Note(r) \/ EndStep(r) \/ FinishRun(r) \/ Pass(r) \/ Crash(r)

People ==
  \/ \E r \in Runs : Approve(r) \/ Reject(r) \/ RetryReply(r)
  \/ \E w \in Workflows : SetActive(w) \/ DeleteWorkflow(w)
  \/ AdministerCredit

Next ==
  \/ \E p \in Pollers : Polling(p)
  \/ \E r \in Runs : Executing(r)
  \/ People
  \/ NextDay

Spec == Init /\ [][Next]_vars

-----------------------------------------------------------------------------
(* Properties.                                                              *)

\* The type invariant: rows, executions, pollers and credit have their types.
TypeOK ==
  /\ CreditOK
  /\ channel \in Cards
  /\ flow \in [Workflows -> {"active", "paused", "deleted"}]
  /\ news \subseteq Workflows \X Comments
  /\ run \in [Runs -> RunRows]
  /\ claim \in [Comments -> Claims]
  /\ lock \in Runs \cup {Nothing}
  /\ answers \in [Comments -> Nat]
  /\ pc \in [Runs -> Places]
  /\ ctx \in [Runs -> Contexts]
  /\ poll \in [Pollers -> Runs \cup {Nothing}]
  /\ day \in 1 .. MaxDay
  /\ upsets \in 0 .. MaxUpsets

\* A comment is answered, or hidden, at most once, however many workflows
\* read it, however many runs its poller makes of it, and whatever they
\* retry, lose or repeat.
AnsweredOnce == \A c \in Comments : answers[c] <= 1

\* The answers performed under a day's claims stay within the daily limit of
\* some workflow that answers on the account, while claims are taken, given
\* back and taken again on another day.
WithinDay ==
  \A c \in Comments : answers[c] > 0 =>
    LET sent == {x \in Comments : answers[x] > 0 /\ claim[x].day = claim[c].day} IN
    \E w \in Workflows : Cardinality(sent) <= DailyLimit[w]

\* A workflow that asks for approval performs nothing a person has not
\* approved in that very run.
Consented ==
  \A c \in Comments : answers[c] > 0 =>
    LET r == claim[c].run IN
    /\ r \in Runs
    /\ run[r].workflow \in Supervised => run[r].reply = "approved"

\* A run that says its comment was answered tells the truth, also when it
\* found the claim of another run.
Truthful == \A r \in Runs : run[r].done => answers[Target(r)] > 0

-----------------------------------------------------------------------------
(* Why: an execution between claim and outcome owns the comment's claim,   *)
(* nothing is performed before the request, and what was performed stays   *)
(* behind a claim that is not taken again.                                 *)

Asked == {"asked", "settle"}
Claiming == {"recheck", "post", "noteDone", "noteRefused", "noteUnclear"}
UnderLock == {"look", "insert"} \cup Claiming
Sending == {"inspect", "claim", "lock"} \cup UnderLock

\* Each request an execution waits for is open and its own, and what is not
\* open, or not answered, has no bill yet.
Locals ==
  /\ \A r \in Runs :
       /\ pc[r] = "idle" => ctx[r] = IdleCtx
       /\ pc[r] = "ask" => ctx[r].tries < 3
       /\ pc[r] = "finish" => ctx[r].ended # "none"
       /\ pc[r] \in Asked => ctx[r].request \in open
       /\ pc[r] = "asked" => bill[ctx[r].request] = 0
  /\ \A r, s \in Runs : r # s /\ pc[r] \in Asked /\ pc[s] \in Asked =>
       ctx[r].request # ctx[s].request
  /\ \A q \in Requests : q \notin open => bill[q] = 0

Created(r) ==
  /\ run[r].status # "none" \/ run[r].done =>
       run[r].workflow \in Workflows /\ Target(r) \in Comments
  /\ pc[r] # "idle" => run[r].status \in {"queued", "running", "failed"}

\* Where an execution may be, given its platform and its reply.
Placed(r) ==
  /\ pc[r] \in {"inspect", "claim", "limit", "noteRefused"} => channel = "youtube"
  /\ pc[r] \in {"lock", "look", "insert"} => channel # "youtube"
  /\ pc[r] \in {"ask", "draft"} \cup Asked => run[r].reply = "none"
  /\ pc[r] = "hold" => run[r].workflow \in Supervised /\ run[r].reply # "approved"

Owned(r) == pc[r] \in Claiming =>
  /\ claim[Target(r)].run = r /\ claim[Target(r)].status = "sending"
  /\ pc[r] \in {"recheck", "post", "noteRefused"} => answers[Target(r)] = 0
  /\ pc[r] = "noteDone" => answers[Target(r)] > 0

Believed(r) == pc[r] = "done" \/ run[r].done => answers[Target(r)] > 0

Alone(r) == channel # "youtube" /\ pc[r] \in UnderLock => lock = r

Reserved(r) == pc[r] = "insert" => Cardinality(Counted(ctx[r].day)) < Limit(r)

\* An execution on its way to send has consent.
Entitled(r) == pc[r] \in Sending /\ run[r].workflow \in Supervised =>
  run[r].reply = "approved"

Execution(r) ==
  /\ Created(r) /\ Placed(r) /\ Owned(r) /\ Believed(r)
  /\ Alone(r) /\ Reserved(r) /\ Entitled(r)

Behind(c) ==
  /\ answers[c] <= 1
  /\ answers[c] > 0 => claim[c].status \in Counting
  /\ claim[c].status = "succeeded" => answers[c] > 0
  /\ channel # "youtube" => claim[c].status # "failed"

Agreed(c) == claim[c].status # "none" =>
  LET r == claim[c].run IN
  /\ r \in Runs /\ run[r].status # "none"
  /\ run[r].workflow \in Supervised => run[r].reply = "approved"

DayKept(d) == Counted(d) # {} =>
  \E w \in Workflows : Cardinality(Counted(d)) <= DailyLimit[w]

\* A poller holds a run it has made.
Polled == \A p \in Pollers : poll[p] # Nothing => run[poll[p]].status # "none"

IInv ==
  /\ Locals /\ Booked /\ Polled
  /\ \A r \in Runs : Execution(r)
  /\ \A c \in Comments : Behind(c) /\ Agreed(c)
  /\ \A d \in Days : DayKept(d)
=============================================================================
