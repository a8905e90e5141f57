----------------------------- MODULE AnswerProofs -----------------------------
(***************************************************************************)
(* What TLAPS proves about Answers and AiCredits, for any number of        *)
(* workflows, comments, runs, pollers, requests and days.                  *)
(***************************************************************************)
EXTENDS AnswersRefinement, FiniteSetTheorems, WellFoundedInduction, TLAPS

Constants == CreditConstants /\ AnswerConstants

-----------------------------------------------------------------------------
(* Types.                                                                    *)

RunTyped == run \in [Runs -> RunRows]
Moving == pc \in [Runs -> Places] /\ ctx \in [Runs -> Contexts]

LEMMA Bounds == 1 \in Days /\ (day \in 1 .. MaxDay => day \in Days /\ day + 1 \in Days)
  BY AnswerConstants DEF Days

LEMMA Idle == IdleCtx \in Contexts
  BY AnswerConstants DEF IdleCtx, Contexts, Days

LEMMA Moves ==
  ASSUME Moving, NEW r \in Runs, NEW place \in Places, Goto(r, place)
  PROVE  /\ pc' \in [Runs -> Places] /\ pc'[r] = place
         /\ \A s \in Runs : s # r => pc'[s] = pc[s]
  BY DEF Moving, Goto

Statuses == {"none", "queued", "running", "waiting_approval", "completed", "failed", "deleted"}
Steps == {"none", "queued", "running", "retrying", "waiting_approval"} \cup Settled
Replies == {"none", "draft", "approved", "referred"}

\* A row of a run is written: it is typed, it is still about its comment, and
\* no other row changes.
Written(r) ==
  /\ RunTyped'
  /\ run'[r].workflow = run[r].workflow /\ run'[r].comment = run[r].comment
  /\ \A s \in Runs : s # r => run'[s] = run[s]

LEMMA StatusWritten ==
  ASSUME RunTyped, NEW r \in Runs, NEW v \in Statuses, run' = [run EXCEPT ![r].status = v]
  PROVE  /\ Written(r) /\ run'[r].status = v /\ run'[r].step = run[r].step
         /\ run'[r].reply = run[r].reply /\ run'[r].done = run[r].done
  BY DEF RunTyped, Written, RunRows, Statuses

LEMMA StepWritten ==
  ASSUME RunTyped, NEW r \in Runs, NEW v \in Statuses, NEW u \in Steps,
         run' = [run EXCEPT ![r].status = v, ![r].step = u]
  PROVE  /\ Written(r) /\ run'[r].status = v /\ run'[r].step = u
         /\ run'[r].reply = run[r].reply /\ run'[r].done = run[r].done
  <1> DEFINE row == [run[r] EXCEPT !.status = v, !.step = u]
  <1>1. /\ row \in RunRows /\ row.status = v /\ row.step = u /\ row.workflow = run[r].workflow
        /\ row.comment = run[r].comment /\ row.reply = run[r].reply /\ row.done = run[r].done
    BY DEF RunTyped, RunRows, Statuses, Steps
  <1>2. run' = [run EXCEPT ![r] = row]
    OBVIOUS
  <1> HIDE DEF row
  <1> QED
    BY <1>1, <1>2 DEF RunTyped, Written

LEMMA ReplyWritten ==
  ASSUME RunTyped, NEW r \in Runs, NEW v \in Replies, run' = [run EXCEPT ![r].reply = v]
  PROVE  /\ Written(r) /\ run'[r].status = run[r].status /\ run'[r].step = run[r].step
         /\ run'[r].reply = v /\ run'[r].done = run[r].done
  BY DEF RunTyped, Written, RunRows, Replies

LEMMA DelayWritten ==
  ASSUME RunTyped, NEW r \in Runs, NEW d \in Days,
         run' = [run EXCEPT ![r].status = "queued", ![r].step = "retrying", ![r].until = d]
  PROVE  /\ Written(r) /\ run'[r].status = "queued"
         /\ run'[r].reply = run[r].reply /\ run'[r].done = run[r].done
  <1> DEFINE row == [run[r] EXCEPT !.status = "queued", !.step = "retrying", !.until = d]
  <1>1. /\ row \in RunRows /\ row.workflow = run[r].workflow /\ row.comment = run[r].comment
        /\ row.status = "queued" /\ row.reply = run[r].reply /\ row.done = run[r].done
    BY DEF RunTyped, RunRows
  <1>2. run'[r] = row /\ \A s \in Runs : s # r => run'[s] = run[s]
    BY DEF RunTyped
  <1>3. run' = [s \in Runs |-> IF s = r THEN row ELSE run[s]]
    BY DEF RunTyped
  <1> HIDE DEF row
  <1>4. RunTyped'
    BY <1>1, <1>3 DEF RunTyped
  <1> QED
    BY <1>1, <1>2, <1>4 DEF Written

LEMMA OutcomeWritten ==
  ASSUME RunTyped, NEW r \in Runs, NEW u \in Steps, NEW v \in Replies, NEW done \in BOOLEAN,
         run' = [run EXCEPT ![r].step = u, ![r].done = done, ![r].reply = v]
  PROVE  /\ Written(r) /\ run'[r].status = run[r].status
         /\ run'[r].reply = v /\ run'[r].done = done
  <1> DEFINE row == [run[r] EXCEPT !.step = u, !.done = done, !.reply = v]
  <1>1. /\ row \in RunRows /\ row.workflow = run[r].workflow /\ row.comment = run[r].comment
        /\ row.status = run[r].status /\ row.reply = v /\ row.done = done
    BY DEF RunTyped, RunRows, Steps, Replies
  <1>2. run'[r] = row /\ \A s \in Runs : s # r => run'[s] = run[s]
    BY DEF RunTyped
  <1>3. run' = [s \in Runs |-> IF s = r THEN row ELSE run[s]]
    BY DEF RunTyped
  <1> HIDE DEF row
  <1>4. RunTyped'
    BY <1>1, <1>3 DEF RunTyped
  <1> QED
    BY <1>1, <1>2, <1>4 DEF Written

LEMMA DecisionWritten ==
  ASSUME RunTyped, NEW r \in Runs, NEW u \in Steps, NEW v \in Replies,
         run' = [run EXCEPT ![r].status = "queued", ![r].step = u, ![r].reply = v]
  PROVE  /\ Written(r) /\ run'[r].status = "queued"
         /\ run'[r].reply = v /\ run'[r].done = run[r].done
  <1> DEFINE row == [run[r] EXCEPT !.status = "queued", !.step = u, !.reply = v]
  <1>1. /\ row \in RunRows /\ row.workflow = run[r].workflow /\ row.comment = run[r].comment
        /\ row.status = "queued" /\ row.reply = v /\ row.done = run[r].done
    BY DEF RunTyped, RunRows, Steps, Replies
  <1>2. run'[r] = row /\ \A s \in Runs : s # r => run'[s] = run[s]
    BY DEF RunTyped
  <1>3. run' = [s \in Runs |-> IF s = r THEN row ELSE run[s]]
    BY DEF RunTyped
  <1> HIDE DEF row
  <1>4. RunTyped'
    BY <1>1, <1>3 DEF RunTyped
  <1> QED
    BY <1>1, <1>2, <1>4 DEF Written

\* A step of r: other runs and executions stay as they are.
Alters(r) ==
  /\ Written(r) /\ Moving'
  /\ \A s \in Runs : s # r => pc'[s] = pc[s] /\ ctx'[s] = ctx[s]

LEMMA Unwritten ==
  ASSUME RunTyped, NEW r \in Runs, run' = run
  PROVE  Written(r)
  BY DEF RunTyped, Written

LEMMA MovesOn ==
  ASSUME Moving, NEW r \in Runs, NEW place \in Places, Goto(r, place), ctx' = ctx, Written(r)
  PROVE  Alters(r) /\ pc'[r] = place /\ ctx'[r] = ctx[r]
  BY DEF Moving, Goto, Alters

LEMMA Turns ==
  ASSUME Moving, NEW r \in Runs, NEW place \in Places, Goto(r, place), Written(r),
         NEW c \in Contexts, ctx' = [ctx EXCEPT ![r] = c]
  PROVE  Alters(r) /\ pc'[r] = place /\ ctx'[r] = c
  BY DEF Moving, Goto, Alters

LEMMA RequestMade ==
  ASSUME Moving, Locals, NEW r \in Runs, pc[r] = "ask", NEW q \in Requests,
         ctx' = [ctx EXCEPT ![r].request = q, ![r].tries = @ + 1]
  PROVE  /\ ctx' \in [Runs -> Contexts] /\ ctx'[r].request = q
         /\ \A s \in Runs : s # r => ctx'[s] = ctx[s]
  <1>1. ctx[r] \in Contexts /\ ctx[r].tries \in 0 .. 3 /\ ctx[r].tries < 3
    BY DEF Moving, Contexts, Locals
  <1>2. ctx[r].tries + 1 \in 0 .. 3
    BY <1>1
  <1> DEFINE c == [ctx[r] EXCEPT !.request = q, !.tries = @ + 1]
  <1>3. c \in Contexts /\ c.request = q
    BY <1>1, <1>2 DEF Contexts
  <1>4. ctx' = [s \in Runs |-> IF s = r THEN c ELSE ctx[s]]
    BY DEF Moving
  <1> HIDE DEF c
  <1> QED
    BY <1>3, <1>4 DEF Moving

LEMMA Dated ==
  ASSUME Moving, NEW r \in Runs, NEW d \in Days, ctx' = [ctx EXCEPT ![r].day = d]
  PROVE  /\ ctx' \in [Runs -> Contexts] /\ ctx'[r].day = d
         /\ \A s \in Runs : s # r => ctx'[s] = ctx[s]
  BY DEF Moving, Contexts

LEMMA Ended ==
  ASSUME Moving, NEW r \in Runs, NEW u \in {"waiting_approval"} \cup Settled,
         ctx' = [ctx EXCEPT ![r].ended = u]
  PROVE  /\ ctx' \in [Runs -> Contexts] /\ ctx'[r].ended = u
         /\ \A s \in Runs : s # r => ctx'[s] = ctx[s]
  BY DEF Moving, Contexts

LEMMA EndedIdle ==
  \A u \in {"waiting_approval"} \cup Settled :
    [IdleCtx EXCEPT !.ended = u] \in Contexts /\ [IdleCtx EXCEPT !.ended = u].ended = u
  BY AnswerConstants DEF IdleCtx, Contexts, Days

-----------------------------------------------------------------------------
(* What each step of an execution does to its run, its place and its        *)
(* variables.                                                               *)

LEMMA StartEffect ==
  ASSUME RunTyped, Moving, NEW r \in Runs, Start(r)
  PROVE  /\ Alters(r) /\ ctx'[r] = ctx[r]
         /\ run'[r].reply = run[r].reply /\ run'[r].done = run[r].done
         /\ run[r].status # "none"
         /\ \/ pc'[r] = FirstPlace(r) /\ run'[r].status = "running"
            \/ pc'[r] = "idle" /\ run'[r].status = "failed"
  <1>1. FirstPlace(r) \in Places /\ run[r].status # "none" /\ ctx' = ctx
    BY DEF FirstPlace, Answering, Places, Start, Startable
  <1>2. CASE /\ run' = [run EXCEPT ![r].status = "running", ![r].step = "running"]
             /\ Goto(r, FirstPlace(r))
    <2>1. /\ Written(r) /\ run'[r].status = "running"
          /\ run'[r].reply = run[r].reply /\ run'[r].done = run[r].done
      BY <1>2, StepWritten DEF Statuses, Steps
    <2> QED
      BY <1>1, <1>2, <2>1, MovesOn
  <1>3. CASE run' = [run EXCEPT ![r].status = "failed"] /\ pc' = pc
    <2>1. /\ Written(r) /\ run'[r].status = "failed"
          /\ run'[r].reply = run[r].reply /\ run'[r].done = run[r].done
      BY <1>3, StatusWritten DEF Statuses
    <2>2. pc[r] = "idle"
      BY DEF Start
    <2> QED
      BY <1>1, <1>3, <2>1, <2>2 DEF Alters, Moving
  <1> QED
    BY <1>2, <1>3 DEF Start

\* The steps that ask a model: the place and the request of r.
LEMMA AskEffect ==
  ASSUME RunTyped, Moving, Locals, CreditOK, NEW r \in Runs, Ask(r)
  PROVE  /\ Alters(r) /\ run' = run /\ FreshRequest \in Requests /\ FreshRequest \notin open
         /\ \/ pc'[r] = "asked" /\ ctx'[r].request = FreshRequest /\ Reserve(FreshRequest)
            \/ pc'[r] = "fail" /\ ctx'[r] = IdleCtx /\ UNCHANGED credits
  <1>1. FreshRequest \in Requests /\ FreshRequest \notin open
    <2>1. \E q \in Requests : q \notin open
      BY DEF Ask, CreditOK
    <2> QED
      BY <2>1 DEF FreshRequest
  <1>2. run' = run /\ Written(r) /\ pc[r] = "ask"
    BY Unwritten DEF Ask, rows
  <1>3. CASE /\ Reserve(FreshRequest) /\ Goto(r, "asked")
             /\ ctx' = [ctx EXCEPT ![r].request = FreshRequest, ![r].tries = @ + 1]
    <2>1. /\ ctx' \in [Runs -> Contexts] /\ ctx'[r].request = FreshRequest
          /\ \A s \in Runs : s # r => ctx'[s] = ctx[s]
      BY <1>1, <1>2, <1>3, RequestMade
    <2>2. "asked" \in Places
      BY DEF Places
    <2> QED
      BY <1>1, <1>2, <1>3, <2>1, <2>2, Moves DEF Alters, Moving
  <1>4. CASE EndAsking(r, "fail") /\ UNCHANGED credits
    BY <1>1, <1>2, <1>4, Idle, Turns DEF EndAsking, Places
  <1> QED
    BY <1>3, <1>4 DEF Ask

LEMMA AfterAsking ==
  ASSUME RunTyped, Moving, NEW r \in Runs, run' = run,
         \/ AskAgain(r)
         \/ \E place \in {"fail", "draft"} : EndAsking(r, place)
  PROVE  /\ Alters(r)
         /\ \/ pc'[r] = "ask" /\ ctx'[r] = ctx[r] /\ ctx[r].tries < 3
            \/ pc'[r] \in {"fail", "draft"} /\ ctx'[r] = IdleCtx
  <1>1. Written(r)
    BY Unwritten
  <1>2. CASE AskAgain(r)
    BY <1>1, <1>2, MovesOn DEF AskAgain, MayAskAgain, Places
  <1>3. CASE \E place \in {"fail", "draft"} : EndAsking(r, place)
    <2>1. PICK place \in {"fail", "draft"} : EndAsking(r, place)
      BY <1>3
    <2>2. place \in Places
      BY DEF Places
    <2> QED
      BY <1>1, <2>1, <2>2, Idle, Turns DEF EndAsking
  <1> QED
    BY <1>2, <1>3

LEMMA Onward ==
  ASSUME RunTyped, Moving, NEW r \in Runs, run' = run, ctx' = ctx,
         NEW place \in Places, Goto(r, place)
  PROVE  Alters(r) /\ pc'[r] = place /\ ctx'[r] = ctx[r]
  BY Unwritten, MovesOn

LEMMA DraftEffect ==
  ASSUME RunTyped, Moving, NEW r \in Runs, Draft(r)
  PROVE  /\ Alters(r) /\ ctx'[r] = ctx[r]
         /\ run'[r].status = run[r].status /\ run'[r].done = run[r].done
         /\ \/ pc'[r] = Answering(r) /\ run'[r].reply \in {run[r].reply, "draft"}
            \/ pc'[r] \in {"wait", "skip"}
  <1>1. Answering(r) \in Places /\ "wait" \in Places /\ "skip" \in Places
    BY DEF Answering, Places
  <1>2. ctx' = ctx
    BY DEF Draft
  <1>3. CASE run' = [run EXCEPT ![r].reply = "draft"] /\ Goto(r, Answering(r))
    <2>1. /\ Written(r) /\ run'[r].reply = "draft" /\ run'[r].status = run[r].status
          /\ run'[r].done = run[r].done
      BY <1>3, ReplyWritten DEF Replies
    <2> QED
      BY <1>1, <1>2, <1>3, <2>1, MovesOn
  <1>4. CASE run' = [run EXCEPT ![r].reply = "referred"] /\ Goto(r, "wait")
    <2>1. /\ Written(r) /\ run'[r].status = run[r].status
          /\ run'[r].done = run[r].done
      BY <1>4, ReplyWritten DEF Replies
    <2> QED
      BY <1>1, <1>2, <1>4, <2>1, MovesOn
  <1>5. CASE run' = run /\ Goto(r, Answering(r))
    BY <1>1, <1>2, <1>5, Onward
  <1>6. CASE run' = run /\ Goto(r, "skip")
    BY <1>1, <1>2, <1>6, Onward
  <1> QED
    BY <1>3, <1>4, <1>5, <1>6 DEF Draft

LEMMA WaitEffect ==
  ASSUME RunTyped, Moving, NEW r \in Runs, WaitForDay(r), day \in 1 .. MaxDay
  PROVE  /\ Alters(r) /\ ctx'[r] = IdleCtx /\ pc'[r] = "idle"
         /\ run'[r].status = "queued" /\ run'[r].done = run[r].done
         /\ run'[r].reply = run[r].reply
  <1>1. "idle" \in Places
    BY DEF Places
  <1>0. day + 1 \in Days
    BY Bounds
  <1>2. /\ Written(r) /\ run'[r].status = "queued" /\ run'[r].done = run[r].done
        /\ run'[r].reply = run[r].reply
    BY <1>0, DelayWritten DEF WaitForDay
  <1> QED
    BY <1>1, <1>2, Idle, Turns DEF WaitForDay

LEMMA LookEffect ==
  ASSUME RunTyped, Moving, NEW r \in Runs, Look(r), day \in 1 .. MaxDay
  PROVE  /\ Alters(r) /\ run' = run
         /\ \/ pc'[r] = "fail"
            \/ pc'[r] = "done" /\ claim[Target(r)].status = "succeeded"
            \/ /\ pc'[r] = "insert" /\ ctx'[r].day = day
               /\ Cardinality(RowsOf(day)) < Limit(r)
  <1>1. "fail" \in Places /\ "done" \in Places /\ "insert" \in Places
    BY DEF Places
  <1>0. day \in Days
    BY Bounds
  <1>2. run' = run /\ Written(r)
    BY Unwritten DEF Look, rows
  <1>3. CASE Goto(r, "fail") /\ ctx' = ctx
    BY <1>1, <1>2, <1>3, Onward
  <1>4. CASE /\ Goto(r, IF claim[Target(r)].status = "succeeded" THEN "done" ELSE "fail")
             /\ ctx' = ctx
    <2>1. CASE claim[Target(r)].status = "succeeded"
      BY <1>1, <1>2, <1>4, <2>1, Onward
    <2>2. CASE claim[Target(r)].status # "succeeded"
      BY <1>1, <1>2, <1>4, <2>2, Onward
    <2> QED
      BY <2>1, <2>2
  <1>5. CASE /\ Goto(r, "insert") /\ ctx' = [ctx EXCEPT ![r].day = day]
             /\ Cardinality(RowsOf(day)) < Limit(r)
    <2>1. /\ ctx' \in [Runs -> Contexts] /\ ctx'[r].day = day
          /\ \A s \in Runs : s # r => ctx'[s] = ctx[s]
      BY <1>0, <1>5, Dated
    <2> QED
      BY <1>1, <1>2, <1>5, <2>1, Moves DEF Alters, Moving
  <1> QED
    BY <1>3, <1>4, <1>5 DEF Look

LEMMA EndEffect ==
  ASSUME RunTyped, Moving, NEW r \in Runs, EndStep(r)
  PROVE  /\ Alters(r) /\ pc'[r] = "finish" /\ ctx'[r].ended # "none"
         /\ run'[r].status = run[r].status /\ run'[r].done = (pc[r] = "done")
         /\ pc[r] \in {"done", "skip", "fail", "wait", "hold"}
         /\ run'[r].reply = IF pc[r] = "hold" THEN "draft" ELSE run[r].reply
  <1> DEFINE u == StepAfter[pc[r]]
             v == IF pc[r] = "hold" THEN "draft" ELSE run[r].reply
             c == [IdleCtx EXCEPT !.ended = u]
  <1>1. pc[r] \in {"done", "skip", "fail", "wait", "hold"}
    BY DEF EndStep, StepAfter
  <1>2. u \in {"waiting_approval"} \cup Settled /\ u \in Steps /\ u # "none"
    BY <1>1 DEF StepAfter, Settled, Steps
  <1>3. v \in Replies /\ (pc[r] = "done") \in BOOLEAN
    BY DEF RunTyped, RunRows, Replies
  <1>4. c \in Contexts /\ c.ended = u
    BY <1>2, EndedIdle
  <1>5. run' = [run EXCEPT ![r].step = u, ![r].done = (pc[r] = "done"), ![r].reply = v]
    BY DEF EndStep
  <1>6. ctx' = [ctx EXCEPT ![r] = c] /\ Goto(r, "finish") /\ "finish" \in Places
    BY DEF EndStep, Places
  <1> HIDE DEF u, v, c
  <1>7. /\ Written(r) /\ run'[r].status = run[r].status /\ run'[r].reply = v
        /\ run'[r].done = (pc[r] = "done")
    BY <1>2, <1>3, <1>5, OutcomeWritten
  <1>8. Alters(r) /\ pc'[r] = "finish" /\ ctx'[r] = c
    BY <1>4, <1>6, <1>7, Turns
  <1> QED
    BY <1>1, <1>2, <1>4, <1>7, <1>8 DEF v

LEMMA FinishEffect ==
  ASSUME RunTyped, Moving, Locals, NEW r \in Runs, FinishRun(r)
  PROVE  /\ Alters(r) /\ pc'[r] = "idle" /\ ctx'[r] = IdleCtx
         /\ run'[r].status \in {"completed", "failed", "waiting_approval"}
         /\ run'[r].reply = run[r].reply /\ run'[r].done = run[r].done
  <1> DEFINE v == StatusAfter[ctx[r].ended]
  <1>1. v \in {"completed", "failed", "waiting_approval"} /\ v \in Statuses
    <2>1. ctx[r].ended \in {"waiting_approval"} \cup Settled
      BY DEF FinishRun, Locals, Moving, Contexts
    <2> QED
      BY <2>1 DEF StatusAfter, Settled, Statuses
  <1>2. run' = [run EXCEPT ![r].status = v] /\ Goto(r, "idle") /\ "idle" \in Places
    BY DEF FinishRun, Places
  <1> HIDE DEF v
  <1>3. /\ Written(r) /\ run'[r].status = v
        /\ run'[r].reply = run[r].reply /\ run'[r].done = run[r].done
    BY <1>1, <1>2, StatusWritten
  <1> QED
    BY <1>1, <1>2, <1>3, Idle, Turns DEF FinishRun

LEMMA PassEffect ==
  ASSUME RunTyped, Moving, NEW r \in Runs, Pass(r)
  PROVE  /\ Alters(r) /\ pc'[r] = "finish" /\ ctx'[r].ended # "none"
         /\ run'[r].status = "running" /\ run[r].status # "none"
         /\ run'[r].reply = run[r].reply /\ run'[r].done = run[r].done
  <1> DEFINE u == run[r].step
  <1>1. u \in {"waiting_approval"} \cup Settled /\ u # "none"
    BY DEF Pass, StatusAfter, Settled
  <1>2. ctx' = [ctx EXCEPT ![r].ended = u] /\ Goto(r, "finish") /\ "finish" \in Places
    BY DEF Pass, Places
  <1>3. /\ Written(r) /\ run'[r].status = "running"
        /\ run'[r].reply = run[r].reply /\ run'[r].done = run[r].done
    BY StatusWritten DEF Pass, Statuses
  <1>4. run[r].status # "none"
    BY DEF Pass
  <1> HIDE DEF u
  <1>5. /\ ctx' \in [Runs -> Contexts] /\ ctx'[r].ended = u
        /\ \A s \in Runs : s # r => ctx'[s] = ctx[s]
    BY <1>1, <1>2, Ended
  <1> QED
    BY <1>1, <1>2, <1>3, <1>4, <1>5, Moves DEF Alters, Moving

LEMMA CrashEffect ==
  ASSUME RunTyped, Moving, NEW r \in Runs, Crash(r)
  PROVE  Alters(r) /\ pc'[r] = "idle" /\ ctx'[r] = IdleCtx /\ run' = run
  <1>1. "idle" \in Places /\ run' = run
    BY DEF Places, Crash, rows
  <1> QED
    BY <1>1, Unwritten, Idle, Turns DEF Crash

-----------------------------------------------------------------------------
(* The type invariant holds together with Locals: which request an          *)
(* execution waits for is part of knowing the type of what it does.         *)

\* The parts of the type invariant a step of an execution hardly touches.
Rest ==
  /\ channel \in Cards
  /\ flow \in [Workflows -> {"active", "paused", "deleted"}]
  /\ news \subseteq Workflows \X Comments
  /\ claim \in [Comments -> Claims]
  /\ lock \in Runs \cup {Nothing}
  /\ answers \in [Comments -> Nat]
  /\ poll \in [Pollers -> Runs \cup {Nothing}]
  /\ day \in 1 .. MaxDay
  /\ upsets \in 0 .. MaxUpsets

LEMMA TypeParts == TypeOK <=> CreditOK /\ RunTyped /\ Moving /\ Rest
  BY DEF TypeOK, RunTyped, Moving, Rest

LEMMA TypePartsNext == TypeOK' <=> CreditOK' /\ RunTyped' /\ Moving' /\ Rest'
  BY DEF TypeOK, RunTyped, Moving, Rest

LEMMA ClaimWritten ==
  ASSUME Rest, NEW x, NEW row \in Claims, claim' = [claim EXCEPT ![x] = row]
  PROVE  claim' \in [Comments -> Claims]
  BY DEF Rest

LEMMA UpsetTyped ==
  ASSUME Rest, Upset
  PROVE  upsets' \in 0 .. MaxUpsets
  BY AnswerConstants DEF Rest, Upset

LEMMA RestKept ==
  ASSUME Rest, Moving, NEW r \in Runs, Executing(r)
  PROVE  Rest'
  <1> USE AnswerConstants DEF rows, execs, credits
  <1>1. CASE Start(r) \/ Draft(r) \/ WaitForDay(r) \/ FinishRun(r) \/ Pass(r)
    BY <1>1 DEF Rest, Start, Draft, WaitForDay, FinishRun, Pass
  <1>2. CASE Asking(r) \/ Inspect(r) \/ Look(r)
    BY <1>2 DEF Rest, Asking, Ask, Replied, RefusedByModel, Unanswering, SettleUsage,
                Inspect, Look
  <1>3. CASE ClaimReply(r)
    <2>1. /\ claim' = claim \/ Claimed(r, day)
          /\ UNCHANGED <<channel, flow, news, lock, answers, poll, day, upsets>>
      BY <1>3 DEF ClaimReply
    <2>2. [status |-> "sending", day |-> day, run |-> r] \in Claims
      BY Bounds DEF Claims, Rest
    <2> QED
      BY <2>1, <2>2, ClaimWritten DEF Rest, Claimed
  <1>4. CASE InsertAction(r)
    <2>1. /\ claim' = claim \/ Claimed(r, ctx[r].day)
          /\ UNCHANGED <<channel, flow, news, lock, answers, poll, day, upsets>>
      BY <1>4 DEF InsertAction
    <2>2. [status |-> "sending", day |-> ctx[r].day, run |-> r] \in Claims
      BY DEF Claims, Moving, Contexts
    <2> QED
      BY <2>1, <2>2, ClaimWritten DEF Rest, Claimed
  <1>5. CASE Recheck(r)
    <2>1. /\ claim' = claim \/ claim' = [claim EXCEPT ![Target(r)] = NoClaim]
          /\ UNCHANGED <<channel, flow, news, lock, answers, poll, day, upsets>>
      BY <1>5 DEF Recheck
    <2>2. NoClaim \in Claims
      BY Bounds DEF Claims, NoClaim
    <2> QED
      BY <2>1, <2>2, ClaimWritten DEF Rest
  <1>6. CASE Note(r)
    <2> DEFINE v == OutcomeOf(pc[r])
    <2>1. v \in {"succeeded", "failed", "uncertain"}
      BY <1>6 DEF Note, OutcomeOf
    <2>2. /\ claim' = [claim EXCEPT ![Target(r)].status = v]
          /\ UNCHANGED <<channel, flow, news, lock, answers, poll, day, upsets>>
      BY <1>6 DEF Note
    <2> HIDE DEF v
    <2>3. claim \in [Comments -> Claims] /\ \A x \in Comments : [claim[x] EXCEPT !.status = v] \in Claims
      BY <2>1 DEF Rest, Claims
    <2>4. claim' \in [Comments -> Claims]
      BY <2>2, <2>3
    <2> QED
      BY <2>2, <2>4 DEF Rest
  <1>7. CASE LockAccount(r)
    BY <1>7 DEF Rest, LockAccount
  <1>8. CASE EndStep(r)
    BY <1>8 DEF Rest, EndStep
  <1>9. CASE Post(r)
    <2>1. /\ answers' = answers \/ answers' = [answers EXCEPT ![Target(r)] = @ + 1]
          /\ UNCHANGED <<channel, flow, news, claim, lock, poll, day, upsets>>
      BY <1>9 DEF Post
    <2> QED
      BY <2>1 DEF Rest
  <1>10. CASE Crash(r)
    <2>1. /\ lock' \in {lock, Nothing} /\ Upset
          /\ UNCHANGED <<channel, flow, news, claim, answers, poll, day>>
      BY <1>10 DEF Crash
    <2> QED
      BY <2>1, UpsetTyped DEF Rest
  <1> QED
    BY <1>1, <1>2, <1>3, <1>4, <1>5, <1>6, <1>7, <1>8, <1>9, <1>10 DEF Executing

\* A step that has nothing to do with the credit.
LEMMA QuietLocals ==
  ASSUME Locals, NEW r \in Runs, Alters(r), UNCHANGED <<open, bill>>,
         pc'[r] \notin Asked,
         pc'[r] = "idle" => ctx'[r] = IdleCtx,
         pc'[r] = "ask" => ctx'[r].tries < 3,
         pc'[r] = "finish" => ctx'[r].ended # "none"
  PROVE  Locals'
  BY DEF Locals, Alters, Asked

\* A step that opens, charges or closes the request q of r.
LEMMA RequestLocals ==
  ASSUME Locals, NEW r \in Runs, Alters(r), NEW q \in Requests,
         \A p \in Requests : p # q => (p \in open' <=> p \in open) /\ bill'[p] = bill[p],
         q \notin open' => bill'[q] = 0,
         open \subseteq Requests,
         \A s \in Runs : s # r /\ pc[s] \in Asked => ctx[s].request # q,
         pc'[r] \in Asked => ctx'[r].request = q /\ q \in open',
         pc'[r] = "asked" => bill'[q] = 0,
         pc'[r] \notin {"idle", "finish"},
         pc'[r] = "ask" => ctx'[r].tries < 3
  PROVE  Locals'
  <1>1. ASSUME NEW s \in Runs
        PROVE  /\ pc'[s] = "idle" => ctx'[s] = IdleCtx
               /\ pc'[s] = "ask" => ctx'[s].tries < 3
               /\ pc'[s] = "finish" => ctx'[s].ended # "none"
               /\ pc'[s] \in Asked => ctx'[s].request \in open'
               /\ pc'[s] = "asked" => bill'[ctx'[s].request] = 0
    <2>1. CASE s = r
      BY <2>1 DEF Asked
    <2>2. CASE s # r
      <3>1. pc'[s] = pc[s] /\ ctx'[s] = ctx[s]
        BY <2>2 DEF Alters
      <3>2. pc[s] \in Asked => ctx[s].request \in open /\ ctx[s].request # q
        BY <2>2 DEF Locals
      <3> QED
        BY <3>1, <3>2 DEF Locals, Asked
    <2> QED
      BY <2>1, <2>2
  <1>2. ASSUME NEW s \in Runs, NEW t \in Runs, s # t, pc'[s] \in Asked, pc'[t] \in Asked
        PROVE  ctx'[s].request # ctx'[t].request
    BY <1>2 DEF Locals, Alters
  <1>3. ASSUME NEW p \in Requests, p \notin open'
        PROVE  bill'[p] = 0
    BY <1>3 DEF Locals
  <1> QED
    BY <1>1, <1>2, <1>3 DEF Locals

\* What each operation does to the credit.
LEMMA ReserveEffect ==
  ASSUME CreditOK, NEW q \in Requests, Reserve(q)
  PROVE  /\ CreditOK' /\ open' = open \cup {q} /\ bill' = bill /\ spent' = spent
         /\ granted' = granted /\ credit'.limit = credit.limit /\ credit'.used = credit.used
         /\ credit'.reserved = credit.reserved + Bound
         /\ credit.used + credit.reserved + Bound <= credit.limit
  BY CreditConstants DEF CreditOK, Reserve, Affordable

LEMMA ChargeEffect ==
  ASSUME CreditOK, NEW q \in Requests, NEW tokens \in Tokens, Charge(q, tokens)
  PROVE  /\ CreditOK' /\ UNCHANGED <<operational, credit, open, spent, granted>>
         /\ \A p \in Requests : p # q => bill'[p] = bill[p]
  BY DEF CreditOK, Charge

LEMMA CloseEffect ==
  ASSUME CreditOK, NEW q \in Requests, NEW actual \in Tokens, CloseRow(q, actual)
  PROVE  /\ CreditOK' /\ open' = open \ {q} /\ bill'[q] = 0
         /\ \A p \in Requests : p # q => bill'[p] = bill[p]
         /\ spent' = spent + bill[q] /\ granted' = granted
         /\ credit'.limit = credit.limit /\ credit'.used = credit.used + actual
         /\ credit'.reserved = ReservedAfter /\ bill[q] \in Tokens
  <1> DEFINE v == ReservedAfter
  <1>1. Bound \in Nat /\ Tokens \subseteq Nat /\ 0 \in Tokens
    BY CreditConstants DEF Tokens
  <1>2. v \in Nat
    BY <1>1 DEF ReservedAfter, CreditOK
  <1>3. bill[q] \in Tokens /\ bill[q] \in Nat /\ actual \in Nat
    BY <1>1 DEF CreditOK
  <1>4. /\ credit' = [credit EXCEPT !.reserved = v, !.used = @ + actual]
        /\ open' = open \ {q} /\ spent' = spent + bill[q]
        /\ bill' = [bill EXCEPT ![q] = 0] /\ UNCHANGED <<operational, granted>>
    BY DEF CloseRow
  <1> HIDE DEF v
  <1>5. /\ credit' \in [limit : Limits, used : Nat, reserved : Nat]
        /\ credit'.limit = credit.limit /\ credit'.used = credit.used + actual
        /\ credit'.reserved = v
    <2>1. /\ credit.limit \in Limits /\ credit.used \in Nat
          /\ credit.used + actual \in Nat
      BY <1>3 DEF CreditOK
    <2>2. credit' = [limit |-> credit.limit, used |-> credit.used + actual, reserved |-> v]
      BY <1>4 DEF CreditOK
    <2> QED
      BY <1>2, <2>1, <2>2
  <1> QED
    BY <1>1, <1>3, <1>4, <1>5 DEF CreditOK, v

LEMMA SettleCloses ==
  ASSUME CreditOK, NEW q \in Requests, Settle(q)
  PROVE  \E actual \in Tokens : CloseRow(q, actual) /\ bill[q] <= actual
  <1>1. bill[q] \in Tokens /\ Bound \in Tokens /\ bill[q] <= bill[q] /\ bill[q] <= Bound
    BY CreditConstants DEF CreditOK, Tokens
  <1> QED
    BY <1>1 DEF Settle

LEMMA ReleaseCloses ==
  ASSUME NEW q, ReleaseCredit(q)
  PROVE  0 \in Tokens /\ CloseRow(q, 0)
  BY CreditConstants DEF Tokens, ReleaseCredit

LEMMA AskingTypes ==
  ASSUME TypeOK, Locals, NEW r \in Runs, Asking(r)
  PROVE  CreditOK' /\ Alters(r) /\ Locals' /\ run' = run
  <1>1. CreditOK /\ RunTyped /\ Moving /\ open \subseteq Requests
    BY TypeParts DEF CreditOK
  <1> DEFINE q == ctx[r].request
  <1>2. pc[r] \in Asked => /\ q \in open /\ q \in Requests
                           /\ \A s \in Runs : s # r /\ pc[s] \in Asked => ctx[s].request # q
    BY <1>1 DEF Locals
  <1>3. CASE Ask(r)
    <2>1. /\ Alters(r) /\ run' = run /\ FreshRequest \in Requests /\ FreshRequest \notin open
          /\ \/ pc'[r] = "asked" /\ ctx'[r].request = FreshRequest /\ Reserve(FreshRequest)
             \/ pc'[r] = "fail" /\ ctx'[r] = IdleCtx /\ UNCHANGED credits
      BY <1>1, <1>3, AskEffect
    <2>2. CASE pc'[r] = "asked" /\ ctx'[r].request = FreshRequest /\ Reserve(FreshRequest)
      <3>1. CreditOK' /\ open' = open \cup {FreshRequest} /\ bill' = bill
        BY <1>1, <2>1, <2>2, ReserveEffect
      <3>2. bill[FreshRequest] = 0
        BY <2>1 DEF Locals
      <3>3. \A s \in Runs : s # r /\ pc[s] \in Asked => ctx[s].request # FreshRequest
        BY <2>1 DEF Locals
      <3>4. Locals'
        BY <1>1, <2>1, <2>2, <3>1, <3>2, <3>3, RequestLocals
      <3> QED
        BY <2>1, <3>1, <3>4
    <2>3. CASE pc'[r] = "fail" /\ UNCHANGED credits
      BY <1>1, <2>1, <2>3, QuietLocals DEF CreditOK, credits, Asked, Tokens
    <2> QED
      BY <2>1, <2>2, <2>3
  <1>4. CASE Replied(r)
    <2>1. pc[r] = "asked" /\ q \in open /\ q \in Requests /\ run' = run /\ ctx' = ctx
      BY <1>2, <1>4 DEF Replied, Asked, rows
    <2>2. PICK tokens \in Tokens : Charge(q, tokens)
      BY <1>4 DEF Replied
    <2>3. /\ CreditOK' /\ open' = open
          /\ \A p \in Requests : p # q => bill'[p] = bill[p]
      BY <1>1, <2>1, <2>2, ChargeEffect
    <2>4. Goto(r, "settle") /\ "settle" \in Places
      BY <1>4 DEF Replied, Places
    <2>5. Alters(r) /\ pc'[r] = "settle" /\ ctx'[r] = ctx[r]
      BY <1>1, <2>1, <2>4, Onward
    <2>6. Locals'
      BY <1>1, <1>2, <2>1, <2>3, <2>5, RequestLocals DEF Asked
    <2> QED
      BY <2>1, <2>3, <2>5, <2>6
  <1>5. ASSUME pc[r] \in Asked, run' = run, CreditOK',
               AskAgain(r) \/ \E place \in {"fail", "draft"} : EndAsking(r, place),
               \A p \in Requests : p # q => (p \in open' <=> p \in open) /\ bill'[p] = bill[p],
               q \notin open' => bill'[q] = 0
        PROVE  CreditOK' /\ Alters(r) /\ Locals' /\ run' = run
    <2>1. /\ Alters(r)
          /\ \/ pc'[r] = "ask" /\ ctx'[r] = ctx[r] /\ ctx[r].tries < 3
             \/ pc'[r] \in {"fail", "draft"} /\ ctx'[r] = IdleCtx
      BY <1>1, <1>5, AfterAsking
    <2>2. /\ pc'[r] \notin Asked /\ pc'[r] \notin {"idle", "finish"} /\ pc'[r] # "asked"
          /\ pc'[r] = "ask" => ctx'[r].tries < 3
      BY <2>1 DEF Asked
    <2>3. Locals'
      BY <1>1, <1>2, <1>5, <2>1, <2>2, RequestLocals
    <2> QED
      BY <1>5, <2>1, <2>3
  <1>6. CASE RefusedByModel(r)
    <2>1. pc[r] \in Asked /\ run' = run /\ ReleaseCredit(q)
      BY <1>6 DEF RefusedByModel, Asked, rows
    <2>2. AskAgain(r) \/ \E place \in {"fail", "draft"} : EndAsking(r, place)
      BY <1>6 DEF RefusedByModel
    <2>3. CreditOK' /\ open' = open \ {q} /\ bill'[q] = 0
          /\ \A p \in Requests : p # q => bill'[p] = bill[p]
      BY <1>1, <1>2, <2>1, ReleaseCloses, CloseEffect
    <2> QED
      BY <1>5, <2>1, <2>2, <2>3
  <1>7. CASE Unanswering(r)
    <2>1. pc[r] \in Asked /\ run' = run
      BY <1>7 DEF Unanswering, Asked, rows
    <2>2. PICK tokens \in Tokens : Charge(q, tokens)
      BY <1>7 DEF Unanswering, Unanswered
    <2>3. AskAgain(r) \/ \E place \in {"fail", "draft"} : EndAsking(r, place)
      BY <1>7 DEF Unanswering
    <2>4. CreditOK' /\ open' = open /\ \A p \in Requests : p # q => bill'[p] = bill[p]
      BY <1>1, <1>2, <2>1, <2>2, ChargeEffect
    <2> QED
      BY <1>2, <1>5, <2>1, <2>3, <2>4
  <1>8. CASE SettleUsage(r)
    <2>1. pc[r] \in Asked /\ run' = run /\ Settle(q)
      BY <1>8 DEF SettleUsage, Asked, rows
    <2>2. AskAgain(r) \/ \E place \in {"fail", "draft"} : EndAsking(r, place)
      BY <1>8 DEF SettleUsage
    <2>3. CreditOK' /\ open' = open \ {q} /\ bill'[q] = 0
          /\ \A p \in Requests : p # q => bill'[p] = bill[p]
      BY <1>1, <1>2, <2>1, SettleCloses, CloseEffect
    <2> QED
      BY <1>5, <2>1, <2>2, <2>3
  <1> QED
    BY <1>3, <1>4, <1>6, <1>7, <1>8 DEF Asking

LEMMA CreditStays == CreditOK /\ UNCHANGED credits => CreditOK'
  BY DEF CreditOK, credits, Tokens

\* Steps of an execution that leave the runs and its variables alone.
Plain(r) ==
  \/ Inspect(r) \/ ClaimReply(r) \/ LockAccount(r) \/ InsertAction(r)
  \/ Recheck(r) \/ Post(r) \/ Note(r)

LEMMA PlainEffect ==
  ASSUME RunTyped, Moving, NEW r \in Runs, Plain(r)
  PROVE  /\ Alters(r) /\ run' = run /\ ctx' = ctx /\ UNCHANGED credits
         /\ pc'[r] \notin Asked /\ pc'[r] \notin {"idle", "ask", "finish"}
  <1>1. run' = run /\ ctx' = ctx /\ UNCHANGED credits
    BY DEF Plain, Inspect, ClaimReply, LockAccount, InsertAction, Recheck, Post, Note, rows
  <1>2. \E place \in Places \ (Asked \cup {"idle", "ask", "finish"}) : Goto(r, place)
    <2>1. /\ {"skip", "fail", "claim", "done", "limit", "recheck", "look", "post", "noteUnclear",
              "noteDone", "noteRefused"} \subseteq Places \ (Asked \cup {"idle", "ask", "finish"})
      BY DEF Places, Asked
    <2> QED
      BY <2>1 DEF Plain, Inspect, ClaimReply, LockAccount, InsertAction, Recheck, Post, Note
  <1> QED
    BY <1>1, <1>2, Onward

LEMMA ExecutingTypes ==
  ASSUME TypeOK, Locals, NEW r \in Runs, Executing(r)
  PROVE  TypeOK' /\ Locals' /\ Alters(r)
  <1>1. CreditOK /\ RunTyped /\ Moving /\ Rest /\ day \in 1 .. MaxDay
    BY TypeParts DEF Rest
  <1>2. Rest'
    BY <1>1, RestKept
  <1>3. SUFFICES CreditOK' /\ Alters(r) /\ Locals'
    BY <1>2, TypePartsNext DEF Alters, Written
  <1>4. CASE Asking(r)
    BY <1>4, AskingTypes
  <1>5. ASSUME Alters(r), UNCHANGED credits,
               pc'[r] \notin Asked,
               pc'[r] = "idle" => ctx'[r] = IdleCtx,
               pc'[r] = "ask" => ctx'[r].tries < 3,
               pc'[r] = "finish" => ctx'[r].ended # "none"
        PROVE  CreditOK' /\ Alters(r) /\ Locals'
    BY <1>1, <1>5, CreditStays, QuietLocals DEF credits
  <1>6. CASE Start(r)
    <2>1. /\ Alters(r) /\ ctx'[r] = ctx[r]
          /\ pc'[r] = FirstPlace(r) \/ pc'[r] = "idle"
      BY <1>1, <1>6, StartEffect
    <2>2. pc[r] = "idle" /\ ctx[r] = IdleCtx /\ UNCHANGED credits
      BY <1>6 DEF Start, Locals
    <2>3. pc'[r] \notin Asked /\ pc'[r] # "finish" /\ ctx'[r].tries < 3
      BY <2>1, <2>2 DEF FirstPlace, Answering, Asked, IdleCtx
    <2> QED
      BY <1>5, <2>1, <2>2, <2>3
  <1>7. CASE Draft(r)
    <2>1. Alters(r) /\ (pc'[r] = Answering(r) \/ pc'[r] \in {"wait", "skip"})
      BY <1>1, <1>7, DraftEffect
    <2>2. pc'[r] \notin Asked /\ pc'[r] \notin {"idle", "ask", "finish"} /\ UNCHANGED credits
      BY <1>7, <2>1 DEF Answering, Asked, Draft
    <2> QED
      BY <1>5, <2>1, <2>2
  <1>8. CASE WaitForDay(r)
    <2>1. Alters(r) /\ ctx'[r] = IdleCtx /\ pc'[r] = "idle"
      BY <1>1, <1>8, WaitEffect
    <2>2. UNCHANGED credits
      BY <1>8 DEF WaitForDay
    <2> QED
      BY <1>5, <2>1, <2>2 DEF Asked
  <1>9. CASE Look(r)
    <2>1. Alters(r) /\ pc'[r] \in {"fail", "done", "insert"}
      BY <1>1, <1>9, LookEffect
    <2>2. UNCHANGED credits
      BY <1>9 DEF Look
    <2> QED
      BY <1>5, <2>1, <2>2 DEF Asked
  <1>10. CASE EndStep(r)
    <2>1. Alters(r) /\ pc'[r] = "finish" /\ ctx'[r].ended # "none"
      BY <1>1, <1>10, EndEffect
    <2>2. UNCHANGED credits
      BY <1>10 DEF EndStep
    <2> QED
      BY <1>5, <2>1, <2>2 DEF Asked
  <1>11. CASE FinishRun(r)
    <2>1. Alters(r) /\ ctx'[r] = IdleCtx /\ pc'[r] = "idle"
      BY <1>1, <1>11, FinishEffect
    <2>2. UNCHANGED credits
      BY <1>11 DEF FinishRun
    <2> QED
      BY <1>5, <2>1, <2>2 DEF Asked
  <1>12. CASE Pass(r)
    <2>1. Alters(r) /\ pc'[r] = "finish" /\ ctx'[r].ended # "none"
      BY <1>1, <1>12, PassEffect
    <2>2. UNCHANGED credits
      BY <1>12 DEF Pass
    <2> QED
      BY <1>5, <2>1, <2>2 DEF Asked
  <1>13. CASE Crash(r)
    <2>1. Alters(r) /\ ctx'[r] = IdleCtx /\ pc'[r] = "idle"
      BY <1>1, <1>13, CrashEffect
    <2>2. UNCHANGED credits
      BY <1>13 DEF Crash
    <2> QED
      BY <1>5, <2>1, <2>2 DEF Asked
  <1>14. CASE Plain(r)
    BY <1>1, <1>5, <1>14, PlainEffect
  <1> QED
    BY <1>4, <1>6, <1>7, <1>8, <1>9, <1>10, <1>11, <1>12, <1>13, <1>14 DEF Executing, Plain

LEMMA LocalsStay ==
  ASSUME Locals, UNCHANGED <<pc, ctx, open, bill>>
  PROVE  Locals'
  BY DEF Locals

LEMMA MovingStays == Moving /\ UNCHANGED <<pc, ctx>> => Moving'
  BY DEF Moving

LEMMA NoRunTyped == NoRun \in RunRows /\ NoRun.status = "none" /\ NoRun.done = FALSE
  BY Bounds DEF NoRun, RunRow, RunRows

LEMMA WasInterrupted ==
  ASSUME NEW row \in Interrupted
  PROVE  /\ row \in RunRows /\ row.workflow \in Workflows /\ row.comment \in Comments
         /\ row.status = "running" /\ row.done = FALSE
  <1> DEFINE v == IF channel = "youtube" THEN "draft" ELSE "none"
  <1>1. PICK w \in Workflows, c \in Comments : row = RunRow(w, c, "running", "running", v)
    BY DEF Interrupted
  <1>2. v \in {"none", "draft"}
    OBVIOUS
  <1> HIDE DEF v
  <1> QED
    BY <1>1, <1>2, Bounds DEF RunRow, RunRows

LEMMA TakeEffect ==
  ASSUME TypeOK, NEW p \in Pollers, NEW w \in Workflows, NEW c \in Comments, TakeComment(p, w, c)
  PROVE  /\ UNCHANGED <<credits, channel, flow, claim, execs, answers, day>>
         /\ RunTyped' /\ Rest'
         /\ \/ run' = run /\ poll' = poll
            \/ \E r \in Runs :
                 /\ run[r].status = "none" /\ run'[r].status = "queued"
                 /\ run'[r].workflow = w /\ run'[r].comment = c /\ ~run'[r].done
                 /\ \A s \in Runs : s # r => run'[s] = run[s]
                 /\ \A o \in Pollers : poll'[o] \in {poll[o], r}
  <1>1. RunTyped /\ Rest
    BY TypeParts
  <1>2. UNCHANGED <<credits, channel, flow, claim, execs, answers, day>>
    BY DEF TakeComment
  <1>3. news' \subseteq Workflows \X Comments
    BY <1>1 DEF TakeComment, Rest
  <1>4. CASE Upset /\ run' = run /\ poll' = poll
    <2>1. upsets' \in 0 .. MaxUpsets
      BY <1>1, <1>4, UpsetTyped
    <2> QED
      BY <1>1, <1>2, <1>3, <1>4, <2>1 DEF Rest, RunTyped, execs
  <1>5. ASSUME NEW r \in Runs, run[r].status = "none", upsets' = upsets,
               run' = [run EXCEPT ![r] = RunRow(w, c, "queued", "none", "none")],
               poll' = poll \/ poll' = [poll EXCEPT ![p] = r]
        PROVE  /\ RunTyped' /\ Rest'
               /\ run'[r].status = "queued"
               /\ run'[r].workflow = w /\ run'[r].comment = c /\ ~run'[r].done
               /\ \A s \in Runs : s # r => run'[s] = run[s]
               /\ \A o \in Pollers : poll'[o] \in {poll[o], r}
    <2> DEFINE row == RunRow(w, c, "queued", "none", "none")
    <2>2. row \in RunRows /\ row.status = "queued" /\ row.workflow = w /\ row.comment = c
          /\ ~row.done
      BY Bounds DEF RunRow, RunRows
    <2>3. run' = [run EXCEPT ![r] = row]
      BY <1>5
    <2> HIDE DEF row
    <2>4. RunTyped' /\ run'[r] = row /\ \A s \in Runs : s # r => run'[s] = run[s]
      BY <1>1, <2>2, <2>3 DEF RunTyped
    <2>5. /\ poll' \in [Pollers -> Runs \cup {Nothing}]
          /\ \A o \in Pollers : poll'[o] \in {poll[o], r}
      BY <1>1, <1>5 DEF Rest
    <2> QED
      BY <1>1, <1>2, <1>3, <1>5, <2>2, <2>4, <2>5 DEF Rest, execs
  <1>6. CASE \E r \in Runs :
               /\ run[r].status = "none"
               /\ run' = [run EXCEPT ![r] = RunRow(w, c, "queued", "none", "none")]
               /\ poll' = poll \/ poll' = [poll EXCEPT ![p] = r]
               /\ UNCHANGED upsets
    BY <1>2, <1>5, <1>6
  <1> QED
    BY <1>2, <1>4, <1>6 DEF TakeComment

LEMMA ForgetEffect ==
  ASSUME TypeOK, NEW p \in Pollers, Forget(p)
  PROVE  /\ UNCHANGED <<credits, channel, flow, claim, execs, answers, day>> /\ Rest'
         /\ poll[p] \in Runs /\ Written(poll[p])
         /\ run'[poll[p]].status \in {"failed", run[poll[p]].status}
         /\ run'[poll[p]].reply = run[poll[p]].reply /\ run'[poll[p]].done = run[poll[p]].done
         /\ \A o \in Pollers : poll'[o] \in {poll[o], Nothing}
  <1>1. RunTyped /\ Rest /\ poll[p] \in Runs
    BY TypeParts DEF Forget
  <1>2. UNCHANGED <<credits, channel, flow, claim, execs, answers, day>>
    BY DEF Forget
  <1> DEFINE r == poll[p]
             v == IF run[r].status = "deleted" THEN run[r].status ELSE "failed"
  <1>3. v \in Statuses /\ v \in {"failed", run[r].status}
    BY DEF Statuses
  <1>4. run' = [run EXCEPT ![r].status = v]
    BY <1>1 DEF Forget, RunTyped
  <1> HIDE DEF v
  <1>5. /\ Written(r) /\ run'[r].status = v
        /\ run'[r].reply = run[r].reply /\ run'[r].done = run[r].done
    BY <1>1, <1>3, <1>4, StatusWritten
  <1>6. /\ poll' \in [Pollers -> Runs \cup {Nothing}]
        /\ \A o \in Pollers : poll'[o] \in {poll[o], Nothing}
    BY <1>1 DEF Rest, Forget
  <1>7. news' \subseteq Workflows \X Comments /\ upsets' \in 0 .. MaxUpsets
    BY <1>1, UpsetTyped DEF Rest, Forget
  <1> QED
    BY <1>1, <1>2, <1>3, <1>5, <1>6, <1>7 DEF Rest, execs

\* What people decide about a run.
Decide(r) == Approve(r) \/ Reject(r) \/ RetryReply(r)

LEMMA DecideEffect ==
  ASSUME TypeOK, NEW r \in Runs, Decide(r)
  PROVE  /\ UNCHANGED <<credits, channel, flow, news, claim, execs, answers, poll, day, upsets>>
         /\ Written(r) /\ Rest'
         /\ run[r].status \in {"waiting_approval", "failed"} /\ run'[r].status = "queued"
         /\ run'[r].done = run[r].done
         /\ \/ run'[r].reply = run[r].reply
            \/ run[r].status = "waiting_approval" /\ run'[r].reply = "approved"
  <1>1. RunTyped /\ Rest
    BY TypeParts
  <1>2. UNCHANGED <<credits, channel, flow, news, claim, execs, answers, poll, day, upsets>>
    BY DEF Decide, Approve, Reject, RetryReply
  <1>3. Rest'
    BY <1>1, <1>2 DEF Rest, execs
  <1>4. CASE Approve(r)
    <2> DEFINE u == IF run[r].reply = "referred" THEN "completed" ELSE "queued"
               v == IF run[r].reply = "referred" THEN "referred" ELSE "approved"
    <2>1. u \in Steps /\ v \in Replies /\ v \in {run[r].reply, "approved"}
      BY DEF Steps, Settled, Replies
    <2>2. run' = [run EXCEPT ![r].status = "queued", ![r].step = u, ![r].reply = v]
      BY <1>4 DEF Approve
    <2> HIDE DEF u, v
    <2>3. /\ Written(r) /\ run'[r].status = "queued"
          /\ run'[r].reply = v /\ run'[r].done = run[r].done
      BY <1>1, <2>1, <2>2, DecisionWritten
    <2>4. run[r].status = "waiting_approval"
      BY <1>4 DEF Approve
    <2> QED
      BY <1>2, <1>3, <2>1, <2>3, <2>4
  <1>5. CASE Reject(r)
    BY <1>1, <1>2, <1>3, <1>5, StepWritten DEF Reject, Statuses, Steps, Settled
  <1>6. CASE RetryReply(r)
    BY <1>1, <1>2, <1>3, <1>6, StepWritten DEF RetryReply, Statuses, Steps, Settled
  <1> QED
    BY <1>4, <1>5, <1>6 DEF Decide

LEMMA DeleteEffect ==
  ASSUME TypeOK, NEW w \in Workflows, DeleteWorkflow(w)
  PROVE  /\ UNCHANGED <<credits, channel, execs, answers, poll, day, upsets>>
         /\ RunTyped' /\ Rest'
         /\ \A r \in Runs :
              /\ run'[r].workflow = run[r].workflow /\ run'[r].comment = run[r].comment
              /\ run'[r].reply = run[r].reply /\ run'[r].done = run[r].done
              /\ \/ run'[r].status = run[r].status
                 \/ /\ run[r].status \in {"completed", "failed"} /\ pc[r] = "idle"
                    /\ run'[r].status = "deleted"
         /\ ~LosesClaims => claim' = claim
  <1>1. RunTyped /\ Rest
    BY TypeParts
  <1>2. UNCHANGED <<credits, channel, execs, answers, poll, day, upsets>>
    BY DEF DeleteWorkflow
  <1> DEFINE gone == {r \in Runs : run[r].workflow = w}
  <1>3. /\ \A r \in gone : run[r].status \in {"completed", "failed"} /\ pc[r] = "idle"
        /\ ClaimsOf(w) # {} => LosesClaims
        /\ flow' = [flow EXCEPT ![w] = "deleted"]
        /\ run' = [r \in Runs |-> IF r \in gone THEN [run[r] EXCEPT !.status = "deleted"]
                                  ELSE run[r]]
        /\ news' = {item \in news : item[1] # w}
        /\ claim' = [c \in Comments |-> IF c \in ClaimsOf(w) THEN NoClaim ELSE claim[c]]
    BY DEF DeleteWorkflow
  <1>4. ASSUME NEW r \in Runs
        PROVE  /\ [run[r] EXCEPT !.status = "deleted"] \in RunRows
               /\ [run[r] EXCEPT !.status = "deleted"].status = "deleted"
               /\ [run[r] EXCEPT !.status = "deleted"].workflow = run[r].workflow
               /\ [run[r] EXCEPT !.status = "deleted"].comment = run[r].comment
               /\ [run[r] EXCEPT !.status = "deleted"].reply = run[r].reply
               /\ [run[r] EXCEPT !.status = "deleted"].done = run[r].done
    BY <1>1 DEF RunTyped, RunRows
  <1>5. RunTyped'
    BY <1>1, <1>3, <1>4 DEF RunTyped
  <1>6. \A r \in Runs :
          /\ run'[r].workflow = run[r].workflow /\ run'[r].comment = run[r].comment
          /\ run'[r].reply = run[r].reply /\ run'[r].done = run[r].done
          /\ \/ run'[r].status = run[r].status
             \/ /\ run[r].status \in {"completed", "failed"} /\ pc[r] = "idle"
                /\ run'[r].status = "deleted"
    BY <1>3, <1>4
  <1>7. NoClaim \in Claims
    BY Bounds DEF Claims, NoClaim
  <1>8. claim' \in [Comments -> Claims] /\ (~LosesClaims => claim' = claim)
    BY <1>1, <1>3, <1>7 DEF Rest
  <1>9. /\ flow' \in [Workflows -> {"active", "paused", "deleted"}]
        /\ news' \subseteq Workflows \X Comments
    BY <1>1, <1>3 DEF Rest
  <1> QED
    BY <1>1, <1>2, <1>5, <1>6, <1>8, <1>9 DEF Rest, execs

LEMMA AdministerEffect ==
  ASSUME CreditOK, Administer
  PROVE  /\ CreditOK' /\ UNCHANGED <<open, bill, spent>>
         /\ credit'.used = credit.used /\ credit'.reserved = credit.reserved
         /\ granted <= granted' /\ (credit.limit <= granted => credit'.limit <= granted')
  <1>1. granted \in Nat /\ Limits \subseteq Nat
    BY CreditConstants DEF CreditOK
  <1>2. CASE operational' = ~operational /\ UNCHANGED <<credit, granted>>
    BY <1>1, <1>2 DEF CreditOK, Administer, Tokens
  <1>3. ASSUME NEW l \in Limits, credit' = [credit EXCEPT !.limit = l],
               granted' = IF l > granted THEN l ELSE granted, operational' = operational
        PROVE  /\ CreditOK' /\ credit'.used = credit.used
               /\ credit'.reserved = credit.reserved
               /\ granted <= granted' /\ credit'.limit <= granted'
    BY <1>1, <1>3 DEF CreditOK, Administer, Tokens
  <1> QED
    BY <1>2, <1>3 DEF Administer

LEMMA ElsewhereTypes ==
  ASSUME TypeOK, Locals,
         \/ \E p \in Pollers : Polling(p)
         \/ People
         \/ NextDay
  PROVE  TypeOK' /\ Locals'
  <1>1. CreditOK /\ RunTyped /\ Moving /\ Rest
    BY TypeParts
  <1>2. ASSUME RunTyped', Rest', UNCHANGED <<credits, execs>>
        PROVE  TypeOK' /\ Locals'
    BY <1>1, <1>2, CreditStays, MovingStays, LocalsStay, TypePartsNext DEF credits, execs
  <1>3. ASSUME NEW p \in Pollers, NEW w \in Workflows, NEW c \in Comments, TakeComment(p, w, c)
        PROVE  TypeOK' /\ Locals'
    BY <1>2, <1>3, TakeEffect
  <1>4. ASSUME NEW p \in Pollers, Forget(p)
        PROVE  TypeOK' /\ Locals'
    BY <1>2, <1>4, ForgetEffect DEF Written
  <1>5. ASSUME NEW p \in Pollers, CrashPoll(p)
        PROVE  TypeOK' /\ Locals'
    <2>1. upsets' \in 0 .. MaxUpsets /\ run' = run
      BY <1>1, <1>5, UpsetTyped DEF CrashPoll, rows
    <2>2. Rest'
      BY <1>1, <1>5, <2>1 DEF Rest, CrashPoll, rows, execs
    <2> QED
      BY <1>1, <1>2, <1>5, <2>1, <2>2 DEF CrashPoll, RunTyped
  <1>6. ASSUME NEW r \in Runs, Decide(r)
        PROVE  TypeOK' /\ Locals'
    BY <1>2, <1>6, DecideEffect DEF Written
  <1>7. ASSUME NEW w \in Workflows, SetActive(w)
        PROVE  TypeOK' /\ Locals'
    <2>1. upsets' \in 0 .. MaxUpsets /\ run' = run
      BY <1>1, <1>7, UpsetTyped DEF SetActive
    <2>2. Rest'
      BY <1>1, <1>7, <2>1 DEF Rest, SetActive, execs
    <2> QED
      BY <1>1, <1>2, <1>7, <2>1, <2>2 DEF SetActive, RunTyped
  <1>8. ASSUME NEW w \in Workflows, DeleteWorkflow(w)
        PROVE  TypeOK' /\ Locals'
    BY <1>2, <1>8, DeleteEffect
  <1>9. CASE AdministerCredit
    <2>1. upsets' \in 0 .. MaxUpsets /\ run' = run
      BY <1>1, <1>9, UpsetTyped DEF AdministerCredit, rows
    <2>2. Rest'
      BY <1>1, <1>9, <2>1 DEF Rest, AdministerCredit, rows, execs
    <2>3. CreditOK' /\ UNCHANGED <<open, bill>>
      BY <1>1, <1>9, AdministerEffect DEF AdministerCredit
    <2>4. Moving' /\ Locals' /\ RunTyped'
      BY <1>1, <1>9, <2>1, <2>3, MovingStays, LocalsStay DEF AdministerCredit, execs, RunTyped
    <2> QED
      BY <2>2, <2>3, <2>4, TypePartsNext
  <1>10. CASE NextDay
    <2>1. day' \in 1 .. MaxDay /\ run' = run
      BY <1>1, <1>10, AnswerConstants DEF NextDay, Rest, rows
    <2>2. Rest'
      BY <1>1, <1>10, <2>1 DEF Rest, NextDay, rows, execs
    <2> QED
      BY <1>1, <1>2, <1>10, <2>1, <2>2 DEF NextDay, RunTyped
  <1> QED
    BY <1>3, <1>4, <1>5, <1>6, <1>7, <1>8, <1>9, <1>10 DEF Polling, People, Decide

\* Rows, executions, pollers and credit have their types, and each request an
\* execution waits for is open and its own (Ask, Replied, RefusedByModel,
\* Unanswering and SettleUsage).
THEOREM TypeCorrect == Spec => []TypeOK
  <1>1. Init => TypeOK /\ Locals
    <2> SUFFICES ASSUME Init PROVE TypeOK /\ Locals
      OBVIOUS
    <2>1. CreditOK
      BY CreditConstants DEF Init, CreditInit, CreditOK, Tokens
    <2>2. NoRun \in RunRows
      BY NoRunTyped
    <2>3. Interrupted \subseteq RunRows
      BY WasInterrupted
    <2>4. RunTyped
      BY <2>2, <2>3 DEF Init, RunTyped
    <2>5. Moving
      BY Idle DEF Init, Moving, Places
    <2>6. news \subseteq Workflows \X Comments
      <3>1. CASE run \in [Runs -> Interrupted] /\ news = Taken
        <4>1. ASSUME NEW r \in Runs
              PROVE  run[r].workflow \in Workflows /\ run[r].comment \in Comments
          BY <3>1, WasInterrupted
        <4> QED
          BY <3>1, <4>1 DEF Taken
      <3>2. CASE \E readers \in SUBSET Workflows, c \in Comments : NewTo(readers, c)
        BY <3>2 DEF NewTo
      <3> QED
        BY <3>1, <3>2 DEF Init
    <2>7. NoClaim \in Claims /\ 1 \in 1 .. MaxDay /\ MaxDay \in 1 .. MaxDay /\ 0 \in 0 .. MaxUpsets
      BY Bounds, AnswerConstants DEF NoClaim, Claims
    <2>8. Rest
      BY <2>6, <2>7 DEF Init, Rest
    <2>9. Locals
      BY DEF Init, CreditInit, Locals, Asked
    <2> QED
      BY <2>1, <2>4, <2>5, <2>8, <2>9, TypeParts
  <1>2. TypeOK /\ Locals /\ [Next]_vars => TypeOK' /\ Locals'
    <2> SUFFICES ASSUME TypeOK, Locals, [Next]_vars PROVE TypeOK' /\ Locals'
      OBVIOUS
    <2>1. CASE UNCHANGED vars
      <3>1. CreditOK' /\ RunTyped' /\ Moving' /\ Rest'
        BY <2>1, TypeParts, CreditStays DEF vars, rows, execs, RunTyped, Moving, Rest
      <3> QED
        BY <2>1, <3>1, TypePartsNext, LocalsStay DEF vars, execs, credits
    <2>2. CASE \E r \in Runs : Executing(r)
      BY <2>2, ExecutingTypes
    <2>3. CASE (\E p \in Pollers : Polling(p)) \/ People \/ NextDay
      BY <2>3, ElsewhereTypes
    <2> QED
      BY <2>1, <2>2, <2>3 DEF Next
  <1> QED
    BY <1>1, <1>2, PTL DEF Spec

-----------------------------------------------------------------------------
(* The inductive invariant.                                                  *)

Others ==
  /\ Booked /\ Polled
  /\ \A r \in Runs : Execution(r)
  /\ \A c \in Comments : Behind(c) /\ Agreed(c)
  /\ \A d \in Days : DayKept(d)

LEMMA CountedFinite ==
  ASSUME NEW d
  PROVE  IsFiniteSet(Counted(d)) /\ Cardinality(Counted(d)) \in Nat
  <1>1. Counted(d) \subseteq Comments /\ IsFiniteSet(Comments)
    BY AnswerConstants DEF Counted
  <1> QED
    BY <1>1, FS_Subset, FS_CardinalityType

LEMMA CountedShrinks ==
  ASSUME NEW d, Counted(d)' \subseteq Counted(d)
  PROVE  /\ Cardinality(Counted(d)') \in Nat
         /\ Cardinality(Counted(d)') <= Cardinality(Counted(d))
  BY CountedFinite, FS_Subset, FS_CardinalityType

LEMMA DayShrinks ==
  ASSUME NEW d, DayKept(d), Counted(d)' \subseteq Counted(d)
  PROVE  DayKept(d)'
  <1> SUFFICES ASSUME Counted(d)' # {}
               PROVE  \E w \in Workflows : Cardinality(Counted(d)') <= DailyLimit[w]
    BY DEF DayKept
  <1>1. PICK w \in Workflows : Cardinality(Counted(d)) <= DailyLimit[w]
    BY DEF DayKept
  <1>2. /\ Cardinality(Counted(d)') \in Nat /\ Cardinality(Counted(d)) \in Nat
        /\ Cardinality(Counted(d)') <= Cardinality(Counted(d)) /\ DailyLimit[w] \in Nat
    BY CountedShrinks, CountedFinite, AnswerConstants
  <1> QED
    BY <1>1, <1>2

LEMMA DayGrows ==
  ASSUME NEW d, NEW x, NEW w \in Workflows, Cardinality(Counted(d)) < DailyLimit[w],
         Counted(d)' \subseteq Counted(d) \cup {x}
  PROVE  DayKept(d)'
  <1>1. IsFiniteSet(Counted(d)) /\ Cardinality(Counted(d)) \in Nat
    BY CountedFinite
  <1>2. /\ IsFiniteSet(Counted(d) \cup {x})
        /\ Cardinality(Counted(d) \cup {x}) \in Nat
        /\ Cardinality(Counted(d) \cup {x}) <= Cardinality(Counted(d)) + 1
    <2> DEFINE n == Cardinality(Counted(d))
    <2>1. /\ IsFiniteSet(Counted(d) \cup {x})
          /\ Cardinality(Counted(d) \cup {x}) = IF x \in Counted(d) THEN n ELSE n + 1
      BY <1>1, FS_AddElement
    <2> QED
      BY <1>1, <2>1
  <1>3. /\ Cardinality(Counted(d)') \in Nat
        /\ Cardinality(Counted(d)') <= Cardinality(Counted(d) \cup {x})
    BY <1>2, FS_Subset, FS_CardinalityType
  <1>4. DailyLimit[w] \in Nat
    BY AnswerConstants
  <1>5. Cardinality(Counted(d)') <= DailyLimit[w]
    BY <1>1, <1>2, <1>3, <1>4
  <1> QED
    BY <1>5 DEF DayKept

\* A run that exists stays about its comment, and what was approved stays so.
RunsKept ==
  \A t \in Runs : run[t].status # "none" =>
    /\ run'[t].status # "none" /\ run'[t].workflow = run[t].workflow
    /\ run[t].reply = "approved" => run'[t].reply = "approved"

LEMMA AgreedKept ==
  ASSUME RunsKept, NEW c \in Comments, Agreed(c),
         claim'[c].status # "none" => claim[c].status # "none" /\ claim'[c].run = claim[c].run
  PROVE  Agreed(c)'
  BY DEF Agreed, RunsKept

\* An execution beside the one that makes the step.
LEMMA Beside ==
  ASSUME TypeOK, NEW r, NEW s \in Runs, s # r, Execution(s),
         run'[s] = run[s], pc'[s] = pc[s], ctx'[s] = ctx[s], channel' = channel,
         lock = s => lock' = s,
         \A c \in Comments : answers[c] <= answers'[c] /\ answers'[c] \in Nat,
         \A c \in Comments : \/ claim'[c] = claim[c] /\ answers'[c] = answers[c]
                             \/ claim[c].status # "sending" \/ claim[c].run = r,
         pc[s] = "insert" => \A d \in Days : Counted(d)' \subseteq Counted(d)
  PROVE  Execution(s)'
  <1>1. Created(s)' /\ Placed(s)' /\ Alone(s)' /\ Entitled(s)'
    BY DEF Execution, Created, Placed, Alone, Entitled, Target
  <1>2. pc[s] # "idle" \/ run[s].done => Target(s) \in Comments
    BY DEF Execution, Created
  <1>3. Owned(s)'
    <2> SUFFICES ASSUME pc[s] \in Claiming
                 PROVE  /\ claim'[Target(s)].run = s /\ claim'[Target(s)].status = "sending"
                        /\ pc[s] \in {"recheck", "post", "noteRefused"} => answers'[Target(s)] = 0
                        /\ pc[s] = "noteDone" => answers'[Target(s)] > 0
      BY DEF Owned, Target
    <2>1. Target(s) \in Comments
      BY <1>2 DEF Claiming
    <2>2. claim[Target(s)].run = s /\ claim[Target(s)].status = "sending"
      BY DEF Execution, Owned
    <2>3. claim'[Target(s)] = claim[Target(s)] /\ answers'[Target(s)] = answers[Target(s)]
      BY <2>1, <2>2
    <2> QED
      BY <2>2, <2>3 DEF Execution, Owned
  <1>4. Believed(s)'
    <2> SUFFICES ASSUME pc[s] = "done" \/ run[s].done
                 PROVE  answers'[Target(s)] > 0
      BY DEF Believed, Target
    <2>1. Target(s) \in Comments /\ answers[Target(s)] > 0
      BY <1>2 DEF Execution, Believed
    <2>2. answers[Target(s)] \in Nat
      BY <2>1 DEF TypeOK
    <2> QED
      BY <2>1, <2>2
  <1>5. Reserved(s)'
    <2> SUFFICES ASSUME pc[s] = "insert"
                 PROVE  Cardinality(Counted(ctx[s].day)') < Limit(s)
      BY DEF Reserved, Limit, Counted
    <2>1. ctx[s].day \in Days /\ run[s].workflow \in Workflows
      BY DEF TypeOK, Contexts, Execution, Created
    <2>2. /\ Cardinality(Counted(ctx[s].day)') \in Nat /\ Cardinality(Counted(ctx[s].day)) \in Nat
          /\ Cardinality(Counted(ctx[s].day)') <= Cardinality(Counted(ctx[s].day))
      BY <2>1, CountedShrinks, CountedFinite
    <2>3. Cardinality(Counted(ctx[s].day)) < Limit(s) /\ Limit(s) \in Nat
      BY <2>1, AnswerConstants DEF Execution, Reserved, Limit
    <2> QED
      BY <2>2, <2>3
  <1> QED
    BY <1>1, <1>3, <1>4, <1>5 DEF Execution

\* A place from which nothing can be performed without a new start.
LEMMA Harmless ==
  ASSUME TypeOK, NEW r \in Runs, Execution(r), Alters(r), channel' = channel,
         pc'[r] \in {"idle", "finish", "fail", "skip", "wait"},
         run[r].status # "none",
         pc'[r] # "idle" => run'[r].status \in {"queued", "running", "failed"},
         run'[r].done => run[r].done \/ pc[r] = "done",
         \A c \in Comments : answers[c] <= answers'[c] /\ answers'[c] \in Nat
  PROVE  Execution(r)'
  <1>1. run'[r].workflow = run[r].workflow /\ Target(r)' = Target(r)
    BY DEF Alters, Written, Target
  <1>2. run[r].workflow \in Workflows /\ Target(r) \in Comments /\ answers[Target(r)] \in Nat
    BY DEF Execution, Created, TypeOK
  <1>3. Created(r)'
    BY <1>1, <1>2 DEF Created
  <1>4. Believed(r)'
    BY <1>1, <1>2 DEF Believed, Execution
  <1>5. Placed(r)' /\ Owned(r)' /\ Alone(r)' /\ Reserved(r)' /\ Entitled(r)'
    BY DEF Placed, Owned, Alone, Reserved, Entitled, Claiming, UnderLock, Sending, Asked
  <1> QED
    BY <1>3, <1>4, <1>5 DEF Execution

\* The credit: what is reserved are the open requests.
LEMMA AskingBooked ==
  ASSUME TypeOK, Locals, Booked, NEW r \in Runs, Asking(r)
  PROVE  Booked'
  <1>1. /\ CreditOK /\ RunTyped /\ Moving /\ open \subseteq Requests /\ IsFiniteSet(open)
        /\ Bound \in Nat \ {0} /\ Limits \subseteq Nat
    <2>1. CreditOK /\ RunTyped /\ Moving /\ open \subseteq Requests
      BY TypeParts DEF CreditOK
    <2>2. IsFiniteSet(Requests)
      BY CreditConstants
    <2> QED
      BY <2>1, <2>2, CreditConstants, FS_Subset
  <1> DEFINE n == Cardinality(open)
             q == ctx[r].request
  <1>2. n \in Nat
    BY <1>1, FS_CardinalityType
  <1>3. /\ credit.reserved = Bound * n /\ credit.used + credit.reserved <= granted
        /\ credit.limit <= granted /\ spent <= credit.used
    BY DEF Booked
  <1>4. /\ credit.used \in Nat /\ credit.reserved \in Nat /\ credit.limit \in Nat
        /\ granted \in Nat /\ spent \in Nat
    BY <1>1 DEF CreditOK
  <1>5. CASE Ask(r)
    <2>1. /\ FreshRequest \in Requests /\ FreshRequest \notin open
          /\ Reserve(FreshRequest) \/ UNCHANGED credits
      BY <1>1, <1>5, AskEffect
    <2>2. CASE Reserve(FreshRequest)
      <3>1. /\ open' = open \cup {FreshRequest} /\ spent' = spent
            /\ granted' = granted /\ credit'.limit = credit.limit /\ credit'.used = credit.used
            /\ credit'.reserved = credit.reserved + Bound
            /\ credit.used + credit.reserved + Bound <= credit.limit
        BY <1>1, <2>1, <2>2, ReserveEffect
      <3>2. Cardinality(open') = n + 1
        BY <1>1, <2>1, <3>1, FS_AddElement
      <3>3. Bound * (n + 1) = Bound * n + Bound
        BY <1>1, <1>2
      <3>4. credit'.reserved = Bound * Cardinality(open')
        BY <1>3, <3>1, <3>2, <3>3
      <3>5. credit'.used + credit'.reserved <= granted'
        BY <1>1, <1>3, <1>4, <3>1
      <3> QED
        BY <1>3, <3>1, <3>4, <3>5 DEF Booked
    <2> QED
      BY <2>1, <2>2 DEF Booked, credits
  <1>6. ASSUME q \in open, NEW actual \in Tokens, CloseRow(q, actual), bill[q] <= actual
        PROVE  Booked'
    <2>1. /\ open' = open \ {q} /\ spent' = spent + bill[q] /\ granted' = granted
          /\ credit'.limit = credit.limit /\ credit'.used = credit.used + actual
          /\ credit'.reserved = ReservedAfter /\ bill[q] \in Tokens
      BY <1>1, <1>6, CloseEffect
    <2>2. bill[q] \in Nat /\ actual \in Nat /\ actual <= Bound
      BY <1>1, <2>1 DEF Tokens
    <2>3. Cardinality(open') = n - 1 /\ Cardinality(open') \in Nat
      <3>1. Cardinality(open') = n - 1 /\ IsFiniteSet(open')
        BY <1>1, <1>6, <2>1, FS_RemoveElement
      <3> QED
        BY <3>1, FS_CardinalityType
    <2>4. Bound * n = Bound * (n - 1) + Bound /\ Bound * (n - 1) \in Nat
      BY <1>1, <1>2, <2>3
    <2>5. credit'.reserved = Bound * (n - 1) /\ credit'.reserved = credit.reserved - Bound
      <3> DEFINE m == Bound * (n - 1)
      <3>1. credit.reserved = m + Bound /\ m \in Nat
        BY <1>3, <2>4
      <3> HIDE DEF m
      <3>2. ReservedAfter = m
        BY <1>1, <3>1 DEF ReservedAfter
      <3> QED
        BY <1>1, <2>1, <3>1, <3>2 DEF m
    <2>6. /\ credit'.used + credit'.reserved <= granted'
          /\ credit'.limit <= granted' /\ spent' <= credit'.used
      <3>1. /\ credit'.reserved = credit.reserved - Bound
            /\ credit'.used = credit.used + actual /\ granted' = granted
            /\ credit'.limit = credit.limit /\ spent' = spent + bill[q]
        BY <2>1, <2>5
      <3>2. Bound \in Nat /\ credit.used + credit.reserved <= granted
        BY <1>1, <1>3
      <3>3. credit.used + actual + (credit.reserved - Bound) <= granted
        BY <1>4, <2>2, <3>2
      <3> QED
        BY <1>3, <1>4, <1>6, <2>2, <3>1, <3>3
    <2> QED
      BY <2>3, <2>5, <2>6 DEF Booked
  <1>7. pc[r] \in Asked => q \in open /\ q \in Requests
    BY <1>1 DEF Locals
  <1>8. CASE RefusedByModel(r)
    <2>1. pc[r] = "asked" /\ ReleaseCredit(q)
      BY <1>8 DEF RefusedByModel
    <2>2. q \in open /\ bill[q] = 0 /\ 0 \in Tokens /\ CloseRow(q, 0)
      BY <1>7, <2>1, ReleaseCloses DEF Locals, Asked
    <2>3. bill[q] <= 0
      BY <2>2
    <2> QED
      BY <1>6, <2>2, <2>3
  <1>9. CASE SettleUsage(r)
    <2>1. q \in open /\ q \in Requests /\ Settle(q)
      BY <1>7, <1>9 DEF SettleUsage, Asked
    <2> QED
      BY <1>1, <1>6, <2>1, SettleCloses
  <1>10. CASE Replied(r) \/ Unanswering(r)
    <2>1. pc[r] \in Asked /\ \E tokens \in Tokens : Charge(q, tokens)
      BY <1>10 DEF Replied, Unanswering, Unanswered, Asked
    <2>2. UNCHANGED <<credit, open, spent, granted>>
      BY <2>1 DEF Charge
    <2> QED
      BY <2>2 DEF Booked
  <1> QED
    BY <1>5, <1>8, <1>9, <1>10 DEF Asking

\* A step of r that performs nothing and leaves the claims alone.
LEMMA CalmSafe ==
  ASSUME TypeOK, Others, NEW r \in Runs, Alters(r), UNCHANGED <<claim, answers, channel, poll>>,
         \A s \in Runs : s # r /\ lock = s => lock' = s,
         run[r].status # "none" => run'[r].status # "none",
         run[r].reply = "approved" => run'[r].reply = "approved",
         Booked', Execution(r)'
  PROVE  Others'
  <1>1. RunsKept
    BY DEF RunsKept, Alters, Written
  <1>2. \A d \in Days : Counted(d)' = Counted(d)
    BY DEF Counted
  <1>3. \A c \in Comments : answers[c] \in Nat
    BY DEF TypeOK
  <1>4. ASSUME NEW s \in Runs, s # r
        PROVE  Execution(s)'
    <2>1. run'[s] = run[s] /\ pc'[s] = pc[s] /\ ctx'[s] = ctx[s] /\ Execution(s)
      BY <1>4 DEF Alters, Written, Others
    <2>2. \A c \in Comments : answers[c] <= answers'[c] /\ answers'[c] \in Nat
      BY <1>3
    <2>3. lock = s => lock' = s
      BY <1>4
    <2> QED
      BY <1>2, <1>4, <2>1, <2>2, <2>3, Beside
  <1>5. ASSUME NEW c \in Comments
        PROVE  Behind(c)' /\ Agreed(c)'
    <2>1. Behind(c)'
      BY DEF Others, Behind
    <2>2. Agreed(c)'
      BY <1>1, AgreedKept DEF Others
    <2> QED
      BY <2>1, <2>2
  <1>6. \A d \in Days : DayKept(d)'
    BY <1>2, DayShrinks DEF Others
  <1>7. Polled'
    BY <1>1 DEF Polled, RunsKept, Others, TypeOK
  <1> QED
    BY <1>4, <1>5, <1>6, <1>7 DEF Others

\* A step of r that touches the claim or the answer of its comment, which no
\* other execution is about to send.
LEMMA TouchSafe ==
  ASSUME TypeOK, TypeOK', Others, NEW r \in Runs, Alters(r), run' = run,
         UNCHANGED <<channel, lock, poll, credits>>,
         NEW x \in Comments,
         \A c \in Comments : c # x => claim'[c] = claim[c] /\ answers'[c] = answers[c],
         claim[x].status # "sending" \/ claim[x].run = r,
         answers[x] <= answers'[x],
         \A s \in Runs : s # r /\ pc[s] = "insert" =>
           \A d \in Days : Counted(d)' \subseteq Counted(d),
         Execution(r)', Behind(x)', Agreed(x)',
         \A d \in Days : DayKept(d)'
  PROVE  Others'
  <1>1. RunsKept
    BY DEF RunsKept
  <1>2. \A c \in Comments : answers[c] \in Nat /\ answers'[c] \in Nat /\ answers[c] <= answers'[c]
    BY DEF TypeOK
  <1>3. ASSUME NEW s \in Runs, s # r
        PROVE  Execution(s)'
    <2>1. run'[s] = run[s] /\ pc'[s] = pc[s] /\ ctx'[s] = ctx[s] /\ Execution(s)
      BY <1>3 DEF Alters, Written, Others
    <2>2. \A c \in Comments : \/ claim'[c] = claim[c] /\ answers'[c] = answers[c]
                              \/ claim[c].status # "sending" \/ claim[c].run = r
      OBVIOUS
    <2>3. pc[s] = "insert" => \A d \in Days : Counted(d)' \subseteq Counted(d)
      BY <1>3
    <2> QED
      BY <1>2, <1>3, <2>1, <2>2, <2>3, Beside
  <1>4. ASSUME NEW c \in Comments
        PROVE  Behind(c)' /\ Agreed(c)'
    <2>1. CASE c = x
      BY <2>1
    <2>2. CASE c # x
      <3>1. claim'[c] = claim[c] /\ answers'[c] = answers[c] /\ Behind(c) /\ Agreed(c)
        BY <2>2 DEF Others
      <3>2. Behind(c)'
        BY <3>1 DEF Behind
      <3> QED
        BY <1>1, <3>1, <3>2, AgreedKept
    <2> QED
      BY <2>1, <2>2
  <1>5. Polled' /\ Booked'
    BY DEF Polled, Booked, Others, credits
  <1> QED
    BY <1>3, <1>4, <1>5 DEF Others

\* A place short of the claim.
LEMMA Ahead ==
  ASSUME TypeOK, NEW r \in Runs, Execution(r), Alters(r), UNCHANGED <<channel, answers>>,
         pc'[r] \notin Claiming \cup {"done", "insert"},
         run[r].status # "none",
         run'[r].status \in {"queued", "running", "failed"},
         run'[r].done => run[r].done,
         Placed(r)', Entitled(r)', Alone(r)'
  PROVE  Execution(r)'
  <1>1. run'[r].workflow = run[r].workflow /\ Target(r)' = Target(r)
    BY DEF Alters, Written, Target
  <1>2. run[r].workflow \in Workflows /\ Target(r) \in Comments
    BY DEF Execution, Created
  <1>3. Created(r)'
    BY <1>1, <1>2 DEF Created
  <1>4. Believed(r)'
    BY <1>1, <1>2 DEF Believed, Execution
  <1>5. Owned(r)' /\ Reserved(r)'
    BY DEF Owned, Reserved
  <1> QED
    BY <1>3, <1>4, <1>5 DEF Execution

LEMMA Monotone ==
  ASSUME TypeOK, answers' = answers
  PROVE  \A c \in Comments : answers[c] <= answers'[c] /\ answers'[c] \in Nat
  BY DEF TypeOK

\* The steps before the claim and after the outcome.
LEMMA StartSafe ==
  ASSUME TypeOK, Others, NEW r \in Runs, Start(r)
  PROVE  Others'
  <1>1. RunTyped /\ Moving /\ Execution(r)
    BY TypeParts DEF Others
  <1>2. /\ Alters(r) /\ ctx'[r] = ctx[r]
        /\ run'[r].reply = run[r].reply /\ run'[r].done = run[r].done
        /\ run[r].status # "none"
        /\ \/ pc'[r] = FirstPlace(r) /\ run'[r].status = "running"
           \/ pc'[r] = "idle" /\ run'[r].status = "failed"
    BY <1>1, StartEffect
  <1>3. UNCHANGED <<claim, answers, channel, poll, lock, credits>>
    BY DEF Start
  <1>4. \A c \in Comments : answers[c] <= answers'[c] /\ answers'[c] \in Nat
    BY <1>3, Monotone
  <1>5. Execution(r)'
    <2>1. CASE pc'[r] \in {"idle", "fail", "wait"}
      BY <1>1, <1>2, <1>3, <1>4, <2>1, Harmless DEF FirstPlace, Answering
    <2>2. CASE pc'[r] \in {"hold", "inspect", "lock", "ask"}
      <3>1. pc'[r] = FirstPlace(r) /\ run'[r].status = "running" /\ channel' = channel
            /\ run'[r].workflow = run[r].workflow
        BY <1>2, <1>3, <2>2 DEF Alters, Written
      <3>2. Placed(r)'
        BY <1>2, <3>1 DEF Placed, FirstPlace, Answering, Held, Asked
      <3>3. Entitled(r)'
        BY <1>2, <3>1 DEF Entitled, FirstPlace, Answering, Held, Sending, UnderLock, Claiming
      <3>4. Alone(r)' /\ pc'[r] \notin Claiming \cup {"done", "insert"}
        BY <2>2 DEF Alone, UnderLock, Claiming
      <3> QED
        BY <1>1, <1>2, <1>3, <3>1, <3>2, <3>3, <3>4, Ahead
    <2>3. pc'[r] \in {"idle", "fail", "wait", "hold", "inspect", "lock", "ask"}
      BY <1>2 DEF FirstPlace, Answering
    <2> QED
      BY <2>1, <2>2, <2>3
  <1>6. Booked'
    BY <1>3 DEF Others, Booked, credits
  <1> QED
    BY <1>2, <1>3, <1>5, <1>6, CalmSafe

LEMMA AskingSafe ==
  ASSUME TypeOK, Locals, Others, NEW r \in Runs, Asking(r)
  PROVE  Others'
  <1>1. RunTyped /\ Moving /\ Execution(r) /\ Booked /\ CreditOK
    BY TypeParts DEF Others
  <1>2. Alters(r) /\ run' = run
    BY AskingTypes
  <1>3. UNCHANGED <<claim, answers, channel, poll, lock>> /\ pc[r] \in {"ask"} \cup Asked
    BY DEF Asking, Ask, Replied, RefusedByModel, Unanswering, SettleUsage, rows, Asked
  <1>4. run[r].status \in {"queued", "running", "failed"} /\ run[r].reply = "none"
    BY <1>1, <1>3 DEF Execution, Created, Placed, Asked
  <1>5. pc'[r] \in {"ask", "draft", "fail"} \cup Asked
    BY <1>1 DEF Asking, Ask, Replied, RefusedByModel, Unanswering, SettleUsage, AskAgain,
                EndAsking, Goto, Moving, Asked
  <1>6. Placed(r)' /\ Entitled(r)' /\ Alone(r)' /\ pc'[r] \notin Claiming \cup {"done", "insert"}
    BY <1>2, <1>4, <1>5 DEF Placed, Entitled, Alone, Asked, Sending, UnderLock, Claiming
  <1>7. Execution(r)'
    BY <1>1, <1>2, <1>3, <1>4, <1>6, Ahead
  <1>8. Booked'
    BY <1>1, AskingBooked
  <1> QED
    BY <1>2, <1>3, <1>7, <1>8, CalmSafe

LEMMA DraftSafe ==
  ASSUME TypeOK, Others, NEW r \in Runs, Draft(r)
  PROVE  Others'
  <1>1. RunTyped /\ Moving /\ Execution(r)
    BY TypeParts DEF Others
  <1>2. /\ Alters(r) /\ ctx'[r] = ctx[r]
        /\ run'[r].status = run[r].status /\ run'[r].done = run[r].done
        /\ \/ pc'[r] = Answering(r) /\ run'[r].reply \in {run[r].reply, "draft"}
           \/ pc'[r] \in {"wait", "skip"}
    BY <1>1, DraftEffect
  <1>3. UNCHANGED <<claim, answers, channel, poll, lock, credits>> /\ pc[r] = "draft"
    BY DEF Draft
  <1>4. run[r].status \in {"queued", "running", "failed"} /\ run[r].reply = "none"
    BY <1>1, <1>3 DEF Execution, Created, Placed
  <1>5. \A c \in Comments : answers[c] <= answers'[c] /\ answers'[c] \in Nat
    BY <1>3, Monotone
  <1>6. Execution(r)'
    <2>1. CASE pc'[r] \in {"wait", "skip"}
      BY <1>1, <1>2, <1>3, <1>4, <1>5, <2>1, Harmless
    <2>2. CASE pc'[r] = Answering(r) /\ run'[r].reply \in {run[r].reply, "draft"}
      <3>1. channel' = channel /\ run'[r].workflow = run[r].workflow
            /\ run'[r].reply \in {"none", "draft"}
        BY <1>2, <1>3, <1>4, <2>2 DEF Alters, Written
      <3>2. Placed(r)'
        BY <2>2, <3>1 DEF Placed, Answering, Held, Asked
      <3>3. Entitled(r)'
        BY <1>4, <2>2, <3>1 DEF Entitled, Answering, Held, Sending, UnderLock, Claiming
      <3>4. Alone(r)' /\ pc'[r] \notin Claiming \cup {"done", "insert"}
        BY <2>2 DEF Alone, UnderLock, Claiming, Answering
      <3> QED
        BY <1>1, <1>2, <1>3, <1>4, <3>2, <3>3, <3>4, Ahead
    <2> QED
      BY <1>2, <2>1, <2>2
  <1>7. Booked'
    BY <1>3 DEF Others, Booked, credits
  <1> QED
    BY <1>2, <1>3, <1>4, <1>6, <1>7, CalmSafe

LEMMA EndingSafe ==
  ASSUME TypeOK, Locals, Others, NEW r \in Runs,
         WaitForDay(r) \/ EndStep(r) \/ FinishRun(r) \/ Pass(r) \/ Crash(r)
  PROVE  Others'
  <1>1. RunTyped /\ Moving /\ Execution(r) /\ day \in 1 .. MaxDay
    BY TypeParts DEF Others, Rest
  <1>2. /\ UNCHANGED <<claim, answers, channel, poll, credits>>
        /\ \A s \in Runs : s # r /\ lock = s => lock' = s
    BY DEF WaitForDay, EndStep, FinishRun, Pass, Crash, rows
  <1>3. /\ Alters(r) /\ pc'[r] \in {"idle", "finish"}
        /\ run[r].status # "none" /\ run'[r].status # "none"
        /\ pc'[r] # "idle" => run'[r].status \in {"queued", "running", "failed"}
        /\ run'[r].done => run[r].done \/ pc[r] = "done"
        /\ run[r].reply = "approved" => run'[r].reply = "approved"
    <2>1. pc[r] # "idle" => run[r].status \in {"queued", "running", "failed"}
      BY <1>1 DEF Execution, Created
    <2>2. CASE WaitForDay(r)
      BY <1>1, <2>1, <2>2, WaitEffect DEF WaitForDay
    <2>3. CASE EndStep(r)
      BY <1>1, <2>1, <2>3, EndEffect DEF Execution, Placed
    <2>4. CASE FinishRun(r)
      BY <1>1, <2>1, <2>4, FinishEffect DEF FinishRun
    <2>5. CASE Pass(r)
      BY <1>1, <2>5, PassEffect
    <2>6. CASE Crash(r)
      BY <1>1, <2>1, <2>6, CrashEffect DEF Crash
    <2> QED
      BY <2>2, <2>3, <2>4, <2>5, <2>6
  <1>4. \A c \in Comments : answers[c] <= answers'[c] /\ answers'[c] \in Nat
    BY <1>2, Monotone
  <1>5. Execution(r)'
    BY <1>1, <1>2, <1>3, <1>4, Harmless
  <1>6. Booked'
    BY <1>2 DEF Others, Booked, credits
  <1> QED
    BY <1>2, <1>3, <1>5, <1>6, CalmSafe

\* The other places a step along the way may lead to.
LEMMA Arrives ==
  ASSUME TypeOK, NEW r \in Runs, Execution(r), Alters(r), run' = run, channel' = channel,
         pc[r] # "idle", pc'[r] # "idle",
         \A c \in Comments : answers[c] <= answers'[c] /\ answers'[c] \in Nat,
         pc'[r] = "done" => answers'[Target(r)] > 0,
         Placed(r)', Owned(r)', Alone(r)', Reserved(r)', Entitled(r)'
  PROVE  Execution(r)'
  <1>1. run[r].workflow \in Workflows /\ Target(r) \in Comments /\ Target(r)' = Target(r)
        /\ run[r].status \in {"queued", "running", "failed"} /\ answers[Target(r)] \in Nat
    BY DEF Execution, Created, TypeOK, Target
  <1>2. Created(r)'
    BY <1>1 DEF Created
  <1>3. Believed(r)'
    BY <1>1 DEF Believed, Execution
  <1> QED
    BY <1>2, <1>3 DEF Execution

LEMMA OnTheWay ==
  ASSUME TypeOK, Others, NEW r \in Runs, pc[r] # "idle"
  PROVE  /\ Execution(r) /\ Target(r) \in Comments /\ run[r].workflow \in Workflows
         /\ run[r].status \in {"queued", "running", "failed"}
         /\ claim[Target(r)] \in Claims /\ answers[Target(r)] \in Nat
         /\ Behind(Target(r)) /\ Agreed(Target(r))
  <1>1. Execution(r) /\ Target(r) \in Comments /\ run[r].workflow \in Workflows
        /\ run[r].status \in {"queued", "running", "failed"}
    BY DEF Others, Execution, Created
  <1> QED
    BY <1>1 DEF Others, TypeOK

LEMMA LookingSafe ==
  ASSUME TypeOK, Others, NEW r \in Runs, Inspect(r) \/ LockAccount(r) \/ Look(r)
  PROVE  Others'
  <1>1. RunTyped /\ Moving /\ day \in 1 .. MaxDay /\ pc[r] \in {"inspect", "lock", "look"}
    BY TypeParts DEF Rest, Inspect, LockAccount, Look
  <1>2. UNCHANGED <<claim, answers, channel, poll, credits>>
    BY DEF Inspect, LockAccount, Look, rows
  <1>3. Execution(r) /\ run[r].status # "none" /\ Behind(Target(r)) /\ answers[Target(r)] \in Nat
        /\ run[r].status \in {"queued", "running", "failed"}
    BY <1>1, OnTheWay
  <1>4. \A c \in Comments : answers[c] <= answers'[c] /\ answers'[c] \in Nat
    BY <1>2, Monotone
  <1>5. Booked'
    BY <1>2 DEF Others, Booked, credits
  <1>6. CASE Inspect(r)
    <2>1. Alters(r) /\ run' = run /\ ctx' = ctx /\ lock' = lock
      BY <1>1, <1>6, PlainEffect DEF Plain, Inspect
    <2>2. pc'[r] \in {"skip", "fail", "claim"} /\ pc[r] = "inspect"
      BY <1>1, <1>6 DEF Inspect, Goto, Moving
    <2>3. /\ Placed(r)' /\ Owned(r)' /\ Alone(r)' /\ Reserved(r)' /\ Entitled(r)'
      BY <1>2, <1>3, <2>1, <2>2 DEF Execution, Placed, Owned, Alone, Reserved, Entitled, Asked,
           Claiming, UnderLock, Sending
    <2>4. Execution(r)'
      BY <1>2, <1>3, <1>4, <2>1, <2>2, <2>3, Arrives
    <2> QED
      BY <1>2, <1>5, <2>1, <2>4, CalmSafe
  <1>7. CASE LockAccount(r)
    <2>1. Alters(r) /\ run' = run /\ ctx' = ctx
      BY <1>1, <1>7, PlainEffect DEF Plain
    <2>2. /\ pc[r] = "lock"
          /\ \/ pc'[r] = "look" /\ lock = Nothing /\ lock' = r
             \/ pc'[r] = "fail" /\ lock' = lock
      BY <1>1, <1>7 DEF LockAccount, Goto, Moving
    <2>3. /\ Placed(r)' /\ Owned(r)' /\ Alone(r)' /\ Reserved(r)' /\ Entitled(r)'
      BY <1>2, <1>3, <2>1, <2>2 DEF Execution, Placed, Owned, Alone, Reserved, Entitled, Asked,
           Claiming, UnderLock, Sending
    <2>4. Execution(r)'
      BY <1>2, <1>3, <1>4, <2>1, <2>2, <2>3, Arrives
    <2>5. \A s \in Runs : s # r /\ lock = s => lock' = s
      BY <2>2, AnswerConstants
    <2> QED
      BY <1>2, <1>5, <2>1, <2>4, <2>5, CalmSafe
  <1>8. CASE Look(r)
    <2>1. /\ Alters(r) /\ run' = run
          /\ \/ pc'[r] = "fail"
             \/ pc'[r] = "done" /\ claim[Target(r)].status = "succeeded"
             \/ /\ pc'[r] = "insert" /\ ctx'[r].day = day
                /\ Cardinality(RowsOf(day)) < Limit(r)
      BY <1>1, <1>8, LookEffect
    <2>2. pc[r] = "look" /\ lock' = lock
      BY <1>8 DEF Look
    <2>3. Reserved(r)'
      <3> SUFFICES ASSUME pc'[r] = "insert"
                   PROVE  Cardinality(Counted(ctx[r].day)') < Limit(r)
        BY <2>1 DEF Reserved, Limit, Counted
      <3>1. ctx'[r].day = day /\ Cardinality(RowsOf(day)) < Limit(r)
        BY <2>1
      <3>2. Counted(day)' = Counted(day) /\ Counted(day) \subseteq RowsOf(day)
        <4>1. Counted(day) \subseteq RowsOf(day)
          BY DEF Counted, RowsOf, Counting
        <4> QED
          BY <1>2, <1>8, <4>1 DEF Counted, Look
      <3>3. RowsOf(day) \subseteq Comments /\ IsFiniteSet(Comments)
        BY AnswerConstants DEF RowsOf
      <3>4. IsFiniteSet(RowsOf(day))
        BY <3>3, FS_Subset
      <3>5. Cardinality(Counted(day)) <= Cardinality(RowsOf(day))
            /\ Cardinality(RowsOf(day)) \in Nat /\ Cardinality(Counted(day)) \in Nat
        BY <3>2, <3>4, FS_Subset, FS_CardinalityType, CountedFinite
      <3>6. Limit(r) \in Nat
        BY <1>1, OnTheWay, AnswerConstants DEF Limit
      <3>7. day' = day
        BY <1>8 DEF Look
      <3>8. Counted(ctx[r].day)' = Counted(day)
        BY <3>1, <3>2, <3>7 DEF Counted
      <3>9. Cardinality(Counted(day)) < Limit(r)
        BY <3>1, <3>5, <3>6
      <3> QED
        BY <3>8, <3>9
    <2>4. /\ Placed(r)' /\ Owned(r)' /\ Alone(r)' /\ Entitled(r)'
      BY <1>2, <1>3, <2>1, <2>2 DEF Execution, Placed, Owned, Alone, Entitled, Asked,
           Claiming, UnderLock, Sending
    <2>5. pc'[r] = "done" => answers'[Target(r)] > 0
      BY <1>2, <1>3, <2>1 DEF Behind
    <2>6. Execution(r)'
      BY <1>2, <1>3, <1>4, <2>1, <2>2, <2>3, <2>4, <2>5, Arrives
    <2> QED
      BY <1>2, <1>5, <2>1, <2>2, <2>6, CalmSafe
  <1> QED
    BY <1>6, <1>7, <1>8

\* The claim of its comment is taken by r.
LEMMA TakingClaim ==
  ASSUME TypeOK, Others, NEW r \in Runs, pc[r] \in {"claim", "insert"}, NEW d \in Days,
         Claimed(r, d), claim[Target(r)].status \in {"none", "failed"}, pc'[r] = "recheck",
         Alters(r), run' = run, UNCHANGED <<channel, answers, lock>>,
         Cardinality(Counted(d)) < Limit(r), NEW x \in Comments, x = Target(r)
  PROVE  /\ \A c \in Comments : c # x => claim'[c] = claim[c] /\ answers'[c] = answers[c]
         /\ Execution(r)' /\ Behind(x)' /\ Agreed(x)'
         /\ \A e \in Days : DayKept(e)'
  <1>1. /\ Execution(r) /\ Target(r) \in Comments /\ run[r].workflow \in Workflows
        /\ run[r].status \in {"queued", "running", "failed"}
        /\ answers[Target(r)] \in Nat /\ Behind(Target(r))
    BY OnTheWay
  <1>2. /\ claim'[x].status = "sending" /\ claim'[x].run = r /\ claim'[x].day = d
        /\ \A c \in Comments : c # x => claim'[c] = claim[c]
    BY <1>1 DEF Claimed, TypeOK
  <1>3. answers[x] = 0 /\ answers' = answers
    BY <1>1 DEF Behind, Counting
  <1>4. Target(r)' = x
    BY DEF Target
  <1>5. Behind(x)'
    <2>1. /\ answers'[x] <= 1
          /\ answers'[x] > 0 => claim'[x].status \in Counting
          /\ claim'[x].status = "succeeded" => answers'[x] > 0
          /\ channel' # "youtube" => claim'[x].status # "failed"
      BY <1>2, <1>3
    <2> QED
      BY <2>1 DEF Behind
  <1>6. run[r].workflow \in Supervised => run[r].reply = "approved"
    BY <1>1 DEF Execution, Entitled, Sending, UnderLock
  <1>7. Agreed(x)'
    BY <1>1, <1>2, <1>6 DEF Agreed
  <1>8. /\ Owned(r)' /\ Placed(r)' /\ Alone(r)' /\ Reserved(r)' /\ Entitled(r)'
    BY <1>1, <1>2, <1>3, <1>4 DEF Execution, Owned, Placed, Alone, Reserved, Entitled, Asked,
       Claiming, UnderLock, Sending
  <1>9. Execution(r)'
    BY <1>1, <1>3, <1>8, Monotone, Arrives
  <1>10. ASSUME NEW e \in Days
         PROVE  DayKept(e)'
    <2>1. CASE e = d
      <3>1. Counted(d)' \subseteq Counted(d) \cup {x}
        BY <1>2 DEF Counted
      <3> QED
        BY <1>1, <2>1, <3>1, DayGrows DEF Limit
    <2>2. CASE e # d
      <3>1. Counted(e)' \subseteq Counted(e)
        BY <1>2, <2>2 DEF Counted
      <3> QED
        BY <3>1, DayShrinks DEF Others
    <2> QED
      BY <2>1, <2>2
  <1> QED
    BY <1>2, <1>3, <1>5, <1>7, <1>9, <1>10

LEMMA ClaimReplySafe ==
  ASSUME TypeOK, TypeOK', Others, NEW r \in Runs, ClaimReply(r)
  PROVE  Others'
  <1>1. RunTyped /\ Moving /\ pc[r] = "claim" /\ day \in Days
    BY TypeParts, Bounds DEF Rest, ClaimReply
  <1>2. UNCHANGED <<answers, channel, poll, credits, run, lock, day>>
    BY DEF ClaimReply
  <1>3. /\ Execution(r) /\ Target(r) \in Comments /\ Behind(Target(r))
        /\ answers[Target(r)] \in Nat
        /\ run[r].status \in {"queued", "running", "failed"} /\ run[r].status # "none"
    BY <1>1, OnTheWay
  <1>4. Alters(r) /\ run' = run
    BY <1>1, PlainEffect DEF Plain
  <1>5. CASE /\ claim' = claim
             /\ \/ claim[Target(r)].status = "succeeded" /\ Goto(r, "done")
                \/ Goto(r, "fail") \/ Goto(r, "limit")
    <2>1. \/ pc'[r] = "done" /\ claim[Target(r)].status = "succeeded"
          \/ pc'[r] \in {"fail", "limit"}
      BY <1>1, <1>5 DEF Goto, Moving
    <2>2. pc'[r] = "done" => answers'[Target(r)] > 0
      BY <1>2, <1>3, <2>1 DEF Behind
    <2>3. /\ Placed(r)' /\ Owned(r)' /\ Alone(r)' /\ Reserved(r)' /\ Entitled(r)'
      BY <1>1, <1>2, <1>3, <2>1 DEF Execution, Placed, Owned, Alone, Reserved, Entitled, Asked,
         Claiming, UnderLock, Sending
    <2>4. Execution(r)' /\ Booked'
      BY <1>1, <1>2, <1>3, <1>4, <2>1, <2>2, <2>3, Monotone, Arrives DEF Others, Booked, credits
    <2> QED
      BY <1>2, <1>4, <1>5, <2>4, CalmSafe
  <1>6. CASE /\ Claimable(Target(r)) /\ Cardinality(Counted(day)) < Limit(r)
             /\ Claimed(r, day) /\ Goto(r, "recheck")
    <2>0. PICK x \in Comments : x = Target(r)
      BY <1>3
    <2>1. pc'[r] = "recheck" /\ claim[Target(r)].status \in {"none", "failed"}
      BY <1>1, <1>6 DEF Goto, Moving, Claimable
    <2>2. /\ \A c \in Comments : c # x => claim'[c] = claim[c] /\ answers'[c] = answers[c]
          /\ Execution(r)' /\ Behind(x)' /\ Agreed(x)'
          /\ \A e \in Days : DayKept(e)'
      BY <1>1, <1>2, <1>4, <1>6, <2>0, <2>1, TakingClaim
    <2>3. \A s \in Runs : s # r /\ pc[s] = "insert" =>
            \A d \in Days : Counted(d)' \subseteq Counted(d)
      BY <1>1, <1>3 DEF Others, Execution, Placed
    <2>4. answers[x] <= answers'[x] /\ claim[x].status # "sending"
      BY <1>2, <1>3, <2>0, <2>1
    <2> QED
      BY <1>2, <1>4, <2>0, <2>2, <2>3, <2>4, TouchSafe
  <1> QED
    BY <1>5, <1>6 DEF ClaimReply

LEMMA InsertSafe ==
  ASSUME TypeOK, TypeOK', Others, NEW r \in Runs, InsertAction(r)
  PROVE  Others'
  <1>1. RunTyped /\ Moving /\ pc[r] = "insert" /\ ctx[r].day \in Days
    BY TypeParts DEF InsertAction, Moving, Contexts
  <1>2. UNCHANGED <<answers, channel, poll, credits, run, lock, ctx>>
    BY DEF InsertAction
  <1>3. /\ Execution(r) /\ Target(r) \in Comments /\ Behind(Target(r))
        /\ answers[Target(r)] \in Nat
        /\ run[r].status \in {"queued", "running", "failed"} /\ run[r].status # "none"
    BY <1>1, OnTheWay
  <1>4. Alters(r) /\ run' = run
    BY <1>1, PlainEffect DEF Plain
  <1>5. CASE claim' = claim /\ Goto(r, "fail")
    <2>1. pc'[r] = "fail"
      BY <1>1, <1>5 DEF Goto, Moving
    <2>2. Execution(r)' /\ Booked'
      BY <1>1, <1>2, <1>3, <1>4, <2>1, Monotone, Harmless DEF Others, Booked, credits
    <2> QED
      BY <1>2, <1>4, <1>5, <2>2, CalmSafe
  <1>6. CASE claim[Target(r)].status = "none" /\ Claimed(r, ctx[r].day) /\ Goto(r, "recheck")
    <2>0. PICK x \in Comments : x = Target(r)
      BY <1>3
    <2>1. pc'[r] = "recheck" /\ claim[Target(r)].status \in {"none", "failed"}
      BY <1>1, <1>6 DEF Goto, Moving
    <2>2. Cardinality(Counted(ctx[r].day)) < Limit(r)
      BY <1>1, <1>3 DEF Execution, Reserved
    <2>3. /\ \A c \in Comments : c # x => claim'[c] = claim[c] /\ answers'[c] = answers[c]
          /\ Execution(r)' /\ Behind(x)' /\ Agreed(x)'
          /\ \A e \in Days : DayKept(e)'
      BY <1>1, <1>2, <1>4, <1>6, <2>0, <2>1, <2>2, TakingClaim
    <2>4. \A s \in Runs : s # r => pc[s] # "insert"
      BY <1>1, <1>3 DEF Others, Execution, Placed, Alone, UnderLock
    <2>5. answers[x] <= answers'[x] /\ claim[x].status # "sending"
      BY <1>2, <1>3, <2>0, <2>1
    <2> QED
      BY <1>2, <1>4, <2>0, <2>3, <2>4, <2>5, TouchSafe
  <1> QED
    BY <1>5, <1>6 DEF InsertAction

\* The steps of the execution that owns the claim.
LEMMA Owner ==
  ASSUME TypeOK, Others, NEW r \in Runs, pc[r] \in Claiming, Plain(r)
  PROVE  \E x \in Comments :
           /\ x = Target(r) /\ Target(r)' = x
           /\ claim[x].run = r /\ claim[x].status = "sending" /\ claim[x] \in Claims
           /\ answers[x] \in Nat /\ Behind(x) /\ Agreed(x) /\ run[r].workflow \in Workflows
           /\ Execution(r) /\ run[r].status \in {"queued", "running", "failed"}
           /\ Alters(r) /\ run' = run /\ ctx' = ctx /\ UNCHANGED credits
  <1>1. pc[r] # "idle" /\ RunTyped /\ Moving
    BY TypeParts DEF Claiming
  <1>2. Alters(r) /\ run' = run /\ ctx' = ctx /\ UNCHANGED credits
    BY <1>1, PlainEffect
  <1>3. /\ Execution(r) /\ Target(r) \in Comments /\ run[r].workflow \in Workflows
        /\ run[r].status \in {"queued", "running", "failed"}
        /\ claim[Target(r)] \in Claims /\ answers[Target(r)] \in Nat
        /\ Behind(Target(r)) /\ Agreed(Target(r))
    BY <1>1, OnTheWay
  <1>4. claim[Target(r)].run = r /\ claim[Target(r)].status = "sending"
    BY <1>3 DEF Execution, Owned
  <1>5. Target(r)' = Target(r)
    BY <1>2 DEF Target
  <1> QED
    BY <1>2, <1>3, <1>4, <1>5

LEMMA RecheckSafe ==
  ASSUME TypeOK, TypeOK', Others, NEW r \in Runs, Recheck(r)
  PROVE  Others'
  <1>1. pc[r] = "recheck" /\ Moving /\ UNCHANGED <<answers, channel, poll, lock>>
    BY TypeParts DEF Recheck
  <1>2. PICK x \in Comments :
           /\ x = Target(r) /\ Target(r)' = x
           /\ claim[x].run = r /\ claim[x].status = "sending" /\ claim[x] \in Claims
           /\ answers[x] \in Nat /\ Behind(x) /\ Agreed(x) /\ run[r].workflow \in Workflows
           /\ Execution(r) /\ run[r].status \in {"queued", "running", "failed"}
           /\ Alters(r) /\ run' = run /\ ctx' = ctx /\ UNCHANGED credits
    BY <1>1, Owner DEF Claiming, Plain
  <1>3. answers[x] = 0
    BY <1>1, <1>2 DEF Execution, Owned, Claiming
  <1>4. CASE claim' = claim /\ (Goto(r, "post") \/ Goto(r, "noteUnclear"))
    <2>1. pc'[r] \in {"post", "noteUnclear"}
      BY <1>1, <1>4 DEF Goto, Moving
    <2>2. /\ Placed(r)' /\ Owned(r)' /\ Alone(r)' /\ Reserved(r)' /\ Entitled(r)'
      BY <1>1, <1>2, <1>3, <1>4, <2>1 DEF Execution, Placed, Owned, Alone, Reserved, Entitled,
         Asked, Claiming, UnderLock, Sending
    <2>3. Execution(r)' /\ Booked'
      BY <1>1, <1>2, <2>1, <2>2, Monotone, Arrives DEF Others, Booked, credits
    <2> QED
      BY <1>1, <1>2, <1>4, <2>3, CalmSafe
  <1>5. CASE claim' = [claim EXCEPT ![Target(r)] = NoClaim] /\ Goto(r, "fail")
    <2>1. pc'[r] = "fail"
      BY <1>1, <1>5 DEF Goto, Moving
    <2>2. /\ claim'[x].status = "none"
          /\ \A c \in Comments : c # x => claim'[c] = claim[c] /\ answers'[c] = answers[c]
      BY <1>1, <1>2, <1>5 DEF NoClaim, TypeOK
    <2>3. Behind(x)' /\ Agreed(x)'
      BY <1>1, <1>3, <2>2 DEF Behind, Agreed
    <2>4. \A d \in Days : Counted(d)' \subseteq Counted(d)
      BY <2>2 DEF Counted, Counting
    <2>5. \A d \in Days : DayKept(d)'
      BY <2>4, DayShrinks DEF Others
    <2>6. Execution(r)'
      BY <1>1, <1>2, <2>1, Monotone, Harmless
    <2>7. answers[x] <= answers'[x]
      BY <1>1, <1>2
    <2> QED
      BY <1>1, <1>2, <2>2, <2>3, <2>4, <2>5, <2>6, <2>7, TouchSafe
  <1> QED
    BY <1>4, <1>5 DEF Recheck

LEMMA PostSafe ==
  ASSUME TypeOK, TypeOK', Others, NEW r \in Runs, Post(r)
  PROVE  Others'
  <1>1. pc[r] = "post" /\ Moving /\ UNCHANGED <<claim, channel, poll, lock>>
    BY TypeParts DEF Post, rows
  <1>2. PICK x \in Comments :
           /\ x = Target(r) /\ Target(r)' = x
           /\ claim[x].run = r /\ claim[x].status = "sending" /\ claim[x] \in Claims
           /\ answers[x] \in Nat /\ Behind(x) /\ Agreed(x) /\ run[r].workflow \in Workflows
           /\ Execution(r) /\ run[r].status \in {"queued", "running", "failed"}
           /\ Alters(r) /\ run' = run /\ ctx' = ctx /\ UNCHANGED credits
    BY <1>1, Owner DEF Claiming, Plain
  <1>3. answers[x] = 0
    BY <1>1, <1>2 DEF Execution, Owned, Claiming
  <1>4. /\ \A c \in Comments : c # x => claim'[c] = claim[c] /\ answers'[c] = answers[c]
        /\ \/ answers'[x] = 1 /\ pc'[r] \in {"noteDone", "noteUnclear"}
           \/ answers'[x] = 0 /\ pc'[r] = "noteUnclear"
           \/ answers'[x] = 0 /\ pc'[r] = "noteRefused" /\ channel = "youtube"
    <2>1. CASE answers' = [answers EXCEPT ![Target(r)] = @ + 1]
               /\ (Goto(r, "noteDone") \/ Goto(r, "noteUnclear"))
      BY <1>1, <1>2, <1>3, <2>1 DEF Goto, Moving, TypeOK
    <2>2. CASE answers' = answers
               /\ (Goto(r, "noteUnclear") \/ (channel = "youtube" /\ Goto(r, "noteRefused")))
      BY <1>1, <1>2, <1>3, <2>2 DEF Goto, Moving
    <2>3. \/ /\ answers' = [answers EXCEPT ![Target(r)] = @ + 1]
             /\ Goto(r, "noteDone") \/ Goto(r, "noteUnclear")
          \/ /\ answers' = answers
             /\ Goto(r, "noteUnclear") \/ (channel = "youtube" /\ Goto(r, "noteRefused"))
      BY DEF Post
    <2> QED
      BY <2>1, <2>2, <2>3
  <1>5. Behind(x)' /\ Agreed(x)'
    BY <1>1, <1>2, <1>4 DEF Behind, Agreed, Counting
  <1>6. \A d \in Days : Counted(d)' \subseteq Counted(d)
    BY <1>1 DEF Counted
  <1>7. \A d \in Days : DayKept(d)'
    BY <1>6, DayShrinks DEF Others
  <1>8. \A c \in Comments : answers[c] <= answers'[c] /\ answers'[c] \in Nat
    BY <1>3, <1>4 DEF TypeOK
  <1>9. /\ Placed(r)' /\ Owned(r)' /\ Alone(r)' /\ Reserved(r)' /\ Entitled(r)'
    BY <1>1, <1>2, <1>4 DEF Execution, Placed, Owned, Alone, Reserved, Entitled,
       Asked, Claiming, UnderLock, Sending
  <1>10. Execution(r)'
    BY <1>1, <1>2, <1>4, <1>8, <1>9, Arrives
  <1> QED
    BY <1>1, <1>2, <1>4, <1>5, <1>6, <1>7, <1>8, <1>10, TouchSafe

LEMMA NoteSafe ==
  ASSUME TypeOK, TypeOK', Others, NEW r \in Runs, Note(r)
  PROVE  Others'
  <1>1. /\ pc[r] \in {"noteDone", "noteRefused", "noteUnclear"} /\ Moving
        /\ UNCHANGED <<answers, channel, poll, lock>>
    BY TypeParts DEF Note
  <1>2. PICK x \in Comments :
           /\ x = Target(r) /\ Target(r)' = x
           /\ claim[x].run = r /\ claim[x].status = "sending" /\ claim[x] \in Claims
           /\ answers[x] \in Nat /\ Behind(x) /\ Agreed(x) /\ run[r].workflow \in Workflows
           /\ Execution(r) /\ run[r].status \in {"queued", "running", "failed"}
           /\ Alters(r) /\ run' = run /\ ctx' = ctx /\ UNCHANGED credits
    BY <1>1, Owner DEF Claiming, Plain
  <1>3. /\ pc[r] = "noteDone" => answers[x] > 0
        /\ pc[r] = "noteRefused" => answers[x] = 0 /\ channel = "youtube"
    BY <1>1, <1>2 DEF Execution, Owned, Placed, Claiming
  <1>4. pc'[r] = IF pc[r] = "noteDone" THEN "done" ELSE "fail"
    BY <1>1 DEF Goto, Moving, Note
  <1>5. /\ claim'[x].status = OutcomeOf(pc[r]) /\ claim'[x].run = r
        /\ claim'[x].day = claim[x].day
        /\ \A c \in Comments : c # x => claim'[c] = claim[c] /\ answers'[c] = answers[c]
    BY <1>1, <1>2 DEF Note, TypeOK, Claims
  <1>6. /\ pc[r] = "noteDone" => claim'[x].status = "succeeded"
        /\ pc[r] = "noteRefused" => claim'[x].status = "failed"
        /\ pc[r] = "noteUnclear" => claim'[x].status = "uncertain"
    BY <1>5 DEF OutcomeOf
  <1>7. Behind(x)'
    BY <1>1, <1>2, <1>3, <1>6 DEF Behind, Counting
  <1>8. Agreed(x)'
    BY <1>2, <1>5 DEF Agreed
  <1>9. \A d \in Days : Counted(d)' \subseteq Counted(d)
    BY <1>2, <1>5 DEF Counted, Counting
  <1>10. \A d \in Days : DayKept(d)'
    BY <1>9, DayShrinks DEF Others
  <1>11. pc'[r] = "done" => answers'[Target(r)] > 0
    BY <1>1, <1>2, <1>3, <1>4
  <1>12. /\ Placed(r)' /\ Owned(r)' /\ Alone(r)' /\ Reserved(r)' /\ Entitled(r)'
    BY <1>4 DEF Placed, Owned, Alone, Reserved, Entitled, Asked, Claiming, UnderLock, Sending
  <1>13. Execution(r)'
    BY <1>1, <1>2, <1>4, <1>11, <1>12, Monotone, Arrives
  <1>14. answers[x] <= answers'[x]
    BY <1>1, <1>2
  <1> QED
    BY <1>1, <1>2, <1>5, <1>7, <1>8, <1>9, <1>10, <1>13, <1>14, TouchSafe

LEMMA ExecutingSafe ==
  ASSUME TypeOK, TypeOK', Locals, Others, NEW r \in Runs, Executing(r)
  PROVE  Others'
  BY StartSafe, AskingSafe, DraftSafe, EndingSafe, LookingSafe, ClaimReplySafe, InsertSafe,
     RecheckSafe, PostSafe, NoteSafe DEF Executing

\* The poller, people and time.
LEMMA RunsAside ==
  ASSUME TypeOK, Others, UNCHANGED <<claim, answers, channel, lock, pc, ctx>>,
         Booked', Polled', RunsKept,
         \A r \in Runs : Created(r)',
         \A r \in Runs : \/ run'[r].done => run[r].done /\ run'[r].comment = run[r].comment
                         \/ ~run'[r].done,
         \A r \in Runs : pc[r] # "idle" =>
           run'[r].comment = run[r].comment /\ run'[r].reply = run[r].reply
  PROVE  Others'
  <1>1. ASSUME NEW r \in Runs
        PROVE  Execution(r)'
    <2>1. Execution(r) /\ Created(r)'
      BY DEF Others
    <2>2. Believed(r)'
      <3>1. pc[r] = "done" => Target(r)' = Target(r)
        BY DEF Target
      <3>2. run'[r].done => run[r].done /\ Target(r)' = Target(r)
        BY DEF Target
      <3> QED
        BY <2>1, <3>1, <3>2 DEF Execution, Believed
    <2>3. CASE pc[r] = "idle"
      BY <2>1, <2>2, <2>3 DEF Execution, Placed, Owned, Alone, Reserved, Entitled, Asked, Claiming,
         UnderLock, Sending
    <2>4. CASE pc[r] # "idle"
      <3>1. /\ run'[r].comment = run[r].comment /\ run'[r].reply = run[r].reply
            /\ run'[r].workflow = run[r].workflow
        BY <2>1, <2>4 DEF RunsKept, Execution, Created
      <3>2. /\ Placed(r)' /\ Owned(r)' /\ Alone(r)' /\ Reserved(r)' /\ Entitled(r)'
        BY <2>1, <3>1 DEF Execution, Placed, Owned, Alone, Reserved, Entitled, Target, Limit,
           Counted
      <3> QED
        BY <2>1, <2>2, <3>2 DEF Execution
    <2> QED
      BY <2>3, <2>4
  <1>2. ASSUME NEW c \in Comments
        PROVE  Behind(c)' /\ Agreed(c)'
    <2>1. Behind(c)'
      BY DEF Others, Behind
    <2> QED
      BY <2>1, AgreedKept DEF Others
  <1>3. \A d \in Days : DayKept(d)'
    BY DEF Others, DayKept, Counted
  <1> QED
    BY <1>1, <1>2, <1>3 DEF Others

LEMMA SameRuns ==
  ASSUME TypeOK, Others, UNCHANGED <<run, claim, answers, channel, lock, pc, ctx>>,
         Booked', Polled'
  PROVE  Others'
  <1>1. RunsKept /\ \A r \in Runs : Created(r)'
    BY DEF RunsKept, Others, Execution, Created, Target
  <1> QED
    BY <1>1, RunsAside

LEMMA PollingSafe ==
  ASSUME TypeOK, Others, NEW p \in Pollers, Polling(p)
  PROVE  Others'
  <1>1. \A r \in Runs : Created(r)
    BY DEF Others, Execution
  <1>2. \A o \in Pollers : poll[o] \in Runs \cup {Nothing}
    BY DEF TypeOK
  <1>3. ASSUME NEW w \in Workflows, NEW c \in Comments, TakeComment(p, w, c)
        PROVE  Others'
    <2>1. /\ UNCHANGED <<credits, channel, flow, claim, execs, answers, day>>
          /\ \/ run' = run /\ poll' = poll
             \/ \E r \in Runs :
                  /\ run[r].status = "none" /\ run'[r].status = "queued"
                  /\ run'[r].workflow = w /\ run'[r].comment = c /\ ~run'[r].done
                  /\ \A s \in Runs : s # r => run'[s] = run[s]
                  /\ \A o \in Pollers : poll'[o] \in {poll[o], r}
      BY <1>3, TakeEffect
    <2>2. Booked'
      BY <2>1 DEF Others, Booked, credits
    <2>3. CASE run' = run /\ poll' = poll
      BY <2>1, <2>2, <2>3, SameRuns DEF execs, Others, Polled
    <2>4. ASSUME NEW r \in Runs,
                 run[r].status = "none", run'[r].status = "queued",
                 run'[r].workflow = w, run'[r].comment = c, ~run'[r].done,
                 \A s \in Runs : s # r => run'[s] = run[s],
                 \A o \in Pollers : poll'[o] \in {poll[o], r}
          PROVE  Others'
      <3>1. RunsKept
        BY <2>4 DEF RunsKept
      <3>2. pc[r] = "idle" /\ pc' = pc
        BY <1>1, <2>1, <2>4 DEF Created, execs
      <3>3. \A s \in Runs : Created(s)'
        BY <1>1, <2>4, <3>2 DEF Created, Target
      <3>4. Polled'
        BY <1>2, <2>4, <3>1 DEF Polled, Others, RunsKept
      <3> QED
        BY <2>1, <2>2, <2>4, <3>1, <3>2, <3>3, <3>4, RunsAside DEF execs
    <2> QED
      BY <2>1, <2>3, <2>4
  <1>4. CASE Forget(p)
    <2>1. /\ UNCHANGED <<credits, channel, flow, claim, execs, answers, day>>
          /\ poll[p] \in Runs /\ Written(poll[p])
          /\ run'[poll[p]].status \in {"failed", run[poll[p]].status}
          /\ run'[poll[p]].reply = run[poll[p]].reply /\ run'[poll[p]].done = run[poll[p]].done
          /\ \A o \in Pollers : poll'[o] \in {poll[o], Nothing}
      BY <1>4, ForgetEffect
    <2>2. PICK r \in Runs : r = poll[p]
      BY <2>1
    <2>3. /\ run'[r].workflow = run[r].workflow /\ run'[r].comment = run[r].comment
          /\ run'[r].reply = run[r].reply /\ run'[r].done = run[r].done
          /\ run'[r].status \in {"failed", run[r].status} /\ run[r].status # "none"
          /\ \A s \in Runs : s # r => run'[s] = run[s]
      BY <2>1, <2>2, AnswerConstants DEF Written, Others, Polled
    <2>4. Booked'
      BY <2>1 DEF Others, Booked, credits
    <2>5. RunsKept
      BY <2>3 DEF RunsKept
    <2>6. \A s \in Runs : Created(s)'
      BY <1>1, <2>1, <2>3 DEF Created, Target, execs
    <2>7. Polled'
      BY <1>2, <2>1, <2>5 DEF Polled, Others, RunsKept
    <2> QED
      BY <2>1, <2>3, <2>4, <2>5, <2>6, <2>7, RunsAside DEF execs
  <1>5. CASE CrashPoll(p)
    <2>1. /\ UNCHANGED <<credits, channel, run, claim, execs, answers>>
          /\ \A o \in Pollers : poll'[o] \in {poll[o], Nothing}
      BY <1>5 DEF CrashPoll, rows, TypeOK
    <2>2. Booked' /\ Polled'
      BY <2>1 DEF Others, Booked, Polled, credits
    <2> QED
      BY <2>1, <2>2, SameRuns DEF execs
  <1> QED
    BY <1>3, <1>4, <1>5 DEF Polling

LEMMA PeopleSafe ==
  ASSUME TypeOK, Others, ~LosesClaims, People
  PROVE  Others'
  <1>1. \A r \in Runs : Created(r)
    BY DEF Others, Execution
  <1>2. \A o \in Pollers : poll[o] \in Runs \cup {Nothing}
    BY DEF TypeOK
  <1>3. ASSUME NEW r \in Runs, Decide(r)
        PROVE  Others'
    <2>1. /\ UNCHANGED <<credits, channel, flow, news, claim, execs, answers, poll, day, upsets>>
          /\ Written(r)
          /\ run[r].status \in {"waiting_approval", "failed"} /\ run'[r].status = "queued"
          /\ run'[r].done = run[r].done
          /\ \/ run'[r].reply = run[r].reply
             \/ run[r].status = "waiting_approval" /\ run'[r].reply = "approved"
      BY <1>3, DecideEffect
    <2>2. /\ run'[r].workflow = run[r].workflow /\ run'[r].comment = run[r].comment
          /\ \A s \in Runs : s # r => run'[s] = run[s]
      BY <2>1 DEF Written
    <2>3. pc[r] # "idle" => run'[r].reply = run[r].reply
      BY <1>1, <2>1 DEF Created
    <2>4. RunsKept
      BY <2>1, <2>2 DEF RunsKept
    <2>5. \A s \in Runs : Created(s)'
      BY <1>1, <2>1, <2>2 DEF Created, Target, execs
    <2>6. Booked' /\ Polled'
      BY <1>2, <2>1, <2>4 DEF Others, Booked, Polled, credits, RunsKept
    <2> QED
      BY <2>1, <2>2, <2>3, <2>4, <2>5, <2>6, RunsAside DEF execs
  <1>4. ASSUME NEW w \in Workflows, SetActive(w)
        PROVE  Others'
    <2>1. UNCHANGED <<credits, channel, run, claim, execs, answers, poll>>
      BY <1>4 DEF SetActive
    <2>2. Booked' /\ Polled'
      BY <2>1 DEF Others, Booked, Polled, credits
    <2> QED
      BY <2>1, <2>2, SameRuns DEF execs
  <1>5. ASSUME NEW w \in Workflows, DeleteWorkflow(w)
        PROVE  Others'
    <2>1. /\ UNCHANGED <<credits, channel, execs, answers, poll, day, upsets>>
          /\ \A r \in Runs :
               /\ run'[r].workflow = run[r].workflow /\ run'[r].comment = run[r].comment
               /\ run'[r].reply = run[r].reply /\ run'[r].done = run[r].done
               /\ \/ run'[r].status = run[r].status
                  \/ /\ run[r].status \in {"completed", "failed"} /\ pc[r] = "idle"
                     /\ run'[r].status = "deleted"
          /\ claim' = claim
      BY <1>5, DeleteEffect
    <2>2. RunsKept
      BY <2>1 DEF RunsKept
    <2>3. \A s \in Runs : Created(s)'
      BY <1>1, <2>1 DEF Created, Target, execs
    <2>4. Booked' /\ Polled'
      BY <1>2, <2>1, <2>2 DEF Others, Booked, Polled, credits, RunsKept
    <2> QED
      BY <2>1, <2>2, <2>3, <2>4, RunsAside DEF execs
  <1>6. CASE AdministerCredit
    <2>1. UNCHANGED <<channel, run, claim, execs, answers, poll>> /\ Administer /\ CreditOK
      BY <1>6 DEF AdministerCredit, rows, TypeOK
    <2>2. /\ CreditOK' /\ UNCHANGED <<open, spent>>
          /\ credit'.used = credit.used /\ credit'.reserved = credit.reserved
          /\ granted <= granted' /\ (credit.limit <= granted => credit'.limit <= granted')
      BY <2>1, AdministerEffect
    <2>3. /\ credit.used \in Nat /\ credit.reserved \in Nat
          /\ granted \in Nat /\ granted' \in Nat
      BY <2>1, <2>2, CreditConstants DEF CreditOK
    <2>4. credit.used + credit.reserved <= granted'
      BY <2>2, <2>3 DEF Others, Booked
    <2>5. Booked' /\ Polled'
      BY <2>1, <2>2, <2>4 DEF Others, Booked, Polled
    <2> QED
      BY <2>1, <2>5, SameRuns DEF execs
  <1> QED
    BY <1>3, <1>4, <1>5, <1>6 DEF People, Decide

LEMMA InitSafe == Init => Others
  <1> SUFFICES ASSUME Init PROVE Others
    OBVIOUS
  <1>1. Booked
    <2>1. Cardinality(open) = 0 /\ credit.reserved = 0 /\ credit.used = 0 /\ spent = 0
          /\ credit.limit = granted /\ granted \in Nat
      BY FS_EmptySet, CreditConstants DEF Init, CreditInit
    <2> QED
      BY <2>1, CreditConstants DEF Booked
  <1>2. Polled
    BY DEF Init, Polled
  <1>3. ASSUME NEW r \in Runs
        PROVE  Execution(r)
    <2>1. /\ run[r].done = FALSE
          /\ run[r].status # "none" => run[r].workflow \in Workflows /\ Target(r) \in Comments
      BY NoRunTyped, WasInterrupted DEF Init, Target
    <2>2. pc[r] = "idle"
      BY DEF Init
    <2> QED
      BY <2>1, <2>2 DEF Execution, Created, Placed, Owned, Believed, Alone, Reserved, Entitled,
         Asked, Claiming, UnderLock, Sending
  <1>4. ASSUME NEW c \in Comments
        PROVE  Behind(c) /\ Agreed(c)
    <2>1. claim[c].status = "none" /\ answers[c] = 0
      BY DEF Init, NoClaim
    <2> QED
      BY <2>1 DEF Behind, Agreed
  <1>5. ASSUME NEW d \in Days
        PROVE  DayKept(d)
    <2>1. Counted(d) = {}
      BY DEF Init, NoClaim, Counted, Counting
    <2> QED
      BY <2>1 DEF DayKept
  <1> QED
    BY <1>1, <1>2, <1>3, <1>4, <1>5 DEF Others

LEMMA NextSafe ==
  ASSUME TypeOK, TypeOK', Locals, Others, ~LosesClaims, [Next]_vars
  PROVE  Others'
  <1>1. CASE UNCHANGED vars
    <2>1. UNCHANGED <<credits, run, claim, answers, channel, lock, pc, ctx, poll>>
      BY <1>1 DEF vars, rows, execs
    <2>2. Booked' /\ Polled'
      BY <2>1 DEF Others, Booked, Polled, credits
    <2> QED
      BY <2>1, <2>2, SameRuns
  <1>2. CASE NextDay
    <2>1. UNCHANGED <<credits, run, claim, answers, channel, lock, pc, ctx, poll>>
      BY <1>2 DEF NextDay, rows, execs
    <2>2. Booked' /\ Polled'
      BY <2>1 DEF Others, Booked, Polled, credits
    <2> QED
      BY <2>1, <2>2, SameRuns
  <1> QED
    BY <1>1, <1>2, ExecutingSafe, PollingSafe, PeopleSafe DEF Next

\* Unless a workflow that holds claims is deleted, an execution between claim
\* and outcome owns its comment's claim, what was performed stays behind a
\* claim that is not taken again, each day's claims fit a limit, and what is
\* reserved of the credit are the open requests.
THEOREM Inductive == ASSUME ~LosesClaims PROVE Spec => []IInv
  <1>1. Init => Others
    BY InitSafe
  <1>2. Init => Locals
    BY DEF Init, CreditInit, Locals, Asked
  <1>3. TypeOK /\ Locals /\ [Next]_vars => Locals'
    <2> SUFFICES ASSUME TypeOK, Locals, [Next]_vars PROVE Locals'
      OBVIOUS
    <2>1. CASE UNCHANGED vars
      BY <2>1, LocalsStay DEF vars, execs, credits
    <2> QED
      BY <2>1, ExecutingTypes, ElsewhereTypes DEF Next
  <1>4. TypeOK /\ TypeOK' /\ Locals /\ Others /\ [Next]_vars => Others'
    BY NextSafe
  <1>5. IInv <=> Locals /\ Others
    BY DEF IInv, Others
  <1>6. Spec => []TypeOK
    BY TypeCorrect
  <1> QED
    BY <1>1, <1>2, <1>3, <1>4, <1>5, <1>6, PTL DEF Spec

\* A comment is answered, or hidden, at most once, whatever is retried, lost,
\* repeated or read by several workflows (claimYoutubeReply, InsertAction).
THEOREM Once == ASSUME ~LosesClaims PROVE Spec => []AnsweredOnce
  <1>1. IInv => AnsweredOnce
    BY DEF IInv, Behind, AnsweredOnce
  <1>2. Spec => []IInv
    BY Inductive
  <1> QED
    BY <1>1, <1>2, PTL

\* What was performed under a day's claims fits the daily limit of a workflow.
THEOREM Within == ASSUME ~LosesClaims PROVE Spec => []WithinDay
  <1>1. TypeOK /\ IInv => WithinDay
    <2> SUFFICES ASSUME TypeOK, IInv, NEW c \in Comments, answers[c] > 0
                 PROVE  LET sent == {x \in Comments : answers[x] > 0 /\ claim[x].day = claim[c].day}
                        IN \E w \in Workflows : Cardinality(sent) <= DailyLimit[w]
      BY DEF WithinDay
    <2> DEFINE d == claim[c].day
               sent == {x \in Comments : answers[x] > 0 /\ claim[x].day = d}
    <2>1. sent \subseteq Counted(d) /\ c \in sent
      BY DEF IInv, Behind, Counted
    <2>2. d \in Days
      BY DEF TypeOK, Claims
    <2>3. PICK w \in Workflows : Cardinality(Counted(d)) <= DailyLimit[w]
      BY <2>1, <2>2 DEF IInv, DayKept
    <2>4. /\ Cardinality(sent) \in Nat /\ Cardinality(Counted(d)) \in Nat
          /\ Cardinality(sent) <= Cardinality(Counted(d))
      <3> HIDE DEF sent, d
      <3> QED
        BY <2>1, CountedFinite, FS_Subset, FS_CardinalityType
    <2>5. DailyLimit[w] \in Nat
      BY AnswerConstants
    <2> HIDE DEF sent
    <2>6. Cardinality(sent) <= DailyLimit[w]
      BY <2>3, <2>4, <2>5
    <2> QED
      BY <2>6 DEF sent
  <1>2. Spec => []IInv
    BY Inductive
  <1>3. Spec => []TypeOK
    BY TypeCorrect
  <1> QED
    BY <1>1, <1>2, <1>3, PTL

\* A workflow that asks for approval performs nothing unapproved.
THEOREM ByConsent == ASSUME ~LosesClaims PROVE Spec => []Consented
  <1>1. IInv => Consented
    BY DEF IInv, Behind, Agreed, Counting, Consented
  <1>2. Spec => []IInv
    BY Inductive
  <1> QED
    BY <1>1, <1>2, PTL

\* A run that says its comment was answered tells the truth.
THEOREM Honest == ASSUME ~LosesClaims PROVE Spec => []Truthful
  <1>1. IInv => Truthful
    BY DEF IInv, Execution, Believed, Truthful
  <1>2. Spec => []IInv
    BY Inductive
  <1> QED
    BY <1>1, <1>2, PTL

-----------------------------------------------------------------------------
(* Every bill is covered.                                                   *)

\* Induction over numbers and over finite sets, by least counterexample.
LEMMA Upward ==
  ASSUME NEW B, 0 \in B, \A n \in Nat : n \in B => n + 1 \in B
  PROVE  Nat \subseteq B
  <1> DEFINE T == Nat \ B
  <1>1. ASSUME T # {} PROVE FALSE
    <2>1. PICK m \in T : \A n \in T : <<n, m>> \notin OpToRel(<, Nat)
      BY <1>1, NatLessThanWellFounded, WFMin
    <2>2. m # 0 /\ m - 1 \in Nat /\ m - 1 < m /\ (m - 1) + 1 = m
      OBVIOUS
    <2>3. m - 1 \notin T
      BY <2>1, <2>2 DEF OpToRel
    <2> QED
      BY <2>2, <2>3
  <1> QED
    BY <1>1

LEMMA Smallest ==
  ASSUME NEW S, IsFiniteSet(S), NEW T, T \subseteq SUBSET S, T # {}
  PROVE  \E U \in T : \A V \in T : V \subseteq U => V = U
  <1>1. T \subseteq FiniteSubsetsOf(S)
    BY FS_Subset DEF FiniteSubsetsOf
  <1>2. \E U \in T : \A V \in T : <<V, U>> \notin StrictSubsetOrdering(S)
    BY <1>1, FS_StrictSubsetOrderingWellFounded, WFMin
  <1> QED
    BY <1>2 DEF StrictSubsetOrdering

\* The equation of a sum over a set, for the sums h of its subsets.
Pick(u) == CHOOSE x \in u : TRUE
SumOf(f, h, u) == IF u = {} THEN 0 ELSE f[Pick(u)] + h[u \ {Pick(u)}]

\* The equation has a solution for sums of natural numbers.
LEMMA SumExists ==
  ASSUME NEW S, IsFiniteSet(S), NEW f, \A x \in S : f[x] \in Nat
  PROVE  \E h : h = [u \in SUBSET S |-> SumOf(f, h, u)]
  <1> DEFINE Solves(h, n) == \A u \in SUBSET S : Cardinality(u) <= n => h[u] = SumOf(f, h, u)
             Sizes == {n \in Nat : \E h \in [SUBSET S -> Nat] : Solves(h, n)}
  <1>1. \A u \in SUBSET S : /\ IsFiniteSet(u) /\ Cardinality(u) \in Nat
                            /\ u # {} => /\ Pick(u) \in u /\ u \ {Pick(u)} \in SUBSET S
                                         /\ Cardinality(u \ {Pick(u)}) = Cardinality(u) - 1
    BY FS_Subset, FS_CardinalityType, FS_RemoveElement DEF Pick
  <1>2. 0 \in Sizes
    <2>1. ASSUME NEW u \in SUBSET S, Cardinality(u) <= 0
          PROVE  u = {}
      <3>1. /\ IsFiniteSet(u) /\ Cardinality(u) \in Nat
        BY <1>1
      <3>2. Cardinality(u) = 0
        BY <2>1, <3>1
      <3> QED
        BY <3>1, <3>2, FS_EmptySet
    <2> DEFINE h == [u \in SUBSET S |-> 0]
    <2>2. h \in [SUBSET S -> Nat] /\ Solves(h, 0)
      BY <2>1 DEF SumOf
    <2> QED
      BY <2>2
  <1>3. ASSUME NEW n \in Nat, n \in Sizes
        PROVE  n + 1 \in Sizes
    <2>1. PICK h \in [SUBSET S -> Nat] : Solves(h, n)
      BY <1>3
    <2> DEFINE g == [u \in SUBSET S |-> SumOf(f, h, u)]
    <2>2. g \in [SUBSET S -> Nat]
      <3>1. ASSUME NEW u \in SUBSET S PROVE SumOf(f, h, u) \in Nat
        <4>1. CASE u = {}
          BY <4>1 DEF SumOf
        <4>2. CASE u # {}
          <5>1. f[Pick(u)] \in Nat /\ h[u \ {Pick(u)}] \in Nat
            BY <1>1, <2>1, <4>2
          <5> QED
            BY <4>2, <5>1 DEF SumOf
        <4> QED
          BY <4>1, <4>2
      <3> QED
        BY <3>1
    <2>3. ASSUME NEW u \in SUBSET S, Cardinality(u) <= n + 1
          PROVE  g[u] = SumOf(f, g, u)
      <3>1. CASE u = {}
        BY <3>1 DEF SumOf
      <3>2. CASE u # {}
        <4> DEFINE v == u \ {Pick(u)}
        <4>1. v \in SUBSET S /\ Cardinality(v) <= n
          BY <1>1, <2>3, <3>2
        <4>2. g[v] = h[v]
          BY <2>1, <4>1
        <4> QED
          BY <3>2, <4>2 DEF SumOf
      <3> QED
        BY <3>1, <3>2
    <2>4. Solves(g, n + 1)
      BY <2>3
    <2> HIDE DEF g, Solves
    <2> QED
      BY <2>2, <2>4
  <1>4. Nat \subseteq Sizes
    <2> HIDE DEF Sizes
    <2> QED
      BY <1>2, <1>3, Upward
  <1>5. Cardinality(S) \in Nat /\ \A u \in SUBSET S : Cardinality(u) <= Cardinality(S)
    BY FS_Subset, FS_CardinalityType
  <1>6. PICK h \in [SUBSET S -> Nat] : Solves(h, Cardinality(S))
    BY <1>4, <1>5
  <1>7. h = [u \in SUBSET S |-> SumOf(f, h, u)]
    BY <1>5, <1>6
  <1> QED
    BY <1>7

\* A sum of numbers within a bound is within the bound times their number.
LEMMA SumBound ==
  ASSUME NEW S, IsFiniteSet(S), NEW b \in Nat, NEW f, \A x \in S : f[x] \in 0 .. b
  PROVE  /\ SumFunctionOnSet(f, S) \in Nat
         /\ SumFunctionOnSet(f, S) <= b * Cardinality(S)
  <1> DEFINE sums == CHOOSE h : h = [u \in SUBSET S |-> SumOf(f, h, u)]
             Fits(u) == sums[u] \in Nat /\ sums[u] <= b * Cardinality(u)
             Bad == {u \in SUBSET S : ~ Fits(u)}
  <1>1. SumFunctionOnSet(f, S) = sums[S]
    BY DEF SumFunctionOnSet, FoldFunctionOnSet, MapThenFoldSet, SumOf, Pick
  <1>2. sums = [u \in SUBSET S |-> SumOf(f, sums, u)]
    BY SumExists
  <1>3. \A u \in SUBSET S : /\ IsFiniteSet(u) /\ Cardinality(u) \in Nat
                            /\ u # {} => /\ Pick(u) \in u /\ u \ {Pick(u)} \in SUBSET S
                                         /\ u \ {Pick(u)} # u
                                         /\ Cardinality(u \ {Pick(u)}) = Cardinality(u) - 1
    BY FS_Subset, FS_CardinalityType, FS_RemoveElement DEF Pick
  <1> HIDE DEF sums
  <1>4. ASSUME Bad # {} PROVE FALSE
    <2>1. PICK u \in Bad : \A v \in Bad : v \subseteq u => v = u
      <3>1. Bad \subseteq SUBSET S
        OBVIOUS
      <3> HIDE DEF Bad
      <3> QED
        BY <1>4, <3>1, Smallest
    <2>2. sums[u] = SumOf(f, sums, u)
      BY <1>2
    <2>3. CASE u = {}
      BY <2>2, <2>3, FS_EmptySet DEF SumOf
    <2>4. CASE u # {}
      <3> DEFINE v == u \ {Pick(u)}
                 n == Cardinality(u)
      <3>1. Fits(v) /\ Cardinality(v) = n - 1 /\ n \in Nat
        <4>1. v \in SUBSET S /\ v # u /\ v \subseteq u /\ Cardinality(v) = n - 1 /\ n \in Nat
          BY <1>3, <2>4
        <4>2. v \notin Bad
          <5> HIDE DEF Bad, v
          <5> QED
            BY <2>1, <4>1
        <4> HIDE DEF v, Fits
        <4> QED
          BY <4>1, <4>2
      <3>2. sums[u] = f[Pick(u)] + sums[v] /\ f[Pick(u)] \in 0 .. b
        BY <1>3, <2>2, <2>4 DEF SumOf
      <3>3. b * n = b * (n - 1) + b
        BY <3>1
      <3>4. sums[v] \in Nat /\ sums[v] <= b * (n - 1) /\ b * (n - 1) \in Int
        BY <3>1
      <3> HIDE DEF n, v
      <3>5. sums[u] \in Nat /\ sums[u] <= b * n
        BY <3>2, <3>3, <3>4
      <3> QED
        BY <2>1, <3>5 DEF n
    <2> QED
      BY <2>3, <2>4
  <1> QED
    BY <1>1, <1>4

\* What is reserved and spent is booked, whoever asks, repeats or crashes, and
\* what an administrator grants covers it.
LEMMA BookedStep == TypeOK /\ Locals /\ Booked /\ [Next]_vars => Booked'
  <1> SUFFICES ASSUME TypeOK, Locals, Booked, [Next]_vars PROVE Booked'
    OBVIOUS
  <1>1. ASSUME UNCHANGED credits PROVE Booked'
    BY <1>1 DEF Booked, credits
  <1>2. ASSUME NEW r \in Runs, Asking(r) PROVE Booked'
    BY <1>2, AskingBooked
  <1>3. CASE AdministerCredit
    <2>1. Administer /\ CreditOK
      BY <1>3 DEF AdministerCredit, TypeOK
    <2>2. /\ CreditOK' /\ UNCHANGED <<open, spent>>
          /\ credit'.used = credit.used /\ credit'.reserved = credit.reserved
          /\ granted <= granted' /\ (credit.limit <= granted => credit'.limit <= granted')
      BY <2>1, AdministerEffect
    <2>3. /\ credit.used \in Nat /\ credit.reserved \in Nat
          /\ granted \in Nat /\ granted' \in Nat
      BY <2>1, <2>2, CreditConstants DEF CreditOK
    <2>4. credit.used + credit.reserved <= granted'
      BY <2>2, <2>3 DEF Booked
    <2> QED
      BY <2>2, <2>4 DEF Booked
  <1>4. ASSUME NEW r \in Runs, Executing(r), ~ Asking(r) PROVE UNCHANGED credits
    BY <1>4 DEF Executing, Start, Draft, Inspect, ClaimReply, WaitForDay, LockAccount, Look,
                InsertAction, Recheck, Post, Note, EndStep, FinishRun, Pass, Crash
  <1>5. ASSUME (\E p \in Pollers : Polling(p)) \/ (People /\ ~ AdministerCredit) \/ NextDay
        PROVE  UNCHANGED credits
    BY <1>5 DEF Polling, TakeComment, Forget, CrashPoll, People, Approve, Reject, RetryReply,
                SetActive, DeleteWorkflow, NextDay
  <1> QED
    BY <1>1, <1>2, <1>3, <1>4, <1>5 DEF Next, vars

\* Whatever models charge, for answers that were lost too, has been taken off
\* the credit or is still reserved, within the highest credit granted.
THEOREM Billed == Spec => []Covered
  <1>1. Init => Locals /\ Booked
    BY InitSafe DEF Init, CreditInit, Locals, Asked, Others
  <1>2. TypeOK /\ Locals /\ [Next]_vars => Locals'
    <2> SUFFICES ASSUME TypeOK, Locals, [Next]_vars PROVE Locals'
      OBVIOUS
    <2>1. CASE UNCHANGED vars
      BY <2>1, LocalsStay DEF vars, execs, credits
    <2> QED
      BY <2>1, ExecutingTypes, ElsewhereTypes DEF Next
  <1>3. TypeOK /\ Booked => Covered
    <2> SUFFICES ASSUME TypeOK, Booked PROVE Covered
      OBVIOUS
    <2>1. /\ open \subseteq Requests /\ bill \in [Requests -> 0 .. Bound] /\ spent \in Nat
          /\ credit.used \in Nat /\ credit.reserved \in Nat
      BY DEF TypeOK, CreditOK, Tokens
    <2>2. IsFiniteSet(open) /\ Bound \in Nat /\ \A q \in open : bill[q] \in 0 .. Bound
      BY <2>1, CreditConstants, FS_Subset
    <2>3. /\ SumFunctionOnSet(bill, open) \in Nat
          /\ SumFunctionOnSet(bill, open) <= Bound * Cardinality(open)
      BY <2>2, SumBound
    <2> QED
      BY <2>1, <2>3 DEF Booked, Covered
  <1>4. Spec => []TypeOK
    BY TypeCorrect
  <1> QED
    BY <1>1, <1>2, <1>3, <1>4, BookedStep, PTL DEF Spec

-----------------------------------------------------------------------------
(* Each comment's claim and answer implement Delivery.                     *)

\* The step of Delivery, or the stutter, that a step is for a comment.
Maps(c) == [D(c)!DeliveryNext]_<<Stage(c), answers[c]>>

LEMMA StageOf ==
  ASSUME NEW c
  PROVE  /\ claim[c].status \in {"none", "failed"} => Stage(c) = "released"
         /\ claim[c].status = "sending" => Stage(c) = "inFlight"
         /\ claim[c].status = "uncertain" => Stage(c) = "unclear"
         /\ claim[c].status = "succeeded" => Stage(c) = "delivered"
  BY DEF Stage

LEMMA StageNext ==
  ASSUME NEW c
  PROVE  /\ claim'[c].status \in {"none", "failed"} => Stage(c)' = "released"
         /\ claim'[c].status = "sending" => Stage(c)' = "inFlight"
         /\ claim'[c].status = "uncertain" => Stage(c)' = "unclear"
         /\ claim'[c].status = "succeeded" => Stage(c)' = "delivered"
  BY DEF Stage

\* A comment whose claim and answer a step leaves alone.
LEMMA Stutters ==
  ASSUME NEW c, claim'[c] = claim[c], answers'[c] = answers[c]
  PROVE  Maps(c)
  BY DEF Maps, Stage

LEMMA Departs ==
  ASSUME NEW c, claim[c].status \in {"none", "failed"}, claim'[c].status = "sending",
         answers'[c] = answers[c]
  PROVE  Maps(c)
  BY StageOf, StageNext DEF Maps, D!DeliveryNext, D!Depart, D!Move

LEMMA GivesBack ==
  ASSUME NEW c, claim[c].status = "sending", claim'[c].status \in {"none", "failed"},
         answers[c] = 0, answers'[c] = 0
  PROVE  Maps(c)
  BY StageOf, StageNext DEF Maps, D!DeliveryNext, D!Refuse, D!Move

LEMMA Performs ==
  ASSUME NEW c, claim[c].status = "sending", claim'[c].status = "sending",
         answers[c] = 0, answers'[c] \in {0, 1}
  PROVE  Maps(c)
  <1>1. Stage(c) = "inFlight" /\ Stage(c)' = "inFlight"
    BY StageOf, StageNext
  <1>2. CASE answers'[c] = 1
    BY <1>1, <1>2 DEF Maps, D!DeliveryNext, D!Arrive
  <1>3. CASE answers'[c] = 0
    BY <1>1, <1>3 DEF Maps
  <1> QED
    BY <1>2, <1>3

LEMMA Ends ==
  ASSUME NEW c, claim[c].status = "sending", answers'[c] = answers[c],
         \/ claim'[c].status = "succeeded" /\ answers[c] = 1
         \/ claim'[c].status = "uncertain"
  PROVE  Maps(c)
  BY StageOf, StageNext DEF Maps, D!DeliveryNext, D!Confirmed, D!LoseTrack, D!Move

\* A claim is taken where there is none, or one that failed for certain.
LEMMA TakingMaps ==
  ASSUME TypeOK, Others, NEW r \in Runs, ClaimReply(r) \/ InsertAction(r), NEW c \in Comments
  PROVE  Maps(c)
  <1>1. answers' = answers /\ Target(r) \in Comments
    BY OnTheWay DEF ClaimReply, InsertAction
  <1>2. CASE claim' = claim
    BY <1>1, <1>2, Stutters
  <1>3. ASSUME NEW d, Claimed(r, d), claim[Target(r)].status \in {"none", "failed"}
        PROVE  Maps(c)
    <2>1. /\ claim'[Target(r)].status = "sending"
          /\ c # Target(r) => claim'[c] = claim[c]
      BY <1>1, <1>3 DEF Claimed, TypeOK
    <2> QED
      BY <1>1, <1>3, <2>1, Departs, Stutters
  <1> QED
    BY <1>2, <1>3 DEF ClaimReply, InsertAction, Claimable

\* The execution that owns the claim gives it back, sends, or notes what became
\* of the request.
LEMMA OwnerMaps ==
  ASSUME TypeOK, Others, NEW r \in Runs, Recheck(r) \/ Post(r) \/ Note(r), NEW c \in Comments
  PROVE  Maps(c)
  <1>1. pc[r] \in Claiming /\ Plain(r)
    BY DEF Recheck, Post, Note, Claiming, Plain
  <1>2. PICK x \in Comments :
           /\ x = Target(r) /\ claim[x].run = r /\ claim[x].status = "sending"
           /\ claim[x] \in Claims /\ answers[x] \in Nat /\ Behind(x) /\ Execution(r)
    BY <1>1, Owner
  <1>3. /\ pc[r] \in {"recheck", "post", "noteRefused"} => answers[x] = 0
        /\ pc[r] = "noteDone" => answers[x] = 1
    BY <1>1, <1>2 DEF Execution, Owned, Behind
  <1>4. CASE claim' = claim /\ answers' = answers
    BY <1>4, Stutters
  <1>5. CASE Recheck(r) /\ claim' # claim
    <2>1. /\ claim'[x].status = "none" /\ answers' = answers /\ answers[x] = 0
          /\ c # x => claim'[c] = claim[c]
      BY <1>2, <1>3, <1>5 DEF Recheck, NoClaim, TypeOK
    <2> QED
      BY <1>2, <2>1, GivesBack, Stutters
  <1>6. CASE Post(r) /\ answers' # answers
    <2>1. /\ claim' = claim /\ answers[x] = 0 /\ answers'[x] = 1
          /\ c # x => answers'[c] = answers[c]
      BY <1>2, <1>3, <1>6 DEF Post, rows, TypeOK
    <2> QED
      BY <1>2, <2>1, Performs, Stutters
  <1>7. CASE Note(r)
    <2>1. /\ claim'[x].status = OutcomeOf(pc[r]) /\ answers' = answers
          /\ c # x => claim'[c] = claim[c]
          /\ pc[r] \in {"noteDone", "noteRefused", "noteUnclear"}
      BY <1>2, <1>7 DEF Note, TypeOK, Claims
    <2>2. /\ pc[r] = "noteDone" => claim'[x].status = "succeeded"
          /\ pc[r] = "noteRefused" => claim'[x].status = "failed"
          /\ pc[r] = "noteUnclear" => claim'[x].status = "uncertain"
      BY <2>1 DEF OutcomeOf
    <2> QED
      BY <1>2, <1>3, <2>1, <2>2, GivesBack, Ends, Stutters
  <1>8. Recheck(r) => answers' = answers
    BY DEF Recheck
  <1>9. Post(r) => claim' = claim
    BY DEF Post, rows
  <1> QED
    BY <1>4, <1>5, <1>6, <1>7, <1>8, <1>9

\* Everything else leaves claims and answers alone.
LEMMA Elsewhere ==
  ASSUME TypeOK, ~LosesClaims, [Next]_vars,
         \A r \in Runs : ~(ClaimReply(r) \/ InsertAction(r) \/ Recheck(r) \/ Post(r) \/ Note(r))
  PROVE  UNCHANGED <<claim, answers>>
  <1>1. CASE UNCHANGED vars \/ NextDay
    BY <1>1 DEF vars, rows, NextDay
  <1>2. ASSUME NEW p \in Pollers, Polling(p)
        PROVE  UNCHANGED <<claim, answers>>
    BY <1>2 DEF Polling, TakeComment, Forget, CrashPoll, rows
  <1>3. ASSUME NEW r \in Runs, Executing(r)
        PROVE  UNCHANGED <<claim, answers>>
    <2>1. CASE Asking(r)
      BY <2>1 DEF Asking, Ask, Replied, RefusedByModel, Unanswering, SettleUsage, rows
    <2>2. CASE Start(r) \/ Draft(r) \/ Inspect(r) \/ WaitForDay(r) \/ LockAccount(r) \/ Look(r)
      BY <2>2 DEF Start, Draft, Inspect, WaitForDay, LockAccount, Look, rows
    <2>3. CASE EndStep(r) \/ FinishRun(r) \/ Pass(r) \/ Crash(r)
      BY <2>3 DEF EndStep, FinishRun, Pass, Crash, rows
    <2> QED
      BY <1>3, <2>1, <2>2, <2>3 DEF Executing
  <1>4. CASE People
    <2>1. ASSUME NEW r \in Runs, Decide(r)
          PROVE  UNCHANGED <<claim, answers>>
      BY <2>1, DecideEffect
    <2>2. ASSUME NEW w \in Workflows, SetActive(w)
          PROVE  UNCHANGED <<claim, answers>>
      BY <2>2 DEF SetActive
    <2>3. ASSUME NEW w \in Workflows, DeleteWorkflow(w)
          PROVE  UNCHANGED <<claim, answers>>
      BY <2>3, DeleteEffect
    <2>4. CASE AdministerCredit
      BY <2>4 DEF AdministerCredit, rows
    <2> QED
      BY <1>4, <2>1, <2>2, <2>3, <2>4 DEF People, Decide
  <1> QED
    BY <1>1, <1>2, <1>3, <1>4 DEF Next

\* Every comment's claim and answer move as Delivery allows, whatever runs,
\* pollers and people do, unless a workflow that holds claims is deleted.
THEOREM Implements == ASSUME ~LosesClaims PROVE Spec => ImplementsDelivery
  <1>1. Init => \A c \in Comments : D(c)!DeliveryInit
    <2> SUFFICES ASSUME Init, NEW c \in Comments PROVE D(c)!DeliveryInit
      OBVIOUS
    <2>1. claim[c].status = "none" /\ answers[c] = 0
      BY DEF Init, NoClaim
    <2> QED
      BY <2>1, StageOf DEF D!DeliveryInit
  <1>2. TypeOK /\ IInv /\ [Next]_vars =>
          [\A c \in Comments : [D(c)!DeliveryNext]_<<Stage(c), answers[c]>>]_vars
    <2> SUFFICES ASSUME TypeOK, IInv, [Next]_vars, NEW c \in Comments PROVE Maps(c)
      BY DEF Maps
    <2>1. Others
      BY DEF IInv, Others
    <2>2. CASE \E r \in Runs : ClaimReply(r) \/ InsertAction(r)
      BY <2>1, <2>2, TakingMaps
    <2>3. CASE \E r \in Runs : Recheck(r) \/ Post(r) \/ Note(r)
      BY <2>1, <2>3, OwnerMaps
    <2>4. CASE UNCHANGED <<claim, answers>>
      BY <2>4, Stutters
    <2> QED
      BY <2>2, <2>3, <2>4, Elsewhere
  <1>3. Spec => []TypeOK
    BY TypeCorrect
  <1>4. Spec => []IInv
    BY Inductive
  <1> QED
    BY <1>1, <1>2, <1>3, <1>4, PTL DEF Spec, ImplementsDelivery
=============================================================================
