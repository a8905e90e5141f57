------------------------------ MODULE RunProofs ------------------------------
(* Theorems about RunExecution for every set of graphs and every number of  *)
(* executors, attempts, dispatches and faults.                              *)
EXTENDS RunRefinement, TLAPS

PcsTyped == pc \in [Executors -> PCs]
CtxTyped == ctx \in [Executors -> Contexts]
RecTyped == rec \in [Steps -> Records]
ClaimTyped == claim \in [Steps -> {"none", "sending", "succeeded", "failed", "unclear"}]
RecordStates == {"none", "queued", "running", "retrying", "waiting"} \cup Settled

\* The facts about a graph that the walk rests on.
LEMMA GraphType ==
  ASSUME graph \in Graphs
  PROVE  /\ graph.order \in Seq(Steps)
         /\ graph.kind \in [Steps -> Kinds]
         /\ graph.parents \in [Steps -> SUBSET Steps]
  BY RunConstants DEF IsGraph

LEMMA CurrentType ==
  ASSUME graph \in Graphs, NEW w \in Executors, ctx[w].at \in 1 .. Len(graph.order)
  PROVE  Current(w) \in Steps
  BY GraphType DEF Current

LEMMA InitType == Init => TypeOK
  <1> SUFFICES ASSUME Init PROVE TypeOK
    OBVIOUS
  <1>1. graph \in Graphs /\ run \in Runs /\ creating \in BOOLEAN /\ pending \subseteq Dispatches
    BY RunConstants DEF Init, Runs, Dispatches
  <1>2. RecTyped /\ ClaimTyped /\ items \in [Steps -> [content : Nat, publication : Nat]]
    BY DEF Init, RecTyped, ClaimTyped, Records
  <1>3. jobs \in [Tickets -> Jobs]
    BY RunConstants DEF Init, Jobs, NoJob
  <1>4. IdleCtx \in Contexts
    BY RunConstants DEF IdleCtx, Contexts, States, Dispatches
  <1>5. PcsTyped /\ CtxTyped /\ lock \in Executors \cup {NoOne}
    BY <1>4 DEF Init, PcsTyped, CtxTyped, PCs
  <1>6. effects \in [Steps -> Nat] /\ agreed \subseteq Steps /\ faults \in 0 .. MaxFaults
    BY RunConstants DEF Init
  <1> QED
    BY <1>1, <1>2, <1>3, <1>5, <1>6 DEF TypeOK, PcsTyped, CtxTyped, RecTyped, ClaimTyped

-----------------------------------------------------------------------------
(* Type correctness: what an action writes has its type.                    *)

LEMMA IdleType == IdleCtx \in Contexts
  BY RunConstants DEF IdleCtx, Contexts, States, Dispatches

LEMMA GotoType ==
  ASSUME PcsTyped, NEW w \in Executors, NEW step \in PCs, Goto(w, step)
  PROVE  PcsTyped'
  BY DEF PcsTyped, Goto

LEMMA ContextType ==
  ASSUME CtxTyped, NEW w \in Executors, NEW c \in Contexts, ctx' = [ctx EXCEPT ![w] = c]
  PROVE  CtxTyped'
  BY DEF CtxTyped

LEMMA FinishType ==
  ASSUME PcsTyped, CtxTyped, NEW w \in Executors, NEW threw \in BOOLEAN, Finish(w, threw)
  PROVE  PcsTyped' /\ CtxTyped'
  <1>1. [IdleCtx EXCEPT !.threw = threw] \in Contexts
    BY IdleType DEF Contexts
  <1> QED
    BY <1>1 DEF PcsTyped, CtxTyped, Finish, PCs

LEMMA MovedContext ==
  ASSUME NEW c \in Contexts, NEW at \in Nat \ {0}, NEW states \in [Steps -> States]
  PROVE  [c EXCEPT !.at = at, !.states = states] \in Contexts
  BY DEF Contexts

\* The walk moves on and remembers the state of the step it leaves.
LEMMA PassType ==
  ASSUME CtxTyped, NEW w \in Executors, NEW state \in States, Pass(w, state)
  PROVE  CtxTyped'
  <1> DEFINE states == [ctx[w].states EXCEPT ![Current(w)] = state]
             c == [ctx[w] EXCEPT !.at = @ + 1, !.states = states]
  <1>0. ctx[w] \in Contexts
    BY DEF CtxTyped
  <1>1. states \in [Steps -> States]
    BY <1>0 DEF Contexts
  <1>2. ctx' = [ctx EXCEPT ![w] = c]
    BY <1>0 DEF Pass, CtxTyped
  <1> HIDE DEF states
  <1>3. c \in Contexts
    <2>1. ctx[w].at + 1 \in Nat \ {0}
      BY <1>0 DEF Contexts
    <2> QED
      BY <1>0, <1>1, <2>1, MovedContext
  <1> QED
    BY <1>2, <1>3, ContextType

LEMMA RecordType ==
  ASSUME RecTyped, NEW s, NEW status \in RecordStates,
         rec' = [rec EXCEPT ![s].status = status]
  PROVE  RecTyped'
  BY DEF RecTyped, Records, RecordStates

LEMMA SettleType ==
  ASSUME PcsTyped, CtxTyped, RecTyped, NEW w \in Executors,
         NEW status \in Settled \cup {"waiting"}, Settle(w, status)
  PROVE  PcsTyped' /\ CtxTyped' /\ RecTyped'
  <1>1. status \in States /\ status \in RecordStates /\ "visit" \in PCs
    BY DEF States, RecordStates, Settled, PCs
  <1> QED
    BY <1>1, PassType, RecordType, GotoType DEF Settle

LEMMA OutcomeType ==
  ASSUME NEW states \in [Steps -> States], NEW s
  PROVE  Outcome(states, s) \in States \cup {"run"}
  BY DEF Outcome, FromParents, States, Settled

LEMMA JobType == NewJob \in Jobs /\ OverJob \in Jobs
  <1>1. NoJob \in Jobs
    BY RunConstants DEF NoJob, Jobs
  <1> QED
    BY <1>1 DEF NewJob, OverJob, Jobs

LEMMA RetriedJob ==
  ASSUME NEW job \in Jobs, NEW made \in 0 .. MaxAttempts - 1
  PROVE  [job EXCEPT !.made = made, !.owner = NoOne, !.state = "waiting"] \in Jobs
  BY DEF Jobs

LEMMA TakenJob ==
  ASSUME NEW job \in Jobs, NEW w \in Executors
  PROVE  [job EXCEPT !.state = "active", !.owner = w] \in Jobs
  BY DEF Jobs

LEMMA StalledJob ==
  ASSUME NEW job \in Jobs
  PROVE  [job EXCEPT !.stalled = TRUE, !.state = "waiting"] \in Jobs
  BY DEF Jobs

\* A step of an executor keeps every type.
LEMMA StepType == ASSUME TypeOK, NEW w \in Executors, Step(w) PROVE TypeOK'
  <1>0. /\ PcsTyped /\ CtxTyped /\ RecTyped /\ ClaimTyped
        /\ ctx[w] \in Contexts /\ run \in Runs
        /\ items \in [Steps -> [content : Nat, publication : Nat]]
        /\ jobs \in [Tickets -> Jobs] /\ lock \in Executors \cup {NoOne}
        /\ effects \in [Steps -> Nat]
    BY DEF TypeOK, PcsTyped, CtxTyped, RecTyped, ClaimTyped
  <1> DEFINE Others == /\ run' \in Runs
                       /\ RecTyped' /\ ClaimTyped'
                       /\ items' \in [Steps -> [content : Nat, publication : Nat]]
                       /\ jobs' \in [Tickets -> Jobs]
                       /\ lock' \in Executors \cup {NoOne}
                       /\ effects' \in [Steps -> Nat]
                       /\ UNCHANGED <<graph, creating, pending, agreed, faults>>
  <1> SUFFICES PcsTyped' /\ CtxTyped' /\ Others
    BY DEF TypeOK, PcsTyped, CtxTyped, RecTyped, ClaimTyped
  <1> USE DEF rows, execs, api, world, RecTyped, ClaimTyped
  <1>s. [ctx[w] EXCEPT !.seen = run.status] \in Contexts
    BY <1>0 DEF Contexts, Runs
  <1>p. [ctx[w] EXCEPT !.seen = run.status, !.dispatch = run.dispatch,
                       !.wanted = run.publishes] \in Contexts
    BY <1>0 DEF Contexts, Runs
  <1>v. ASSUME NEW s PROVE Outcome(ctx[w].states, s) \in States \cup {"run"}
    BY OutcomeType, <1>0 DEF Contexts
  <1>d. ASSUME NEW s PROVE [rec EXCEPT ![s].drafted = TRUE] \in [Steps -> Records]
    BY <1>0 DEF RecTyped, Records
  <1>b. ASSUME NEW s \in Steps PROVE [ctx EXCEPT ![w].branch = s] \in [Executors -> Contexts]
    BY <1>0 DEF CtxTyped, Contexts
  <1>n. ASSUME NextBranch(w) PROVE PcsTyped' /\ CtxTyped'
    <2>1. [ctx[w] EXCEPT !.wanted = @ \ {ctx[w].branch}, !.branch = NoOne] \in Contexts
      BY <1>0 DEF Contexts
    <2>2. ctx' = [ctx EXCEPT ![w] = [ctx[w] EXCEPT !.wanted = @ \ {ctx[w].branch}, !.branch = NoOne]]
      BY <1>n, <1>0 DEF NextBranch, CtxTyped
    <2> QED
      BY <1>n, <1>0, <2>1, <2>2, ContextType, GotoType DEF NextBranch, PCs
  <1>i. ASSUME NEW s
        PROVE  /\ [items EXCEPT ![s].content = @ + 1] \in [Steps -> [content : Nat, publication : Nat]]
               /\ [items EXCEPT ![s].publication = @ + 1] \in [Steps -> [content : Nat, publication : Nat]]
    <2>1. CASE s \in Steps
      BY <1>0, <2>1
    <2>2. CASE s \notin Steps
      <3>1. /\ [items EXCEPT ![s].content = @ + 1] = items
            /\ [items EXCEPT ![s].publication = @ + 1] = items
        BY <1>0, <2>2
      <3> QED
        BY <1>0, <3>1
    <2> QED
      BY <2>1, <2>2
  <1>r. ASSUME Release(w) PROVE jobs' \in [Tickets -> Jobs]
    <2>1. ASSUME NEW t \in Tickets, jobs[t].made + 1 # MaxAttempts
          PROVE  [jobs[t] EXCEPT !.made = @ + 1, !.owner = NoOne, !.state = "waiting"] \in Jobs
      <3>1. jobs[t] \in Jobs /\ jobs[t].made \in 0 .. MaxAttempts - 1
        BY <1>0 DEF Jobs
      <3>2. MaxAttempts \in Nat
        BY RunConstants
      <3>3. jobs[t].made + 1 \in 0 .. MaxAttempts - 1
        BY <2>1, <3>1, <3>2
      <3> QED
        BY <3>1, <3>3, RetriedJob
    <2> QED
      BY <1>0, <1>r, <2>1, JobType DEF Release
  <1>1. CASE Lock(w)
    <2>1. Others
      BY <1>1, <1>0 DEF Lock
    <2>2. PcsTyped' /\ CtxTyped'
      BY <1>1, <1>0, GotoType, FinishType DEF Lock, PCs, CtxTyped
    <2> QED
      BY <2>1, <2>2
  <1>2. CASE Read(w)
    <2>1. Others
      BY <1>2, <1>0 DEF Read
    <2>2. PcsTyped' /\ CtxTyped'
      BY <1>2, <1>0, <1>s, GotoType, ContextType DEF Read, PCs, CtxTyped
    <2> QED
      BY <2>1, <2>2
  <1>3. CASE Claim(w)
    <2>1. Others
      BY <1>3, <1>0 DEF Claim, Runs
    <2>2. PcsTyped' /\ CtxTyped'
      BY <1>3, <1>0, IdleType, GotoType, ContextType DEF Claim, PCs
    <2> QED
      BY <2>1, <2>2
  <1>4. CASE Abort(w)
    <2>1. Others
      BY <1>4, <1>0 DEF Abort, Runs
    <2>2. PcsTyped' /\ CtxTyped'
      BY <1>4, <1>0, FinishType DEF Abort
    <2> QED
      BY <2>1, <2>2
  <1>5. CASE Visit(w)
    <2>1. Others
      BY <1>5, <1>0, RecordType DEF Visit, RecordStates
    <2>2. PcsTyped' /\ CtxTyped'
      <3> DEFINE outcome == Outcome(ctx[w].states, Current(w))
      <3>1. CASE outcome = "run"
        BY <1>5, <1>0, <3>1, GotoType DEF Visit, PCs, CtxTyped
      <3>2. CASE outcome # "run"
        <4>1. outcome \in States /\ Pass(w, outcome) /\ pc' = pc
          BY <1>5, <1>v, <3>2 DEF Visit
        <4> QED
          BY <1>0, <4>1, PassType DEF PcsTyped
      <3> QED
        BY <3>1, <3>2
    <2> QED
      BY <2>1, <2>2
  <1>6. CASE PerformPlain(w)
    <2>1. Others
      BY <1>6, <1>0, SettleType DEF PerformPlain, Settled
    <2>2. PcsTyped' /\ CtxTyped'
      BY <1>6, <1>0, SettleType DEF PerformPlain, Settled
    <2> QED
      BY <2>1, <2>2
  <1>7. CASE PerformApproval(w)
    <2>1. Others
      BY <1>7, <1>0, SettleType DEF PerformApproval, Settled
    <2>2. PcsTyped' /\ CtxTyped'
      BY <1>7, <1>0, SettleType DEF PerformApproval, Settled
    <2> QED
      BY <2>1, <2>2
  <1>8. CASE PerformAction(w)
    <2>1. Others
      BY <1>8, <1>0 DEF PerformAction
    <2>2. PcsTyped' /\ CtxTyped'
      BY <1>8, <1>0, GotoType DEF PerformAction, PCs, CtxTyped
    <2> QED
      BY <2>1, <2>2
  <1>9. CASE DraftReply(w)
    <2>1. Others
      <3>1. RecTyped'
        <4>1. CASE rec' = [rec EXCEPT ![Current(w)].drafted = TRUE]
          BY <1>d, <4>1
        <4>2. CASE Settle(w, "failed") \/ Settle(w, "completed")
          BY <1>0, <4>2, SettleType DEF Settled
        <4> QED
          BY <1>9, <4>1, <4>2 DEF DraftReply
      <3> QED
        BY <1>9, <1>0, <3>1 DEF DraftReply
    <2>2. PcsTyped' /\ CtxTyped'
      BY <1>9, <1>0, SettleType DEF DraftReply, Settled, PcsTyped, CtxTyped
    <2> QED
      BY <2>1, <2>2
  <1>10. CASE HoldReply(w)
    <2>1. Others
      BY <1>10, <1>0, SettleType DEF HoldReply, Settled, RecTyped
    <2>2. PcsTyped' /\ CtxTyped'
      BY <1>10, <1>0, SettleType, GotoType DEF HoldReply, Settled, PCs, CtxTyped
    <2> QED
      BY <2>1, <2>2
  <1>11. CASE Inspect(w)
    <2>1. Others
      BY <1>11, <1>0 DEF Inspect
    <2>2. PcsTyped' /\ CtxTyped'
      BY <1>11, <1>0, GotoType DEF Inspect, PCs, CtxTyped
    <2> QED
      BY <2>1, <2>2
  <1>12. CASE Reserve(w)
    <2>1. Others
      BY <1>12, <1>0 DEF Reserve
    <2>2. PcsTyped' /\ CtxTyped'
      BY <1>12, <1>0, GotoType DEF Reserve, PCs, CtxTyped
    <2> QED
      BY <2>1, <2>2
  <1>13. CASE Recheck(w)
    <2>1. Others
      BY <1>13, <1>0 DEF Recheck
    <2>2. PcsTyped' /\ CtxTyped'
      BY <1>13, <1>0, GotoType DEF Recheck, PCs, CtxTyped
    <2> QED
      BY <2>1, <2>2
  <1>14. CASE Send(w)
    <2>1. Others
      BY <1>14, <1>0 DEF Send
    <2>2. PcsTyped' /\ CtxTyped'
      BY <1>14, <1>0, GotoType DEF Send, PCs, CtxTyped
    <2> QED
      BY <2>1, <2>2
  <1>15. CASE Note(w)
    <2>1. Others
      BY <1>15, <1>0 DEF Note, ClaimAfter
    <2>2. PcsTyped' /\ CtxTyped'
      BY <1>15, <1>0, GotoType DEF Note, PCs, CtxTyped
    <2> QED
      BY <2>1, <2>2
  <1>16. CASE Done(w)
    <2>1. Others
      BY <1>16, <1>0, SettleType DEF Done, Settled
    <2>2. PcsTyped' /\ CtxTyped'
      BY <1>16, <1>0, SettleType DEF Done, Settled
    <2> QED
      BY <2>1, <2>2
  <1>17. CASE LimitStep(w)
    <2>1. Others
      BY <1>17, <1>0, RecordType DEF LimitStep, RecordStates
    <2>2. PcsTyped' /\ CtxTyped'
      BY <1>17, <1>0, GotoType DEF LimitStep, PCs, CtxTyped
    <2> QED
      BY <2>1, <2>2
  <1>18. CASE LimitRun(w)
    <2>1. Others
      BY <1>18, <1>0, RunConstants DEF LimitRun, Runs, Collected, Dispatches
    <2>2. PcsTyped' /\ CtxTyped'
      BY <1>18, <1>0, IdleType, GotoType, ContextType DEF LimitRun, PCs
    <2> QED
      BY <2>1, <2>2
  <1>19. CASE Final(w)
    <2>1. Others
      BY <1>19, <1>0 DEF Final, Report, FinalStatus, Runs, Collected
    <2>2. PcsTyped' /\ CtxTyped'
      BY <1>19, <1>0, IdleType, GotoType, ContextType DEF Final, PCs
    <2> QED
      BY <2>1, <2>2
  <1>20. CASE Unlock(w)
    <2>1. Others
      BY <1>20, <1>0 DEF Unlock
    <2>2. PcsTyped' /\ CtxTyped'
      BY <1>20, <1>0, GotoType DEF Unlock, PCs, CtxTyped
    <2> QED
      BY <2>1, <2>2
  <1>21. CASE PrepRead(w)
    <2>1. Others
      BY <1>21, <1>0 DEF PrepRead
    <2>2. PcsTyped' /\ CtxTyped'
      <3>1. CASE Finish(w, FALSE)
        BY <1>0, <3>1, FinishType
      <3>2. CASE ~Finish(w, FALSE)
        <4>1. /\ Goto(w, "prepMake")
              /\ ctx' = [ctx EXCEPT ![w].seen = run.status, ![w].dispatch = run.dispatch,
                                   ![w].wanted = run.publishes]
          BY <1>21, <3>2 DEF PrepRead
        <4>2. ctx' = [ctx EXCEPT ![w] = [ctx[w] EXCEPT !.seen = run.status,
                                   !.dispatch = run.dispatch, !.wanted = run.publishes]]
          BY <1>0, <4>1 DEF CtxTyped
        <4>3. PcsTyped'
          BY <1>0, <4>1, GotoType DEF PCs
        <4> QED
          BY <1>0, <1>p, <4>2, <4>3, ContextType
      <3> QED
        BY <3>1, <3>2
    <2> QED
      BY <2>1, <2>2
  <1>22. CASE PrepMake(w)
    <2>1. CASE PrepLook(w)
      <3>1. CtxTyped'
        <4>1. PICK s \in ctx[w].wanted : ctx' = [ctx EXCEPT ![w].branch = s]
          BY <2>1 DEF PrepLook
        <4> QED
          BY <1>0, <1>b, <4>1 DEF Contexts, CtxTyped
      <3>2. PcsTyped'
        BY <2>1, <1>0, GotoType DEF PrepLook, PCs
      <3> QED
        BY <2>1, <1>0, <3>1, <3>2 DEF PrepLook
    <2>2. CASE PrepItem(w)
      BY <2>2, <1>0, <1>i, GotoType DEF PrepItem, PCs, CtxTyped
    <2>3. CASE PrepFind(w)
      BY <2>3, <1>0, GotoType DEF PrepFind, PCs, CtxTyped
    <2>4. CASE PrepEntry(w)
      BY <2>4, <1>0, <1>i, GotoType DEF PrepEntry, PCs, CtxTyped
    <2>5. CASE PrepQueue(w)
      BY <2>5, <1>0, <1>n DEF PrepQueue
    <2>6. CASE PrepFail(w)
      <3>1. run' \in Runs
        BY <2>6, <1>0 DEF PrepFail, Runs
      <3> QED
        BY <2>6, <1>0, <1>n, <3>1 DEF PrepFail
    <2> QED
      BY <1>22, <2>1, <2>2, <2>3, <2>4, <2>5, <2>6 DEF PrepMake
  <1>23. CASE PrepMark(w)
    <2>1. Others
      BY <1>23, <1>0 DEF PrepMark, Runs
    <2>2. PcsTyped' /\ CtxTyped'
      BY <1>23, <1>0, FinishType DEF PrepMark
    <2> QED
      BY <2>1, <2>2
  <1>24. CASE Release(w)
    <2>1. Others
      <3>1. lock' \in Executors \cup {NoOne}
        BY <1>24, <1>0 DEF Release, LockAfter
      <3>2. jobs' \in [Tickets -> Jobs]
        BY <1>24, <1>r DEF Release
      <3>3. UNCHANGED <<graph, rows, api, world, faults>>
        BY <1>24 DEF Release
      <3> QED
        BY <1>0, <3>1, <3>2, <3>3
    <2>2. PcsTyped' /\ CtxTyped'
      BY <1>24, <1>0, IdleType, GotoType, ContextType DEF Release, PCs
    <2> QED
      BY <2>1, <2>2
  <1> QED
    BY <1>1, <1>2, <1>3, <1>4, <1>5, <1>6, <1>7, <1>8, <1>9, <1>10, <1>11, <1>12, <1>13, <1>14, <1>15, <1>16, <1>17, <1>18, <1>19, <1>20, <1>21, <1>22, <1>23, <1>24 DEF Step

\* The faults, the queue, the clock and people keep every type too.
LEMMA EnvironmentType == ASSUME TypeOK, Environment PROVE TypeOK'
  <1> USE DEF rows, execs, api, world, TypeOK
  <1>1. ASSUME NEW w \in Executors, Crash(w) PROVE TypeOK'
    <2>1. pc' \in [Executors -> PCs]
      BY <1>1 DEF Crash, Goto, PCs
    <2>2. ctx' \in [Executors -> Contexts]
      BY <1>1, IdleType DEF Crash
    <2>3. jobs' \in [Tickets -> Jobs]
      <3>1. \A t \in Tickets : [jobs[t] EXCEPT !.owner = NoOne] \in Jobs
        BY DEF Jobs
      <3> QED
        BY <1>1, <3>1 DEF Crash
    <2>4. faults' \in 0 .. MaxFaults
      BY <1>1, RunConstants DEF Crash
    <2> QED
      BY <1>1, <2>1, <2>2, <2>3, <2>4 DEF Crash
  <1>2. ASSUME NEW t \in Tickets, Stalled(t) PROVE TypeOK'
    <2>1. [jobs[t] EXCEPT !.stalled = TRUE, !.state = "waiting"] \in Jobs
      BY StalledJob
    <2>2. jobs' \in [Tickets -> Jobs]
      BY <1>2, <2>1, JobType DEF Stalled
    <2> QED
      BY <1>2, <2>2 DEF Stalled
  <1>3. ASSUME NEW t \in Tickets, StallLive(t) PROVE TypeOK'
    <2>1. jobs' \in [Tickets -> Jobs]
      BY <1>3 DEF StallLive, Jobs
    <2>2. faults' \in 0 .. MaxFaults
      BY <1>3, RunConstants DEF StallLive
    <2> QED
      BY <1>3, <2>1, <2>2 DEF StallLive
  <1>4. ASSUME NextDay PROVE TypeOK'
    BY <1>4 DEF NextDay, Runs
  <1> QED
    BY <1>1, <1>2, <1>3, <1>4 DEF Environment

LEMMA DispatchType == ASSUME TypeOK, Dispatch PROVE TypeOK'
  <1> USE DEF rows, execs, api, world, TypeOK
  <1>0. FirstJob \in Tickets /\ \A v \in Dispatches : v \in Tickets
    BY DEF Tickets
  <1>1. CASE CreateEnqueue
    <2>1. PICK added \in BOOLEAN, refused \in BOOLEAN :
            /\ jobs' = IF added THEN [jobs EXCEPT ![FirstJob] = NewJob] ELSE jobs
            /\ run' = IF refused THEN [run EXCEPT !.status = "failed"] ELSE run
      BY <1>1 DEF CreateEnqueue
    <2>2. run' \in Runs
      BY <2>1 DEF Runs
    <2>3. jobs' \in [Tickets -> Jobs]
      BY <1>0, <2>1, JobType
    <2> QED
      BY <1>1, <2>2, <2>3 DEF CreateEnqueue
  <1>2. CASE Redispatch
    BY <1>2, JobType DEF Redispatch
  <1>3. ASSUME NEW v \in Dispatches, Enqueue(v) PROVE TypeOK'
    BY <1>3, JobType DEF Enqueue
  <1> QED
    BY <1>1, <1>2, <1>3 DEF Dispatch

LEMMA PeopleType == ASSUME TypeOK, People PROVE TypeOK'
  <1> USE DEF rows, execs, api, world, TypeOK
  <1>0. run.dispatch \in Dispatches /\ (run.dispatch < MaxDispatch => run.dispatch + 1 \in Dispatches)
    BY RunConstants DEF Runs, Dispatches
  <1>1. ASSUME NEW s \in Steps, RetryReply(s) PROVE TypeOK'
    <2>1. run' \in Runs
      BY <1>0, <1>1 DEF RetryReply, Runs
    <2>2. rec' \in [Steps -> Records]
      BY <1>1 DEF RetryReply, Records
    <2> QED
      BY <1>1, <2>1, <2>2 DEF RetryReply
  <1>2. ASSUME NEW s \in Steps, NEW approve \in BOOLEAN, Resolve(s, approve) PROVE TypeOK'
    <2>1. run' \in Runs
      BY <1>0, <1>2 DEF Resolve, Runs
    <2>2. rec' \in [Steps -> Records]
      <3>1. PICK status \in {"skipped", "queued", "completed"} :
              rec' = [rec EXCEPT ![s].approved = approve, ![s].status = status]
        BY <1>2 DEF Resolve
      <3>2. rec[s] \in Records
        OBVIOUS
      <3>3. [rec[s] EXCEPT !.approved = approve, !.status = status] \in Records
        BY <3>2 DEF Records, Settled
      <3> QED
        BY <3>1, <3>3
    <2>3. pending' \subseteq Dispatches /\ agreed' \subseteq Steps
      BY <1>0, <1>2 DEF Resolve
    <2> QED
      BY <1>2, <2>1, <2>2, <2>3 DEF Resolve
  <1> QED
    BY <1>1, <1>2 DEF People

LEMMA WorkerType == ASSUME TypeOK, Worker PROVE TypeOK'
  <1> USE DEF rows, execs, api, world, TypeOK
  <1>1. ASSUME NEW w \in Executors, StartPrepare(w) PROVE TypeOK'
    BY <1>1 DEF StartPrepare, Goto, PCs
  <1>2. ASSUME NEW w \in Executors, NEW t \in Tickets, StartJob(w, t) PROVE TypeOK'
    <2>1. [jobs[t] EXCEPT !.state = "active", !.owner = w] \in Jobs
      BY TakenJob
    <2>2. jobs' = [jobs EXCEPT ![t] = [jobs[t] EXCEPT !.state = "active", !.owner = w]]
      BY <1>2 DEF StartJob
    <2>3. jobs' \in [Tickets -> Jobs] /\ pc' \in [Executors -> PCs]
      BY <1>2, <2>1, <2>2 DEF StartJob, Goto, PCs
    <2> QED
      BY <1>2, <2>3 DEF StartJob
  <1> QED
    BY <1>1, <1>2, StepType DEF Worker

\* Every row, job and local variable keeps its type.
THEOREM TypeCorrect == Spec => []TypeOK
  <1>1. TypeOK /\ [Next]_vars => TypeOK'
    <2> SUFFICES ASSUME TypeOK, [Next]_vars PROVE TypeOK'
      OBVIOUS
    <2>1. CASE Next
      BY <2>1, WorkerType, EnvironmentType, DispatchType, PeopleType DEF Next
    <2>2. CASE UNCHANGED vars
      BY <2>2 DEF vars, TypeOK
    <2> QED
      BY <2>1, <2>2
  <1> QED
    BY <1>1, InitType, PTL DEF Spec

-----------------------------------------------------------------------------
(* The inductive invariant.                                                 *)

LEMMA InitInv == Init => IInv
  BY RunConstants DEF Init, IInv, OwnsLock, StandsAtStep, ClaimUnder, Consents, Outside,
     AtStep, EffectOnce, EffectClaimed, EffectAgreed

\* What one executor's position says of the rows.
Under(w) ==
  /\ pc[w] \notin Outside => lock = w
  /\ pc[w] \in AtStep => ctx[w].at \in 1 .. Len(graph.order)
  /\ pc[w] \in {"recheck", "send", "noteDone", "noteRefused", "noteUnclear"} =>
       claim[Current(w)] = "sending"
  /\ pc[w] \in {"recheck", "send", "noteRefused"} => effects[Current(w)] = 0
  /\ pc[w] = "noteDone" => effects[Current(w)] > 0
  /\ pc[w] \in {"inspect", "reserve", "recheck", "send"} => Current(w) \in agreed

Effects == EffectOnce /\ EffectClaimed /\ EffectAgreed

LEMMA Parts == IInv <=> (\A w \in Executors : Under(w)) /\ Consents /\ Effects
  BY DEF IInv, OwnsLock, StandsAtStep, ClaimUnder, Under, Effects

\* An executor that stands aside while another holds the lock, or that is
\* outside, is not disturbed.
LEMMA Undisturbed ==
  ASSUME NEW w \in Executors, Under(w), graph' = graph, pc'[w] = pc[w], ctx'[w] = ctx[w],
         agreed \subseteq agreed',
         pc[w] \in Outside \/ (lock' = lock /\ claim' = claim /\ effects' = effects)
  PROVE  Under(w)'
  BY DEF Under, Current, Outside, AtStep

\* Actions that leave the executors, the claims and the effects alone.
LEMMA AtRest ==
  ASSUME IInv, UNCHANGED <<graph, claim, lock, pc, ctx, effects>>, agreed \subseteq agreed',
         Consents'
  PROVE  IInv'
  <1>1. \A w \in Executors : Under(w)'
    BY Parts, Undisturbed
  <1>2. Effects'
    BY Parts DEF Effects, EffectOnce, EffectClaimed, EffectAgreed
  <1> QED
    BY <1>1, <1>2, Parts DEF IInv, OwnsLock, StandsAtStep, ClaimUnder, Under, Effects

\* A step moves its own executor only, and the others stand outside unless it
\* leaves the lock, the claims and the effects alone.
LEMMA StepOthers ==
  ASSUME TypeOK, IInv, NEW w \in Executors, Step(w), NEW v \in Executors, v # w
  PROVE  Under(v)'
  <1>0. Under(v) /\ Under(w) /\ v # NoOne /\ w # NoOne
    BY Parts, RunConstants
  <1> DEFINE Elsewhere == pc'[v] = pc[v] /\ ctx'[v] = ctx[v] /\ graph' = graph /\ agreed' = agreed
             Apart == pc[w] \notin Outside \/
                        (claim' = claim /\ effects' = effects /\ (lock' = lock \/ lock \in {NoOne, w}))
  <1> SUFFICES Elsewhere /\ Apart
    BY <1>0, Undisturbed DEF Under
  <1> USE DEF rows, execs, api, world, TypeOK
  <1>1. CASE Lock(w)
    BY <1>1 DEF Lock, Goto, Finish, Outside
  <1>2. CASE Read(w)
    BY <1>2 DEF Read, Goto, Outside
  <1>3. CASE Claim(w)
    BY <1>3 DEF Claim, Goto, Outside
  <1>4. CASE Abort(w)
    BY <1>4 DEF Abort, Finish, Outside
  <1>5. CASE Visit(w)
    BY <1>5 DEF Visit, Goto, Pass, Outside
  <1>6. CASE PerformPlain(w)
    BY <1>6 DEF PerformPlain, Settle, Goto, Pass, Outside
  <1>7. CASE PerformApproval(w)
    BY <1>7 DEF PerformApproval, Settle, Goto, Pass, Outside
  <1>8. CASE PerformAction(w)
    BY <1>8 DEF PerformAction, Goto, Outside
  <1>9. CASE DraftReply(w)
    BY <1>9 DEF DraftReply, Settle, Goto, Pass, Outside
  <1>10. CASE HoldReply(w)
    BY <1>10 DEF HoldReply, Settle, Goto, Pass, Outside
  <1>11. CASE Inspect(w)
    BY <1>11 DEF Inspect, Goto, Outside
  <1>12. CASE Reserve(w)
    BY <1>12 DEF Reserve, Goto, Outside
  <1>13. CASE Recheck(w)
    BY <1>13 DEF Recheck, Goto, Outside
  <1>14. CASE Send(w)
    BY <1>14 DEF Send, Goto, Outside
  <1>15. CASE Note(w)
    BY <1>15 DEF Note, Goto, Outside
  <1>16. CASE Done(w)
    BY <1>16 DEF Done, Settle, Goto, Pass, Outside
  <1>17. CASE LimitStep(w)
    BY <1>17 DEF LimitStep, Goto, Outside
  <1>18. CASE LimitRun(w)
    BY <1>18 DEF LimitRun, Goto, Outside
  <1>19. CASE Final(w)
    BY <1>19 DEF Final, Goto, Outside
  <1>20. CASE Unlock(w)
    BY <1>20 DEF Unlock, Goto, Outside
  <1>21. CASE PrepRead(w)
    BY <1>21 DEF PrepRead, Goto, Finish, Outside
  <1>22. CASE PrepMake(w)
    BY <1>22 DEF PrepMake, PrepLook, PrepItem, PrepFind, PrepEntry, PrepQueue, PrepFail,
       NextBranch, Branching, Goto, Outside
  <1>23. CASE PrepMark(w)
    BY <1>23 DEF PrepMark, Finish, Outside
  <1>24. CASE Release(w)
    BY <1>24 DEF Release, Goto, Outside, LockAfter
  <1> QED
    BY <1>1, <1>2, <1>3, <1>4, <1>5, <1>6, <1>7, <1>8, <1>9, <1>10, <1>11, <1>12, <1>13, <1>14, <1>15, <1>16, <1>17, <1>18, <1>19, <1>20, <1>21, <1>22, <1>23, <1>24 DEF Step

\* Nobody's consent is an executor's to give.
LEMMA StepConsents ==
  ASSUME TypeOK, IInv, NEW w \in Executors, Step(w)
  PROVE  Consents'
  <1> DEFINE Kept == /\ graph' = graph /\ agreed' = agreed
                     /\ \A s \in Steps : rec'[s].approved = rec[s].approved
  <1> SUFFICES Kept
    BY DEF IInv, Consents
  <1>0. rec \in [Steps -> Records]
    BY DEF TypeOK
  <1> USE DEF rows, execs, api, world
  <1>1. CASE Lock(w)
    BY <1>1 DEF Lock
  <1>2. CASE Read(w)
    BY <1>2 DEF Read
  <1>3. CASE Claim(w)
    BY <1>3 DEF Claim
  <1>4. CASE Abort(w)
    BY <1>4 DEF Abort
  <1>5. CASE Visit(w)
    BY <1>5, <1>0 DEF Visit, Records
  <1>6. CASE PerformPlain(w)
    BY <1>6, <1>0 DEF PerformPlain, Settle, Records
  <1>7. CASE PerformApproval(w)
    BY <1>7, <1>0 DEF PerformApproval, Settle, Records
  <1>8. CASE PerformAction(w)
    BY <1>8 DEF PerformAction
  <1>9. CASE DraftReply(w)
    BY <1>9, <1>0 DEF DraftReply, Settle, Records
  <1>10. CASE HoldReply(w)
    BY <1>10, <1>0 DEF HoldReply, Settle, Records
  <1>11. CASE Inspect(w)
    BY <1>11 DEF Inspect
  <1>12. CASE Reserve(w)
    BY <1>12 DEF Reserve
  <1>13. CASE Recheck(w)
    BY <1>13 DEF Recheck
  <1>14. CASE Send(w)
    BY <1>14 DEF Send
  <1>15. CASE Note(w)
    BY <1>15 DEF Note
  <1>16. CASE Done(w)
    BY <1>16, <1>0 DEF Done, Settle, Records
  <1>17. CASE LimitStep(w)
    BY <1>17, <1>0 DEF LimitStep, Records
  <1>18. CASE LimitRun(w)
    BY <1>18 DEF LimitRun
  <1>19. CASE Final(w)
    BY <1>19 DEF Final
  <1>20. CASE Unlock(w)
    BY <1>20 DEF Unlock
  <1>21. CASE PrepRead(w)
    BY <1>21 DEF PrepRead
  <1>22. CASE PrepMake(w)
    BY <1>22 DEF PrepMake, PrepLook, PrepItem, PrepFind, PrepEntry, PrepQueue, PrepFail
  <1>23. CASE PrepMark(w)
    BY <1>23 DEF PrepMark
  <1>24. CASE Release(w)
    BY <1>24 DEF Release
  <1> QED
    BY <1>1, <1>2, <1>3, <1>4, <1>5, <1>6, <1>7, <1>8, <1>9, <1>10, <1>11, <1>12, <1>13, <1>14, <1>15, <1>16, <1>17, <1>18, <1>19, <1>20, <1>21, <1>22, <1>23, <1>24 DEF Step

\* A step leaves its own executor where the invariant says it may stand.
LEMMA StepUnder ==
  ASSUME TypeOK, IInv, NEW w \in Executors, Step(w)
  PROVE  Under(w)'
  <1>0. /\ Under(w) /\ Consents /\ Effects
        /\ pc \in [Executors -> PCs] /\ ctx \in [Executors -> Contexts]
        /\ claim \in [Steps -> {"none", "sending", "succeeded", "failed", "unclear"}]
        /\ effects \in [Steps -> Nat]
    BY Parts DEF TypeOK
  <1>g. graph.order \in Seq(Steps) /\ graph.parents \in [Steps -> SUBSET Steps]
    BY GraphType DEF TypeOK
  <1>c. pc[w] \in AtStep => Current(w) \in Steps
    BY <1>0, CurrentType DEF Under, TypeOK
  <1>s. ctx' = ctx /\ graph' = graph => Current(w)' = Current(w)
    BY DEF Current
  <1> USE DEF rows, execs, api, world, Under, Outside, AtStep
  <1>a. ASSUME NEW s \in Steps, claim[s] \in {"none", "failed"} PROVE effects[s] = 0
    BY <1>0, <1>a DEF Effects, EffectClaimed
  <1>p. ASSUME NEW s \in Steps, PersonApproved(s) PROVE s \in agreed
    BY <1>0, <1>g, <1>p DEF Consents, PersonApproved
  <1>1. CASE Lock(w)
    BY <1>1, <1>0 DEF Lock, Goto, Finish
  <1>2. CASE Read(w)
    BY <1>2, <1>0 DEF Read, Goto
  <1>3. CASE Claim(w)
    BY <1>3, <1>0 DEF Claim, Goto
  <1>4. CASE Abort(w)
    BY <1>4, <1>0 DEF Abort, Finish
  <1>5. CASE Visit(w)
    <2>1. ctx[w].at \in 1 .. Len(graph.order)
      BY <1>5, <1>0, <1>g DEF Visit, AtEnd, Contexts
    <2> QED
      BY <1>5, <1>0, <2>1 DEF Visit, Goto, Pass
  <1>6. CASE PerformPlain(w)
    BY <1>6, <1>0 DEF PerformPlain, Settle, Goto, Pass
  <1>7. CASE PerformApproval(w)
    BY <1>7, <1>0 DEF PerformApproval, Settle, Goto, Pass
  <1>8. CASE PerformAction(w)
    BY <1>8, <1>0, <1>c, <1>s, <1>a, <1>p DEF PerformAction, Goto, Fresh
  <1>9. CASE DraftReply(w)
    BY <1>9, <1>0 DEF DraftReply, Settle, Goto, Pass
  <1>10. CASE HoldReply(w)
    BY <1>10, <1>0, <1>c, <1>s DEF HoldReply, Settle, Goto, Pass, Approved, Consents
  <1>11. CASE Inspect(w)
    BY <1>11, <1>0, <1>c, <1>s DEF Inspect, Goto
  <1>12. CASE Reserve(w)
    BY <1>12, <1>0, <1>c, <1>s, <1>a DEF Reserve, Goto, Reservable
  <1>13. CASE Recheck(w)
    BY <1>13, <1>0, <1>c, <1>s DEF Recheck, Goto
  <1>14. CASE Send(w)
    BY <1>14, <1>0, <1>c, <1>s DEF Send, Goto
  <1>15. CASE Note(w)
    BY <1>15, <1>0, <1>c, <1>s DEF Note, Goto
  <1>16. CASE Done(w)
    BY <1>16, <1>0 DEF Done, Settle, Goto, Pass
  <1>17. CASE LimitStep(w)
    BY <1>17, <1>0 DEF LimitStep, Goto
  <1>18. CASE LimitRun(w)
    BY <1>18, <1>0 DEF LimitRun, Goto
  <1>19. CASE Final(w)
    BY <1>19, <1>0 DEF Final, Goto
  <1>20. CASE Unlock(w)
    BY <1>20, <1>0 DEF Unlock, Goto
  <1>21. CASE PrepRead(w)
    BY <1>21, <1>0 DEF PrepRead, Goto, Finish
  <1>22. CASE PrepMake(w)
    BY <1>22, <1>0 DEF PrepMake, PrepLook, PrepItem, PrepFind, PrepEntry, PrepQueue, PrepFail,
       NextBranch, Branching, Goto
  <1>23. CASE PrepMark(w)
    BY <1>23, <1>0 DEF PrepMark, Finish
  <1>24. CASE Release(w)
    BY <1>24, <1>0 DEF Release, Goto
  <1> QED
    BY <1>1, <1>2, <1>3, <1>4, <1>5, <1>6, <1>7, <1>8, <1>9, <1>10, <1>11, <1>12, <1>13, <1>14, <1>15, <1>16, <1>17, <1>18, <1>19, <1>20, <1>21, <1>22, <1>23, <1>24 DEF Step

\* A step performs nothing twice, leaves nothing it performed behind a claim
\* that may be taken, and performs nothing that nobody agreed to.
LEMMA StepEffects ==
  ASSUME TypeOK, IInv, NEW w \in Executors, Step(w)
  PROVE  Effects'
  <1>0. /\ Under(w) /\ Effects
        /\ claim \in [Steps -> {"none", "sending", "succeeded", "failed", "unclear"}]
        /\ effects \in [Steps -> Nat]
    BY Parts DEF TypeOK
  <1>c. pc[w] \in AtStep => Current(w) \in Steps
    BY <1>0, CurrentType DEF Under, TypeOK
  <1>s. ASSUME UNCHANGED <<claim, effects, agreed>> PROVE Effects'
    BY <1>0, <1>s DEF Effects, EffectOnce, EffectClaimed, EffectAgreed
  <1> USE DEF rows, execs, api, world
  <1>1. CASE Lock(w)
    BY <1>1, <1>s DEF Lock
  <1>2. CASE Read(w)
    BY <1>2, <1>s DEF Read
  <1>3. CASE Claim(w)
    BY <1>3, <1>s DEF Claim
  <1>4. CASE Abort(w)
    BY <1>4, <1>s DEF Abort
  <1>5. CASE Visit(w)
    BY <1>5, <1>s DEF Visit
  <1>6. CASE PerformPlain(w)
    BY <1>6, <1>s DEF PerformPlain
  <1>7. CASE PerformApproval(w)
    BY <1>7, <1>s DEF PerformApproval
  <1>8. CASE PerformAction(w)
    BY <1>8, <1>0, <1>c DEF PerformAction, Fresh, AtStep, Under, Effects, EffectOnce, EffectClaimed, EffectAgreed
  <1>9. CASE DraftReply(w)
    BY <1>9, <1>s DEF DraftReply
  <1>10. CASE HoldReply(w)
    BY <1>10, <1>s DEF HoldReply
  <1>11. CASE Inspect(w)
    BY <1>11, <1>s DEF Inspect
  <1>12. CASE Reserve(w)
    BY <1>12, <1>0, <1>c DEF Reserve, Reservable, AtStep, Under, Effects, EffectOnce, EffectClaimed, EffectAgreed
  <1>13. CASE Recheck(w)
    BY <1>13, <1>0, <1>c DEF Recheck, AtStep, Under, Effects, EffectOnce, EffectClaimed, EffectAgreed
  <1>14. CASE Send(w)
    BY <1>14, <1>0, <1>c DEF Send, AtStep, Under, Effects, EffectOnce, EffectClaimed, EffectAgreed
  <1>15. CASE Note(w)
    BY <1>15, <1>0, <1>c DEF Note, ClaimAfter, AtStep, Under, Effects, EffectOnce, EffectClaimed, EffectAgreed
  <1>16. CASE Done(w)
    BY <1>16, <1>s DEF Done
  <1>17. CASE LimitStep(w)
    BY <1>17, <1>s DEF LimitStep
  <1>18. CASE LimitRun(w)
    BY <1>18, <1>s DEF LimitRun
  <1>19. CASE Final(w)
    BY <1>19, <1>s DEF Final
  <1>20. CASE Unlock(w)
    BY <1>20, <1>s DEF Unlock
  <1>21. CASE PrepRead(w)
    BY <1>21, <1>s DEF PrepRead
  <1>22. CASE PrepMake(w)
    BY <1>22, <1>s DEF PrepMake, PrepLook, PrepItem, PrepFind, PrepEntry, PrepQueue, PrepFail
  <1>23. CASE PrepMark(w)
    BY <1>23, <1>s DEF PrepMark
  <1>24. CASE Release(w)
    BY <1>24, <1>s DEF Release
  <1> QED
    BY <1>1, <1>2, <1>3, <1>4, <1>5, <1>6, <1>7, <1>8, <1>9, <1>10, <1>11, <1>12, <1>13, <1>14, <1>15, <1>16, <1>17, <1>18, <1>19, <1>20, <1>21, <1>22, <1>23, <1>24 DEF Step

LEMMA StepInv == ASSUME TypeOK, IInv, NEW w \in Executors, Step(w) PROVE IInv'
  <1>1. \A v \in Executors : Under(v)'
    BY StepOthers, StepUnder
  <1> QED
    BY <1>1, StepConsents, StepEffects
    DEF IInv, OwnsLock, StandsAtStep, ClaimUnder, Under, Effects

-----------------------------------------------------------------------------
(* The other actors.                                                        *)

LEMMA WorkerInv == ASSUME TypeOK, IInv, Worker PROVE IInv'
  <1> SUFFICES ASSUME NEW w \in Executors,
                      StartPrepare(w) \/ (\E t \in Tickets : StartJob(w, t))
               PROVE  IInv'
    BY StepInv DEF Worker
  <1>1. /\ pc[w] = "idle" /\ pc' \in {[pc EXCEPT ![w] = "lock"], [pc EXCEPT ![w] = "prepLock"]}
        /\ UNCHANGED <<graph, rec, claim, lock, ctx, effects, agreed>>
    BY DEF StartPrepare, StartJob, Goto, rows, execs, api, world
  <1>2. ASSUME NEW v \in Executors PROVE Under(v)'
    BY <1>1, Parts DEF TypeOK, Under, Current, Outside, AtStep
  <1>3. Consents' /\ Effects'
    BY <1>1, Parts DEF Consents, Effects, EffectOnce, EffectClaimed, EffectAgreed
  <1> QED
    BY <1>2, <1>3 DEF IInv, OwnsLock, StandsAtStep, ClaimUnder, Under, Effects

\* A process dies: it owns nothing and stands outside.
LEMMA CrashInv == ASSUME TypeOK, IInv, NEW w \in Executors, Crash(w) PROVE IInv'
  <1>1. /\ pc' = [pc EXCEPT ![w] = "idle"] /\ ctx' = [ctx EXCEPT ![w] = IdleCtx]
        /\ lock' = IF lock = w THEN NoOne ELSE lock
        /\ UNCHANGED <<graph, rec, claim, effects, agreed>>
    BY DEF Crash, Goto, rows, world
  <1>2. ASSUME NEW v \in Executors PROVE Under(v)'
    <2>1. CASE v = w
      BY <1>1, <2>1 DEF TypeOK, Under, Outside, AtStep
    <2>2. CASE v # w
      BY <1>1, <2>2, Parts, Undisturbed DEF TypeOK, Under
    <2> QED
      BY <2>1, <2>2
  <1>3. Consents' /\ Effects'
    BY <1>1, Parts DEF Consents, Effects, EffectOnce, EffectClaimed, EffectAgreed
  <1> QED
    BY <1>2, <1>3 DEF IInv, OwnsLock, StandsAtStep, ClaimUnder, Under, Effects

LEMMA EnvironmentInv == ASSUME TypeOK, IInv, Environment PROVE IInv'
  <1> USE DEF rows, execs, api, world
  <1>1. ASSUME UNCHANGED <<graph, rec, agreed>> PROVE Consents'
    BY <1>1 DEF IInv, Consents
  <1>2. ASSUME NEW t \in Tickets, Stalled(t) \/ StallLive(t) PROVE IInv'
    BY <1>1, <1>2, AtRest DEF Stalled, StallLive
  <1>3. ASSUME NextDay PROVE IInv'
    BY <1>1, <1>3, AtRest DEF NextDay
  <1> QED
    BY <1>2, <1>3, CrashInv DEF Environment

LEMMA DispatchInv == ASSUME TypeOK, IInv, Dispatch PROVE IInv'
  <1> USE DEF rows, execs, api, world
  <1>1. UNCHANGED <<graph, rec, claim, lock, pc, ctx, effects, agreed>>
    BY DEF Dispatch, CreateEnqueue, Redispatch, Enqueue
  <1>2. Consents'
    BY <1>1 DEF IInv, Consents
  <1> QED
    BY <1>1, <1>2, AtRest

\* An approval agrees to the step and to what the step's children do.
LEMMA PeopleInv == ASSUME TypeOK, IInv, People PROVE IInv'
  <1> USE DEF rows, execs, api, world
  <1>0. rec \in [Steps -> Records] /\ Consents /\ graph.parents \in [Steps -> SUBSET Steps]
    BY GraphType DEF TypeOK, IInv
  <1>1. ASSUME NEW s \in Steps, RetryReply(s) PROVE IInv'
    <2>1. Consents'
      BY <1>0, <1>1 DEF RetryReply, Consents, Records
    <2> QED
      BY <1>1, <2>1, AtRest DEF RetryReply
  <1>2. ASSUME NEW s \in Steps, NEW approve \in BOOLEAN, Resolve(s, approve) PROVE IInv'
    <2>1. graph' = graph /\ agreed \subseteq agreed'
      BY <1>2 DEF Resolve
    <2>2. \A t \in Steps : rec'[t].approved = IF t = s THEN approve ELSE rec[t].approved
      BY <1>0, <1>2 DEF Resolve, Records
    <2>3. approve => s \in agreed' /\ \A t \in Steps : s \in graph.parents[t] => t \in agreed'
      BY <1>2 DEF Resolve
    <2>4. Consents'
      BY <1>0, <2>1, <2>2, <2>3 DEF Consents
    <2> QED
      BY <1>2, <2>1, <2>4, AtRest DEF Resolve
  <1> QED
    BY <1>1, <1>2 DEF People

\* The lock has one owner, and what was performed is behind its claim.
THEOREM Inductive == Spec => []IInv
  <1>1. TypeOK /\ IInv /\ [Next]_vars => IInv'
    <2> SUFFICES ASSUME TypeOK, IInv, [Next]_vars PROVE IInv'
      OBVIOUS
    <2>1. CASE Next
      BY <2>1, WorkerInv, EnvironmentInv, DispatchInv, PeopleInv DEF Next
    <2>2. CASE UNCHANGED vars
      <3>1. Consents'
        BY <2>2 DEF vars, IInv, Consents
      <3> QED
        BY <2>2, <3>1, AtRest DEF vars
    <2> QED
      BY <2>1, <2>2
  <1> QED
    BY <1>1, InitInv, TypeCorrect, PTL DEF Spec

\* No crash, redelivery, duplicate job or retry performs an action or a reply
\* a second time.
THEOREM PerformedOnce == Spec => []EffectOnce
  <1>1. IInv => EffectOnce
    BY DEF IInv
  <1> QED
    BY <1>1, Inductive, PTL

\* What was performed stays behind a claim that nobody may take again.
THEOREM PerformedClaimed == Spec => []EffectClaimed
  <1>1. IInv => EffectClaimed
    BY DEF IInv
  <1> QED
    BY <1>1, Inductive, PTL

\* Nothing is answered outside that no person agreed to.
THEOREM PerformedAgreed == Spec => []EffectAgreed
  <1>1. IInv => EffectAgreed
    BY DEF IInv
  <1> QED
    BY <1>1, Inductive, PTL

-----------------------------------------------------------------------------
(* The walk and the records.                                                *)

\* What one executor's walk says of the run and its records.
Walks(w) ==
  pc[w] \in Walking =>
    /\ run.status \notin {"waiting_approval", "completed"}
    /\ Some(w, "waiting") => SomeoneCan
    /\ pc[w] \in AtStep => rec[Current(w)].status = "running"

\* What one executor's preparation says of the run and its items.
PreparesBranch(w) ==
  /\ pc[w] \in Branching => ctx[w].branch \in Steps
  /\ pc[w] = "prepItem" => items[ctx[w].branch].content = 0
  /\ pc[w] = "prepEntry" => items[ctx[w].branch].publication = 0
  /\ pc[w] = "prepQueue" => items[ctx[w].branch].publication > 0
  /\ pc[w] \in Preparing /\ Unchanged(w) /\ run.status = "completed" =>
       \A s \in run.publishes \ ctx[w].wanted : items[s].publication > 0

LEMMA WalkParts == /\ Walked <=> \A w \in Executors : Walks(w)
                   /\ Prepares <=> \A w \in Executors : PreparesBranch(w)
  BY DEF Walked, Walks, Prepares, PreparesBranch

\* A step leaves the other executors where they are, and one that takes or
\* frees the lock from outside leaves the rows alone too.
LEMMA StepElsewhere ==
  ASSUME TypeOK, NEW w \in Executors, Step(w)
  PROVE  /\ graph' = graph
         /\ \A v \in Executors \ {w} : pc'[v] = pc[v] /\ ctx'[v] = ctx[v]
         /\ pc[w] \in Outside => UNCHANGED rows
  <1> USE DEF rows, execs, api, world, TypeOK, Goto, Outside
  <1>1. CASE Lock(w) \/ Release(w)
    BY <1>1 DEF Lock, Release, Finish
  <1>2. CASE Read(w) \/ Claim(w) \/ Abort(w)
    BY <1>2 DEF Read, Claim, Abort, Finish
  <1>3. CASE Visit(w) \/ PerformPlain(w) \/ PerformApproval(w) \/ Done(w)
    BY <1>3 DEF Visit, PerformPlain, PerformApproval, Done, Settle, Pass
  <1>4. CASE PerformAction(w) \/ DraftReply(w) \/ HoldReply(w)
    BY <1>4 DEF PerformAction, DraftReply, HoldReply, Settle, Pass
  <1>5. CASE Inspect(w) \/ Reserve(w) \/ Recheck(w) \/ Send(w) \/ Note(w)
    BY <1>5 DEF Inspect, Reserve, Recheck, Send, Note
  <1>6. CASE LimitStep(w) \/ LimitRun(w) \/ Final(w) \/ Unlock(w)
    BY <1>6 DEF LimitStep, LimitRun, Final, Unlock
  <1>7. CASE PrepRead(w) \/ PrepMark(w)
    BY <1>7 DEF PrepRead, PrepMark, Finish
  <1>8. CASE PrepMake(w)
    BY <1>8 DEF PrepMake, PrepLook, PrepItem, PrepFind, PrepEntry, PrepQueue, PrepFail,
       NextBranch, Branching
  <1> QED
    BY <1>1, <1>2, <1>3, <1>4, <1>5, <1>6, <1>7, <1>8 DEF Step

\* So what the others do is undisturbed: they stand outside, or the step does.
LEMMA OthersWalk ==
  ASSUME TypeOK, IInv, WInv, Prepares, NEW w \in Executors, Step(w),
         NEW v \in Executors, v # w
  PROVE  Walks(v)' /\ PreparesBranch(v)'
  <1>1. Under(v) /\ Under(w) /\ Walks(v) /\ PreparesBranch(v)
    BY Parts, WalkParts DEF WInv
  <1>2. pc'[v] = pc[v] /\ ctx'[v] = ctx[v] /\ graph' = graph
    BY StepElsewhere
  <1>3. CASE pc[w] \in Outside
    BY <1>1, <1>2, <1>3, StepElsewhere
    DEF Walks, PreparesBranch, Some, SomeoneCan, Current, Unchanged, rows
  <1>4. CASE pc[w] \notin Outside
    <2>1. pc[v] \in Outside
      BY <1>1, <1>4 DEF Under
    <2> QED
      BY <1>2, <2>1
      DEF Walks, PreparesBranch, Outside, Walking, AtStep, Preparing, Branching
  <1> QED
    BY <1>3, <1>4

\* What a step may do to a record: it settles the one that runs, or runs one
\* that is not settled. Only what nobody approved comes to wait.
Reaches(s) ==
  /\ rec[s].status \in Settled \cup {"waiting"} => rec'[s].status = rec[s].status
  /\ rec'[s].status = "waiting" => rec[s].status = "waiting" \/ ~rec[s].approved
  /\ rec'[s].approved = rec[s].approved

LEMMA SettleReaches ==
  ASSUME TypeOK, NEW w \in Executors, NEW status, Current(w) \in Steps,
         rec[Current(w)].status = "running", Settle(w, status),
         status = "waiting" => ~rec[Current(w)].approved
  PROVE  \A s \in Steps : Reaches(s)
  <1>1. rec \in [Steps -> Records] /\ rec' = [rec EXCEPT ![Current(w)].status = status]
    BY DEF TypeOK, Settle
  <1> QED
    BY <1>1 DEF Reaches, Records, Settled

LEMMA StepReaches ==
  ASSUME TypeOK, IInv, WInv, NEW w \in Executors, Step(w)
  PROVE  \A s \in Steps : Reaches(s)
  <1>0. rec \in [Steps -> Records] /\ Under(w) /\ Walks(w) /\ Decided
    BY Parts, WalkParts DEF TypeOK, WInv
  <1>c. pc[w] \in AtStep => Current(w) \in Steps /\ rec[Current(w)].status = "running"
    BY <1>0, CurrentType DEF Under, Walks, Walking, TypeOK
  <1>u. ASSUME rec' = rec PROVE \A s \in Steps : Reaches(s)
    BY <1>u DEF Reaches
  <1> USE DEF rows, execs, api, world
  <1>1. CASE Lock(w) \/ Read(w) \/ Claim(w) \/ Abort(w) \/ Release(w)
    BY <1>1, <1>u DEF Lock, Read, Claim, Abort, Release
  <1>2. CASE Visit(w)
    <2>1. CASE rec' = rec
      BY <2>1, <1>u
    <2>2. CASE rec' # rec
      <3> DEFINE s == Current(w)
      <3>1. /\ Outcome(ctx[w].states, s) = "run"
            /\ rec' = [rec EXCEPT ![s].status = "running"]
        BY <1>2, <2>2 DEF Visit
      <3>2. rec[s].status \notin Settled \cup {"waiting"}
        BY <3>1 DEF Outcome, Settled
      <3> HIDE DEF s
      <3> QED
        BY <1>0, <3>1, <3>2 DEF Reaches, Records, Settled
    <2> QED
      BY <2>1, <2>2
  <1>3. CASE PerformPlain(w)
    <2>1. PICK status \in Settled : Settle(w, status)
      BY <1>3 DEF PerformPlain, Settled
    <2> QED
      BY <1>3, <1>c, <2>1, SettleReaches DEF PerformPlain, AtStep, Settled
  <1>4. CASE PerformApproval(w)
    <2>1. PICK status \in {"waiting", "failed"} : Settle(w, status)
      BY <1>4 DEF PerformApproval
    <2>2. ~rec[Current(w)].approved
      BY <1>4, <1>0, <1>c DEF PerformApproval, AtStep, Decided
    <2> QED
      BY <1>4, <1>c, <2>1, <2>2, SettleReaches DEF PerformApproval, AtStep
  <1>5. CASE DraftReply(w)
    <2>1. CASE rec' = [rec EXCEPT ![Current(w)].drafted = TRUE]
      BY <1>0, <2>1 DEF Reaches, Records
    <2>2. CASE Settle(w, "failed") \/ Settle(w, "completed")
      BY <1>5, <1>c, <2>2, SettleReaches DEF DraftReply, AtStep
    <2> QED
      BY <1>5, <2>1, <2>2 DEF DraftReply
  <1>6. CASE HoldReply(w)
    <2>1. CASE rec' = rec
      BY <2>1, <1>u
    <2>2. CASE Settle(w, "failed") \/ (~Approved(Current(w)) /\ Settle(w, "waiting"))
      BY <1>6, <1>c, <2>2, SettleReaches DEF HoldReply, AtStep, Approved
    <2> QED
      BY <1>6, <2>1, <2>2 DEF HoldReply
  <1>7. CASE Done(w)
    BY <1>7, <1>c, SettleReaches DEF Done, AtStep
  <1>8. CASE LimitStep(w)
    <2>1. pc[w] = "limitStep" /\ rec' = [rec EXCEPT ![Current(w)].status = "retrying"]
      BY <1>8 DEF LimitStep
    <2> QED
      BY <1>0, <1>c, <2>1 DEF AtStep, Reaches, Records, Settled
  <1>9. CASE PerformAction(w) \/ Inspect(w) \/ Reserve(w) \/ Recheck(w) \/ Send(w) \/ Note(w)
    BY <1>9, <1>u DEF PerformAction, Inspect, Reserve, Recheck, Send, Note
  <1>10. CASE LimitRun(w) \/ Final(w) \/ Unlock(w) \/ PrepRead(w) \/ PrepMark(w)
    BY <1>10, <1>u DEF LimitRun, Final, Unlock, PrepRead, PrepMark
  <1>11. CASE PrepMake(w)
    BY <1>11, <1>u
    DEF PrepMake, PrepLook, PrepItem, PrepFind, PrepEntry, PrepQueue, PrepFail
  <1> QED
    BY <1>1, <1>2, <1>3, <1>4, <1>5, <1>6, <1>7, <1>8, <1>9, <1>10, <1>11 DEF Step

\* A step that waits goes on waiting while an executor walks.
LEMMA StillWaits ==
  ASSUME \A s \in Steps : Reaches(s), SomeoneCan
  PROVE  SomeoneCan'
  BY DEF Reaches, SomeoneCan

\* The walk remembers one more step, and what it remembers as waiting waits.
LEMMA PassWaits ==
  ASSUME TypeOK, NEW w \in Executors, NEW state, Pass(w, state), Some(w, "waiting")'
  PROVE  state = "waiting" \/ Some(w, "waiting")
  <1>1. ctx[w] \in Contexts
    BY DEF TypeOK
  <1>2. ctx'[w].states = [ctx[w].states EXCEPT ![Current(w)] = state]
    BY <1>1 DEF Pass, TypeOK, Contexts
  <1>3. PICK s \in Steps : ctx'[w].states[s] = "waiting"
    BY DEF Some
  <1> QED
    BY <1>1, <1>2, <1>3 DEF Some, Contexts

LEMMA SettleWalks ==
  ASSUME TypeOK, NEW w \in Executors, NEW status, Current(w) \in Steps,
         Settle(w, status), \A s \in Steps : Reaches(s), run' = run,
         Walks(w), pc[w] \in AtStep
  PROVE  Walks(w)'
  <1>1. pc'[w] = "visit" /\ rec'[Current(w)].status = status
    BY DEF Settle, Goto, TypeOK, Records
  <1>2. Some(w, "waiting")' => SomeoneCan'
    <2>1. ASSUME Some(w, "waiting")', Some(w, "waiting") PROVE SomeoneCan'
      BY <2>1, StillWaits DEF Walks, Walking
    <2>2. ASSUME Some(w, "waiting")', status = "waiting" PROVE SomeoneCan'
      BY <1>1, <2>2 DEF SomeoneCan
    <2> QED
      BY <2>1, <2>2, PassWaits DEF Settle
  <1> QED
    BY <1>1, <1>2 DEF Walks, Walking, AtStep

LEMMA StepWalks ==
  ASSUME TypeOK, IInv, WInv, NEW w \in Executors, Step(w)
  PROVE  Walks(w)'
  <1>0. /\ pc \in [Executors -> PCs] /\ ctx \in [Executors -> Contexts]
        /\ rec \in [Steps -> Records] /\ run \in Runs
        /\ Under(w) /\ Walks(w) /\ \A s \in Steps : Reaches(s)
    BY Parts, WalkParts, StepReaches DEF TypeOK, WInv
  <1>c. pc[w] \in AtStep => Current(w) \in Steps /\ rec[Current(w)].status = "running"
    BY <1>0, CurrentType DEF Under, Walks, Walking, TypeOK
  <1>o. ASSUME pc'[w] \notin Walking PROVE Walks(w)'
    BY <1>o DEF Walks
  \* A move between the positions of one step.
  <1>m. ASSUME pc[w] \in AtStep, UNCHANGED <<graph, run, rec, ctx>> PROVE Walks(w)'
    <2>1. Some(w, "waiting")' = Some(w, "waiting") /\ Current(w)' = Current(w)
      BY <1>m DEF Some, Current
    <2> QED
      BY <1>0, <1>c, <1>m, <2>1, StillWaits DEF Walks, Walking
  <1>s. ASSUME pc[w] \in AtStep, NEW status, Settle(w, status), run' = run PROVE Walks(w)'
    BY <1>0, <1>c, <1>s, SettleWalks
  <1> USE DEF rows, execs, api, world
  <1>1. CASE Lock(w) \/ Read(w) \/ Abort(w) \/ Release(w)
    BY <1>1, <1>0, <1>o DEF Lock, Read, Abort, Release, Goto, Finish, Walking, AtStep
  <1>2. CASE Claim(w)
    <2>1. CASE pc'[w] = "visit"
      <3>1. run'.status = "running" /\ ctx'[w] = IdleCtx
        BY <1>2, <1>0, <2>1 DEF Claim, Goto, Runs
      <3>2. ~Some(w, "waiting")'
        BY <3>1 DEF Some, IdleCtx
      <3> QED
        BY <2>1, <3>1, <3>2 DEF Walks, AtStep
    <2>2. CASE pc'[w] # "visit"
      BY <1>2, <1>0, <1>o, <2>2 DEF Claim, Goto, Walking, AtStep
    <2> QED
      BY <2>1, <2>2
  <1>3. CASE Visit(w)
    <2> DEFINE outcome == Outcome(ctx[w].states, Current(w))
    <2>0. pc[w] = "visit" /\ run' = run /\ graph' = graph
      BY <1>3 DEF Visit
    <2>1. CASE outcome = "run"
      <3>1. /\ rec' = [rec EXCEPT ![Current(w)].status = "running"]
            /\ pc'[w] = "perform" /\ ctx' = ctx
        BY <1>3, <1>0, <2>1 DEF Visit, Goto
      <3>2. Current(w) \in Steps /\ Current(w)' = Current(w)
        <4>1. ctx[w].at \in 1 .. Len(graph.order)
          BY <1>3, <1>0, GraphType DEF Visit, AtEnd, Contexts, TypeOK
        <4> QED
          BY <2>0, <3>1, <4>1, CurrentType DEF TypeOK, Current
      <3>3. rec'[Current(w)].status = "running"
        BY <1>0, <3>1, <3>2 DEF Records
      <3>4. Some(w, "waiting")' = Some(w, "waiting")
        BY <3>1 DEF Some
      <3> QED
        BY <1>0, <2>0, <3>1, <3>2, <3>3, <3>4, StillWaits DEF Walks, Walking
    <2>2. CASE outcome # "run"
      <3>1. pc'[w] = "visit" /\ rec' = rec /\ Pass(w, outcome)
        BY <1>3, <2>2 DEF Visit
      <3>2. ASSUME outcome = "waiting" PROVE SomeoneCan \/ Some(w, "waiting")
        <4>1. CASE rec[Current(w)].status = "waiting"
          <5>1. ctx[w].at \in 1 .. Len(graph.order)
            BY <1>3, <1>0, GraphType DEF Visit, AtEnd, Contexts, TypeOK
          <5>2. Current(w) \in Steps
            BY <5>1, CurrentType DEF TypeOK
          <5> QED
            BY <4>1, <5>2 DEF SomeoneCan
        <4>2. CASE rec[Current(w)].status # "waiting"
          <5>1. FromParents(ctx[w].states, Current(w)) = "waiting"
            BY <3>2, <4>2 DEF Outcome, Settled
          <5>2. \E p \in graph.parents[Current(w)] : ctx[w].states[p] = "waiting"
            BY <5>1 DEF FromParents
          <5>3. ctx[w].at \in 1 .. Len(graph.order)
            BY <1>3, <1>0, GraphType DEF Visit, AtEnd, Contexts, TypeOK
          <5>4. graph.parents[Current(w)] \subseteq Steps
            BY <5>3, CurrentType, GraphType DEF TypeOK
          <5> QED
            BY <5>2, <5>4 DEF Some
        <4> QED
          BY <4>1, <4>2
      <3> HIDE DEF outcome
      <3>3. Some(w, "waiting")' => SomeoneCan \/ Some(w, "waiting")
        BY <3>1, <3>2, PassWaits
      <3> QED
        BY <1>0, <2>0, <3>1, <3>3, StillWaits DEF Walks, Walking, AtStep
    <2> QED
      BY <2>1, <2>2
  <1>4. CASE PerformPlain(w) \/ PerformApproval(w) \/ Done(w)
    BY <1>4, <1>s DEF PerformPlain, PerformApproval, Done, AtStep
  <1>5. CASE DraftReply(w)
    <2>1. CASE pc' = pc /\ ctx' = ctx /\ rec' = [rec EXCEPT ![Current(w)].drafted = TRUE]
      <3>1. graph' = graph /\ run' = run /\ pc[w] \in AtStep
        BY <1>5 DEF DraftReply, AtStep
      <3>2. Some(w, "waiting")' = Some(w, "waiting") /\ Current(w)' = Current(w)
        BY <2>1, <3>1 DEF Some, Current
      <3>3. rec'[Current(w)].status = "running"
        BY <1>0, <1>c, <2>1, <3>1 DEF Records
      <3> QED
        BY <1>0, <2>1, <3>1, <3>2, <3>3, StillWaits DEF Walks, Walking
    <2>2. CASE Settle(w, "failed") \/ Settle(w, "completed")
      BY <1>5, <1>s, <2>2 DEF DraftReply, AtStep
    <2> QED
      BY <1>5, <2>1, <2>2 DEF DraftReply
  <1>6. CASE HoldReply(w)
    <2>1. CASE rec' = rec /\ ctx' = ctx
      BY <1>6, <1>m, <2>1 DEF HoldReply, AtStep
    <2>2. CASE Settle(w, "failed") \/ Settle(w, "waiting")
      BY <1>6, <1>s, <2>2 DEF HoldReply, AtStep
    <2> QED
      BY <1>6, <2>1, <2>2 DEF HoldReply
  <1>7. CASE PerformAction(w) \/ Inspect(w) \/ Reserve(w) \/ Recheck(w) \/ Send(w) \/ Note(w)
    BY <1>7, <1>m DEF PerformAction, Inspect, Reserve, Recheck, Send, Note, AtStep
  <1>8. CASE LimitStep(w)
    <2>1. pc[w] \in AtStep /\ pc'[w] = "limitRun" /\ UNCHANGED <<graph, run, ctx>>
      BY <1>8, <1>0 DEF LimitStep, Goto, AtStep
    <2>2. Some(w, "waiting")' = Some(w, "waiting")
      BY <2>1 DEF Some
    <2> QED
      BY <1>0, <2>1, <2>2, StillWaits DEF Walks, Walking, AtStep
  <1>9. CASE LimitRun(w) \/ Final(w) \/ Unlock(w) \/ PrepRead(w) \/ PrepMark(w)
    BY <1>9, <1>0, <1>o
    DEF LimitRun, Final, Unlock, PrepRead, PrepMark, Goto, Finish, Walking, AtStep
  <1>10. CASE PrepMake(w)
    BY <1>10, <1>0, <1>o
    DEF PrepMake, PrepLook, PrepItem, PrepFind, PrepEntry, PrepQueue, PrepFail,
        NextBranch, Goto, Walking, AtStep
  <1> QED
    BY <1>1, <1>2, <1>3, <1>4, <1>5, <1>6, <1>7, <1>8, <1>9, <1>10 DEF Step

\* A run comes to wait for approval at the end of a walk only.
LEMMA StepAsks ==
  ASSUME TypeOK, IInv, WInv, NEW w \in Executors, Step(w), run'.status = "waiting_approval"
  PROVE  SomeoneCan'
  <1>0. /\ run \in Runs /\ Walks(w) /\ WaitsForSomeone /\ \A s \in Steps : Reaches(s)
    BY WalkParts, StepReaches DEF TypeOK, WInv
  <1>1. ASSUME run'.status = run.status PROVE SomeoneCan'
    BY <1>0, <1>1, StillWaits DEF WaitsForSomeone
  <1> USE DEF rows, execs, api, world
  <1>2. CASE Lock(w) \/ Read(w) \/ Release(w) \/ Unlock(w) \/ PrepRead(w)
    BY <1>2, <1>1 DEF Lock, Read, Release, Unlock, PrepRead
  <1>3. CASE Claim(w) \/ Abort(w) \/ LimitRun(w)
    <2>1. CASE run' = run
      BY <1>1, <2>1
    <2>2. CASE Claim(w) /\ run' # run
      BY <1>0, <2>2 DEF Claim, Runs
    <2>3. CASE Abort(w)
      BY <1>0, <2>3 DEF Abort, Runs
    <2>4. CASE LimitRun(w)
      BY <2>4 DEF LimitRun
    <2> QED
      BY <1>3, <2>1, <2>2, <2>3, <2>4
  <1>4. CASE Visit(w) \/ PerformPlain(w) \/ PerformApproval(w) \/ Done(w) \/ LimitStep(w)
    BY <1>4, <1>1 DEF Visit, PerformPlain, PerformApproval, Done, LimitStep
  <1>5. CASE PerformAction(w) \/ DraftReply(w) \/ HoldReply(w) \/ Inspect(w) \/ Reserve(w)
    BY <1>5, <1>1 DEF PerformAction, DraftReply, HoldReply, Inspect, Reserve
  <1>6. CASE Recheck(w) \/ Send(w) \/ Note(w)
    BY <1>6, <1>1 DEF Recheck, Send, Note
  <1>7. CASE Final(w)
    <2>1. pc[w] = "visit" /\ run'.status = FinalStatus(w)
      BY <1>7, <1>0 DEF Final, Report, Runs
    <2>2. Some(w, "waiting")
      BY <2>1 DEF FinalStatus
    <2> QED
      BY <1>0, <2>1, <2>2, StillWaits DEF Walks, Walking
  <1>8. CASE PrepMark(w)
    BY <1>8, <1>0, <1>1 DEF PrepMark, Runs
  <1>9. CASE PrepMake(w)
    <2>1. CASE run' = run
      BY <1>1, <2>1
    <2>2. CASE run' = [run EXCEPT !.status = "failed"]
      BY <1>0, <2>2 DEF Runs
    <2> QED
      BY <1>9, <2>1, <2>2
      DEF PrepMake, PrepLook, PrepItem, PrepFind, PrepEntry, PrepQueue, PrepFail
  <1> QED
    BY <1>2, <1>3, <1>4, <1>5, <1>6, <1>7, <1>8, <1>9 DEF Step

-----------------------------------------------------------------------------
(* Preparation.                                                             *)

\* A step keeps what its own preparation rests on.
LEMMA StepPrepares ==
  ASSUME TypeOK, IInv, Prepares, OneItem, NEW w \in Executors, Step(w)
  PROVE  PreparesBranch(w)'
  <1>0. /\ pc \in [Executors -> PCs] /\ ctx \in [Executors -> Contexts]
        /\ items \in [Steps -> [content : Nat, publication : Nat]] /\ run \in Runs
        /\ PreparesBranch(w)
    BY WalkParts DEF TypeOK
  <1>o. ASSUME pc'[w] \notin Preparing PROVE PreparesBranch(w)'
    BY <1>o DEF PreparesBranch, Preparing, Branching
  <1>n. ASSUME NextBranch(w)
        PROVE  /\ pc'[w] = "prepMake" /\ ctx'[w].seen = ctx[w].seen
               /\ ctx'[w].dispatch = ctx[w].dispatch
               /\ ctx'[w].wanted = ctx[w].wanted \ {ctx[w].branch}
    BY <1>n, <1>0 DEF NextBranch, Goto, Contexts
  <1> USE DEF rows, execs, api, world
  <1>1. CASE Lock(w) \/ Read(w) \/ Claim(w) \/ Abort(w) \/ Release(w) \/ Unlock(w)
    BY <1>1, <1>0, <1>o
    DEF Lock, Read, Claim, Abort, Release, Unlock, Goto, Finish, Preparing, Branching
  <1>2. CASE Visit(w) \/ PerformPlain(w) \/ PerformApproval(w) \/ Done(w)
    BY <1>2, <1>0, <1>o
    DEF Visit, PerformPlain, PerformApproval, Done, Settle, Goto, Preparing, Branching
  <1>3. CASE PerformAction(w) \/ DraftReply(w) \/ HoldReply(w) \/ Inspect(w) \/ Reserve(w)
    BY <1>3, <1>0, <1>o
    DEF PerformAction, DraftReply, HoldReply, Inspect, Reserve, Settle, Goto, Preparing, Branching
  <1>4. CASE Recheck(w) \/ Send(w) \/ Note(w) \/ LimitStep(w) \/ LimitRun(w) \/ Final(w)
    BY <1>4, <1>0, <1>o
    DEF Recheck, Send, Note, LimitStep, LimitRun, Final, Goto, Preparing, Branching
  <1>5. CASE PrepMark(w)
    BY <1>5, <1>0, <1>o DEF PrepMark, Finish, Preparing, Branching
  <1>6. CASE PrepRead(w)
    <2>1. CASE pc'[w] = "finish"
      BY <1>o, <2>1 DEF Preparing, Branching
    <2>2. CASE pc'[w] # "finish"
      <3>1. pc'[w] = "prepMake" /\ ctx'[w].wanted = run.publishes /\ run' = run
        BY <1>6, <1>0, <2>2 DEF PrepRead, Goto, Finish, Contexts
      <3> QED
        BY <3>1 DEF PreparesBranch, Branching
    <2> QED
      BY <2>1, <2>2
  <1>7. CASE PrepLook(w)
    <2>1. PICK s \in ctx[w].wanted :
            /\ ctx' = [ctx EXCEPT ![w].branch = s]
            /\ pc'[w] = IF Missing(s) THEN "prepItem" ELSE "prepFind"
      BY <1>7, <1>0 DEF PrepLook, Goto
    <2>2. s \in Steps
      BY <1>0 DEF Contexts
    <2>3. /\ ctx'[w].branch = s /\ ctx'[w].wanted = ctx[w].wanted
          /\ ctx'[w].seen = ctx[w].seen /\ ctx'[w].dispatch = ctx[w].dispatch
      BY <1>0, <2>1 DEF Contexts
    <2> QED
      BY <1>7, <1>0, <2>1, <2>2, <2>3
      DEF PrepLook, PreparesBranch, Preparing, Branching, Missing, Unchanged
  <1>8. CASE PrepItem(w)
    <2>1. /\ pc[w] = "prepItem" /\ pc'[w] = "prepFind" /\ ctx' = ctx /\ run' = run
          /\ \A s \in Steps : items'[s].publication = items[s].publication
      BY <1>8, <1>0 DEF PrepItem, Goto
    <2> QED
      BY <1>0, <2>1 DEF PreparesBranch, Preparing, Branching, Unchanged, Runs
  <1>9. CASE PrepFind(w)
    BY <1>9, <1>0 DEF PrepFind, Goto, PreparesBranch, Preparing, Branching, Unchanged
  <1>10. CASE PrepEntry(w)
    <2> DEFINE b == ctx[w].branch
    <2>1. /\ pc[w] = "prepEntry" /\ pc'[w] = "prepQueue" /\ ctx' = ctx /\ run' = run
          /\ items' = [items EXCEPT ![b].publication = @ + 1]
      BY <1>10, <1>0 DEF PrepEntry, Goto
    <2>2. b \in Steps
      BY <1>0, <2>1 DEF PreparesBranch, Branching
    <2>3. /\ items'[b].publication > 0
          /\ \A s \in Steps : items[s].publication > 0 => items'[s].publication > 0
      BY <1>0, <2>1, <2>2
    <2> QED
      BY <1>0, <2>1, <2>2, <2>3 DEF PreparesBranch, Preparing, Branching, Unchanged, Runs
  <1>11. CASE PrepQueue(w)
    BY <1>11, <1>0, <1>n
    DEF PrepQueue, PreparesBranch, Preparing, Branching, Unchanged
  <1>12. CASE PrepFail(w)
    <2>1. Unchanged(w)' /\ run'.status = "completed" => FALSE
      <3>1. CASE Unchanged(w) /\ run.status # "waiting_approval"
        BY <1>12, <1>0, <3>1 DEF PrepFail, Runs
      <3>2. CASE ~(Unchanged(w) /\ run.status # "waiting_approval")
        BY <1>12, <1>0, <1>n, <3>2 DEF PrepFail, Unchanged
      <3> QED
        BY <3>1, <3>2
    <2> QED
      BY <1>12, <1>n, <2>1 DEF PrepFail, PreparesBranch, Branching
  <1> QED
    BY <1>1, <1>2, <1>3, <1>4, <1>5, <1>6, <1>7, <1>8, <1>9, <1>10, <1>11, <1>12
    DEF Step, PrepMake

\* An item and a publication are inserted only where the preparer found none,
\* and the mark is set only when every branch has its publication.
LEMMA StepItems ==
  ASSUME TypeOK, IInv, PInv, NEW w \in Executors, Step(w)
  PROVE  OneItem' /\ PreparedMeansItems'
  <1>0. /\ pc \in [Executors -> PCs] /\ ctx \in [Executors -> Contexts]
        /\ items \in [Steps -> [content : Nat, publication : Nat]] /\ run \in Runs
        /\ PreparesBranch(w) /\ OneItem /\ PreparedMeansItems
    BY WalkParts DEF TypeOK, PInv
  <1>u. ASSUME UNCHANGED <<run, items>> PROVE OneItem' /\ PreparedMeansItems'
    BY <1>0, <1>u DEF OneItem, PreparedMeansItems
  <1>r. ASSUME items' = items, run'.status # "completed" \/ ~run'.prepared
        PROVE  OneItem' /\ PreparedMeansItems'
    BY <1>0, <1>r DEF OneItem, PreparedMeansItems
  <1> USE DEF rows, execs, api, world
  <1>1. CASE Lock(w) \/ Read(w) \/ Release(w) \/ Unlock(w) \/ PrepRead(w)
    BY <1>1, <1>u DEF Lock, Read, Release, Unlock, PrepRead
  <1>2. CASE Claim(w)
    <2>1. CASE run' = run
      BY <1>2, <1>u, <2>1 DEF Claim
    <2>2. CASE run' # run
      BY <1>2, <1>0, <1>r, <2>2 DEF Claim, Runs
    <2> QED
      BY <2>1, <2>2
  <1>3. CASE Abort(w) \/ LimitRun(w) \/ Final(w)
    <2>1. CASE Abort(w)
      BY <1>0, <1>r, <2>1 DEF Abort, Runs
    <2>2. CASE LimitRun(w)
      BY <1>r, <2>2 DEF LimitRun
    <2>3. CASE Final(w)
      BY <1>0, <1>r, <2>3 DEF Final, Report, Runs
    <2> QED
      BY <1>3, <2>1, <2>2, <2>3
  <1>4. CASE Visit(w) \/ PerformPlain(w) \/ PerformApproval(w) \/ Done(w) \/ LimitStep(w)
    BY <1>4, <1>u DEF Visit, PerformPlain, PerformApproval, Done, LimitStep
  <1>5. CASE PerformAction(w) \/ DraftReply(w) \/ HoldReply(w) \/ Inspect(w) \/ Reserve(w)
    BY <1>5, <1>u DEF PerformAction, DraftReply, HoldReply, Inspect, Reserve
  <1>6. CASE Recheck(w) \/ Send(w) \/ Note(w)
    BY <1>6, <1>u DEF Recheck, Send, Note
  <1>7. CASE PrepMark(w)
    <2>1. CASE run' = run
      BY <1>7, <1>u, <2>1 DEF PrepMark
    <2>2. CASE SameDispatch(w) /\ run' = [run EXCEPT !.prepared = TRUE]
      <3>1. run'.status = run.status /\ run'.publishes = run.publishes /\ items' = items
        BY <1>7, <1>0, <2>2 DEF PrepMark, Runs
      <3>2. run.status = "completed" => \A s \in run.publishes : items[s].publication > 0
        BY <1>7, <1>0, <2>2 DEF PrepMark, SameDispatch, PreparesBranch, Preparing, Unchanged
      <3> QED
        BY <1>0, <3>1, <3>2 DEF OneItem, PreparedMeansItems
    <2> QED
      BY <1>7, <2>1, <2>2 DEF PrepMark
  <1>8. CASE PrepLook(w) \/ PrepFind(w) \/ PrepQueue(w)
    BY <1>8, <1>u DEF PrepLook, PrepFind, PrepQueue
  <1>9. CASE PrepItem(w)
    <2>1. /\ ctx[w].branch \in Steps /\ items[ctx[w].branch].content = 0 /\ run' = run
          /\ items' = [items EXCEPT ![ctx[w].branch].content = @ + 1]
      BY <1>9, <1>0 DEF PrepItem, PreparesBranch, Branching
    <2>2. \A s \in Steps : items'[s].content <= 1 /\ items'[s].publication = items[s].publication
      BY <1>0, <2>1 DEF OneItem
    <2> QED
      BY <1>0, <2>1, <2>2 DEF OneItem, PreparedMeansItems, Runs
  <1>10. CASE PrepEntry(w)
    <2>1. /\ ctx[w].branch \in Steps /\ items[ctx[w].branch].publication = 0 /\ run' = run
          /\ items' = [items EXCEPT ![ctx[w].branch].publication = @ + 1]
      BY <1>10, <1>0 DEF PrepEntry, PreparesBranch, Branching
    <2>2. \A s \in Steps : /\ items'[s].content = items[s].content
                            /\ items'[s].publication <= 1
                            /\ items'[s].publication >= items[s].publication
      BY <1>0, <2>1 DEF OneItem
    <2> QED
      BY <1>0, <2>1, <2>2 DEF OneItem, PreparedMeansItems, Runs
  <1>11. CASE PrepFail(w)
    <2>1. CASE run' = run
      BY <1>11, <1>u, <2>1 DEF PrepFail
    <2>2. CASE run' = [run EXCEPT !.status = "failed"]
      BY <1>11, <1>0, <1>r, <2>2 DEF PrepFail, Runs
    <2> QED
      BY <1>11, <2>1, <2>2 DEF PrepFail
  <1> QED
    BY <1>1, <1>2, <1>3, <1>4, <1>5, <1>6, <1>7, <1>8, <1>9, <1>10, <1>11 DEF Step, PrepMake

-----------------------------------------------------------------------------
(* Walk and preparation under every action.                                 *)

LEMMA InitWalk == Init => WInv /\ PInv
  BY RunConstants
  DEF Init, WInv, PInv, Walked, Decided, WaitsForSomeone, Prepares, OneItem,
      PreparedMeansItems, Walking, AtStep, Preparing, Branching

LEMMA StepWInv ==
  ASSUME TypeOK, IInv, WInv, PInv, NEW w \in Executors, Step(w)
  PROVE  WInv' /\ PInv'
  <1>1. \A v \in Executors : Walks(v)' /\ PreparesBranch(v)'
    BY OthersWalk, StepWalks, StepPrepares DEF PInv
  <1>2. Walked' /\ Prepares'
    BY <1>1 DEF Walked, Walks, Prepares, PreparesBranch
  <1>3. Decided'
    <2>1. graph' = graph /\ \A s \in Steps : Reaches(s)
      BY StepElsewhere, StepReaches
    <2> QED
      BY <2>1 DEF WInv, Decided, Reaches, Settled
  <1>4. WaitsForSomeone'
    BY StepAsks DEF WaitsForSomeone
  <1> QED
    BY <1>2, <1>3, <1>4, StepItems DEF WInv, PInv

\* Whoever moves from outside to outside walks and prepares nothing.
LEMMA RowsKept ==
  ASSUME WInv, PInv, UNCHANGED <<graph, run, rec, items>>,
         \A v \in Executors :
           pc'[v] \in Outside \/ (pc'[v] = pc[v] /\ ctx'[v] = ctx[v])
  PROVE  WInv' /\ PInv'
  <1>1. \A v \in Executors : Walks(v)' /\ PreparesBranch(v)'
    BY WalkParts
    DEF WInv, PInv, Walks, PreparesBranch, Some, SomeoneCan, Current, Unchanged,
        Outside, Walking, AtStep, Preparing, Branching
  <1>2. Walked' /\ Prepares'
    BY <1>1 DEF Walked, Walks, Prepares, PreparesBranch
  <1> QED
    BY <1>2 DEF WInv, PInv, Decided, WaitsForSomeone, SomeoneCan, OneItem, PreparedMeansItems

\* The run fails, is queued again or its day comes: nothing it says is lost.
LEMMA RunRestated ==
  ASSUME TypeOK, WInv, PInv, UNCHANGED <<graph, rec, items, pc, ctx>>,
         \/ run' = [run EXCEPT !.status = "failed"]
         \/ run' = [run EXCEPT !.later = FALSE]
  PROVE  WInv' /\ PInv'
  <1>0. run \in Runs
    BY DEF TypeOK
  <1>1. /\ run'.status \in {run.status, "failed"} /\ run'.dispatch = run.dispatch
        /\ run'.publishes = run.publishes /\ run'.prepared = run.prepared
    BY <1>0 DEF Runs
  <1>2. ASSUME NEW v \in Executors PROVE Walks(v)' /\ PreparesBranch(v)'
    <2>1. Walks(v) /\ PreparesBranch(v)
      BY WalkParts DEF WInv, PInv
    <2> QED
      BY <1>1, <2>1
      DEF Walks, PreparesBranch, Some, SomeoneCan, Current, Unchanged
  <1>3. Walked' /\ Prepares'
    BY <1>2 DEF Walked, Walks, Prepares, PreparesBranch
  <1> QED
    BY <1>1, <1>3
    DEF WInv, PInv, Decided, WaitsForSomeone, SomeoneCan, OneItem, PreparedMeansItems

\* People decide while nobody walks, or reopen a reply that failed.
LEMMA PeopleWInv == ASSUME TypeOK, WInv, PInv, People PROVE WInv' /\ PInv'
  <1>0. rec \in [Steps -> Records] /\ run \in Runs /\ Decided
    BY DEF TypeOK, WInv
  <1> DEFINE Still == UNCHANGED <<graph, items, pc, ctx>> /\ run'.status = "queued"
  <1>i. ASSUME Still PROVE PInv' /\ WaitsForSomeone'
    <2>1. ASSUME NEW v \in Executors PROVE PreparesBranch(v)'
      BY <1>i, <2>1, WalkParts DEF PInv, PreparesBranch
    <2>2. Prepares'
      BY <2>1 DEF Prepares, PreparesBranch
    <2> QED
      BY <1>i, <2>2 DEF PInv, OneItem, PreparedMeansItems, WaitsForSomeone
  <1>1. ASSUME NEW s \in Steps, RetryReply(s) PROVE WInv' /\ PInv'
    <2>1. /\ Still /\ graph.kind[s] = "reply" /\ rec[s].status = "failed"
          /\ rec' = [rec EXCEPT ![s].status = "queued"]
      BY <1>0, <1>1 DEF RetryReply, execs, Runs
    <2>2. SomeoneCan => SomeoneCan'
      BY <1>0, <2>1 DEF SomeoneCan
    <2>3. ASSUME NEW v \in Executors PROVE Walks(v)'
      <3>1. Some(v, "waiting")' = Some(v, "waiting") /\ Current(v)' = Current(v)
        BY <2>1 DEF Some, Current
      <3>2. Walks(v)
        BY WalkParts DEF WInv
      <3>3. rec[Current(v)].status = "running" => rec'[Current(v)].status = "running"
        BY <1>0, <2>1
      <3> QED
        BY <2>1, <2>2, <3>1, <3>2, <3>3 DEF Walks
    <2>4. Decided'
      BY <1>0, <2>1 DEF Decided, Records
    <2> QED
      BY <1>i, <2>1, <2>3, <2>4 DEF WInv, Walked, Walks
  <1>2. ASSUME NEW s \in Steps, NEW approve \in BOOLEAN, Resolve(s, approve)
        PROVE  WInv' /\ PInv'
    <2>1. Still /\ run.status = "waiting_approval" /\ rec[s].status = "waiting"
      BY <1>0, <1>2 DEF Resolve, Resolvable, execs, Runs
    <2>2. ASSUME NEW v \in Executors PROVE Walks(v)'
      BY <2>1, WalkParts DEF WInv, Walks
    <2>3. PICK status \in {"skipped", "queued", "completed"} :
            /\ rec' = [rec EXCEPT ![s].approved = approve, ![s].status = status]
            /\ approve /\ graph.kind[s] # "reply" => status = "completed"
      BY <1>2 DEF Resolve
    <2>4. /\ rec'[s].approved = approve /\ rec'[s].status = status
          /\ \A t \in Steps \ {s} : rec'[t] = rec[t]
      BY <1>0, <2>3 DEF Records
    <2>5. Decided'
      BY <1>0, <2>1, <2>3, <2>4 DEF Decided
    <2> QED
      BY <1>i, <2>1, <2>2, <2>5 DEF WInv, Walked, Walks
  <1> QED
    BY <1>1, <1>2 DEF People

LEMMA NextWInv == ASSUME TypeOK, IInv, WInv, PInv, [Next]_vars PROVE WInv' /\ PInv'
  <1> USE DEF rows, execs, api, world
  <1>1. ASSUME NEW w \in Executors, NEW t \in Tickets, StartJob(w, t) \/ StartPrepare(w)
        PROVE  WInv' /\ PInv'
    <2>1. /\ \A v \in Executors : pc'[v] = pc[v] \/ pc'[v] \in {"lock", "prepLock"}
          /\ UNCHANGED <<graph, run, rec, items, ctx>>
      BY <1>1 DEF StartJob, StartPrepare, Goto, TypeOK
    <2> QED
      BY <2>1, RowsKept DEF Outside
  <1>2. ASSUME NEW w \in Executors, Crash(w) PROVE WInv' /\ PInv'
    <2>1. /\ pc' = [pc EXCEPT ![w] = "idle"] /\ ctx' = [ctx EXCEPT ![w] = IdleCtx]
          /\ UNCHANGED <<graph, run, rec, items>>
      BY <1>2 DEF Crash, Goto
    <2> QED
      BY <2>1, RowsKept DEF Outside, TypeOK
  <1>3. CASE \E t \in Tickets : Stalled(t) \/ StallLive(t)
    BY <1>3, RowsKept DEF Stalled, StallLive
  <1>4. CASE Redispatch \/ \E v \in Dispatches : Enqueue(v)
    BY <1>4, RowsKept DEF Redispatch, Enqueue
  <1>5. CASE CreateEnqueue
    <2>1. CASE run' = run
      BY <1>5, <2>1, RowsKept DEF CreateEnqueue
    <2>2. CASE run' = [run EXCEPT !.status = "failed"]
      BY <1>5, <2>2, RunRestated DEF CreateEnqueue
    <2> QED
      BY <1>5, <2>1, <2>2 DEF CreateEnqueue
  <1>6. CASE NextDay
    BY <1>6, RunRestated DEF NextDay
  <1>7. CASE UNCHANGED vars
    BY <1>7, RowsKept DEF vars
  <1>8. CASE Worker
    <2>1. FirstJob \in Tickets
      BY DEF Tickets
    <2> QED
      BY <1>1, <1>8, <2>1, StepWInv DEF Worker
  <1> QED
    BY <1>2, <1>3, <1>4, <1>5, <1>6, <1>7, <1>8, PeopleWInv DEF Next, Environment, Dispatch

\* A run is walked, decided on and prepared as the two invariants say.
THEOREM WalkedAndPrepared == Spec => [](WInv /\ PInv)
  <1>1. TypeOK /\ IInv /\ (WInv /\ PInv) /\ [Next]_vars => (WInv /\ PInv)'
    BY NextWInv
  <1> QED
    BY <1>1, InitWalk, TypeCorrect, Inductive, PTL DEF Spec

\* A run that waits for approval has a step that somebody can resolve.
THEOREM AsksSomeone == Spec => []WaitsForSomeone
  <1>1. WInv /\ PInv => WaitsForSomeone
    BY DEF WInv
  <1> QED
    BY <1>1, WalkedAndPrepared, PTL

\* A branch gets one content item and one publication, also when the process
\* dies between the two and the branch is prepared again.
THEOREM PreparedOnce == Spec => []OneItem
  <1>1. WInv /\ PInv => OneItem
    BY DEF PInv
  <1> QED
    BY <1>1, WalkedAndPrepared, PTL

\* The mark tells the truth: the recovery pass leaves no delivered branch of a
\* completed run without its publication.
THEOREM PreparedTruly == Spec => []PreparedMeansItems
  <1>1. WInv /\ PInv => PreparedMeansItems
    BY DEF PInv
  <1> QED
    BY <1>1, WalkedAndPrepared, PTL

\* Neither an executor nor a route takes back a decision or a delivered step.
LEMMA NextStands ==
  ASSUME TypeOK, IInv, WInv, [Next]_vars, NEW s \in Steps
  PROVE  /\ rec[s].status \in {"completed", "skipped"} => rec'[s].status = rec[s].status
         /\ rec[s].approved => rec'[s].approved
  <1>0. rec \in [Steps -> Records] /\ Decided
    BY DEF TypeOK, WInv
  <1> USE DEF rows, execs, api, world
  <1>1. ASSUME NEW w \in Executors, Step(w) PROVE Reaches(s)
    BY <1>1, StepReaches
  <1>2. CASE Worker
    BY <1>1, <1>2 DEF Worker, StartPrepare, StartJob, Reaches, Settled
  <1>3. CASE Environment \/ Dispatch \/ UNCHANGED vars
    BY <1>3
    DEF Environment, Crash, Stalled, StallLive, NextDay, Dispatch, CreateEnqueue,
        Redispatch, Enqueue, vars
  <1>4. CASE People
    <2>1. PICK t \in Steps : RetryReply(t) \/ \E approve \in BOOLEAN : Resolve(t, approve)
      BY <1>4 DEF People
    <2>2. CASE RetryReply(t)
      BY <1>0, <2>2 DEF RetryReply, Records
    <2>3. ASSUME NEW approve \in BOOLEAN, Resolve(t, approve)
          PROVE  rec[t].status = "waiting" /\ (s # t => rec'[s] = rec[s])
      BY <1>0, <2>3 DEF Resolve, Resolvable, Records
    <2> QED
      BY <1>0, <2>1, <2>2, <2>3 DEF Decided
  <1> QED
    BY <1>2, <1>3, <1>4 DEF Next

\* What a person decided and what a step delivered stands.
THEOREM Stands == Spec => DecisionsStand
  <1> DEFINE Standing ==
        \A s \in Steps :
          /\ rec[s].status \in {"completed", "skipped"} => rec'[s].status = rec[s].status
          /\ rec[s].approved => rec'[s].approved
  <1>1. TypeOK /\ IInv /\ (WInv /\ PInv) /\ [Next]_vars => [Standing]_vars
    BY NextStands
  <1> QED
    BY <1>1, TypeCorrect, Inductive, WalkedAndPrepared, PTL DEF Spec, DecisionsStand

-----------------------------------------------------------------------------
(* Each step's claim, and what it performed, implement Delivery.            *)

\* The step of Delivery, or the stutter, that a step is for one claim.
Maps(s) == [D(s)!DeliveryNext]_<<Stage(s), effects[s]>>

\* A claim and an effect that a step leaves alone.
LEMMA Stutters ==
  ASSUME NEW s, claim'[s] = claim[s], effects'[s] = effects[s]
  PROVE  Maps(s)
  BY DEF Maps, Stage

LEMMA Departs ==
  ASSUME NEW s, claim[s] \in {"none", "failed"}, claim'[s] = "sending", effects'[s] = effects[s]
  PROVE  Maps(s)
  BY DEF Maps, Stage, D!DeliveryNext, D!Depart, D!Move

LEMMA GivesBack ==
  ASSUME NEW s, claim[s] = "sending", claim'[s] \in {"none", "failed"},
         effects[s] = 0, effects'[s] = 0
  PROVE  Maps(s)
  BY DEF Maps, Stage, D!DeliveryNext, D!Refuse, D!Move

LEMMA Performs ==
  ASSUME NEW s, claim[s] = "sending", claim'[s] = "sending", effects[s] = 0, effects'[s] = 1
  PROVE  Maps(s)
  BY DEF Maps, Stage, D!DeliveryNext, D!Arrive

LEMMA Ends ==
  ASSUME NEW s, claim[s] = "sending", effects'[s] = effects[s],
         \/ claim'[s] = "succeeded" /\ effects[s] = 1
         \/ claim'[s] = "unclear"
  PROVE  Maps(s)
  BY DEF Maps, Stage, D!DeliveryNext, D!Confirmed, D!LoseTrack, D!Move

\* Only these steps of an executor touch claims and effects.
Deliver(w) == PerformAction(w) \/ Reserve(w) \/ Recheck(w) \/ Send(w) \/ Note(w)

LEMMA Untouched ==
  ASSUME [Next]_vars, \A w \in Executors : ~Deliver(w)
  PROVE  UNCHANGED <<claim, effects>>
  <1> USE DEF rows, execs, api, world
  <1>1. ASSUME NEW w \in Executors, Step(w)
        PROVE  UNCHANGED <<claim, effects>>
    <2>1. CASE Lock(w) \/ Read(w) \/ Claim(w) \/ Abort(w) \/ Visit(w) \/ PerformPlain(w)
               \/ PerformApproval(w)
      BY <2>1 DEF Lock, Read, Claim, Abort, Visit, PerformPlain, PerformApproval
    <2>2. CASE DraftReply(w) \/ HoldReply(w) \/ Inspect(w) \/ Done(w) \/ LimitStep(w)
      BY <2>2 DEF DraftReply, HoldReply, Inspect, Done, LimitStep
    <2>3. CASE LimitRun(w) \/ Final(w) \/ Unlock(w) \/ Release(w)
      BY <2>3 DEF LimitRun, Final, Unlock, Release
    <2>4. CASE PrepRead(w) \/ PrepMake(w) \/ PrepMark(w)
      BY <2>4 DEF PrepRead, PrepMake, PrepMark, PrepLook, PrepItem, PrepFind, PrepEntry, PrepQueue,
         PrepFail
    <2> QED
      BY <1>1, <2>1, <2>2, <2>3, <2>4 DEF Step, Deliver
  <1>2. CASE Worker
    BY <1>1, <1>2 DEF Worker, StartPrepare, StartJob
  <1>3. CASE Environment
    BY <1>3 DEF Environment, Crash, Stalled, StallLive, NextDay
  <1>4. CASE Dispatch
    BY <1>4 DEF Dispatch, CreateEnqueue, Redispatch, Enqueue
  <1>5. CASE People
    BY <1>5 DEF People, RetryReply, Resolve
  <1>6. CASE UNCHANGED vars
    BY <1>6 DEF vars
  <1> QED
    BY <1>2, <1>3, <1>4, <1>5, <1>6 DEF Next

\* A claim is taken that is free, given back or ended by its executor, which
\* knows whether it has performed anything.
LEMMA DeliverMaps ==
  ASSUME TypeOK, IInv, NEW w \in Executors, Deliver(w), NEW s \in Steps
  PROVE  Maps(s)
  <1>1. PICK x \in Steps : x = Current(w)
    BY CurrentType, Parts DEF Under, AtStep, TypeOK, Deliver, PerformAction, Reserve, Recheck,
       Send, Note
  <1>2. /\ claim \in [Steps -> {"none", "sending", "succeeded", "failed", "unclear"}]
        /\ effects \in [Steps -> Nat] /\ effects[x] <= 1 /\ Under(w)
    BY Parts DEF TypeOK, Effects, EffectOnce
  <1> USE DEF rows, api, world
  <1>3. CASE PerformAction(w) \/ Reserve(w)
    <2>1. /\ effects' = effects
          /\ \/ claim' = claim
             \/ claim[x] \in {"none", "failed"} /\ claim' = [claim EXCEPT ![x] = "sending"]
      BY <1>1, <1>3 DEF PerformAction, Fresh, Reserve, Reservable
    <2> QED
      BY <1>2, <2>1, Stutters, Departs
  <1>4. CASE Recheck(w)
    <2>1. /\ effects' = effects /\ claim[x] = "sending" /\ effects[x] = 0
          /\ claim' = claim \/ claim' = [claim EXCEPT ![x] = "none"]
      BY <1>1, <1>2, <1>4 DEF Recheck, Under
    <2> QED
      BY <1>2, <2>1, Stutters, GivesBack
  <1>5. CASE Send(w)
    <2>1. /\ claim' = claim /\ claim[x] = "sending" /\ effects[x] = 0
          /\ effects' = effects \/ effects' = [effects EXCEPT ![x] = @ + 1]
      BY <1>1, <1>2, <1>5 DEF Send, Under
    <2> QED
      BY <1>2, <2>1, Stutters, Performs
  <1>6. CASE Note(w)
    <2>1. /\ effects' = effects /\ claim[x] = "sending"
          /\ \/ claim' = claim
             \/ pc[w] = "noteDone" /\ claim' = [claim EXCEPT ![x] = "succeeded"]
             \/ pc[w] = "noteRefused" /\ claim' = [claim EXCEPT ![x] = "failed"]
             \/ pc[w] = "noteUnclear" /\ claim' = [claim EXCEPT ![x] = "unclear"]
          /\ pc[w] = "noteDone" => effects[x] = 1
          /\ pc[w] = "noteRefused" => effects[x] = 0
      BY <1>1, <1>2, <1>6 DEF Note, ClaimAfter, Under
    <2> QED
      BY <1>2, <2>1, Stutters, GivesBack, Ends
  <1> QED
    BY <1>3, <1>4, <1>5, <1>6 DEF Deliver

\* Every claim and what was performed under it move as Delivery allows, for
\* every set of graphs and every number of executors, days and crashes.
THEOREM Implements == Spec => ImplementsDelivery
  <1>1. Init => \A s \in Steps : D(s)!DeliveryInit
    BY DEF Init, Stage, D!DeliveryInit
  <1>2. TypeOK /\ IInv /\ [Next]_vars =>
          [\A s \in Steps : [D(s)!DeliveryNext]_<<Stage(s), effects[s]>>]_vars
    <2> SUFFICES ASSUME TypeOK, IInv, [Next]_vars, NEW s \in Steps PROVE Maps(s)
      BY DEF Maps
    <2>1. CASE \E w \in Executors : Deliver(w)
      BY <2>1, DeliverMaps
    <2>2. CASE \A w \in Executors : ~Deliver(w)
      BY <2>2, Untouched, Stutters
    <2> QED
      BY <2>1, <2>2
  <1> QED
    BY <1>1, <1>2, TypeCorrect, Inductive, PTL DEF Spec, ImplementsDelivery
=============================================================================
